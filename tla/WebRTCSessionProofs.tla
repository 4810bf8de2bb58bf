------------------------- MODULE WebRTCSessionProofs -------------------------
(***************************************************************************)
(* Proofs about WebRTCSession: types, whose candidates a camera's buffer   *)
(* holds, what becomes of the device's sessions, and which streams the     *)
(* watchdog hangs up.                                                      *)
(***************************************************************************)
EXTENDS WebRTCSession, SequenceTheorems, TLAPS

USE DEF noted

-----------------------------------------------------------------------------
\* An answering handler has a call, an offering one a live view session.
SidsOK ==
  \A h \in Streams :
    /\ handler[h].pc = "answering" => handler[h].sid \in Calls
    /\ handler[h].pc = "offering" => handler[h].sid \in Sessions \cup {NoSession}

IInv == TypeOK /\ SidsOK

-----------------------------------------------------------------------------
(* Helpers *)

LEMMA RememberIsBounded ==
  ASSUME NEW S, NEW seq \in Seq(S), Len(seq) <= Remembered, NEW s \in S
  PROVE  Remember(seq, s) \in Seq(S) /\ Len(Remember(seq, s)) <= Remembered
  <1> DEFINE longer == Append(seq, s)
  <1>1. longer \in Seq(S) /\ Len(longer) = Len(seq) + 1 /\ longer # <<>>
    OBVIOUS
  <1>2. Tail(longer) \in Seq(S) /\ Len(Tail(longer)) = Len(longer) - 1
    BY <1>1
  <1> QED
    BY <1>1, <1>2, RememberedIsPositive DEF Remember

LEMMA Domains ==
  ASSUME TypeOK, NEW h \in Streams
  PROVE  /\ handler[h].cam \in Cameras
         /\ handler[h].sid \in Sids
         /\ handler[h].pc \in Phases
  BY DEF TypeOK, Handler

\* What the terminate of a session does to the types.
LEMMA TerminateIsTyped ==
  ASSUME TypeOK, NEW c \in Cameras, NEW s \in Sessions \cup Calls,
         NEW reason \in Reasons, StartTerminate(c, s, reason)
  PROVE  /\ endedSessions' \in [Cameras -> Seq(Sessions \cup Calls)]
         /\ \A d \in Cameras : Len(endedSessions'[d]) <= Remembered
         /\ terminating' \subseteq Terminating
  <1>1. endedSessions[c] \in Seq(Sessions \cup Calls)
        /\ Len(endedSessions[c]) <= Remembered
    BY DEF TypeOK
  <1>2. endedSessions' = [endedSessions EXCEPT ![c] = Remember(endedSessions[c], s)]
    BY DEF StartTerminate
  <1>3. Remember(endedSessions[c], s) \in Seq(Sessions \cup Calls)
        /\ Len(Remember(endedSessions[c], s)) <= Remembered
    BY <1>1, RememberIsBounded
  <1>4. [sid |-> s, cam |-> c, by |-> reason] \in Terminating
    BY DEF Terminating
  <1>5. terminating' \subseteq Terminating
    BY <1>4, Zenon DEF StartTerminate, TypeOK
  <1> QED
    BY <1>2, <1>3, <1>5 DEF TypeOK

LEMMA CancelIsTyped ==
  ASSUME TypeOK, NEW c \in Cameras, NEW reached \in SUBSET Sids,
         CancelAnswerWatchdog(c, reached)
  PROVE  peers' \subseteq Sessions \cup Calls /\ lost' \subseteq Sessions \cup Calls
  <1>1. {r.sid : r \in WatchdogTerminates(c)} \subseteq Sessions \cup Calls
    BY DEF WatchdogTerminates, TypeOK, Terminating
  <1> QED
    BY <1>1 DEF CancelAnswerWatchdog, TypeOK

LEMMA GotoIsTyped ==
  ASSUME TypeOK, SidsOK, NEW h \in Streams, NEW pc \in Phases, NEW s \in Sids,
         pc = "answering" => s \in Calls,
         pc = "offering" => s \in Sessions \cup {NoSession},
         Goto(h, pc, s)
  PROVE  handler' \in [Streams -> Handler] /\ SidsOK'
  <1>1. [pc |-> pc, cam |-> handler[h].cam, sid |-> s] \in Handler
    BY Domains DEF Handler
  <1>2. handler' = [handler EXCEPT ![h] = [pc |-> pc, cam |-> handler[h].cam, sid |-> s]]
    BY DEF Goto
  <1> QED
    BY <1>1, <1>2 DEF TypeOK, SidsOK

LEMMA FlushIsTyped ==
  ASSUME TypeOK, NEW c \in Cameras, NEW by \in Streams \cup Sessions,
         StartFlush(c, by)
  PROVE  flushing' \subseteq Flush
  <1>1. [cam |-> c, by |-> by, at |-> 1] \in Flush
    BY DEF Flush
  <1> QED
    BY <1>1, Zenon DEF StartFlush, TypeOK

LEMMA ClearedIsTyped ==
  ASSUME TypeOK, NEW c \in Cameras
  PROVE  Cleared(c) \in [Cameras -> Seq(Streams)]
  BY DEF TypeOK, Cleared

-----------------------------------------------------------------------------
(* Types *)

LEMMA InitTyped == Init => IInv
  <1> SUFFICES ASSUME Init PROVE IInv
    OBVIOUS
  <1>1. handler \in [Streams -> Handler] /\ SidsOK
    BY DEF Init, Handler, Phases, Sids, SidsOK
  <1>2. /\ pending \in [Cameras -> Seq(Streams)]
        /\ endedSessions \in [Cameras -> Seq(Sessions \cup Calls)]
        /\ \A c \in Cameras : Len(endedSessions[c]) <= Remembered
    BY RememberedIsPositive DEF Init
  <1>3. made \in 0..MaxCandidates
    BY CandidatesAreBounded DEF Init
  <1> QED
    BY <1>1, <1>2, <1>3 DEF Init, IInv, TypeOK, Sids

\* The offer handler, from await to await.
LEMMA HandlerTyped ==
  ASSUME IInv, NEW h \in Streams, Offer(h) \/ Handle(h) \/ OfferFails(h)
  PROVE  IInv'
  <1> DEFINE c == handler[h].cam
             s == handler[h].sid
  <1> TypeOK /\ SidsOK
    BY DEF IInv
  <1>0. c \in Cameras /\ s \in Sids
    BY Domains
  <1> {"new", "connecting", "answering", "releasing", "offering", "done"} \subseteq Phases
      /\ NoSession \in Sids /\ Calls \subseteq Sids /\ Sessions \subseteq Sids
    BY DEF Phases, Sids
  <1>1. CASE Offer(h)
    <2>1. pendingTerminate[c] \in Sids
      BY <1>0 DEF TypeOK
    <2>2. handler' \in [Streams -> Handler] /\ SidsOK'
      BY <1>1, <2>1, GotoIsTyped DEF Offer
    <2>3. pending' \in [Cameras -> Seq(Streams)]
      BY <1>0, <1>1, ClearedIsTyped DEF Offer
    <2> QED
      BY <1>0, <1>1, <2>2, <2>3 DEF Offer, IInv, TypeOK, deviceVars, channelVars
  <1>2. CASE Superseded(h)
    <2>1. handler' \in [Streams -> Handler] /\ SidsOK'
      BY <1>2, GotoIsTyped DEF Superseded
    <2> QED
      BY <1>2, <2>1 DEF Superseded, IInv, TypeOK, iceVars, cameraVars, deviceVars,
                        channelVars
  <1>3. CASE AnswerCall(h)
    <2>1. activeCall.sid \in Calls
      BY <1>3 DEF AnswerCall, CallToAnswer, TypeOK
    <2>2. handler' \in [Streams -> Handler] /\ SidsOK'
      BY <1>3, <2>1, GotoIsTyped DEF AnswerCall
    <2> QED
      BY <1>3, <2>2 DEF AnswerCall, IInv, TypeOK, iceVars, cameraVars, deviceVars,
                        channelVars
  <1>4. CASE SendOffer(h)
    <2>1. handler' \in [Streams -> Handler] /\ SidsOK'
      BY <1>4, GotoIsTyped DEF SendOffer
    <2> QED
      BY <1>4, <2>1 DEF SendOffer, IInv, TypeOK, iceVars, cameraVars, deviceVars,
                        channelVars
  <1>5. CASE ReleaseStaleSession(h)
    <2>1. sigSession[c] \in Sessions \cup Calls
      BY <1>0, <1>5 DEF ReleaseStaleSession, TypeOK, Sids
    <2>2. handler' \in [Streams -> Handler] /\ SidsOK'
      BY <1>5, <2>1, GotoIsTyped DEF ReleaseStaleSession
    <2>3. /\ endedSessions' \in [Cameras -> Seq(Sessions \cup Calls)]
          /\ \A d \in Cameras : Len(endedSessions'[d]) <= Remembered
          /\ terminating' \subseteq Terminating
      BY <1>0, <1>5, <2>1, TerminateIsTyped DEF ReleaseStaleSession, Reasons
    <2> QED
      BY <1>0, <1>5, <2>2, <2>3
         DEF ReleaseStaleSession, IInv, TypeOK, iceVars, deviceVars, channelVars
  <1>6. CASE StaleSessionReleased(h)
    <2>1. handler' \in [Streams -> Handler] /\ SidsOK'
      BY <1>6, GotoIsTyped DEF StaleSessionReleased
    <2> QED
      BY <1>6, <2>1 DEF StaleSessionReleased, IInv, TypeOK, iceVars, cameraVars,
                        deviceVars, channelVars
  <1>7. CASE AckTooLate(h)
    <2>1. s \in Sessions \cup Calls
      BY <1>0, <1>7 DEF AckTooLate, Sids
    <2>2. handler' \in [Streams -> Handler] /\ SidsOK'
      BY <1>7, GotoIsTyped DEF AckTooLate
    <2>3. /\ endedSessions' \in [Cameras -> Seq(Sessions \cup Calls)]
          /\ \A d \in Cameras : Len(endedSessions'[d]) <= Remembered
          /\ terminating' \subseteq Terminating
      BY <1>0, <1>7, <2>1, TerminateIsTyped DEF AckTooLate, Reasons
    <2> QED
      BY <1>7, <2>2, <2>3
         DEF AckTooLate, IInv, TypeOK, iceVars, deviceVars, channelVars
  <1>8. CASE Acked(h)
    <2>1. s \in Sessions
      BY <1>8 DEF Acked, SidsOK
    <2>2. handler' \in [Streams -> Handler] /\ SidsOK'
      BY <1>8, GotoIsTyped DEF Acked
    <2>3. peers' \subseteq Sessions \cup Calls /\ lost' \subseteq Sessions \cup Calls
      BY <1>0, <1>8, CancelIsTyped DEF Acked
    <2>4. /\ sigSession' \in [Cameras -> Sids]
          /\ answerWatchdog' \in [Cameras -> Sessions \cup {NoSession}]
          /\ terminating' \subseteq Terminating
      BY <1>0, <1>8, <2>1 DEF Acked, TypeOK
    <2> QED
      BY <1>8, <2>2, <2>3, <2>4 DEF Acked, IInv, TypeOK, iceVars, channelVars
  <1>9. CASE CallAnswered(h)
    <2>1. s \in Calls
      BY <1>9 DEF CallAnswered, SidsOK
    <2>2. handler' \in [Streams -> Handler] /\ SidsOK'
      BY <1>9, GotoIsTyped DEF CallAnswered
    <2>3. flushing' \subseteq Flush
      BY <1>0, <1>9, FlushIsTyped DEF CallAnswered
    <2>4. /\ sigSession' \in [Cameras -> Sids]
          /\ answeredCall' \in [Cameras -> Calls \cup {NoSession}]
          /\ sessionReady' \in [Cameras -> BOOLEAN]
          /\ peers' \subseteq Sessions \cup Calls
      BY <1>0, <1>9, <2>1 DEF CallAnswered, TypeOK
    <2> QED
      BY <1>9, <2>2, <2>3, <2>4 DEF CallAnswered, IInv, TypeOK, channelVars
  <1>10. CASE OfferFails(h)
    <2>1. handler' \in [Streams -> Handler] /\ SidsOK'
      BY <1>10, GotoIsTyped DEF OfferFails
    <2>2. peers' \subseteq Sessions \cup Calls
      BY <1>10 DEF OfferFails, TypeOK
    <2>3. terminating' \subseteq Terminating
      BY <1>10 DEF OfferFails, TypeOK
    <2>4. lost' \subseteq Sessions \cup Calls
      <3>1. {r.sid : r \in terminating} \subseteq Sessions \cup Calls
        BY DEF TypeOK, Terminating
      <3> QED
        BY <1>10, <3>1 DEF OfferFails, TypeOK
    <2> QED
      BY <1>10, <2>1, <2>2, <2>3, <2>4
         DEF OfferFails, IInv, TypeOK, iceVars, cameraVars, channelVars
  <1> QED
    BY <1>1, <1>2, <1>3, <1>4, <1>5, <1>6, <1>7, <1>8, <1>9, <1>10 DEF Handle

LEMMA CallbackTyped ==
  ASSUME IInv, NEW s \in Sessions \cup Calls, OnAnswer(s) \/ OnEvent(s)
  PROVE  IInv'
  <1> DEFINE c == handler[callbacks].cam
  <1> TypeOK /\ SidsOK
    BY DEF IInv
  <1>1. callbacks # NoStream => c \in Cameras
    BY Domains DEF TypeOK
  <1>2. CASE OnAnswer(s)
    <2>1. c \in Cameras /\ s \in Sessions /\ s \in Sids
      BY <1>1, <1>2 DEF OnAnswer, TypeOK, Sids
    <2>2. CASE IsForeignSession(c, s)
      BY <1>2, <2>2 DEF OnAnswer, IInv, TypeOK, SidsOK, cameraVars
    <2>3. CASE ~IsForeignSession(c, s)
      <3>1. peers' \subseteq Sessions \cup Calls /\ lost' \subseteq Sessions \cup Calls
        BY <1>2, <2>1, <2>3, CancelIsTyped DEF OnAnswer
      <3>2. flushing' \subseteq Flush
        BY <1>2, <2>1, <2>3, FlushIsTyped DEF OnAnswer
      <3>3. /\ terminating' \subseteq Terminating
            /\ answerWatchdog' \in [Cameras -> Sessions \cup {NoSession}]
            /\ sigSession' \in [Cameras -> Sids]
            /\ sessionReady' \in [Cameras -> BOOLEAN]
        BY <1>2, <2>1, <2>3 DEF OnAnswer, TypeOK
      <3> QED
        BY <1>2, <2>3, <3>1, <3>2, <3>3 DEF OnAnswer, IInv, TypeOK, SidsOK
    <2> QED
      BY <2>2, <2>3
  <1>3. CASE OnEvent(s)
    <2>1. CASE callbacks = NoStream \/ IsForeignSession(c, s)
      BY <1>3, <2>1 DEF OnEvent, IInv, TypeOK, SidsOK, iceVars
    <2>2. CASE ~(callbacks = NoStream \/ IsForeignSession(c, s))
      <3>1. peers' \subseteq Sessions \cup Calls /\ lost' \subseteq Sessions \cup Calls
        BY <1>1, <1>3, <2>2, CancelIsTyped DEF OnEvent
      <3>2. /\ terminating' \subseteq Terminating
            /\ answerWatchdog' \in [Cameras -> Sessions \cup {NoSession}]
        BY <1>3, <2>2 DEF OnEvent, TypeOK
      <3> QED
        BY <1>3, <2>2, <3>1, <3>2 DEF OnEvent, IInv, TypeOK, SidsOK, iceVars
    <2> QED
      BY <2>1, <2>2
  <1> QED
    BY <1>2, <1>3

LEMMA WatchdogTyped ==
  ASSUME IInv, NEW c \in Cameras, WatchdogFires(c)
  PROVE  IInv'
  <1> TypeOK /\ SidsOK
    BY DEF IInv
  <1>1. CASE AnswerWatchdogReturns(c)
    BY <1>1 DEF AnswerWatchdogReturns, IInv, TypeOK, SidsOK, iceVars, deviceVars,
                channelVars
  <1>2. CASE NoAnswer(c)
    <2>1. answerWatchdog[c] \in Sessions
      BY <1>2 DEF NoAnswer, TypeOK
    <2>2. /\ endedSessions' \in [Cameras -> Seq(Sessions \cup Calls)]
          /\ \A d \in Cameras : Len(endedSessions'[d]) <= Remembered
          /\ terminating' \subseteq Terminating
      BY <1>2, <2>1, TerminateIsTyped DEF NoAnswer, Reasons
    <2>3. /\ sigSession' \in [Cameras -> Sids]
          /\ answerWatchdog' \in [Cameras -> Sessions \cup {NoSession}]
      BY <1>2 DEF NoAnswer, TypeOK, Sids
    <2> QED
      BY <1>2, <2>2, <2>3 DEF NoAnswer, IInv, TypeOK, SidsOK, iceVars, deviceVars,
                              channelVars
  <1> QED
    BY <1>1, <1>2 DEF WatchdogFires

LEMMA CloseTyped ==
  ASSUME IInv, NEW h \in Streams, Close(h)
  PROVE  IInv'
  <1> DEFINE c == handler[h].cam
             s == sigSession[c]
  <1> TypeOK /\ SidsOK
    BY DEF IInv
  <1>1. c \in Cameras
    BY Domains
  <1>2. peers' \subseteq Sessions \cup Calls /\ lost' \subseteq Sessions \cup Calls
    BY <1>1, CancelIsTyped DEF Close
  <1>3. pending' \in [Cameras -> Seq(Streams)]
    BY <1>1, ClearedIsTyped DEF Close
  <1>4. /\ haSession' \in [Cameras -> Streams \cup {NoStream}]
        /\ answerWatchdog' \in [Cameras -> Sessions \cup {NoSession}]
        /\ sessionReady' \in [Cameras -> BOOLEAN]
        /\ sigSession' \in [Cameras -> Sids]
    BY <1>1 DEF Close, TypeOK, Sids
  <1>5. /\ endedSessions' \in [Cameras -> Seq(Sessions \cup Calls)]
        /\ \A d \in Cameras : Len(endedSessions'[d]) <= Remembered
        /\ pendingTerminate' \in [Cameras -> Sids]
        /\ terminating' \subseteq Terminating
    <2>1. CASE s = NoSession
      BY <2>1 DEF Close, TypeOK
    <2>2. CASE s # NoSession
      <3>1. s \in Sessions \cup Calls /\ s \in Sids
        BY <1>1, <2>2 DEF TypeOK, Sids
      <3>2. [sid |-> s, cam |-> c, by |-> "close"] \in Terminating
        BY <1>1, <3>1 DEF Terminating, Reasons
      <3>3. endedSessions[c] \in Seq(Sessions \cup Calls)
            /\ Len(endedSessions[c]) <= Remembered
        BY <1>1 DEF TypeOK
      <3>4. Remember(endedSessions[c], s) \in Seq(Sessions \cup Calls)
            /\ Len(Remember(endedSessions[c], s)) <= Remembered
        BY <3>1, <3>3, RememberIsBounded
      <3>5. endedSessions' = [endedSessions EXCEPT ![c] = Remember(endedSessions[c], s)]
            /\ pendingTerminate' = [pendingTerminate EXCEPT ![c] = s]
        BY <2>2 DEF Close
      <3>6. terminating' = (terminating \ WatchdogTerminates(c))
                             \cup {[sid |-> s, cam |-> c, by |-> "close"]}
        BY <2>2 DEF Close
      <3>7. terminating' \subseteq Terminating
        BY <3>2, <3>6, Zenon DEF TypeOK
      <3> QED
        BY <3>1, <3>4, <3>5, <3>7 DEF TypeOK
    <2> QED
      BY <2>1, <2>2
  <1> QED
    BY <1>2, <1>3, <1>4, <1>5 DEF Close, IInv, TypeOK, SidsOK, channelVars

LEMMA CandidateTyped ==
  ASSUME IInv, NEW h \in Streams, OnCandidate(h)
  PROVE  IInv'
  <1> TypeOK /\ SidsOK
    BY DEF IInv
  <1>1. handler[h].cam \in Cameras
    BY Domains
  <1>2. Append(pending[handler[h].cam], h) \in Seq(Streams)
    BY <1>1 DEF TypeOK
  <1>3. pending' \in [Cameras -> Seq(Streams)]
    BY <1>1, <1>2 DEF OnCandidate, TypeOK
  <1>4. made' \in 0..MaxCandidates
    BY CandidatesAreBounded DEF OnCandidate, TypeOK
  <1> QED
    BY <1>3, <1>4 DEF OnCandidate, IInv, TypeOK, SidsOK, cameraVars, deviceVars,
                      channelVars

LEMMA FlushTyped ==
  ASSUME IInv, NEW f \in flushing, FlushProceeds(f) \/ FlushFails(f)
  PROVE  IInv'
  <1> TypeOK /\ SidsOK
    BY DEF IInv
  <1>1. f \in Flush /\ f.cam \in Cameras
    BY DEF TypeOK, Flush
  <1>2. [f EXCEPT !.at = @ + 1] \in Flush
    BY <1>1 DEF Flush
  <1>3. flushing' \subseteq Flush
    BY <1>2 DEF FlushProceeds, FlushFails, TypeOK
  <1>4. pending' \in [Cameras -> Seq(Streams)]
    BY <1>1, ClearedIsTyped DEF FlushProceeds, FlushFails, TypeOK
  <1> QED
    BY <1>3, <1>4 DEF FlushProceeds, FlushFails, IInv, TypeOK, SidsOK, cameraVars,
                      deviceVars, channelVars

LEMMA TerminateEndTyped ==
  ASSUME IInv, NEW r \in terminating, TerminateSent(r) \/ TerminateFails(r)
  PROVE  IInv'
  <1>1. r.sid \in Sessions \cup Calls
    BY DEF IInv, TypeOK, Terminating
  <1> QED
    BY <1>1 DEF TerminateSent, TerminateFails, IInv, TypeOK, SidsOK, iceVars,
                cameraVars, deviceVars, channelVars

LEMMA DeviceTyped == IInv /\ Device => IInv'
  <1> SUFFICES ASSUME IInv, Device PROVE IInv'
    OBVIOUS
  <1> TypeOK /\ SidsOK
    BY DEF IInv
  <1>1. ASSUME NEW h \in Streams, NEW s \in Sessions,
               DeviceOpens(h, s) \/ DeviceRejects(h, s)
        PROVE  IInv'
    <2>1. handler' \in [Streams -> Handler] /\ SidsOK'
      BY <1>1, GotoIsTyped DEF DeviceOpens, DeviceRejects, Phases, Sids
    <2>2. /\ opener' \in [Sessions -> Streams \cup {NoStream}]
          /\ peers' \subseteq Sessions \cup Calls
          /\ events' \subseteq Sessions \cup Calls
      BY <1>1 DEF DeviceOpens, DeviceRejects, TypeOK
    <2> QED
      BY <1>1, <2>1, <2>2 DEF DeviceOpens, DeviceRejects, IInv, TypeOK, iceVars,
                              cameraVars
  <1>2. ASSUME NEW s \in Sessions, DeviceAnswers(s) PROVE IInv'
    BY <1>2 DEF DeviceAnswers, IInv, TypeOK, SidsOK, iceVars, cameraVars
  <1>3. ASSUME NEW s \in Sessions \cup Calls, DeviceDrops(s) PROVE IInv'
    BY <1>3 DEF DeviceDrops, IInv, TypeOK, SidsOK, iceVars, cameraVars
  <1>4. ASSUME NEW call \in Calls, NEW c \in Cameras, CallArrives(call, c)
        PROVE  IInv'
    BY <1>4 DEF CallArrives, IInv, TypeOK, SidsOK, iceVars, cameraVars
  <1>5. CASE CallForgotten
    BY <1>5 DEF CallForgotten, IInv, TypeOK, SidsOK, iceVars, cameraVars,
                deviceVars, channelVars
  <1> QED
    BY <1>1, <1>2, <1>3, <1>4, <1>5 DEF Device

LEMMA Inductive == IInv /\ [Next]_vars => IInv'
  <1> SUFFICES ASSUME IInv, [Next]_vars PROVE IInv'
    OBVIOUS
  <1>1. CASE UNCHANGED vars
    BY <1>1 DEF vars, iceVars, cameraVars, deviceVars, channelVars, IInv, TypeOK,
                SidsOK
  <1> QED
    BY <1>1, HandlerTyped, CallbackTyped, WatchdogTyped, CloseTyped, CandidateTyped,
       FlushTyped, TerminateEndTyped, DeviceTyped
       DEF Next, Browser, FlushGoesOn, TerminateEnds, Deliver

\* Every variable of WebRTCSession keeps its type; in particular no camera
\* remembers more than Remembered ended sessions.
THEOREM TypeCorrectness == Spec => []TypeOK
  <1>1. IInv => TypeOK
    BY DEF IInv
  <1> QED
    BY <1>1, InitTyped, Inductive, PTL DEF Spec

-----------------------------------------------------------------------------
(* Candidates *)

LEMMA CandidatesStep ==
  TypeOK /\ CandidatesAreOfTheStream /\ [Next]_vars => CandidatesAreOfTheStream'
  <1> SUFFICES ASSUME TypeOK, CandidatesAreOfTheStream, [Next]_vars
               PROVE  CandidatesAreOfTheStream'
    OBVIOUS
  <1>1. CASE UNCHANGED <<pending, haSession>>
    BY <1>1 DEF CandidatesAreOfTheStream
  <1>2. ASSUME NEW h \in Streams, Offer(h) PROVE CandidatesAreOfTheStream'
    BY <1>2, Domains DEF Offer, Cleared, CandidatesAreOfTheStream, TypeOK
  <1>3. ASSUME NEW h \in Streams, Close(h) PROVE CandidatesAreOfTheStream'
    BY <1>3, Domains DEF Close, Cleared, CandidatesAreOfTheStream, TypeOK
  <1>4. ASSUME NEW h \in Streams, OnCandidate(h) PROVE CandidatesAreOfTheStream'
    <2> DEFINE c == handler[h].cam
    <2>1. c \in Cameras /\ pending[c] \in Seq(Streams)
      BY Domains DEF TypeOK
    <2>2. UNCHANGED haSession
      BY <1>4 DEF OnCandidate, cameraVars
    <2>3. CASE UNCHANGED pending
      BY <1>1, <2>2, <2>3
    <2>4. CASE haSession[c] = h /\ pending' = [pending EXCEPT ![c] = Append(pending[c], h)]
      <3>1. pending'[c] = Append(pending[c], h)
        BY <2>1, <2>4 DEF TypeOK
      <3>2. \A d \in Cameras \ {c} : pending'[d] = pending[d]
        BY <2>4 DEF TypeOK
      <3>3. ASSUME NEW i \in DOMAIN Append(pending[c], h)
            PROVE  Append(pending[c], h)[i] = h
        <4>1. \A j \in 1..Len(pending[c]) : pending[c][j] = h
          BY <2>1, <2>4 DEF CandidatesAreOfTheStream
        <4> QED
          BY <2>1, <4>1
      <3> QED
        BY <2>1, <2>2, <2>4, <3>1, <3>2, <3>3 DEF CandidatesAreOfTheStream
    <2> QED
      BY <1>4, <2>3, <2>4 DEF OnCandidate
  <1>5. ASSUME NEW f \in flushing, FlushProceeds(f) PROVE CandidatesAreOfTheStream'
    <2>1. f.cam \in Cameras
      BY DEF TypeOK, Flush
    <2>2. UNCHANGED haSession
      BY <1>5 DEF FlushProceeds, cameraVars
    <2>3. pending' \in {pending, Cleared(f.cam)}
      BY <1>5 DEF FlushProceeds
    <2>4. CASE pending' = Cleared(f.cam)
      <3>1. \A d \in Cameras : pending'[d] = IF d = f.cam THEN <<>> ELSE pending[d]
        BY <2>4 DEF Cleared, TypeOK
      <3> QED
        BY <2>2, <3>1 DEF CandidatesAreOfTheStream
    <2> QED
      BY <1>1, <2>2, <2>3, <2>4
  <1>6. ASSUME NEW h \in Streams, Handle(h) \/ OfferFails(h)
        PROVE  UNCHANGED <<pending, haSession>>
    BY <1>6 DEF Handle, OfferFails, Superseded, AnswerCall, SendOffer,
                ReleaseStaleSession, StaleSessionReleased, AckTooLate, Acked,
                CallAnswered, iceVars, cameraVars
  <1>7. ASSUME NEW c \in Cameras, WatchdogFires(c)
        PROVE  UNCHANGED <<pending, haSession>>
    BY <1>7 DEF WatchdogFires, AnswerWatchdogReturns, NoAnswer, iceVars
  <1>8. ASSUME NEW s \in Sessions \cup Calls, OnAnswer(s) \/ OnEvent(s)
        PROVE  UNCHANGED <<pending, haSession>>
    BY <1>8 DEF OnAnswer, OnEvent, iceVars, cameraVars
  <1>9. ASSUME NEW f \in flushing, FlushFails(f)
        PROVE  UNCHANGED <<pending, haSession>>
    BY <1>9 DEF FlushFails, cameraVars
  <1>10. TerminateEnds \/ Device \/ UNCHANGED vars => UNCHANGED <<pending, haSession>>
    BY DEF TerminateEnds, TerminateSent, TerminateFails, Device, DeviceOpens,
           DeviceRejects, DeviceAnswers, DeviceDrops, CallArrives, CallForgotten,
           iceVars, cameraVars, vars
  <1> QED
    BY <1>1, <1>2, <1>3, <1>4, <1>5, <1>6, <1>7, <1>8, <1>9, <1>10
       DEF Next, Browser, Deliver, FlushGoesOn

\* For any cameras, streams, calls and number of candidates, a camera's buffer
\* only holds candidates of the stream it serves, though flushes of earlier
\* streams are still suspended (_flush_pending_candidates).
THEOREM CandidatesFollowTheStream == Spec => []CandidatesAreOfTheStream
  <1>1. Init => CandidatesAreOfTheStream
    BY DEF Init, CandidatesAreOfTheStream
  <1> QED
    BY <1>1, CandidatesStep, TypeCorrectness, PTL DEF Spec

-----------------------------------------------------------------------------
(* The device's sessions: an ended one is never served again, and none is *)
(* forgotten as long as no call comes in. *)

\* Wherever a session of a live view is named, its offer was acked to one
\* stream, and a watchdog waits for it only when that stream's handler is done.
SessionsAreOpened ==
  /\ \A h \in Streams :
       handler[h].pc = "offering" /\ handler[h].sid \in Sessions
         => opener[handler[h].sid] = h
  /\ \A c \in Cameras : answerWatchdog[c] # NoSession =>
       /\ opener[answerWatchdog[c]] \in Streams
       /\ handler[opener[answerWatchdog[c]]].pc = "done"
  /\ \A s \in Sessions :
       \/ s \in peers \cup answered
       \/ \E c \in Cameras : sigSession[c] = s \/ Ended(c, s)
       => opener[s] \in Streams

\* No camera has ended the session its stream is about to get.
OfferedIsNotEnded ==
  \A h \in Streams :
    /\ handler[h].pc = "offering"
    /\ handler[h].sid \in Sessions
    /\ haSession[handler[h].cam] = h
    => ~Ended(handler[h].cam, handler[h].sid)

OpenInv == TypeOK /\ SessionsAreOpened /\ OfferedIsNotEnded

-----------------------------------------------------------------------------
(* What a step does to the sessions a camera has ended *)

LEMMA RememberedElements ==
  ASSUME NEW S, NEW seq \in Seq(S), NEW s \in S,
         NEW i \in DOMAIN Remember(seq, s)
  PROVE  Remember(seq, s)[i] = s \/ \E j \in DOMAIN seq : Remember(seq, s)[i] = seq[j]
  <1> DEFINE longer == Append(seq, s)
  <1>1. longer \in Seq(S) /\ Len(longer) = Len(seq) + 1 /\ longer # <<>>
    OBVIOUS
  <1>2. \A k \in 1..Len(longer) : longer[k] = s \/ \E j \in DOMAIN seq : longer[k] = seq[j]
    OBVIOUS
  <1>3. CASE Remember(seq, s) = longer
    BY <1>1, <1>2, <1>3
  <1>4. CASE Remember(seq, s) = Tail(longer)
    <2>1. i \in 1..(Len(longer) - 1) /\ Tail(longer)[i] = longer[i + 1]
      BY <1>1, <1>4
    <2> QED
      BY <1>1, <1>2, <1>4, <2>1
  <1> QED
    BY <1>3, <1>4 DEF Remember

\* Ending a session adds no other to those its camera has ended.
LEMMA EndedAdds ==
  ASSUME TypeOK, NEW c \in Cameras, NEW s \in Sessions \cup Calls,
         endedSessions' = [endedSessions EXCEPT ![c] = Remember(@, s)],
         NEW d \in Cameras, NEW t, Ended(d, t)'
  PROVE  Ended(d, t) \/ (d = c /\ t = s)
  <1>1. endedSessions[c] \in Seq(Sessions \cup Calls)
    BY DEF TypeOK
  <1>2. CASE d # c
    BY <1>2 DEF Ended, TypeOK
  <1>3. CASE d = c
    <2>1. endedSessions'[d] = Remember(endedSessions[c], s)
      BY <1>3 DEF TypeOK
    <2>2. PICK i \in DOMAIN Remember(endedSessions[c], s) :
            Remember(endedSessions[c], s)[i] = t
      BY <2>1 DEF Ended
    <2> QED
      BY <1>1, <1>3, <2>2, RememberedElements DEF Ended
  <1> QED
    BY <1>2, <1>3

LEMMA TerminateAdds ==
  ASSUME TypeOK, NEW c \in Cameras, NEW s \in Sessions \cup Calls, NEW reason,
         StartTerminate(c, s, reason)
  PROVE  \A d \in Cameras, t \in Sessions : Ended(d, t)' => Ended(d, t) \/ (d = c /\ t = s)
  BY EndedAdds DEF StartTerminate

LEMMA EndedKept ==
  ASSUME UNCHANGED endedSessions
  PROVE  \A d, t : Ended(d, t)' <=> Ended(d, t)
  BY DEF Ended

-----------------------------------------------------------------------------
(* Ended sessions *)

\* A step that opens no session, if the ones it ends are nobody's offer.
LEMMA OpenKept ==
  ASSUME SessionsAreOpened, OfferedIsNotEnded,
         \A h \in Streams : handler'[h].cam = handler[h].cam,
         \A h \in Streams :
           handler'[h].pc = "offering" /\ handler'[h].sid \in Sessions
             => handler'[h] = handler[h],
         \A h \in Streams : handler[h].pc = "done" => handler'[h].pc = "done",
         opener' = opener,
         answered' \subseteq answered \cup peers,
         peers' \cap Sessions \subseteq peers,
         \A c \in Cameras : answerWatchdog'[c] \in {answerWatchdog[c], NoSession},
         \A c \in Cameras : sigSession'[c] \in Sessions
           => sigSession'[c] = sigSession[c] \/ sigSession'[c] \in answered,
         \A h \in Streams :
           haSession'[handler[h].cam] = h /\ handler[h].pc = "offering"
             => haSession[handler[h].cam] = h,
         \A c \in Cameras, t \in Sessions : Ended(c, t)' =>
           \/ Ended(c, t)
           \/ /\ opener[t] \in Streams
              /\ \A h \in Streams :
                   /\ handler[h].cam = c
                   /\ handler[h].pc = "offering"
                   /\ handler[h].sid = t
                   => haSession'[c] # h,
         \A h \in Streams : handler[h].cam \in Cameras
  PROVE  SessionsAreOpened' /\ OfferedIsNotEnded'
  <1>1. SessionsAreOpened'
    <2>1. \A h \in Streams :
            handler'[h].pc = "offering" /\ handler'[h].sid \in Sessions
              => opener'[handler'[h].sid] = h
      BY DEF SessionsAreOpened
    <2>2. \A c \in Cameras : answerWatchdog'[c] # NoSession =>
            /\ opener'[answerWatchdog'[c]] \in Streams
            /\ handler'[opener'[answerWatchdog'[c]]].pc = "done"
      BY DEF SessionsAreOpened
    <2>3. \A s \in Sessions :
            \/ s \in peers' \cup answered'
            \/ \E c \in Cameras : sigSession'[c] = s \/ Ended(c, s)'
            => opener'[s] \in Streams
      BY DEF SessionsAreOpened
    <2> QED
      BY <2>1, <2>2, <2>3 DEF SessionsAreOpened
  <1>2. OfferedIsNotEnded'
    BY DEF OfferedIsNotEnded
  <1> QED
    BY <1>1, <1>2

\* What Goto does to the handlers.
LEMMA Moved ==
  ASSUME TypeOK, NEW h \in Streams, NEW pc, NEW sid, Goto(h, pc, sid),
         handler[h].pc # "done",
         pc = "offering" => sid = NoSession
  PROVE  /\ \A g \in Streams : handler'[g].cam = handler[g].cam
         /\ \A g \in Streams :
              handler'[g].pc = "offering" /\ handler'[g].sid \in Sessions
                => handler'[g] = handler[g]
         /\ \A g \in Streams : handler[g].pc = "done" => handler'[g].pc = "done"
         /\ \A g \in Streams : handler[g].cam \in Cameras
  BY SentinelsAreDistinct DEF Goto, TypeOK, Handler

LEMMA HandlerKeepsOpen ==
  ASSUME OpenInv, SidsOK, NEW h \in Streams, Handle(h) \/ OfferFails(h) \/ Offer(h)
  PROVE  SessionsAreOpened' /\ OfferedIsNotEnded'
  <1> DEFINE c == handler[h].cam
             s == handler[h].sid
  <1> TypeOK /\ SessionsAreOpened /\ OfferedIsNotEnded
    BY DEF OpenInv
  <1>0. c \in Cameras /\ s \in Sids
    BY Domains
  <1>1. CASE Offer(h)
    <2>1. \A g \in Streams : haSession'[handler[g].cam] = g /\ handler[g].pc = "offering"
                               => haSession[handler[g].cam] = g
      BY <1>0, <1>1 DEF Offer, TypeOK
    <2> QED
      BY <1>1, <2>1, Moved, OpenKept, EndedKept
         DEF Offer, deviceVars, channelVars
  <1>2. CASE Superseded(h) \/ AnswerCall(h) \/ SendOffer(h) \/ StaleSessionReleased(h)
    <2>1. UNCHANGED <<cameraVars, deviceVars>>
      BY <1>2 DEF Superseded, AnswerCall, SendOffer, StaleSessionReleased
    <2>2. \E pc, sid : Goto(h, pc, sid) /\ (pc = "offering" => sid = NoSession)
      BY <1>2 DEF Superseded, AnswerCall, SendOffer, StaleSessionReleased
    <2>3. handler[h].pc # "done"
      BY <1>2 DEF Superseded, AnswerCall, SendOffer, StaleSessionReleased, Connected
    <2> QED
      BY <2>1, <2>2, <2>3, Moved, OpenKept, EndedKept
         DEF cameraVars, deviceVars, channelVars
  <1>3. CASE ReleaseStaleSession(h)
    <2>1. sigSession[c] \in Sessions \cup Calls
      BY <1>0, <1>3 DEF ReleaseStaleSession, TypeOK, Sids
    <2>2. \A d \in Cameras, t \in Sessions :
            Ended(d, t)' => Ended(d, t) \/ (d = c /\ t = sigSession[c])
      BY <1>0, <1>3, <2>1, TerminateAdds DEF ReleaseStaleSession
    <2>3. handler[h].pc = "connecting" /\ haSession[c] = h /\ haSession' = haSession
      BY <1>3 DEF ReleaseStaleSession, Connected
    <2>4. \A d \in Cameras : sigSession'[d] \in {sigSession[d], NoSession}
      BY <1>0, <1>3 DEF ReleaseStaleSession, TypeOK
    <2>5. Goto(h, "releasing", sigSession[c])
      BY <1>3 DEF ReleaseStaleSession
    <2>6. UNCHANGED <<answerWatchdog, opener, answered, peers>>
      BY <1>3 DEF ReleaseStaleSession, deviceVars, channelVars
    <2>7. \A d \in Cameras, t \in Sessions : Ended(d, t)' =>
            \/ Ended(d, t)
            \/ /\ opener[t] \in Streams
               /\ \A g \in Streams : /\ handler[g].cam = d
                                     /\ handler[g].pc = "offering"
                                     /\ handler[g].sid = t
                                     => haSession'[d] # g
      <3>1. \A g \in Streams : handler[g].pc = "offering" => haSession'[c] # g
        BY <2>3
      <3>2. sigSession[c] \in Sessions => opener[sigSession[c]] \in Streams
        BY <1>0 DEF SessionsAreOpened
      <3>3. \A d \in Cameras, t \in Sessions : d = c /\ t = sigSession[c] =>
              /\ opener[t] \in Streams
              /\ \A g \in Streams : /\ handler[g].cam = d
                                    /\ handler[g].pc = "offering"
                                    /\ handler[g].sid = t
                                    => haSession'[d] # g
        BY <3>1, <3>2
      <3> QED
        BY <2>2, <3>3
    <2> QED
      BY <2>3, <2>4, <2>5, <2>6, <2>7, Moved, OpenKept, SentinelsAreDistinct
  <1>4. CASE AckTooLate(h)
    <2>1. s \in Sessions
      BY <1>4 DEF AckTooLate, SidsOK
    <2>2. \A d \in Cameras, t \in Sessions : Ended(d, t)' => Ended(d, t) \/ (d = c /\ t = s)
      BY <1>0, <1>4, <2>1, TerminateAdds DEF AckTooLate
    <2>3. handler[h].pc = "offering" /\ haSession[c] # h /\ Goto(h, "done", NoSession)
      BY <1>4 DEF AckTooLate
    <2>4. UNCHANGED <<haSession, sigSession, answerWatchdog, opener, answered, peers>>
      BY <1>4 DEF AckTooLate, deviceVars, channelVars
    <2>5. \A g \in Streams : handler[g].pc = "offering" /\ handler[g].sid = s => g = h
      BY <2>1, <2>3 DEF SessionsAreOpened
    <2>6. opener[s] \in Streams
      BY <2>1, <2>3 DEF SessionsAreOpened
    <2> QED
      BY <2>2, <2>3, <2>4, <2>5, <2>6, Moved, OpenKept
  <1>5. CASE Acked(h)
    <2>1. s \in Sessions /\ opener[s] = h
      BY <1>5 DEF Acked, SidsOK, SessionsAreOpened
    <2>2. /\ UNCHANGED <<haSession, endedSessions, opener, answered>>
          /\ peers' \subseteq peers
          /\ sigSession' = [sigSession EXCEPT ![c] = s]
          /\ answerWatchdog' = [answerWatchdog EXCEPT ![c] = s]
          /\ Goto(h, "done", NoSession)
          /\ handler[h].pc = "offering"
      BY <1>5 DEF Acked, CancelAnswerWatchdog, channelVars
    <2>3. /\ handler'[h].pc = "done"
          /\ \A g \in Streams \ {h} : handler'[g] = handler[g]
          /\ \A g \in Streams : handler'[g].cam = handler[g].cam
      BY <2>2 DEF Goto, TypeOK, Handler
    <2>4. \A d \in Cameras : sigSession'[d] = IF d = c THEN s ELSE sigSession[d]
      BY <1>0, <2>2 DEF TypeOK
    <2>5. \A d \in Cameras : answerWatchdog'[d] = IF d = c THEN s ELSE answerWatchdog[d]
      BY <1>0, <2>2 DEF TypeOK
    <2>6. \A d, t : Ended(d, t)' <=> Ended(d, t)
      BY <2>2, EndedKept
    <2>7. SessionsAreOpened'
      <3>1. \A g \in Streams :
              handler'[g].pc = "offering" /\ handler'[g].sid \in Sessions
                => opener'[handler'[g].sid] = g
        BY <2>2, <2>3 DEF SessionsAreOpened
      <3>2. \A d \in Cameras : answerWatchdog'[d] # NoSession =>
              /\ opener'[answerWatchdog'[d]] \in Streams
              /\ handler'[opener'[answerWatchdog'[d]]].pc = "done"
        BY <2>1, <2>2, <2>3, <2>5 DEF SessionsAreOpened
      <3>3. \A t \in Sessions :
              \/ t \in peers' \cup answered'
              \/ \E d \in Cameras : sigSession'[d] = t \/ Ended(d, t)'
              => opener'[t] \in Streams
        BY <2>1, <2>2, <2>4, <2>6 DEF SessionsAreOpened
      <3> QED
        BY <3>1, <3>2, <3>3 DEF SessionsAreOpened
    <2>8. OfferedIsNotEnded'
      BY <2>2, <2>3, <2>6 DEF OfferedIsNotEnded
    <2> QED
      BY <2>7, <2>8
  <1>6. CASE CallAnswered(h)
    <2>1. s \in Calls
      BY <1>6 DEF CallAnswered, SidsOK
    <2>2. /\ UNCHANGED <<haSession, endedSessions, answerWatchdog, opener, answered>>
          /\ peers' \cap Sessions \subseteq peers
          /\ \A d \in Cameras : sigSession'[d] \in {sigSession[d], s}
          /\ Goto(h, "done", NoSession)
          /\ handler[h].pc = "answering"
      BY <1>0, <1>6, <2>1, SentinelsAreDistinct DEF CallAnswered, channelVars, TypeOK
    <2> QED
      BY <2>1, <2>2, Moved, OpenKept, EndedKept, SentinelsAreDistinct
  <1>7. CASE OfferFails(h)
    <2>1. /\ UNCHANGED <<haSession, sigSession, endedSessions, answerWatchdog, opener,
                         answered>>
          /\ Goto(h, "done", NoSession)
          /\ handler[h].pc # "done"
      BY <1>7 DEF OfferFails, cameraVars, channelVars
    <2>2. peers' \cap Sessions \subseteq peers
      <3>1. liveCalls \cap Sessions = {}
        BY SentinelsAreDistinct DEF TypeOK
      <3> QED
        BY <1>7, <3>1 DEF OfferFails
    <2> QED
      BY <2>1, <2>2, Moved, OpenKept, EndedKept
  <1> QED
    BY <1>1, <1>2, <1>3, <1>4, <1>5, <1>6, <1>7 DEF Handle

LEMMA CallbackKeepsOpen ==
  ASSUME OpenInv, NEW s \in Sessions \cup Calls, OnAnswer(s) \/ OnEvent(s)
  PROVE  SessionsAreOpened' /\ OfferedIsNotEnded'
  <1> TypeOK /\ SessionsAreOpened /\ OfferedIsNotEnded
    BY DEF OpenInv
  <1>1. UNCHANGED <<haSession, endedSessions, handler, opener, answered>>
    BY DEF OnAnswer, OnEvent, cameraVars
  <1>2. peers' \subseteq peers
    BY DEF OnAnswer, OnEvent, CancelAnswerWatchdog
  <1>3. \A c \in Cameras : sigSession'[c] # sigSession[c] => sigSession'[c] \in answered
    BY DEF OnAnswer, OnEvent, cameraVars, TypeOK
  <1>4. \A c \in Cameras : answerWatchdog'[c] \in {answerWatchdog[c], NoSession}
    BY DEF OnAnswer, OnEvent, cameraVars, TypeOK
  <1>5. \A h \in Streams : handler[h].cam \in Cameras
    BY Domains
  <1> QED
    BY <1>1, <1>2, <1>3, <1>4, <1>5, OpenKept, EndedKept

LEMMA WatchdogKeepsOpen ==
  ASSUME OpenInv, NEW c \in Cameras, WatchdogFires(c)
  PROVE  SessionsAreOpened' /\ OfferedIsNotEnded'
  <1> TypeOK /\ SessionsAreOpened /\ OfferedIsNotEnded
    BY DEF OpenInv
  <1>1. UNCHANGED <<haSession, handler, opener, answered, peers>>
    BY DEF WatchdogFires, AnswerWatchdogReturns, NoAnswer, deviceVars, channelVars
  <1>2. \A d \in Cameras : /\ answerWatchdog'[d] \in {answerWatchdog[d], NoSession}
                           /\ sigSession'[d] \in {sigSession[d], NoSession}
    BY DEF WatchdogFires, AnswerWatchdogReturns, NoAnswer, TypeOK
  <1>3. \A h \in Streams : handler[h].cam \in Cameras
    BY Domains
  <1>4. CASE AnswerWatchdogReturns(c)
    BY <1>1, <1>2, <1>3, <1>4, OpenKept, EndedKept, SentinelsAreDistinct
       DEF AnswerWatchdogReturns
  <1>5. CASE NoAnswer(c)
    <2> DEFINE s == answerWatchdog[c]
    <2>1. s \in Sessions /\ opener[s] \in Streams /\ handler[opener[s]].pc = "done"
      BY <1>5 DEF NoAnswer, TypeOK, SessionsAreOpened
    <2>2. \A d \in Cameras, t \in Sessions : Ended(d, t)' => Ended(d, t) \/ (d = c /\ t = s)
      BY <1>5, <2>1, TerminateAdds DEF NoAnswer
    <2>3. \A h \in Streams : ~(handler[h].pc = "offering" /\ handler[h].sid = s)
      BY <2>1 DEF SessionsAreOpened
    <2> QED
      BY <1>1, <1>2, <1>3, <2>1, <2>2, <2>3, OpenKept, SentinelsAreDistinct
  <1> QED
    BY <1>4, <1>5 DEF WatchdogFires

LEMMA CloseKeepsOpen ==
  ASSUME OpenInv, NEW h \in Streams, Close(h)
  PROVE  SessionsAreOpened' /\ OfferedIsNotEnded'
  <1> DEFINE c == handler[h].cam
             s == sigSession[c]
  <1> TypeOK /\ SessionsAreOpened /\ OfferedIsNotEnded
    BY DEF OpenInv
  <1>0. c \in Cameras
    BY Domains
  <1>1. UNCHANGED <<handler, opener, answered>> /\ peers' \subseteq peers
    BY DEF Close, CancelAnswerWatchdog, channelVars
  <1>2. \A d \in Cameras : /\ answerWatchdog'[d] \in {answerWatchdog[d], NoSession}
                           /\ sigSession'[d] \in {sigSession[d], NoSession}
                           /\ haSession'[d] = IF d = c THEN NoStream ELSE haSession[d]
    BY <1>0 DEF Close, TypeOK
  <1>3. \A g \in Streams : handler[g].cam \in Cameras
    BY Domains
  <1>4. \A d \in Cameras, t \in Sessions : Ended(d, t)' => Ended(d, t) \/ (d = c /\ t = s)
    <2>1. CASE s = NoSession
      BY <2>1, EndedKept DEF Close
    <2>2. CASE s # NoSession
      <3>1. s \in Sessions \cup Calls
        BY <1>0, <2>2 DEF TypeOK, Sids
      <3>2. endedSessions' = [endedSessions EXCEPT ![c] = Remember(@, s)]
        BY <2>2 DEF Close
      <3> QED
        BY <1>0, <3>1, <3>2, EndedAdds
    <2> QED
      BY <2>1, <2>2
  <1>5. s \in Sessions => opener[s] \in Streams
    BY <1>0 DEF SessionsAreOpened
  <1> QED
    BY <1>0, <1>1, <1>2, <1>3, <1>4, <1>5, OpenKept, SentinelsAreDistinct

LEMMA DeviceKeepsOpen ==
  ASSUME OpenInv, Device
  PROVE  SessionsAreOpened' /\ OfferedIsNotEnded'
  <1> TypeOK /\ SessionsAreOpened /\ OfferedIsNotEnded
    BY DEF OpenInv
  <1>0. \A h \in Streams : handler[h].cam \in Cameras
    BY Domains
  <1>1. ASSUME NEW h \in Streams, NEW s \in Sessions,
               DeviceOpens(h, s) \/ DeviceRejects(h, s)
        PROVE  SessionsAreOpened' /\ OfferedIsNotEnded'
    <2>1. /\ UNCHANGED cameraVars /\ answered' = answered
          /\ opener[s] = NoStream /\ handler[h].pc = "offering"
          /\ opener' = [opener EXCEPT ![s] = h]
          /\ peers' \subseteq peers \cup {s}
          /\ Goto(h, "offering", s)
      BY <1>1 DEF DeviceOpens, DeviceRejects
    <2>2. /\ handler'[h] = [pc |-> "offering", cam |-> handler[h].cam, sid |-> s]
          /\ \A g \in Streams \ {h} : handler'[g] = handler[g]
          /\ opener'[s] = h
          /\ \A t \in Sessions \ {s} : opener'[t] = opener[t]
      BY <2>1 DEF Goto, TypeOK
    <2>3. \A d, t : Ended(d, t)' <=> Ended(d, t)
      BY <2>1, EndedKept DEF cameraVars
    <2>4. opener[s] \notin Streams
      BY <2>1, SentinelsAreDistinct
    <2>5. /\ s \notin answered
          /\ \A d \in Cameras : /\ answerWatchdog[d] # s
                                /\ sigSession[d] # s
                                /\ ~Ended(d, s)
      BY <2>4, SentinelsAreDistinct DEF SessionsAreOpened
    <2>6. \A g \in Streams :
            handler'[g].pc = "offering" /\ handler'[g].sid \in Sessions
              => opener'[handler'[g].sid] = g
      <3>1. \A g \in Streams : handler[g].pc = "offering" => handler[g].sid # s
        BY <2>4 DEF SessionsAreOpened
      <3> QED
        BY <2>2, <3>1 DEF SessionsAreOpened
    <2>7. \A d \in Cameras : answerWatchdog'[d] # NoSession =>
            /\ opener'[answerWatchdog'[d]] \in Streams
            /\ handler'[opener'[answerWatchdog'[d]]].pc = "done"
      <3> SUFFICES ASSUME NEW d \in Cameras, answerWatchdog[d] # NoSession
                   PROVE  /\ opener'[answerWatchdog[d]] \in Streams
                          /\ handler'[opener'[answerWatchdog[d]]].pc = "done"
        BY <2>1 DEF cameraVars
      <3>1. answerWatchdog[d] \in Sessions \ {s}
        BY <2>5 DEF TypeOK
      <3>2. opener[answerWatchdog[d]] \in Streams
            /\ handler[opener[answerWatchdog[d]]].pc = "done"
        BY DEF SessionsAreOpened
      <3> QED
        BY <2>1, <2>2, <3>1, <3>2
    <2>8. \A t \in Sessions :
            \/ t \in peers' \cup answered'
            \/ \E d \in Cameras : sigSession'[d] = t \/ Ended(d, t)'
            => opener'[t] \in Streams
      BY <2>1, <2>2, <2>3 DEF SessionsAreOpened, cameraVars
    <2>9. OfferedIsNotEnded'
      BY <1>0, <2>1, <2>2, <2>3, <2>5 DEF OfferedIsNotEnded, cameraVars
    <2> QED
      BY <2>6, <2>7, <2>8, <2>9 DEF SessionsAreOpened
  <1>2. ASSUME UNCHANGED <<cameraVars, handler, opener>>,
               answered' \subseteq answered \cup peers, peers' \subseteq peers
        PROVE  SessionsAreOpened' /\ OfferedIsNotEnded'
    BY <1>0, <1>2, OpenKept, EndedKept DEF cameraVars
  <1>3. ASSUME NEW s \in Sessions, DeviceAnswers(s)
        PROVE  SessionsAreOpened' /\ OfferedIsNotEnded'
    BY <1>2, <1>3 DEF DeviceAnswers
  <1>4. ASSUME NEW s \in Sessions \cup Calls, DeviceDrops(s)
        PROVE  SessionsAreOpened' /\ OfferedIsNotEnded'
    BY <1>2, <1>4 DEF DeviceDrops
  <1>5. ASSUME NEW call \in Calls, NEW c \in Cameras, CallArrives(call, c)
        PROVE  SessionsAreOpened' /\ OfferedIsNotEnded'
    BY <1>2, <1>5 DEF CallArrives
  <1>6. CASE CallForgotten
    BY <1>2, <1>6 DEF CallForgotten, deviceVars, channelVars
  <1> QED
    BY <1>1, <1>3, <1>4, <1>5, <1>6 DEF Device

LEMMA OpenStep == IInv /\ OpenInv /\ [Next]_vars => SessionsAreOpened' /\ OfferedIsNotEnded'
  <1> SUFFICES ASSUME IInv, OpenInv, [Next]_vars
               PROVE  SessionsAreOpened' /\ OfferedIsNotEnded'
    OBVIOUS
  <1> TypeOK /\ SidsOK /\ SessionsAreOpened /\ OfferedIsNotEnded
    BY DEF OpenInv, IInv
  <1>1. ASSUME UNCHANGED <<cameraVars, handler, opener, answered>>, peers' \subseteq peers
        PROVE  SessionsAreOpened' /\ OfferedIsNotEnded'
    BY <1>1, Domains, OpenKept, EndedKept DEF cameraVars
  <1>2. ASSUME NEW h \in Streams, OnCandidate(h)
        PROVE  SessionsAreOpened' /\ OfferedIsNotEnded'
    BY <1>1, <1>2 DEF OnCandidate, deviceVars, channelVars
  <1>3. CASE FlushGoesOn
    BY <1>1, <1>3 DEF FlushGoesOn, FlushProceeds, FlushFails, deviceVars, channelVars
  <1>4. CASE TerminateEnds
    BY <1>1, <1>4 DEF TerminateEnds, TerminateSent, TerminateFails, deviceVars,
                      channelVars
  <1>5. CASE UNCHANGED vars
    BY <1>1, <1>5 DEF vars, deviceVars, channelVars
  <1> QED
    BY <1>2, <1>3, <1>4, <1>5, HandlerKeepsOpen, CallbackKeepsOpen, WatchdogKeepsOpen,
       CloseKeepsOpen, DeviceKeepsOpen DEF Next, Browser, Deliver

LEMMA OpenInit == Init => SessionsAreOpened /\ OfferedIsNotEnded
  <1> SUFFICES ASSUME Init PROVE SessionsAreOpened /\ OfferedIsNotEnded
    OBVIOUS
  <1>1. \A h \in Streams : handler[h].pc = "new"
    BY DEF Init
  <1>2. \A c \in Cameras : /\ answerWatchdog[c] = NoSession
                           /\ sigSession[c] = NoSession
                           /\ endedSessions[c] = <<>>
    BY DEF Init
  <1>3. \A c \in Cameras, s \in Sessions : sigSession[c] # s /\ ~Ended(c, s)
    BY <1>2, SentinelsAreDistinct DEF Ended
  <1>4. peers = {} /\ answered = {}
    BY DEF Init
  <1> QED
    BY <1>1, <1>2, <1>3, <1>4 DEF SessionsAreOpened, OfferedIsNotEnded

LEMMA OpenInvHolds == Spec => []OpenInv
  <1>1. Init => SessionsAreOpened /\ OfferedIsNotEnded
    BY OpenInit
  <1>2. IInv => TypeOK
    BY DEF IInv
  <1>3. Init => IInv /\ OpenInv
    BY <1>1, <1>2, InitTyped DEF OpenInv
  <1>4. IInv /\ OpenInv /\ [Next]_vars => (IInv /\ OpenInv)'
    <2> SUFFICES ASSUME IInv, OpenInv, [Next]_vars PROVE IInv' /\ OpenInv'
      OBVIOUS
    <2>1. IInv'
      BY Inductive
    <2>2. TypeOK'
      BY <2>1 DEF IInv
    <2> QED
      BY <2>1, <2>2, OpenStep DEF OpenInv
  <1> QED
    BY <1>3, <1>4, PTL DEF Spec

\* For any cameras, streams, sessions and calls: whatever answers and acks come
\* late, and however soon ended sessions are forgotten, no camera takes one back
\* that it still remembers (_is_foreign_session, on_answer, the ack of
\* async_handle_async_webrtc_offer).
THEOREM NoEndedSessionIsServed == Spec => EndedStaysEnded
  <1> DEFINE Served(c) == sigSession'[c] \in Sessions /\ sigSession'[c] # sigSession[c]
                            => ~Ended(c, sigSession'[c])
  <1>1. IInv /\ OpenInv /\ [Next]_vars => [\A c \in Cameras : Served(c)]_vars
    <2> SUFFICES ASSUME IInv, OpenInv, Next, NEW c \in Cameras,
                        sigSession'[c] \in Sessions, sigSession'[c] # sigSession[c]
                 PROVE  ~Ended(c, sigSession'[c])
      OBVIOUS
    <2> TypeOK /\ SidsOK /\ OfferedIsNotEnded
      BY DEF OpenInv, IInv
    <2> USE SentinelsAreDistinct
    <2>1. ASSUME NEW h \in Streams, Handle(h) \/ OfferFails(h)
          PROVE  ~Ended(c, sigSession'[c])
      <3>1. CASE Acked(h)
        <4>1. handler[h].cam = c /\ sigSession'[c] = handler[h].sid
          BY <3>1, Domains DEF Acked, TypeOK
        <4> QED
          BY <3>1, <4>1 DEF Acked, OfferedIsNotEnded
      <3>2. CASE CallAnswered(h)
        BY <3>2, Domains DEF CallAnswered, TypeOK, SidsOK
      <3>3. CASE ReleaseStaleSession(h)
        BY <3>3, Domains DEF ReleaseStaleSession, TypeOK
      <3>4. CASE ~Acked(h) /\ ~CallAnswered(h) /\ ~ReleaseStaleSession(h)
        <4>1. UNCHANGED sigSession
          BY <2>1, <3>4 DEF Handle, OfferFails, Superseded, AnswerCall, SendOffer,
                            StaleSessionReleased, AckTooLate, cameraVars
        <4> QED
          BY <4>1
      <3> QED
        BY <3>1, <3>2, <3>3, <3>4
    <2>2. ASSUME NEW h \in Streams, Browser(h) PROVE FALSE
      BY <2>2, Domains DEF Browser, Offer, Close, OnCandidate, cameraVars, TypeOK
    <2>3. ASSUME NEW d \in Cameras, WatchdogFires(d) PROVE FALSE
      BY <2>3 DEF WatchdogFires, AnswerWatchdogReturns, NoAnswer, TypeOK
    <2>4. ASSUME NEW s \in Sessions \cup Calls, OnAnswer(s) \/ OnEvent(s)
          PROVE  ~Ended(c, sigSession'[c])
      <3>1. sigSession'[c] = s /\ ~IsForeignSession(c, s)
        BY <2>4, Domains DEF OnAnswer, OnEvent, cameraVars, TypeOK
      <3> QED
        BY <3>1 DEF IsForeignSession
    <2>5. ~FlushGoesOn /\ ~TerminateEnds /\ ~Device
      BY DEF FlushGoesOn, FlushProceeds, FlushFails, TerminateEnds, TerminateSent,
             TerminateFails, Device, DeviceOpens, DeviceRejects, DeviceAnswers,
             DeviceDrops, CallArrives, CallForgotten, cameraVars
    <2> QED
      BY <2>1, <2>2, <2>3, <2>4, <2>5 DEF Next, Deliver
  <1>2. Spec => []IInv
    BY InitTyped, Inductive, PTL DEF Spec
  <1> QED
    BY <1>1, <1>2, OpenInvHolds, PTL DEF Spec, EndedStaysEnded

-----------------------------------------------------------------------------
(* Peer slots, as long as no call comes in *)

\* The device keeps a slot for the session, and nobody is giving it back.
Held(s) ==
  /\ s \in peers \cap Sessions
  /\ s \notin lost
  /\ \A r \in terminating : r.sid # s

\* The camera's stream releases the session before it, or waits for its ack.
InProgress(h) ==
  /\ haSession[handler[h].cam] = h
  /\ handler[h].pc \in {"releasing", "offering"}

\* A held session waits for its ack to be handled, or its camera serves it and
\* no stream is about to overwrite it there.
SlotsAreOwned ==
  \A s \in Sessions : Held(s) =>
    \/ handler[opener[s]].pc = "offering" /\ handler[opener[s]].sid = s
    \/ /\ sigSession[handler[opener[s]].cam] = s
       /\ \A h \in Streams :
            InProgress(h) => handler[h].cam # handler[opener[s]].cam

\* Whose session it was stays known, so a step keeps the invariant if it forgets
\* no session that is still held and begins no offer beside one.
LEMMA SlotsKept ==
  ASSUME SessionsAreOpened, SlotsAreOwned,
         opener' = opener,
         \A h \in Streams : handler'[h].cam = handler[h].cam,
         \A s \in Sessions : Held(s)' => Held(s),
         \A h \in Streams : \A s \in Sessions :
           handler[h].pc = "offering" /\ handler[h].sid = s
             => handler'[h] = handler[h] \/ ~Held(s)',
         \A h \in Streams : \A s \in Sessions :
           sigSession[handler[h].cam] = s
             => sigSession'[handler[h].cam] = s \/ ~Held(s)',
         \A h \in Streams : InProgress(h)' =>
           \/ InProgress(h)
           \/ \A s \in Sessions : sigSession[handler[h].cam] = s => ~Held(s)'
  PROVE  SlotsAreOwned'
  <1> SUFFICES ASSUME NEW s \in Sessions, Held(s)'
               PROVE  \/ handler'[opener[s]].pc = "offering" /\ handler'[opener[s]].sid = s
                      \/ /\ sigSession'[handler[opener[s]].cam] = s
                         /\ \A h \in Streams :
                              InProgress(h)' => handler[h].cam # handler[opener[s]].cam
    BY DEF SlotsAreOwned, SessionsAreOpened, Held
  <1>1. Held(s) /\ opener[s] \in Streams
    BY DEF Held, SessionsAreOpened
  <1>2. CASE handler[opener[s]].pc = "offering" /\ handler[opener[s]].sid = s
    BY <1>1, <1>2
  <1>3. CASE /\ sigSession[handler[opener[s]].cam] = s
             /\ \A h \in Streams :
                  InProgress(h) => handler[h].cam # handler[opener[s]].cam
    BY <1>1, <1>3, SentinelsAreDistinct
  <1> QED
    BY <1>1, <1>2, <1>3 DEF SlotsAreOwned

\* Nothing is held that was not: slots are given back, lost or left alone.
LEMMA HeldBefore ==
  ASSUME peers' \cap Sessions \subseteq peers, lost \subseteq lost',
         \A r \in terminating : r \in terminating' \/ r.sid \notin peers' \/ r.sid \in lost'
  PROVE  \A s \in Sessions : Held(s)' => Held(s)
  BY DEF Held

LEMMA CancelGivesBack ==
  ASSUME NEW c \in Cameras, NEW reached, CancelAnswerWatchdog(c, reached),
         terminating \ WatchdogTerminates(c) \subseteq terminating'
  PROVE  \A s \in Sessions : Held(s)' => Held(s)
  <1>1. \A r \in terminating : r \in terminating' \/ r.sid \notin peers' \/ r.sid \in lost'
    BY DEF CancelAnswerWatchdog
  <1> QED
    BY <1>1, HeldBefore DEF CancelAnswerWatchdog

LEMMA NoCallsAtAll ==
  ASSUME Calls = {}, IInv
  PROVE  /\ activeCall = NoCall
         /\ liveCalls = {}
         /\ \A h \in Streams : handler[h].pc # "answering"
         /\ \A c \in Cameras : sigSession[c] \in Sessions \cup {NoSession}
  BY DEF IInv, TypeOK, SidsOK, Sids

LEMMA HandlerKeepsSlots ==
  ASSUME Calls = {}, IInv, SessionsAreOpened, SlotsAreOwned,
         NEW h \in Streams, Handle(h) \/ OfferFails(h) \/ Offer(h)
  PROVE  SlotsAreOwned'
  <1> DEFINE c == handler[h].cam
             s == handler[h].sid
  <1> TypeOK /\ SidsOK
    BY DEF IInv
  <1>0. c \in Cameras /\ \A g \in Streams : handler[g].cam \in Cameras
    BY Domains
  <1>1. CASE Offer(h)
    <2>1. /\ UNCHANGED <<sigSession, terminating, peers, opener, lost>>
          /\ haSession' = [haSession EXCEPT ![c] = h]
          /\ Goto(h, "connecting", pendingTerminate[c])
          /\ handler[h].pc = "new"
      BY <1>1 DEF Offer, deviceVars, channelVars
    <2>2. /\ \A g \in Streams : handler'[g].cam = handler[g].cam
          /\ \A g \in Streams \ {h} : handler'[g] = handler[g]
          /\ handler'[h].pc = "connecting"
      BY <2>1 DEF Goto, TypeOK, Handler
    <2>3. \A g \in Streams : InProgress(g)' => InProgress(g)
      BY <1>0, <2>1, <2>2 DEF InProgress, TypeOK
    <2> QED
      BY <2>1, <2>2, <2>3, SlotsKept, HeldBefore
  <1>2. CASE Superseded(h) \/ StaleSessionReleased(h)
    <2>1. /\ UNCHANGED <<haSession, sigSession, terminating, peers, opener, lost>>
          /\ \E pc \in {"done", "offering"} :
               Goto(h, pc, NoSession) /\ (pc = "offering" => handler[h].pc = "releasing")
          /\ handler[h].pc # "offering"
      BY <1>2 DEF Superseded, Connected, StaleSessionReleased, cameraVars, deviceVars,
                  channelVars
    <2>2. /\ \A g \in Streams : handler'[g].cam = handler[g].cam
          /\ \A g \in Streams \ {h} : handler'[g] = handler[g]
          /\ handler'[h].pc = "offering" => handler[h].pc = "releasing"
          /\ handler'[h].pc \in {"done", "offering"}
      BY <2>1 DEF Goto, TypeOK, Handler
    <2>3. \A g \in Streams : InProgress(g)' => InProgress(g)
      BY <2>1, <2>2 DEF InProgress
    <2> QED
      BY <2>1, <2>2, <2>3, SlotsKept, HeldBefore
  <1>3. CASE SendOffer(h)
    <2>1. /\ UNCHANGED <<haSession, sigSession, terminating, peers, opener, lost>>
          /\ Goto(h, "offering", NoSession)
          /\ handler[h].pc = "connecting"
          /\ sigSession[c] = NoSession
      BY <1>3, NoCallsAtAll DEF SendOffer, Connected, cameraVars, deviceVars, channelVars
    <2>2. /\ \A g \in Streams : handler'[g].cam = handler[g].cam
          /\ \A g \in Streams \ {h} : handler'[g] = handler[g]
      BY <2>1 DEF Goto, TypeOK, Handler
    <2>3. \A g \in Streams :
            InProgress(g)' => InProgress(g) \/ sigSession[handler[g].cam] = NoSession
      BY <2>1, <2>2 DEF InProgress
    <2> QED
      BY <2>1, <2>2, <2>3, SlotsKept, HeldBefore, SentinelsAreDistinct
  <1>4. CASE ReleaseStaleSession(h)
    <2>1. /\ UNCHANGED <<haSession, peers, opener, lost>>
          /\ Goto(h, "releasing", sigSession[c])
          /\ handler[h].pc = "connecting"
          /\ terminating' = terminating
                              \cup {[sid |-> sigSession[c], cam |-> c, by |-> "release"]}
          /\ sigSession' = [sigSession EXCEPT ![c] = NoSession]
          /\ sigSession[c] # NoSession
      BY <1>4 DEF ReleaseStaleSession, Connected, StartTerminate, deviceVars, channelVars
    <2>2. /\ \A g \in Streams : handler'[g].cam = handler[g].cam
          /\ \A g \in Streams \ {h} : handler'[g] = handler[g]
      BY <2>1 DEF Goto, TypeOK, Handler
    <2>3. \A t \in Sessions : sigSession[c] = t => ~Held(t)'
      <3>1. [sid |-> sigSession[c], cam |-> c, by |-> "release"] \in terminating'
        BY <2>1
      <3> QED
        BY <3>1 DEF Held
    <2>4. \A d \in Cameras \ {c} : sigSession'[d] = sigSession[d]
      BY <2>1 DEF TypeOK
    <2>5. \A g \in Streams : InProgress(g)' => InProgress(g) \/ g = h
      BY <2>1, <2>2 DEF InProgress
    <2>6. \A g \in Streams : handler[g].pc = "offering" => handler'[g] = handler[g]
      BY <2>1, <2>2
    <2>7. \A t \in Sessions : Held(t)' => Held(t)
      BY <2>1, HeldBefore
    <2> QED
      BY <1>0, <2>1, <2>2, <2>3, <2>4, <2>5, <2>6, <2>7, SlotsKept
  <1>5. CASE AckTooLate(h)
    <2>1. /\ UNCHANGED <<haSession, sigSession, peers, opener, lost>>
          /\ Goto(h, "done", NoSession)
          /\ terminating' = terminating
                              \cup {[sid |-> s, cam |-> c, by |-> "superseded"]}
      BY <1>5 DEF AckTooLate, StartTerminate, deviceVars, channelVars
    <2>2. /\ \A g \in Streams : handler'[g].cam = handler[g].cam
          /\ \A g \in Streams \ {h} : handler'[g] = handler[g]
          /\ handler'[h].pc = "done"
      BY <2>1 DEF Goto, TypeOK, Handler
    <2>3. \A t \in Sessions : s = t => ~Held(t)'
      <3>1. [sid |-> s, cam |-> c, by |-> "superseded"] \in terminating'
        BY <2>1
      <3> QED
        BY <3>1 DEF Held
    <2>4. \A g \in Streams : InProgress(g)' => InProgress(g)
      BY <2>1, <2>2 DEF InProgress
    <2>5. \A t \in Sessions : Held(t)' => Held(t)
      BY <2>1, HeldBefore
    <2> QED
      BY <2>1, <2>2, <2>3, <2>4, <2>5, SlotsKept
  <1>6. CASE Acked(h)
    <2>1. s \in Sessions /\ opener[s] = h
      BY <1>6 DEF Acked, SidsOK, SessionsAreOpened
    <2>2. /\ UNCHANGED <<haSession, opener>>
          /\ Goto(h, "done", NoSession)
          /\ handler[h].pc = "offering"
          /\ haSession[c] = h
          /\ sigSession' = [sigSession EXCEPT ![c] = s]
      BY <1>6 DEF Acked, channelVars
    <2>3. /\ \A g \in Streams : handler'[g].cam = handler[g].cam
          /\ \A g \in Streams \ {h} : handler'[g] = handler[g]
          /\ handler'[h].pc = "done"
      BY <2>2 DEF Goto, TypeOK, Handler
    <2>4. /\ sigSession'[c] = s
          /\ \A d \in Cameras \ {c} : sigSession'[d] = sigSession[d]
      BY <1>0, <2>2 DEF TypeOK
    <2>5. \A t \in Sessions : Held(t)' => Held(t)
      BY <1>0, <1>6, CancelGivesBack DEF Acked
    <2>6. \A g \in Streams : InProgress(g)' => InProgress(g) /\ handler[g].cam # c
      BY <2>2, <2>3 DEF InProgress
    <2>7. InProgress(h)
      BY <2>2 DEF InProgress
    <2> SUFFICES ASSUME NEW t \in Sessions, Held(t)'
                 PROVE  \/ handler'[opener[t]].pc = "offering" /\ handler'[opener[t]].sid = t
                        \/ /\ sigSession'[handler[opener[t]].cam] = t
                           /\ \A g \in Streams :
                                InProgress(g)' => handler[g].cam # handler[opener[t]].cam
      <3>1. \A t \in Sessions : Held(t)' => opener[t] \in Streams
        BY <2>5 DEF Held, SessionsAreOpened
      <3> QED
        BY <2>2, <2>3, <3>1 DEF SlotsAreOwned
    <2>8. CASE t = s
      BY <2>1, <2>4, <2>6, <2>8
    <2>9. CASE t # s
      <3>1. opener[t] \in Streams /\ Held(t)
        BY <2>5 DEF Held, SessionsAreOpened
      <3>2. CASE handler[opener[t]].pc = "offering" /\ handler[opener[t]].sid = t
        <4>1. opener[t] # h
          BY <2>9, <3>2
        <4> QED
          BY <2>3, <3>1, <3>2, <4>1
      <3>3. CASE /\ sigSession[handler[opener[t]].cam] = t
                 /\ \A g \in Streams : InProgress(g) => handler[g].cam # handler[opener[t]].cam
        BY <1>0, <2>4, <2>6, <2>7, <3>1, <3>3
      <3> QED
        BY <3>1, <3>2, <3>3 DEF SlotsAreOwned
    <2> QED
      BY <2>8, <2>9
  <1>7. CASE OfferFails(h)
    <2>1. /\ UNCHANGED <<haSession, sigSession, opener>>
          /\ Goto(h, "done", NoSession)
      BY <1>7 DEF OfferFails, cameraVars, channelVars
    <2>2. /\ \A g \in Streams : handler'[g].cam = handler[g].cam
          /\ \A g \in Streams \ {h} : handler'[g] = handler[g]
          /\ handler'[h].pc = "done"
      BY <2>1 DEF Goto, TypeOK, Handler
    <2>3. handler[h].pc = "offering" => \A t \in Sessions : s = t => ~Held(t)'
      BY <1>7 DEF OfferFails, Held
    <2>4. \A g \in Streams : InProgress(g)' => InProgress(g)
      BY <2>1, <2>2 DEF InProgress
    <2>5. \A t \in Sessions : Held(t)' => Held(t)
      <3>1. \A r \in terminating : r \in terminating' \/ r.sid \in lost'
        BY <1>7 DEF OfferFails
      <3>2. UNCHANGED peers /\ lost \subseteq lost'
        BY <1>7, NoCallsAtAll DEF OfferFails
      <3> QED
        BY <3>1, <3>2, HeldBefore
    <2> QED
      BY <2>1, <2>2, <2>3, <2>4, <2>5, SlotsKept
  <1>8. ~AnswerCall(h) /\ ~CallAnswered(h)
    BY NoCallsAtAll DEF AnswerCall, CallToAnswer, CallAnswered
  <1> QED
    BY <1>1, <1>2, <1>3, <1>4, <1>5, <1>6, <1>7, <1>8 DEF Handle

LEMMA CallbackKeepsSlots ==
  ASSUME Calls = {}, IInv, SessionsAreOpened, SlotsAreOwned,
         NEW s \in Sessions \cup Calls, OnAnswer(s) \/ OnEvent(s)
  PROVE  SlotsAreOwned'
  <1> DEFINE c == handler[callbacks].cam
  <1> TypeOK
    BY DEF IInv
  <1>1. UNCHANGED <<haSession, handler, opener>>
    BY DEF OnAnswer, OnEvent, cameraVars
  <1>2. \A h \in Streams : InProgress(h)' => InProgress(h)
    BY <1>1 DEF InProgress
  <1>3. \A d \in Cameras : sigSession[d] # NoSession => sigSession'[d] = sigSession[d]
    BY DEF OnAnswer, OnEvent, cameraVars, IsForeignSession, TypeOK
  <1>4. \A t \in Sessions : Held(t)' => Held(t)
    <2>1. CASE UNCHANGED <<terminating, peers, lost>>
      BY <2>1, HeldBefore
    <2>2. CASE ~UNCHANGED <<terminating, peers, lost>>
      <3>1. c \in Cameras /\ \E reached \in SUBSET Sids : CancelAnswerWatchdog(c, reached)
        BY <2>2, Domains DEF OnAnswer, OnEvent, TypeOK
      <3>2. terminating' = terminating \ WatchdogTerminates(c)
        BY <2>2 DEF OnAnswer, OnEvent
      <3> QED
        BY <3>1, <3>2, CancelGivesBack
    <2> QED
      BY <2>1, <2>2
  <1> QED
    BY <1>1, <1>2, <1>3, <1>4, Domains, SlotsKept, SentinelsAreDistinct

LEMMA WatchdogKeepsSlots ==
  ASSUME Calls = {}, IInv, SessionsAreOpened, SlotsAreOwned,
         NEW c \in Cameras, WatchdogFires(c)
  PROVE  SlotsAreOwned'
  <1> TypeOK
    BY DEF IInv
  <1>1. UNCHANGED <<haSession, handler, opener, peers, lost>>
    BY DEF WatchdogFires, AnswerWatchdogReturns, NoAnswer, deviceVars, channelVars
  <1>2. \A h \in Streams : InProgress(h)' => InProgress(h)
    BY <1>1 DEF InProgress
  <1>3. terminating \subseteq terminating'
    BY DEF WatchdogFires, AnswerWatchdogReturns, NoAnswer, StartTerminate
  <1>4. \A t \in Sessions : Held(t)' => Held(t)
    BY <1>1, <1>3, HeldBefore
  <1>5. \A d \in Cameras, t \in Sessions :
          sigSession[d] = t => sigSession'[d] = t \/ ~Held(t)'
    <2>1. CASE AnswerWatchdogReturns(c)
      BY <2>1 DEF AnswerWatchdogReturns
    <2>2. CASE NoAnswer(c)
      <3>1. [sid |-> sigSession[c], cam |-> c, by |-> "watchdog"] \in terminating'
        BY <2>2 DEF NoAnswer, StartTerminate
      <3>2. \A t \in Sessions : sigSession[c] = t => ~Held(t)'
        BY <3>1 DEF Held
      <3>3. \A d \in Cameras \ {c} : sigSession'[d] = sigSession[d]
        BY <2>2 DEF NoAnswer, TypeOK
      <3> QED
        BY <3>2, <3>3
    <2> QED
      BY <2>1, <2>2 DEF WatchdogFires
  <1> QED
    BY <1>1, <1>2, <1>4, <1>5, Domains, SlotsKept

LEMMA CloseKeepsSlots ==
  ASSUME Calls = {}, IInv, SessionsAreOpened, SlotsAreOwned, NEW h \in Streams, Close(h)
  PROVE  SlotsAreOwned'
  <1> DEFINE c == handler[h].cam
             s == sigSession[c]
  <1> TypeOK
    BY DEF IInv
  <1>0. c \in Cameras /\ \A g \in Streams : handler[g].cam \in Cameras
    BY Domains
  <1>1. UNCHANGED <<handler, opener>>
    BY DEF Close, channelVars
  <1>2. \A g \in Streams : InProgress(g)' => InProgress(g)
    <2>1. haSession' = [haSession EXCEPT ![c] = NoStream]
      BY DEF Close
    <2> QED
      BY <1>0, <1>1, <2>1, SentinelsAreDistinct DEF InProgress, TypeOK
  <1>3. \A t \in Sessions : Held(t)' => Held(t)
    <2>1. \E reached \in SUBSET Sids : CancelAnswerWatchdog(c, reached)
      BY DEF Close
    <2>2. terminating \ WatchdogTerminates(c) \subseteq terminating'
      BY DEF Close
    <2> QED
      BY <1>0, <2>1, <2>2, CancelGivesBack
  <1>4. \A d \in Cameras, t \in Sessions :
          sigSession[d] = t => sigSession'[d] = t \/ ~Held(t)'
    <2>1. \A d \in Cameras \ {c} : sigSession'[d] = sigSession[d]
      BY DEF Close, TypeOK
    <2>2. s # NoSession => [sid |-> s, cam |-> c, by |-> "close"] \in terminating'
      BY DEF Close
    <2>3. \A t \in Sessions : s = t => ~Held(t)'
      BY <2>2, SentinelsAreDistinct DEF Held
    <2> QED
      BY <2>1, <2>3
  <1> QED
    BY <1>0, <1>1, <1>2, <1>3, <1>4, SlotsKept

LEMMA DeviceKeepsSlots ==
  ASSUME Calls = {}, IInv, SessionsAreOpened, SlotsAreOwned, Device
  PROVE  SlotsAreOwned'
  <1> TypeOK
    BY DEF IInv
  <1>1. ASSUME NEW h \in Streams, NEW s \in Sessions,
               DeviceOpens(h, s) \/ DeviceRejects(h, s)
        PROVE  SlotsAreOwned'
    <2>1. /\ UNCHANGED <<cameraVars, terminating, lost>>
          /\ opener[s] = NoStream /\ handler[h].pc = "offering" /\ handler[h].sid = NoSession
          /\ opener' = [opener EXCEPT ![s] = h]
          /\ peers' \subseteq peers \cup {s}
          /\ Goto(h, "offering", s)
      BY <1>1 DEF DeviceOpens, DeviceRejects
    <2>2. /\ handler'[h] = [pc |-> "offering", cam |-> handler[h].cam, sid |-> s]
          /\ \A g \in Streams \ {h} : handler'[g] = handler[g]
          /\ opener'[s] = h
          /\ \A t \in Sessions \ {s} : opener'[t] = opener[t]
      BY <2>1 DEF Goto, TypeOK
    <2>3. \A g \in Streams : handler'[g].cam = handler[g].cam
      BY <2>2
    <2>4. \A g \in Streams : InProgress(g)' => InProgress(g)
      BY <2>1, <2>2, <2>3 DEF InProgress, cameraVars
    <2> SUFFICES ASSUME NEW t \in Sessions, Held(t)'
                 PROVE  \/ handler'[opener'[t]].pc = "offering" /\ handler'[opener'[t]].sid = t
                        \/ /\ sigSession'[handler'[opener'[t]].cam] = t
                           /\ \A g \in Streams :
                                InProgress(g)' => handler'[g].cam # handler'[opener'[t]].cam
      BY DEF SlotsAreOwned
    <2>5. CASE t = s
      BY <2>2, <2>5
    <2>6. CASE t # s
      <3>1. Held(t) /\ opener'[t] = opener[t] /\ opener[t] \in Streams
        BY <2>1, <2>2, <2>6 DEF Held, SessionsAreOpened
      <3>2. CASE handler[opener[t]].pc = "offering" /\ handler[opener[t]].sid = t
        <4>1. opener[t] # h
          BY <2>1, <3>2, SentinelsAreDistinct
        <4> QED
          BY <2>2, <3>1, <3>2, <4>1
      <3>3. CASE /\ sigSession[handler[opener[t]].cam] = t
                 /\ \A g \in Streams : InProgress(g) => handler[g].cam # handler[opener[t]].cam
        BY <2>1, <2>3, <2>4, <3>1, <3>3 DEF cameraVars
      <3> QED
        BY <3>1, <3>2, <3>3 DEF SlotsAreOwned
    <2> QED
      BY <2>5, <2>6
  <1>2. ASSUME UNCHANGED <<haSession, sigSession, handler, opener, terminating, lost>>,
               peers' \subseteq peers
        PROVE  SlotsAreOwned'
    <2>1. \A h \in Streams : InProgress(h)' => InProgress(h)
      BY <1>2 DEF InProgress
    <2> QED
      BY <1>2, <2>1, SlotsKept, HeldBefore
  <1>3. ASSUME NEW s \in Sessions, DeviceAnswers(s) PROVE SlotsAreOwned'
    BY <1>2, <1>3 DEF DeviceAnswers, cameraVars
  <1>4. ASSUME NEW s \in Sessions \cup Calls, DeviceDrops(s) PROVE SlotsAreOwned'
    BY <1>2, <1>4 DEF DeviceDrops, cameraVars
  <1>5. CASE CallForgotten
    BY <1>2, <1>5 DEF CallForgotten, cameraVars, deviceVars, channelVars
  <1> QED
    BY <1>1, <1>3, <1>4, <1>5 DEF Device

LEMMA SlotsStep ==
  Calls = {} /\ IInv /\ SessionsAreOpened /\ SlotsAreOwned /\ [Next]_vars => SlotsAreOwned'
  <1> SUFFICES ASSUME Calls = {}, IInv, SessionsAreOpened, SlotsAreOwned, [Next]_vars
               PROVE  SlotsAreOwned'
    OBVIOUS
  <1>1. ASSUME UNCHANGED <<cameraVars, handler, opener>>,
               \A t \in Sessions : Held(t)' => Held(t)
        PROVE  SlotsAreOwned'
    <2>1. \A h \in Streams : InProgress(h)' => InProgress(h)
      BY <1>1 DEF InProgress, cameraVars
    <2> QED
      BY <1>1, <2>1, SlotsKept DEF cameraVars
  <1>2. ASSUME NEW h \in Streams, OnCandidate(h) PROVE SlotsAreOwned'
    BY <1>1, <1>2, HeldBefore DEF OnCandidate, deviceVars, channelVars
  <1>3. CASE FlushGoesOn
    BY <1>1, <1>3, HeldBefore DEF FlushGoesOn, FlushProceeds, FlushFails, deviceVars,
                                  channelVars
  <1>4. CASE TerminateEnds
    <2>1. PICK r \in terminating : TerminateSent(r) \/ TerminateFails(r)
      BY <1>4 DEF TerminateEnds
    <2>2. /\ terminating' = terminating \ {r}
          /\ peers' \subseteq peers /\ lost \subseteq lost'
          /\ r.sid \notin peers' \/ r.sid \in lost'
          /\ UNCHANGED <<cameraVars, handler, opener>>
      BY <2>1 DEF TerminateSent, TerminateFails, deviceVars, channelVars
    <2> QED
      BY <1>1, <2>2, HeldBefore
  <1>5. CASE UNCHANGED vars
    BY <1>1, <1>5, HeldBefore DEF vars, deviceVars, channelVars
  <1> QED
    BY <1>2, <1>3, <1>4, <1>5, HandlerKeepsSlots, CallbackKeepsSlots,
       WatchdogKeepsSlots, CloseKeepsSlots, DeviceKeepsSlots DEF Next, Browser, Deliver

\* For any cameras that share the signaling client and any streams that supersede,
\* close, fail and are cancelled: as long as no call comes in, no peer slot is
\* forgotten (_release_stale_session and the late ack of
\* async_handle_async_webrtc_offer, close_webrtc_session, the watchdog).  With
\* calls it is not so: answer mode overwrites the session of a live view.
THEOREM NoPeerIsForgotten ==
  ASSUME Calls = {}
  PROVE  Spec => []PeersAreAccountedFor
  <1>1. Init => SlotsAreOwned
    BY DEF Init, SlotsAreOwned, Held
  <1>2. IInv /\ OpenInv /\ SlotsAreOwned /\ [Next]_vars => SlotsAreOwned'
    BY SlotsStep DEF OpenInv
  <1>3. IInv /\ OpenInv /\ SlotsAreOwned => PeersAreAccountedFor
    <2> SUFFICES ASSUME IInv, OpenInv, SlotsAreOwned,
                        NEW s \in (peers \cap Sessions) \ lost,
                        \A r \in terminating : r.sid # s
                 PROVE  \/ \E c \in Cameras : sigSession[c] = s
                        \/ \E h \in Streams : handler[h].pc = "offering" /\ handler[h].sid = s
      BY DEF PeersAreAccountedFor
    <2>1. Held(s) /\ opener[s] \in Streams
      BY DEF Held, OpenInv, SessionsAreOpened
    <2>2. handler[opener[s]].cam \in Cameras
      BY <2>1, Domains DEF OpenInv
    <2> QED
      BY <2>1, <2>2 DEF SlotsAreOwned
  <1>4. Spec => []IInv
    BY InitTyped, Inductive, PTL DEF Spec
  <1> QED
    BY <1>1, <1>2, <1>3, <1>4, OpenInvHolds, PTL DEF Spec

-----------------------------------------------------------------------------
(* The watchdog, for any cameras and calls *)

\* A session is that of the offer its stream's handler has sent.
OpenersHaveOffered ==
  \A s \in Sessions : opener[s] \in Streams =>
    \/ handler[opener[s]].pc = "done"
    \/ handler[opener[s]].pc = "offering" /\ handler[opener[s]].sid = s

\* No stream has two sessions.
OneSessionEach ==
  \A s, t \in Sessions : opener[s] \in Streams /\ opener[s] = opener[t] => s = t

\* The camera has not ended the session it serves for its stream.
ServedIsNotEnded(c) ==
  \A s \in Sessions : sigSession[c] = s /\ haSession[c] = opener[s] => ~Ended(c, s)

\* A session beside a stream that is about to get its own came with an answer,
\* unless it was left there for a call.
StrangersAreReady(c) ==
  \A h \in Streams :
    /\ haSession[c] = h
    /\ handler[h].pc \in {"releasing", "offering"}
    /\ sigSession[c] # NoSession
    => sessionReady[c] \/ beside[c]

\* Only a stream that has a session can have heard its answer.
HeardHasSession(c) ==
  heard[c] => haSession[c] \in Streams /\ \E s \in Sessions : opener[s] = haSession[c]

\* The answer to the stream's offer was delivered, before or after its ack.
IsAnswered(c, s) ==
  /\ heard[c] /\ ~beside[c]
  /\ haSession[c] = opener[s]
  /\ \/ handler[opener[s]].pc = "offering" /\ handler[opener[s]].sid = s
     \/ sigSession[c] = s

AnsweredIsReady(c) == \A s \in Sessions : IsAnswered(c, s) => sessionReady[c]

Ready(c) ==
  /\ haSession[c] \in Streams => handler[haSession[c]].cam = c
  /\ ServedIsNotEnded(c)
  /\ StrangersAreReady(c)
  /\ HeardHasSession(c)
  /\ AnsweredIsReady(c)

ReadyInv == OpenersHaveOffered /\ OneSessionEach /\ \A c \in Cameras : Ready(c)

\* A step leaves a camera ready that it does not touch.
LEMMA UntouchedStaysReady ==
  ASSUME NEW c \in Cameras, Ready(c),
         haSession'[c] = haSession[c], sigSession'[c] = sigSession[c],
         sessionReady'[c] = sessionReady[c], endedSessions'[c] = endedSessions[c],
         opener' = opener, heard'[c] = heard[c], beside'[c] = beside[c],
         \A g \in Streams : handler[g].cam = c => handler'[g] = handler[g]
  PROVE  Ready(c)'
  <1>1. haSession[c] \in Streams => handler'[haSession[c]] = handler[haSession[c]]
    BY DEF Ready
  <1>2. (haSession[c] \in Streams => handler[haSession[c]].cam = c)'
    BY <1>1 DEF Ready
  <1>3. ServedIsNotEnded(c)'
    BY DEF Ready, ServedIsNotEnded, Ended
  <1>4. StrangersAreReady(c)'
    BY <1>1 DEF Ready, StrangersAreReady
  <1>5. HeardHasSession(c)'
    BY DEF Ready, HeardHasSession
  <1>6. AnsweredIsReady(c)'
    BY <1>1, <1>5 DEF Ready, HeardHasSession, AnsweredIsReady, IsAnswered
  <1> QED
    BY <1>2, <1>3, <1>4, <1>5, <1>6 DEF Ready

\* Only h and its camera change, and no session is opened.
Acts(h) ==
  LET c == handler[h].cam IN
  /\ \A d \in Cameras \ {c} :
       /\ haSession'[d] = haSession[d] /\ sigSession'[d] = sigSession[d]
       /\ sessionReady'[d] = sessionReady[d] /\ endedSessions'[d] = endedSessions[d]
       /\ heard'[d] = heard[d] /\ beside'[d] = beside[d]
  /\ \A g \in Streams \ {h} : handler'[g] = handler[g]
  /\ handler'[h].cam = c
  /\ UNCHANGED opener

LEMMA HandlerActs ==
  ASSUME TypeOK, NEW h \in Streams, Handle(h) \/ OfferFails(h) \/ Offer(h) \/ Close(h)
  PROVE  Acts(h)
  <1> DEFINE c == handler[h].cam
  <1>1. c \in Cameras
    BY Domains
  <1>2. UNCHANGED opener
    BY DEF Handle, Superseded, AnswerCall, SendOffer, ReleaseStaleSession,
           StaleSessionReleased, AckTooLate, Acked, CallAnswered, OfferFails, Offer, Close,
           deviceVars, channelVars
  <1>3. UNCHANGED handler \/ \E pc, sid : Goto(h, pc, sid)
    <2>1. Offer(h) => \E pc, sid : Goto(h, pc, sid)
      BY DEF Offer
    <2>2. Close(h) => UNCHANGED handler
      BY DEF Close
    <2>3. OfferFails(h) => \E pc, sid : Goto(h, pc, sid)
      BY DEF OfferFails
    <2>4. Superseded(h) \/ AnswerCall(h) \/ SendOffer(h) => \E pc, sid : Goto(h, pc, sid)
      BY DEF Superseded, AnswerCall, SendOffer
    <2>5. ReleaseStaleSession(h) \/ StaleSessionReleased(h) => \E pc, sid : Goto(h, pc, sid)
      BY DEF ReleaseStaleSession, StaleSessionReleased
    <2>6. AckTooLate(h) \/ Acked(h) \/ CallAnswered(h) => \E pc, sid : Goto(h, pc, sid)
      BY DEF AckTooLate, Acked, CallAnswered
    <2> QED
      BY <2>1, <2>2, <2>3, <2>4, <2>5, <2>6 DEF Handle
  <1>4. /\ \A g \in Streams \ {h} : handler'[g] = handler[g]
        /\ handler'[h].cam = c
    BY <1>3 DEF Goto, TypeOK, Handler
  <1>5. \A d \in Cameras \ {c} : haSession'[d] = haSession[d]
    BY DEF Handle, Superseded, AnswerCall, SendOffer, ReleaseStaleSession,
           StaleSessionReleased, AckTooLate, Acked, CallAnswered, OfferFails, Offer, Close,
           cameraVars, TypeOK
  <1>6. \A d \in Cameras \ {c} : sigSession'[d] = sigSession[d]
    BY DEF Handle, Superseded, AnswerCall, SendOffer, ReleaseStaleSession,
           StaleSessionReleased, AckTooLate, Acked, CallAnswered, OfferFails, Offer, Close,
           cameraVars, TypeOK
  <1>7. \A d \in Cameras \ {c} : sessionReady'[d] = sessionReady[d]
    BY DEF Handle, Superseded, AnswerCall, SendOffer, ReleaseStaleSession,
           StaleSessionReleased, AckTooLate, Acked, CallAnswered, OfferFails, Offer, Close,
           cameraVars, TypeOK
  <1>8. \A d \in Cameras \ {c} : endedSessions'[d] = endedSessions[d]
    BY DEF Handle, Superseded, AnswerCall, SendOffer, ReleaseStaleSession,
           StaleSessionReleased, AckTooLate, Acked, CallAnswered, OfferFails, Offer, Close,
           StartTerminate, cameraVars, TypeOK
  <1>9. \A d \in Cameras \ {c} : heard'[d] = heard[d]
    BY DEF Handle, Superseded, AnswerCall, SendOffer, ReleaseStaleSession,
           StaleSessionReleased, AckTooLate, Acked, CallAnswered, OfferFails, Offer, Close,
           TypeOK
  <1>10. \A d \in Cameras \ {c} : beside'[d] = beside[d]
    BY DEF Handle, Superseded, AnswerCall, SendOffer, ReleaseStaleSession,
           StaleSessionReleased, AckTooLate, Acked, CallAnswered, OfferFails, Offer, Close,
           TypeOK
  <1> QED
    BY <1>2, <1>4, <1>5, <1>6, <1>7, <1>8, <1>9, <1>10 DEF Acts

\* It remains to look at the camera of h and at its openers.
LEMMA ActingKeepsReady ==
  ASSUME ReadyInv, NEW h \in Streams, Acts(h),
         \A s \in Sessions : opener[s] = h =>
           \/ handler'[h].pc = "done"
           \/ handler'[h].pc = "offering" /\ handler'[h].sid = s,
         NEW c \in Cameras, c = handler[h].cam, Ready(c)'
  PROVE  ReadyInv'
  <1>1. OpenersHaveOffered' /\ OneSessionEach'
    BY DEF Acts, ReadyInv, OpenersHaveOffered, OneSessionEach
  <1>2. ASSUME NEW d \in Cameras \ {c} PROVE Ready(d)'
    <2>1. \A g \in Streams : handler[g].cam = d => handler'[g] = handler[g]
      BY DEF Acts
    <2>2. opener' = opener /\ Ready(d)
      BY DEF Acts, ReadyInv
    <2>3. /\ haSession'[d] = haSession[d] /\ sigSession'[d] = sigSession[d]
          /\ sessionReady'[d] = sessionReady[d] /\ endedSessions'[d] = endedSessions[d]
          /\ heard'[d] = heard[d] /\ beside'[d] = beside[d]
      BY DEF Acts
    <2> QED
      BY <2>1, <2>2, <2>3, UntouchedStaysReady
  <1> QED
    BY <1>1, <1>2 DEF ReadyInv

LEMMA HandlerKeepsReady ==
  ASSUME IInv, OpenInv, ReadyInv, NEW h \in Streams,
         Handle(h) \/ OfferFails(h) \/ Offer(h) \/ Close(h)
  PROVE  ReadyInv'
  <1> DEFINE s == handler[h].sid
  <1> TypeOK /\ SidsOK /\ SessionsAreOpened /\ OfferedIsNotEnded
    BY DEF IInv, OpenInv
  <1>0. PICK c \in Cameras : c = handler[h].cam
    BY Domains
  <1>a. Acts(h)
    BY HandlerActs
  <1>b. /\ c = handler[h].cam /\ handler'[h].cam = c
        /\ \A g \in Streams \ {h} : handler'[g] = handler[g]
        /\ opener' = opener
    BY <1>0, <1>a DEF Acts
  <1>c. Ready(c) /\ OpenersHaveOffered
    BY <1>b DEF ReadyInv
  <1>1. CASE Superseded(h) \/ StaleSessionReleased(h) \/ OfferFails(h) \/ AnswerCall(h)
    <2>1. /\ UNCHANGED <<haSession, sigSession, sessionReady, endedSessions, heard, beside>>
          /\ \E pc \in {"done", "answering", "offering"}, sid \in Sids :
               /\ Goto(h, pc, sid)
               /\ pc = "offering" => sid = NoSession /\ handler[h].pc = "releasing"
               /\ pc = "answering" => handler[h].pc = "connecting"
      BY <1>1, Domains
         DEF Superseded, Connected, StaleSessionReleased, OfferFails, AnswerCall,
             CallToAnswer, TypeOK, NoCall, cameraVars, Sids
    <2>2. /\ handler'[h].pc \in {"done", "answering", "offering"}
          /\ handler'[h].pc = "offering" =>
               handler'[h].sid = NoSession /\ handler[h].pc = "releasing"
          /\ handler'[h].pc = "answering" => handler[h].pc = "connecting"
      BY <2>1 DEF Goto, TypeOK, Handler
    <2>3. (haSession[c] \in Streams => handler[haSession[c]].cam = c)'
      BY <1>b, <1>c, <2>1 DEF Ready
    <2>4. ServedIsNotEnded(c)'
      BY <1>b, <1>c, <2>1 DEF Ready, ServedIsNotEnded, Ended
    <2>5. StrangersAreReady(c)'
      BY <1>b, <1>c, <2>1, <2>2 DEF Ready, StrangersAreReady
    <2>6. HeardHasSession(c)'
      BY <1>b, <1>c, <2>1 DEF Ready, HeardHasSession
    <2>7. AnsweredIsReady(c)'
      <3> SUFFICES ASSUME NEW t \in Sessions, IsAnswered(c, t)' PROVE IsAnswered(c, t)
        BY <1>c, <2>1 DEF Ready, AnsweredIsReady
      <3>1. opener[t] \in Streams
        BY <1>b, <1>c, <2>1 DEF IsAnswered, Ready, HeardHasSession
      <3> QED
        BY <1>b, <2>1, <2>2, <3>1, SentinelsAreDistinct DEF IsAnswered
    <2>8. \A t \in Sessions : opener[t] = h => handler'[h].pc = "done"
      BY <1>c, <2>2 DEF OpenersHaveOffered
    <2> QED
      BY <1>a, <1>b, <2>3, <2>4, <2>5, <2>6, <2>7, <2>8, ActingKeepsReady DEF Ready
  <1>2. CASE SendOffer(h)
    <2>1. /\ UNCHANGED <<haSession, sigSession, sessionReady, endedSessions, heard>>
          /\ haSession[c] = h
          /\ Goto(h, "offering", NoSession)
          /\ handler[h].pc = "connecting"
      BY <1>b, <1>2 DEF SendOffer, Connected, cameraVars
    <2>2. sigSession[c] # NoSession => beside'[c]
      BY <1>b, <1>2 DEF SendOffer, TypeOK
    <2>3. \A t \in Sessions : opener[t] # h
      BY <1>c, <2>1 DEF OpenersHaveOffered
    <2>4. (haSession[c] \in Streams => handler[haSession[c]].cam = c)'
      BY <1>b, <2>1
    <2>5. ServedIsNotEnded(c)'
      BY <1>b, <1>c, <2>1 DEF Ready, ServedIsNotEnded, Ended
    <2>6. StrangersAreReady(c)'
      BY <2>1, <2>2 DEF StrangersAreReady
    <2>7. HeardHasSession(c)'
      BY <1>b, <1>c, <2>1 DEF Ready, HeardHasSession
    <2>8. AnsweredIsReady(c)'
      BY <1>b, <2>1, <2>3 DEF AnsweredIsReady, IsAnswered
    <2> QED
      BY <1>a, <1>b, <2>3, <2>4, <2>5, <2>6, <2>7, <2>8, ActingKeepsReady DEF Ready
  <1>3. CASE ReleaseStaleSession(h)
    <2>1. /\ UNCHANGED <<haSession, heard>> /\ haSession[c] = h
          /\ Goto(h, "releasing", sigSession[c])
          /\ handler[h].pc = "connecting"
          /\ sigSession'[c] = NoSession
      BY <1>b, <1>3 DEF ReleaseStaleSession, Connected, TypeOK
    <2>2. \A t \in Sessions : opener[t] # h
      BY <1>c, <2>1 DEF OpenersHaveOffered
    <2>3. ~heard'[c]
      BY <1>c, <2>1, <2>2 DEF Ready, HeardHasSession
    <2>4. Ready(c)'
      BY <1>b, <2>1, <2>3, SentinelsAreDistinct
         DEF Ready, ServedIsNotEnded, StrangersAreReady, HeardHasSession, AnsweredIsReady,
             IsAnswered
    <2> QED
      BY <1>a, <1>b, <2>2, <2>4, ActingKeepsReady
  <1>4. CASE AckTooLate(h)
    <2>1. /\ UNCHANGED <<haSession, sigSession, sessionReady, heard, beside>>
          /\ Goto(h, "done", NoSession)
          /\ haSession[c] # h
          /\ s \in Sessions /\ opener[s] = h
      BY <1>b, <1>4 DEF AckTooLate, SidsOK, SessionsAreOpened
    <2>2. handler'[h].pc = "done"
      BY <2>1 DEF Goto, TypeOK, Handler
    <2>3. \A t \in Sessions : Ended(c, t)' => Ended(c, t) \/ t = s
      BY <1>b, <1>4, <2>1, TerminateAdds DEF AckTooLate
    <2>4. ServedIsNotEnded(c)'
      BY <1>b, <1>c, <2>1, <2>3 DEF Ready, ServedIsNotEnded
    <2>5. StrangersAreReady(c)'
      BY <1>b, <1>c, <2>1, <2>2 DEF Ready, StrangersAreReady
    <2>6. HeardHasSession(c)'
      BY <1>b, <1>c, <2>1 DEF Ready, HeardHasSession
    <2>7. AnsweredIsReady(c)'
      <3> SUFFICES ASSUME NEW t \in Sessions, IsAnswered(c, t)' PROVE IsAnswered(c, t)
        BY <1>c, <2>1 DEF Ready, AnsweredIsReady
      <3>1. opener[t] \in Streams
        BY <1>b, <1>c, <2>1 DEF IsAnswered, Ready, HeardHasSession
      <3> QED
        BY <1>b, <2>1, <2>2, <3>1 DEF IsAnswered
    <2>8. Ready(c)'
      BY <1>b, <1>c, <2>1, <2>4, <2>5, <2>6, <2>7 DEF Ready
    <2> QED
      BY <1>a, <1>b, <2>2, <2>8, ActingKeepsReady
  <1>5. CASE Acked(h)
    <2>1. /\ UNCHANGED <<haSession, sessionReady, endedSessions, heard, beside>>
          /\ Goto(h, "done", NoSession)
          /\ handler[h].pc = "offering"
          /\ haSession[c] = h
          /\ s \in Sessions /\ opener[s] = h
          /\ sigSession'[c] = s
      BY <1>b, <1>5 DEF Acked, SidsOK, SessionsAreOpened, TypeOK
    <2>2. handler'[h].pc = "done"
      BY <2>1 DEF Goto, TypeOK, Handler
    <2>3. ~Ended(c, s)
      BY <1>b, <2>1 DEF OfferedIsNotEnded
    <2>4. ServedIsNotEnded(c)'
      BY <1>b, <2>1, <2>3 DEF ServedIsNotEnded, Ended
    <2>5. StrangersAreReady(c)'
      BY <1>b, <2>1, <2>2 DEF StrangersAreReady
    <2>6. HeardHasSession(c)'
      BY <1>b, <1>c, <2>1 DEF Ready, HeardHasSession
    <2>7. AnsweredIsReady(c)'
      BY <1>b, <1>c, <2>1, <2>2 DEF Ready, AnsweredIsReady, IsAnswered
    <2>8. Ready(c)'
      BY <1>b, <1>c, <2>1, <2>4, <2>5, <2>6, <2>7 DEF Ready
    <2> QED
      BY <1>a, <1>b, <2>2, <2>8, ActingKeepsReady
  <1>6. CASE CallAnswered(h)
    <2>1. /\ UNCHANGED <<haSession, heard>>
          /\ Goto(h, "done", NoSession)
          /\ s \in Calls /\ sigSession'[c] = s /\ sessionReady'[c]
      BY <1>b, <1>6 DEF CallAnswered, SidsOK, TypeOK
    <2>2. handler'[h].pc = "done"
      BY <2>1 DEF Goto, TypeOK, Handler
    <2>3. Ready(c)'
      BY <1>b, <1>c, <2>1, SentinelsAreDistinct
         DEF Ready, ServedIsNotEnded, StrangersAreReady, HeardHasSession, AnsweredIsReady
    <2> QED
      BY <1>a, <1>b, <2>2, <2>3, ActingKeepsReady
  <1>7. CASE Offer(h)
    <2>1. /\ haSession'[c] = h
          /\ Goto(h, "connecting", pendingTerminate[c])
          /\ handler[h].pc = "new"
      BY <1>b, <1>7 DEF Offer, TypeOK
    <2>2. ~heard'[c]
      BY <1>b, <1>7 DEF Offer, TypeOK
    <2>3. handler'[h].pc = "connecting"
      BY <2>1 DEF Goto, TypeOK, Handler
    <2>4. \A t \in Sessions : opener[t] # h
      BY <1>c, <2>1 DEF OpenersHaveOffered
    <2>5. Ready(c)'
      BY <1>b, <2>1, <2>2, <2>3, <2>4
         DEF Ready, ServedIsNotEnded, StrangersAreReady, HeardHasSession, AnsweredIsReady,
             IsAnswered
    <2> QED
      BY <1>a, <1>b, <2>4, <2>5, ActingKeepsReady
  <1>8. CASE Close(h)
    <2>1. UNCHANGED handler /\ haSession'[c] = NoStream /\ sigSession'[c] = NoSession
      BY <1>b, <1>8 DEF Close, TypeOK
    <2>2. ~heard'[c]
      BY <1>b, <1>8 DEF Close, TypeOK
    <2>3. Ready(c)'
      BY <1>b, <2>1, <2>2, SentinelsAreDistinct
         DEF Ready, ServedIsNotEnded, StrangersAreReady, HeardHasSession, AnsweredIsReady,
             IsAnswered
    <2>4. \A t \in Sessions : opener[t] = h =>
            handler'[h].pc = "done" \/ (handler'[h].pc = "offering" /\ handler'[h].sid = t)
      BY <1>c, <2>1 DEF OpenersHaveOffered
    <2> QED
      BY <1>a, <1>b, <2>3, <2>4, ActingKeepsReady
  <1> QED
    BY <1>1, <1>2, <1>3, <1>4, <1>5, <1>6, <1>7, <1>8 DEF Handle

\* An answer the camera drops as foreign is not the one its stream waits for,
\* unless the stream's camera is ready.
LEMMA CallbackKeepsReady ==
  ASSUME IInv, OpenInv, ReadyInv, NEW s \in Sessions \cup Calls, OnAnswer(s)
  PROVE  ReadyInv'
  <1> TypeOK /\ SidsOK /\ SessionsAreOpened /\ OfferedIsNotEnded
    BY DEF IInv, OpenInv
  <1>0. PICK c \in Cameras : c = handler[callbacks].cam
    BY Domains DEF OnAnswer, TypeOK
  <1>1. /\ s \in Sessions
        /\ callbacks \in Streams /\ c = handler[callbacks].cam
        /\ UNCHANGED <<haSession, endedSessions, handler, opener, beside>>
    BY <1>0 DEF OnAnswer, TypeOK, cameraVars
  <1>2. /\ heard'[c] = (heard[c] \/ (opener[s] = callbacks /\ haSession[c] = callbacks))
        /\ \A d \in Cameras \ {c} : heard'[d] = heard[d]
    BY <1>1 DEF OnAnswer, TypeOK
  <1>3. OpenersHaveOffered' /\ OneSessionEach'
    BY <1>1 DEF ReadyInv, OpenersHaveOffered, OneSessionEach
  <1>4. ASSUME NEW d \in Cameras \ {c} PROVE Ready(d)'
    <2>1. sigSession'[d] = sigSession[d] /\ sessionReady'[d] = sessionReady[d]
      BY <1>1 DEF OnAnswer, cameraVars, TypeOK
    <2>2. Ready(d)
      BY DEF ReadyInv
    <2> QED
      BY <1>1, <1>2, <2>1, <2>2, UntouchedStaysReady
  <1>5. Ready(c)
    BY <1>1 DEF ReadyInv
  <1>6. HeardHasSession(c)'
    BY <1>1, <1>2, <1>5 DEF Ready, HeardHasSession
  <1>7. CASE ~IsForeignSession(c, s)
    <2>1. sigSession'[c] = s /\ sessionReady'[c] /\ ~Ended(c, s)
      BY <1>1, <1>7 DEF OnAnswer, IsForeignSession, TypeOK
    <2>2. Ready(c)'
      BY <1>1, <1>5, <1>6, <2>1
         DEF Ready, ServedIsNotEnded, Ended, StrangersAreReady, AnsweredIsReady
    <2> QED
      BY <1>3, <1>4, <2>2 DEF ReadyInv
  <1>8. CASE IsForeignSession(c, s)
    <2>1. UNCHANGED <<sigSession, sessionReady>>
      BY <1>1, <1>8 DEF OnAnswer, cameraVars
    <2>2. ServedIsNotEnded(c)'
      BY <1>1, <1>5, <2>1 DEF Ready, ServedIsNotEnded, Ended
    <2>3. StrangersAreReady(c)'
      BY <1>1, <1>5, <2>1 DEF Ready, StrangersAreReady
    <2>4. ASSUME ~beside[c], haSession[c] = opener[s], opener[s] \in Streams,
                 \/ handler[opener[s]].pc = "offering" /\ handler[opener[s]].sid = s
                 \/ sigSession[c] = s
          PROVE  sessionReady[c]
      <3>1. handler[opener[s]].cam = c
        BY <1>5, <2>4 DEF Ready
      <3>2. CASE sigSession[c] = s
        BY <1>1, <1>5, <1>8, <2>4, <3>2 DEF IsForeignSession, Ready, ServedIsNotEnded
      <3>3. CASE sigSession[c] # s
        <4>1. ~Ended(c, s)
          BY <1>1, <2>4, <3>1, <3>3 DEF OfferedIsNotEnded
        <4>2. sigSession[c] # NoSession
          BY <1>8, <4>1 DEF IsForeignSession
        <4> QED
          BY <1>5, <2>4, <3>3, <4>2 DEF Ready, StrangersAreReady
      <3> QED
        BY <3>2, <3>3
    <2>5. AnsweredIsReady(c)'
      <3> SUFFICES ASSUME NEW t \in Sessions, IsAnswered(c, t)' PROVE sessionReady[c]
        BY <2>1 DEF AnsweredIsReady
      <3>1. /\ heard'[c] /\ ~beside[c] /\ haSession[c] = opener[t]
            /\ \/ handler[opener[t]].pc = "offering" /\ handler[opener[t]].sid = t
               \/ sigSession[c] = t
        BY <1>1, <2>1 DEF IsAnswered
      <3>2. CASE heard[c]
        BY <1>5, <3>1, <3>2 DEF Ready, AnsweredIsReady, IsAnswered
      <3>3. CASE ~heard[c]
        <4>1. opener[s] = callbacks /\ opener[t] = callbacks
          BY <1>2, <3>1, <3>3
        <4>2. t = s
          BY <1>1, <4>1 DEF ReadyInv, OneSessionEach
        <4> QED
          BY <1>1, <2>4, <3>1, <4>1, <4>2
      <3> QED
        BY <3>2, <3>3
    <2>6. (haSession[c] \in Streams => handler[haSession[c]].cam = c)'
      BY <1>1, <1>5 DEF Ready
    <2>7. Ready(c)'
      BY <1>6, <2>2, <2>3, <2>5, <2>6 DEF Ready
    <2> QED
      BY <1>3, <1>4, <2>7 DEF ReadyInv
  <1> QED
    BY <1>7, <1>8

LEMMA WatchdogKeepsReady ==
  ASSUME TypeOK, ReadyInv, NEW c \in Cameras, WatchdogFires(c)
  PROVE  ReadyInv'
  <1>1. UNCHANGED <<haSession, sessionReady, handler, opener, heard, beside>>
    BY DEF WatchdogFires, AnswerWatchdogReturns, NoAnswer, deviceVars, channelVars
  <1>2. ASSUME NEW d \in Cameras PROVE Ready(d)'
    <2>1. \/ sigSession'[d] = sigSession[d] /\ endedSessions'[d] = endedSessions[d]
          \/ sigSession'[d] = NoSession
      BY DEF WatchdogFires, AnswerWatchdogReturns, NoAnswer, StartTerminate, TypeOK
    <2>2. Ready(d)
      BY DEF ReadyInv
    <2>3. ServedIsNotEnded(d)'
      BY <1>1, <2>1, <2>2, SentinelsAreDistinct DEF Ready, ServedIsNotEnded, Ended
    <2>4. StrangersAreReady(d)'
      BY <1>1, <2>1, <2>2 DEF Ready, StrangersAreReady
    <2>5. HeardHasSession(d)'
      BY <1>1, <2>2 DEF Ready, HeardHasSession
    <2>6. AnsweredIsReady(d)'
      BY <1>1, <2>1, <2>2, SentinelsAreDistinct DEF Ready, AnsweredIsReady, IsAnswered
    <2> QED
      BY <1>1, <2>2, <2>3, <2>4, <2>5, <2>6 DEF Ready
  <1> QED
    BY <1>1, <1>2 DEF ReadyInv, OpenersHaveOffered, OneSessionEach

\* The stream of an offer the device gives a session to has heard no answer.
LEMMA OpeningKeepsReady ==
  ASSUME IInv, OpenInv, ReadyInv, NEW h \in Streams, NEW s \in Sessions,
         DeviceOpens(h, s) \/ DeviceRejects(h, s)
  PROVE  ReadyInv'
  <1> TypeOK /\ SessionsAreOpened
    BY DEF IInv, OpenInv
  <1>1. /\ UNCHANGED <<haSession, sigSession, sessionReady, endedSessions, heard, beside>>
        /\ opener[s] = NoStream /\ handler[h].pc = "offering" /\ handler[h].sid = NoSession
        /\ opener' = [opener EXCEPT ![s] = h]
        /\ Goto(h, "offering", s)
    BY DEF DeviceOpens, DeviceRejects, cameraVars
  <1>2. /\ handler'[h].pc = "offering" /\ handler'[h].sid = s
        /\ \A g \in Streams \ {h} : handler'[g] = handler[g]
        /\ \A g \in Streams : handler'[g].cam = handler[g].cam
        /\ \A g \in Streams : handler'[g].pc = handler[g].pc
        /\ opener'[s] = h
        /\ \A t \in Sessions \ {s} : opener'[t] = opener[t]
    BY <1>1 DEF Goto, TypeOK, Handler
  <1>3. \A t \in Sessions : opener[t] # h
    BY <1>1, SentinelsAreDistinct DEF ReadyInv, OpenersHaveOffered
  <1>4. OpenersHaveOffered'
    BY <1>1, <1>2, <1>3 DEF ReadyInv, OpenersHaveOffered
  <1>5. OneSessionEach'
    BY <1>1, <1>2, <1>3 DEF ReadyInv, OneSessionEach
  <1>6. ASSUME NEW d \in Cameras PROVE Ready(d)'
    <2>1. sigSession[d] # s
      BY <1>1, SentinelsAreDistinct DEF SessionsAreOpened
    <2>2. Ready(d)
      BY DEF ReadyInv
    <2>3. ServedIsNotEnded(d)'
      BY <1>1, <1>2, <2>1, <2>2 DEF Ready, ServedIsNotEnded, Ended
    <2>4. StrangersAreReady(d)'
      BY <1>1, <1>2, <2>2 DEF Ready, StrangersAreReady
    <2>5. heard[d] => haSession[d] # h
      BY <1>3, <2>2 DEF Ready, HeardHasSession
    <2>6. HeardHasSession(d)'
      BY <1>1, <1>2, <2>2, SentinelsAreDistinct DEF Ready, HeardHasSession
    <2>7. AnsweredIsReady(d)'
      <3> SUFFICES ASSUME NEW t \in Sessions, IsAnswered(d, t)' PROVE IsAnswered(d, t)
        BY <1>1, <2>2 DEF Ready, AnsweredIsReady
      <3>1. heard[d] /\ haSession[d] = opener'[t] /\ t # s
        BY <1>1, <1>2, <2>5 DEF IsAnswered
      <3>2. opener[t] \in Streams
        BY <1>2, <2>2, <3>1 DEF Ready, HeardHasSession
      <3> QED
        BY <1>1, <1>2, <1>3, <3>1, <3>2 DEF IsAnswered
    <2> QED
      BY <1>1, <1>2, <2>2, <2>3, <2>4, <2>6, <2>7 DEF Ready
  <1> QED
    BY <1>4, <1>5, <1>6 DEF ReadyInv

LEMMA ElsewhereKeepsReady ==
  ASSUME ReadyInv,
         UNCHANGED <<haSession, sigSession, sessionReady, endedSessions, handler, opener,
                     heard, beside>>
  PROVE  ReadyInv'
  BY DEF ReadyInv, OpenersHaveOffered, OneSessionEach, Ready, ServedIsNotEnded, Ended,
         StrangersAreReady, HeardHasSession, AnsweredIsReady, IsAnswered

LEMMA ReadyStep == IInv /\ OpenInv /\ ReadyInv /\ [Next]_vars => ReadyInv'
  <1> SUFFICES ASSUME IInv, OpenInv, ReadyInv, [Next]_vars PROVE ReadyInv'
    OBVIOUS
  <1> TypeOK /\ SessionsAreOpened
    BY DEF IInv, OpenInv
  <1>1. CASE UNCHANGED vars
    BY <1>1, ElsewhereKeepsReady DEF vars, cameraVars, deviceVars, channelVars
  <1>2. ASSUME Next PROVE ReadyInv'
    <2>1. ASSUME NEW h \in Streams, Browser(h) \/ Handle(h) \/ OfferFails(h) PROVE ReadyInv'
      <3>1. OnCandidate(h) => ReadyInv'
        BY ElsewhereKeepsReady DEF OnCandidate, cameraVars, deviceVars, channelVars
      <3> QED
        BY <2>1, <3>1, HandlerKeepsReady DEF Browser
    <2>2. CASE FlushGoesOn \/ TerminateEnds
      BY <2>2, ElsewhereKeepsReady
         DEF FlushGoesOn, FlushProceeds, FlushFails, TerminateEnds, TerminateSent,
             TerminateFails, cameraVars, deviceVars, channelVars
    <2>3. ASSUME NEW s \in Sessions \cup Calls, OnAnswer(s) \/ OnEvent(s) PROVE ReadyInv'
      <3>1. OnEvent(s) => ReadyInv'
        BY ElsewhereKeepsReady DEF OnEvent
      <3> QED
        BY <2>3, <3>1, CallbackKeepsReady
    <2>4. CASE Device
      <3>1. ASSUME NEW h \in Streams, NEW s \in Sessions,
                   DeviceOpens(h, s) \/ DeviceRejects(h, s)
            PROVE  ReadyInv'
        BY <3>1, OpeningKeepsReady
      <3>2. ASSUME NEW s \in Sessions, DeviceAnswers(s) PROVE ReadyInv'
        BY <3>2, ElsewhereKeepsReady DEF DeviceAnswers, cameraVars
      <3>3. ASSUME NEW s \in Sessions \cup Calls, DeviceDrops(s) PROVE ReadyInv'
        BY <3>3, ElsewhereKeepsReady DEF DeviceDrops, cameraVars
      <3>4. ASSUME NEW call \in Calls, NEW c \in Cameras, CallArrives(call, c) PROVE ReadyInv'
        BY <3>4, ElsewhereKeepsReady DEF CallArrives, cameraVars
      <3>5. CASE CallForgotten
        BY <3>5, ElsewhereKeepsReady DEF CallForgotten, cameraVars, deviceVars, channelVars
      <3> QED
        BY <2>4, <3>1, <3>2, <3>3, <3>4, <3>5 DEF Device
    <2>5. \/ \E h \in Streams : Browser(h) \/ Handle(h) \/ OfferFails(h)
          \/ \E c \in Cameras : WatchdogFires(c)
          \/ FlushGoesOn \/ TerminateEnds \/ Deliver \/ Device
      BY <1>2 DEF Next
    <2> QED
      BY <2>1, <2>2, <2>3, <2>4, <2>5, WatchdogKeepsReady DEF Deliver
  <1> QED
    BY <1>1, <1>2

\* Only the watchdog that finds no answer starts a terminate of its own.
LEMMA OnlyNoAnswerHangsUp ==
  ASSUME TypeOK, Next, NEW r \in terminating' \ terminating, r.by = "watchdog"
  PROVE  \E c \in Cameras :
           NoAnswer(c) /\ r = [sid |-> answerWatchdog[c], cam |-> c, by |-> "watchdog"]
  <1>1. ASSUME NEW h \in Streams PROVE ~Browser(h)
    BY DEF Browser, Offer, Close, OnCandidate
  <1>2. ASSUME NEW h \in Streams PROVE ~OfferFails(h)
    BY DEF OfferFails
  <1>3. ASSUME NEW h \in Streams PROVE ~Handle(h)
    <2>1. ~Superseded(h) /\ ~AnswerCall(h) /\ ~SendOffer(h)
      BY DEF Superseded, AnswerCall, SendOffer
    <2>2. ~ReleaseStaleSession(h) /\ ~AckTooLate(h)
      BY DEF ReleaseStaleSession, AckTooLate, StartTerminate
    <2>3. ~StaleSessionReleased(h) /\ ~Acked(h) /\ ~CallAnswered(h)
      BY DEF StaleSessionReleased, Acked, CallAnswered
    <2> QED
      BY <2>1, <2>2, <2>3 DEF Handle
  <1>4. ~FlushGoesOn /\ ~TerminateEnds
    BY DEF FlushGoesOn, FlushProceeds, FlushFails, TerminateEnds, TerminateSent,
           TerminateFails
  <1>5. ASSUME NEW s \in Sessions \cup Calls PROVE ~OnAnswer(s) /\ ~OnEvent(s)
    BY DEF OnAnswer, OnEvent
  <1>6. ~Device
    BY DEF Device, DeviceOpens, DeviceRejects, DeviceAnswers, DeviceDrops,
           CallArrives, CallForgotten
  <1>7. PICK c \in Cameras : WatchdogFires(c)
    BY <1>1, <1>2, <1>3, <1>4, <1>5, <1>6 DEF Next, Deliver
  <1> QED
    BY <1>7 DEF WatchdogFires, AnswerWatchdogReturns, NoAnswer, StartTerminate

\* For any cameras on the one client and any calls, over every interleaving of
\* answers, acks, closes, offers and failures: _async_answer_watchdog never hangs
\* up the stream its camera serves once _on_answer has been called with the answer
\* to that stream's offer.  Two cases are outside, and the property names both:
\* an answer that went to the callbacks of another offer, and a stream whose offer
\* was sent beside the older session that _release_stale_session leaves to a call.
THEOREM NoAnsweredStreamIsHungUp == Spec => WatchdogSparesAnswers
  <1>1. Init => IInv /\ OpenInv /\ ReadyInv
    <2>1. Init => IInv
      BY InitTyped
    <2>2. Init => OpenInv
      BY OpenInit, <2>1 DEF OpenInv, IInv
    <2>3. Init => ReadyInv
      BY SentinelsAreDistinct
         DEF Init, ReadyInv, OpenersHaveOffered, OneSessionEach, Ready, ServedIsNotEnded, Ended,
             StrangersAreReady, HeardHasSession, AnsweredIsReady, IsAnswered
    <2> QED
      BY <2>1, <2>2, <2>3
  <1>2. IInv /\ OpenInv /\ ReadyInv /\ [Next]_vars => (IInv /\ OpenInv /\ ReadyInv)'
    BY Inductive, OpenStep, ReadyStep DEF OpenInv, IInv
  <1>3. IInv /\ OpenInv /\ ReadyInv /\ [Next]_vars =>
          [\A r \in terminating' \ terminating :
             r.by = "watchdog" /\ heard[r.cam] /\ ~beside[r.cam]
             => haSession[r.cam] # opener[r.sid]]_vars
    <2> SUFFICES ASSUME IInv, OpenInv, ReadyInv, Next,
                        NEW r \in terminating' \ terminating, r.by = "watchdog",
                        heard[r.cam], ~beside[r.cam]
                 PROVE  haSession[r.cam] # opener[r.sid]
      OBVIOUS
    <2> TypeOK
      BY DEF IInv
    <2>1. PICK c \in Cameras :
            NoAnswer(c) /\ r = [sid |-> answerWatchdog[c], cam |-> c, by |-> "watchdog"]
      BY OnlyNoAnswerHangsUp
    <2>2. sigSession[c] = r.sid /\ ~sessionReady[c] /\ r.cam = c
      BY <2>1 DEF NoAnswer
    <2>3. r.sid \in Sessions
      BY <2>1 DEF NoAnswer, TypeOK
    <2>4. ~IsAnswered(c, r.sid)
      BY <2>2, <2>3 DEF ReadyInv, Ready, AnsweredIsReady
    <2> QED
      BY <2>2, <2>4 DEF IsAnswered
  <1> QED
    BY <1>1, <1>2, <1>3, PTL DEF Spec, WatchdogSparesAnswers
=============================================================================
