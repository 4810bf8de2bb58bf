---------------------------- MODULE WebRTCSession ----------------------------
(***************************************************************************)
(* The WebRTC streams of the camera entities (camera.py) over the one      *)
(* SignalingClient they share: offers, answers, closes, the no-answer      *)
(* watchdog and the terminates that give the device its peer slots back.   *)
(*                                                                         *)
(* A handler is split at its awaits.  The device and the signaling client  *)
(* are external: they are modelled from how camera.py uses them.           *)
(***************************************************************************)
EXTENDS Naturals, Sequences, FiniteSets

CONSTANTS
  Cameras,      \* camera entities, one per external unit, and Call Home
  Streams,      \* Home Assistant's WebRTC session ids, one per offer
  Sessions,     \* signaling session ids the device gives to offers
  Calls,        \* signaling session ids of incoming calls
  MaxCandidates, \* bound on the ICE candidates that are buffered
  NoStream,
  NoSession,
  Remembered    \* ENDED_SESSIONS_REMEMBERED

ASSUME RememberedIsPositive == Remembered \in Nat \ {0}

ASSUME CandidatesAreBounded == MaxCandidates \in Nat

ASSUME SentinelsAreDistinct ==
  /\ NoStream \notin Streams
  /\ NoSession \notin Sessions \cup Calls
  /\ Sessions \cap Calls = {}

VARIABLES
  haSession,        \* _ha_session_id: the stream the camera serves
  sigSession,       \* _signaling_session_id: its session on the device
  sessionReady,     \* _session_ready
  endedSessions,    \* _ended_sessions, oldest first
  pendingTerminate, \* the session whose close started _pending_terminate
  answeredCall,     \* _answered_call_session
  answerWatchdog,   \* the session a sleeping _answer_watchdog waits for
  pending,          \* _pending_candidates, as the streams they came from
  flushing,         \* running _flush_pending_candidates and their place
  made,             \* candidates buffered so far
  handler,          \* the offer handler of each stream
  callbacks,        \* the stream whose callbacks the signaling client holds
  terminating,      \* running _terminate calls
  activeCall,       \* coordinator.active_call: a call and its camera
  liveCalls,        \* incoming calls the device is still on
  peers,            \* sessions that hold a peer slot on the device
  opener,           \* the stream whose offer the device gave a session to
  rang,             \* incoming calls so far
  answered,         \* offers the device has answered
  answers,          \* sessions whose answer is on its way
  events,           \* sessions whose error or terminate event is on its way
  lost,             \* sessions whose ack or terminate failed or was cancelled
  heard,            \* the stream the camera serves got its answer in on_answer
  beside            \* its offer was sent while an older session was kept

cameraVars == <<haSession, sigSession, sessionReady, endedSessions,
                pendingTerminate, answeredCall, answerWatchdog>>
iceVars == <<pending, flushing, made>>
channelVars == <<liveCalls, opener, rang, answered, answers, events>>
deviceVars == <<peers, channelVars>>
noted == <<heard, beside>>
vars == <<cameraVars, iceVars, handler, callbacks, terminating, activeCall,
          deviceVars, lost, noted>>

-----------------------------------------------------------------------------
Sids == Sessions \cup Calls \cup {NoSession}
Phases == {"new", "connecting", "answering", "releasing", "offering", "done"}
Reasons == {"close", "release", "superseded", "watchdog"}
Handler == [pc : Phases, cam : Cameras, sid : Sids]
Terminating == [sid : Sessions \cup Calls, cam : Cameras, by : Reasons]
Flush == [cam : Cameras, by : Streams \cup Sessions, at : Nat \ {0}]
NoCall == [sid |-> NoSession]

TypeOK ==
  /\ haSession \in [Cameras -> Streams \cup {NoStream}]
  /\ sigSession \in [Cameras -> Sids]
  /\ sessionReady \in [Cameras -> BOOLEAN]
  /\ endedSessions \in [Cameras -> Seq(Sessions \cup Calls)]
  /\ \A c \in Cameras : Len(endedSessions[c]) <= Remembered
  /\ pendingTerminate \in [Cameras -> Sids]
  /\ answeredCall \in [Cameras -> Calls \cup {NoSession}]
  /\ answerWatchdog \in [Cameras -> Sessions \cup {NoSession}]
  /\ pending \in [Cameras -> Seq(Streams)]
  /\ flushing \subseteq Flush
  /\ made \in 0..MaxCandidates
  /\ handler \in [Streams -> Handler]
  /\ callbacks \in Streams \cup {NoStream}
  /\ terminating \subseteq Terminating
  /\ activeCall \in [sid : Calls, cam : Cameras] \cup {NoCall}
  /\ liveCalls \subseteq Calls
  /\ peers \subseteq Sessions \cup Calls
  /\ opener \in [Sessions -> Streams \cup {NoStream}]
  /\ rang \subseteq Calls
  /\ answered \subseteq Sessions
  /\ answers \subseteq answered
  /\ events \subseteq Sessions \cup Calls
  /\ lost \subseteq Sessions \cup Calls
  /\ heard \in [Cameras -> BOOLEAN]
  /\ beside \in [Cameras -> BOOLEAN]

Init ==
  /\ haSession = [c \in Cameras |-> NoStream]
  /\ sigSession = [c \in Cameras |-> NoSession]
  /\ sessionReady = [c \in Cameras |-> FALSE]
  /\ endedSessions = [c \in Cameras |-> <<>>]
  /\ pendingTerminate = [c \in Cameras |-> NoSession]
  /\ answeredCall = [c \in Cameras |-> NoSession]
  /\ answerWatchdog = [c \in Cameras |-> NoSession]
  /\ pending = [c \in Cameras |-> <<>>]
  /\ flushing = {}
  /\ made = 0
  /\ handler \in {[h \in Streams |-> [pc |-> "new", cam |-> camOf[h],
                                      sid |-> NoSession]] :
                    camOf \in [Streams -> Cameras]}
  /\ callbacks = NoStream
  /\ terminating = {}
  /\ activeCall = NoCall
  /\ liveCalls = {}
  /\ peers = {}
  /\ opener = [s \in Sessions |-> NoStream]
  /\ rang = {}
  /\ answered = {}
  /\ answers = {}
  /\ events = {}
  /\ lost = {}
  /\ heard = [c \in Cameras |-> FALSE]
  /\ beside = [c \in Cameras |-> FALSE]

-----------------------------------------------------------------------------
(* Helpers of the camera *)

\* A mistake: an unbounded history.
RememberAll(seq, s) == Append(seq, s)

\* A bounded deque forgets its oldest element.
Remember(seq, s) ==
  LET longer == Append(seq, s)
  IN  IF Len(longer) > Remembered THEN Tail(longer) ELSE longer

\* _terminate marks the session ended before it sends anything.
StartTerminate(c, s, reason) ==
  /\ endedSessions' = [endedSessions EXCEPT ![c] = Remember(@, s)]
  /\ terminating' = terminating \cup {[sid |-> s, cam |-> c, by |-> reason]}

Ended(c, s) == \E i \in DOMAIN endedSessions[c] : endedSessions[c][i] = s

\* A mistake: the sessions the camera has ended are not looked up.
IsOtherSession(c, s) == sigSession[c] # NoSession /\ s # sigSession[c]

IsForeignSession(c, s) ==
  \/ Ended(c, s)
  \/ sigSession[c] # NoSession /\ s # sigSession[c]

\* The watchdog task of the camera, if it has woken up and is terminating.
WatchdogTerminates(c) == {r \in terminating : r.cam = c /\ r.by = "watchdog"}

\* A mistake: the candidates of the stream before stay in the buffer.
Uncleared(c) == pending

Cleared(c) == [pending EXCEPT ![c] = <<>>]

\* _flush_pending_candidates, to its first await.
StartFlush(c, by) ==
  flushing' = IF pending[c] = <<>> THEN flushing
              ELSE flushing \cup {[cam |-> c, by |-> by, at |-> 1]}

Goto(h, pc, s) ==
  handler' = [handler EXCEPT ![h] = [pc |-> pc, cam |-> @.cam, sid |-> s]]

CallToAnswer(c) ==
  /\ activeCall # NoCall
  /\ activeCall.cam = c
  /\ activeCall.sid # answeredCall[c]

-----------------------------------------------------------------------------
(* async_handle_async_webrtc_offer *)

\* The stream takes the camera over; the handler waits for the terminate of
\* the last close, if it still runs, and for the signaling connection.
Offer(h) ==
  LET c == handler[h].cam IN
  /\ handler[h].pc = "new"
  /\ haSession' = [haSession EXCEPT ![c] = h]
  /\ sessionReady' = [sessionReady EXCEPT ![c] = FALSE]
  /\ pending' = Cleared(c)
  /\ heard' = [heard EXCEPT ![c] = FALSE]
  /\ beside' = [beside EXCEPT ![c] = FALSE]
  /\ Goto(h, "connecting", pendingTerminate[c])
  /\ UNCHANGED <<flushing, made, sigSession, endedSessions, pendingTerminate,
                 answeredCall, answerWatchdog, callbacks, terminating,
                 activeCall, deviceVars, lost>>

\* The terminate this handler waits for has ended, and the client is connected.
Connected(h) ==
  /\ handler[h].pc = "connecting"
  /\ [sid |-> handler[h].sid, cam |-> handler[h].cam, by |-> "close"]
       \notin terminating

Superseded(h) ==
  /\ Connected(h)
  /\ haSession[handler[h].cam] # h
  /\ Goto(h, "done", NoSession)
  /\ UNCHANGED <<iceVars, cameraVars, callbacks, terminating, activeCall,
                 deviceVars, lost, noted>>

AnswerCall(h) ==
  LET c == handler[h].cam IN
  /\ Connected(h)
  /\ haSession[c] = h
  /\ CallToAnswer(c)
  /\ callbacks' = h
  /\ Goto(h, "answering", activeCall.sid)
  /\ UNCHANGED <<iceVars, cameraVars, terminating, activeCall, deviceVars,
                 lost, noted>>

\* _release_stale_session finds nothing to release, or leaves it alone because
\* the device is on a call.
SendOffer(h) ==
  LET c == handler[h].cam IN
  /\ Connected(h)
  /\ haSession[c] = h
  /\ ~CallToAnswer(c)
  /\ activeCall # NoCall \/ sigSession[c] = NoSession
  /\ callbacks' = h
  /\ beside' = [beside EXCEPT ![c] = sigSession[c] # NoSession]
  /\ Goto(h, "offering", NoSession)
  /\ UNCHANGED <<iceVars, cameraVars, terminating, activeCall, deviceVars,
                 lost, heard>>

ReleaseStaleSession(h) ==
  LET c == handler[h].cam IN
  /\ Connected(h)
  /\ haSession[c] = h
  /\ activeCall = NoCall
  /\ sigSession[c] # NoSession
  /\ callbacks' = h
  /\ sigSession' = [sigSession EXCEPT ![c] = NoSession]
  /\ StartTerminate(c, sigSession[c], "release")
  /\ Goto(h, "releasing", sigSession[c])
  /\ UNCHANGED <<iceVars, haSession, sessionReady, pendingTerminate,
                 answeredCall, answerWatchdog, activeCall, deviceVars, lost,
                 noted>>

StaleSessionReleased(h) ==
  /\ handler[h].pc = "releasing"
  /\ [sid |-> handler[h].sid, cam |-> handler[h].cam, by |-> "release"]
       \notin terminating
  /\ Goto(h, "offering", NoSession)
  /\ UNCHANGED <<iceVars, cameraVars, callbacks, terminating, activeCall,
                 deviceVars, lost, noted>>

\* A mistake (issues #58 and #60): the late ack is dropped.
AckDropped(h) ==
  /\ handler[h].pc = "offering"
  /\ handler[h].sid # NoSession
  /\ haSession[handler[h].cam] # h
  /\ Goto(h, "done", NoSession)
  /\ UNCHANGED <<iceVars, cameraVars, callbacks, terminating, activeCall,
                 deviceVars, lost, noted>>

\* The ack of an offer whose stream was closed or replaced meanwhile.
AckTooLate(h) ==
  LET c == handler[h].cam IN
  /\ handler[h].pc = "offering"
  /\ handler[h].sid # NoSession
  /\ haSession[c] # h
  /\ StartTerminate(c, handler[h].sid, "superseded")
  /\ Goto(h, "done", NoSession)
  /\ UNCHANGED <<iceVars, haSession, sigSession, sessionReady,
                 pendingTerminate, answeredCall, answerWatchdog, callbacks,
                 activeCall, deviceVars, lost, noted>>

\* Cancelling the watchdog task while it terminates cancels the terminate too;
\* reached are those whose message had already been sent.
CancelAnswerWatchdog(c, reached) ==
  /\ reached \subseteq {r.sid : r \in WatchdogTerminates(c)}
  /\ peers' = peers \ reached
  /\ lost' = lost \cup ({r.sid : r \in WatchdogTerminates(c)} \ reached)

Acked(h) ==
  LET c == handler[h].cam IN
  /\ handler[h].pc = "offering"
  /\ handler[h].sid # NoSession
  /\ haSession[c] = h
  /\ sigSession' = [sigSession EXCEPT ![c] = handler[h].sid]
  /\ \E reached \in SUBSET Sids : CancelAnswerWatchdog(c, reached)
  /\ terminating' = terminating \ WatchdogTerminates(c)
  /\ answerWatchdog' = [answerWatchdog EXCEPT ![c] = handler[h].sid]
  /\ Goto(h, "done", NoSession)
  /\ UNCHANGED <<iceVars, haSession, sessionReady, endedSessions,
                 pendingTerminate, answeredCall, callbacks, activeCall,
                 channelVars, noted>>

\* Answer mode goes on without looking at _ha_session_id again.
CallAnswered(h) ==
  LET c == handler[h].cam
      call == handler[h].sid
  IN
  /\ handler[h].pc = "answering"
  /\ answeredCall' = [answeredCall EXCEPT ![c] = call]
  /\ sigSession' = [sigSession EXCEPT ![c] = call]
  /\ sessionReady' = [sessionReady EXCEPT ![c] = TRUE]
  /\ peers' = IF call \in liveCalls THEN peers \cup {call} ELSE peers
  /\ StartFlush(c, h)
  /\ Goto(h, "done", NoSession)
  /\ UNCHANGED <<pending, made, haSession, endedSessions, pendingTerminate,
                 answerWatchdog, callbacks, terminating, activeCall,
                 channelVars, lost, noted>>

\* An await of the handler raises, or its task is cancelled.  The camera keeps
\* its state; a release is cancelled with it, and an ack that never came leaves
\* a session nobody knows.
OfferFails(h) ==
  LET c == handler[h].cam
      s == handler[h].sid
      release == terminating \cap {[sid |-> s, cam |-> c, by |-> "release"]}
      unacked == IF handler[h].pc = "offering" THEN {s} \cap Sessions ELSE {}
  IN
  /\ handler[h].pc \notin {"new", "done"}
  /\ IF handler[h].pc = "releasing"
     THEN /\ terminating' = terminating \ release
          /\ lost' = lost \cup {r.sid : r \in release}
     ELSE /\ lost' = lost \cup unacked
          /\ UNCHANGED terminating
  /\ IF handler[h].pc = "answering"
     THEN \E reached \in SUBSET (liveCalls \cap {s}) : peers' = peers \cup reached
     ELSE UNCHANGED peers
  /\ Goto(h, "done", NoSession)
  /\ UNCHANGED <<iceVars, cameraVars, callbacks, activeCall, channelVars,
                 noted>>

-----------------------------------------------------------------------------
(* Callbacks of the signaling client, the watchdog and the close *)

\* The answer of any session goes to the callbacks of the latest offer.
OnAnswer(s) ==
  LET c == handler[callbacks].cam IN
  /\ s \in answers
  /\ callbacks # NoStream
  /\ answers' = answers \ {s}
  /\ heard' = [heard EXCEPT
                 ![c] = @ \/ (opener[s] = callbacks /\ haSession[c] = callbacks)]
  /\ IF IsForeignSession(c, s)
     THEN UNCHANGED <<cameraVars, flushing, terminating, peers, lost>>
     ELSE /\ \E reached \in SUBSET Sids : CancelAnswerWatchdog(c, reached)
          /\ terminating' = terminating \ WatchdogTerminates(c)
          /\ answerWatchdog' = [answerWatchdog EXCEPT ![c] = NoSession]
          /\ sigSession' = [sigSession EXCEPT ![c] = s]
          /\ sessionReady' = [sessionReady EXCEPT ![c] = TRUE]
          /\ StartFlush(c, s)
          /\ UNCHANGED <<haSession, endedSessions, pendingTerminate,
                         answeredCall>>
  /\ UNCHANGED <<pending, made, handler, callbacks, activeCall, liveCalls,
                 opener, rang, answered, events, beside>>

OnEvent(s) ==
  LET c == handler[callbacks].cam IN
  /\ s \in events
  /\ events' = events \ {s}
  /\ IF callbacks = NoStream \/ IsForeignSession(c, s)
     THEN UNCHANGED <<answerWatchdog, terminating, peers, lost>>
     ELSE /\ \E reached \in SUBSET Sids : CancelAnswerWatchdog(c, reached)
          /\ terminating' = terminating \ WatchdogTerminates(c)
          /\ answerWatchdog' = [answerWatchdog EXCEPT ![c] = NoSession]
  /\ UNCHANGED <<iceVars, haSession, sigSession, sessionReady, endedSessions,
                 pendingTerminate, answeredCall, handler, callbacks,
                 activeCall, liveCalls, opener, rang, answered, answers,
                 noted>>

\* The watchdog wakes up: its session was answered or is not the camera's any
\* more.
AnswerWatchdogReturns(c) ==
  /\ answerWatchdog[c] # NoSession
  /\ sessionReady[c] \/ sigSession[c] # answerWatchdog[c]
  /\ answerWatchdog' = [answerWatchdog EXCEPT ![c] = NoSession]
  /\ UNCHANGED <<iceVars, haSession, sigSession, sessionReady, endedSessions,
                 pendingTerminate, answeredCall, handler, callbacks,
                 terminating, activeCall, deviceVars, lost, noted>>

\* A mistake: the watchdog does not look whether the answer came.
NoAnswerUnchecked(c) ==
  /\ answerWatchdog[c] # NoSession
  /\ sigSession[c] = answerWatchdog[c]
  /\ sigSession' = [sigSession EXCEPT ![c] = NoSession]
  /\ StartTerminate(c, answerWatchdog[c], "watchdog")
  /\ answerWatchdog' = [answerWatchdog EXCEPT ![c] = NoSession]
  /\ UNCHANGED <<iceVars, haSession, sessionReady, pendingTerminate,
                 answeredCall, handler, callbacks, activeCall, deviceVars,
                 lost, noted>>

NoAnswer(c) ==
  /\ answerWatchdog[c] # NoSession
  /\ ~sessionReady[c]
  /\ sigSession[c] = answerWatchdog[c]
  /\ sigSession' = [sigSession EXCEPT ![c] = NoSession]
  /\ StartTerminate(c, answerWatchdog[c], "watchdog")
  /\ answerWatchdog' = [answerWatchdog EXCEPT ![c] = NoSession]
  /\ UNCHANGED <<iceVars, haSession, sessionReady, pendingTerminate,
                 answeredCall, handler, callbacks, activeCall, deviceVars,
                 lost, noted>>

\* close_webrtc_session; the close of a superseded stream does nothing.
Close(h) ==
  LET c == handler[h].cam
      s == sigSession[c]
  IN
  /\ handler[h].pc # "new"
  /\ haSession[c] = h
  /\ haSession' = [haSession EXCEPT ![c] = NoStream]
  /\ \E reached \in SUBSET Sids : CancelAnswerWatchdog(c, reached)
  /\ answerWatchdog' = [answerWatchdog EXCEPT ![c] = NoSession]
  /\ sessionReady' = [sessionReady EXCEPT ![c] = FALSE]
  /\ pending' = Cleared(c)
  /\ heard' = [heard EXCEPT ![c] = FALSE]
  /\ sigSession' = [sigSession EXCEPT ![c] = NoSession]
  /\ IF s = NoSession
     THEN /\ terminating' = terminating \ WatchdogTerminates(c)
          /\ UNCHANGED <<endedSessions, pendingTerminate>>
     ELSE /\ terminating' = (terminating \ WatchdogTerminates(c))
                 \cup {[sid |-> s, cam |-> c, by |-> "close"]}
          /\ endedSessions' = [endedSessions EXCEPT ![c] = Remember(@, s)]
          /\ pendingTerminate' = [pendingTerminate EXCEPT ![c] = s]
  /\ UNCHANGED <<flushing, made, answeredCall, handler, callbacks, activeCall,
                 channelVars, beside>>

\* async_on_webrtc_candidate buffers a candidate; one of a stream the camera does
\* not serve is dropped, one of a ready session is sent at once.
OnCandidate(h) ==
  LET c == handler[h].cam IN
  /\ handler[h].pc # "new"
  /\ haSession[c] = h
  /\ ~sessionReady[c] \/ sigSession[c] = NoSession
  /\ made < MaxCandidates
  /\ made' = made + 1
  /\ pending' = [pending EXCEPT ![c] = Append(@, h)]
  /\ UNCHANGED <<cameraVars, flushing, handler, callbacks, terminating,
                 activeCall, deviceVars, lost, noted>>

\* A candidate was sent.  The loop goes by its index over the list as it now
\* is, and the buffer is cleared at its end.
FlushProceeds(f) ==
  /\ IF f.at < Len(pending[f.cam])
     THEN /\ flushing' = (flushing \ {f}) \cup {[f EXCEPT !.at = @ + 1]}
          /\ UNCHANGED pending
     ELSE /\ flushing' = flushing \ {f}
          /\ pending' = Cleared(f.cam)
  /\ UNCHANGED <<cameraVars, made, handler, callbacks, terminating, activeCall,
                 deviceVars, lost, noted>>

\* Sending raises: what was not sent stays in the buffer.
FlushFails(f) ==
  /\ flushing' = flushing \ {f}
  /\ UNCHANGED <<cameraVars, pending, made, handler, callbacks, terminating,
                 activeCall, deviceVars, lost, noted>>

TerminateSent(r) ==
  /\ terminating' = terminating \ {r}
  /\ peers' = peers \ {r.sid}
  /\ UNCHANGED <<iceVars, cameraVars, handler, callbacks, activeCall,
                 channelVars, lost, noted>>

TerminateFails(r) ==
  /\ terminating' = terminating \ {r}
  /\ lost' = lost \cup {r.sid}
  /\ UNCHANGED <<iceVars, cameraVars, handler, callbacks, activeCall,
                 deviceVars, noted>>

-----------------------------------------------------------------------------
(* The device and the coordinator *)

\* The device opens a session for an offer and acknowledges it.
DeviceOpens(h, s) ==
  /\ handler[h].pc = "offering"
  /\ handler[h].sid = NoSession
  /\ opener[s] = NoStream
  /\ opener' = [opener EXCEPT ![s] = h]
  /\ peers' = peers \cup {s}
  /\ Goto(h, "offering", s)
  /\ UNCHANGED <<iceVars, cameraVars, callbacks, terminating, activeCall,
                 liveCalls, rang, answered, answers, events, lost, noted>>

\* "Max number of peers reached": a session id, an error, and no slot.
DeviceRejects(h, s) ==
  /\ handler[h].pc = "offering"
  /\ handler[h].sid = NoSession
  /\ opener[s] = NoStream
  /\ opener' = [opener EXCEPT ![s] = h]
  /\ events' = events \cup {s}
  /\ Goto(h, "offering", s)
  /\ UNCHANGED <<iceVars, cameraVars, callbacks, terminating, activeCall,
                 liveCalls, peers, rang, answered, answers, lost, noted>>

DeviceAnswers(s) ==
  /\ s \in (peers \cap Sessions) \ answered
  /\ answered' = answered \cup {s}
  /\ answers' = answers \cup {s}
  /\ UNCHANGED <<iceVars, cameraVars, handler, callbacks, terminating,
                 activeCall, liveCalls, peers, opener, rang, events, lost,
                 noted>>

\* The device drops a session on its own and says so; a call it is on ends.
DeviceDrops(s) ==
  /\ s \in peers \cup liveCalls
  /\ peers' = peers \ {s}
  /\ liveCalls' = liveCalls \ {s}
  /\ events' = events \cup {s}
  /\ UNCHANGED <<iceVars, cameraVars, handler, callbacks, terminating,
                 activeCall, opener, rang, answered, answers, lost, noted>>

CallArrives(call, c) ==
  /\ call \notin rang
  /\ rang' = rang \cup {call}
  /\ liveCalls' = liveCalls \cup {call}
  /\ activeCall' = [sid |-> call, cam |-> c]
  /\ UNCHANGED <<iceVars, cameraVars, handler, callbacks, terminating, peers,
                 opener, answered, answers, events, lost, noted>>

\* The coordinator clears its active call on a push or on its sensor's
\* timeout, whatever the device and the camera are doing.
CallForgotten ==
  /\ activeCall # NoCall
  /\ activeCall' = NoCall
  /\ UNCHANGED <<iceVars, cameraVars, handler, callbacks, terminating,
                 deviceVars, lost, noted>>

-----------------------------------------------------------------------------
Handle(h) ==
  \/ Superseded(h) \/ AnswerCall(h) \/ SendOffer(h) \/ ReleaseStaleSession(h)
  \/ StaleSessionReleased(h) \/ AckTooLate(h) \/ Acked(h) \/ CallAnswered(h)

WatchdogFires(c) == AnswerWatchdogReturns(c) \/ NoAnswer(c)

Browser(h) == Offer(h) \/ Close(h) \/ OnCandidate(h)

Deliver == \E s \in Sessions \cup Calls : OnAnswer(s) \/ OnEvent(s)

Device ==
  \/ \E h \in Streams, s \in Sessions : DeviceOpens(h, s) \/ DeviceRejects(h, s)
  \/ \E s \in Sessions : DeviceAnswers(s)
  \/ \E s \in Sessions \cup Calls : DeviceDrops(s)
  \/ \E call \in Calls, c \in Cameras : CallArrives(call, c)
  \/ CallForgotten

FlushGoesOn == \E f \in flushing : FlushProceeds(f) \/ FlushFails(f)

TerminateEnds == \E r \in terminating : TerminateSent(r) \/ TerminateFails(r)

Next ==
  \/ \E h \in Streams : Browser(h) \/ Handle(h) \/ OfferFails(h)
  \/ \E c \in Cameras : WatchdogFires(c)
  \/ FlushGoesOn
  \/ TerminateEnds
  \/ Deliver
  \/ Device

\* The event loop runs every task that can go on, and a sleeping watchdog wakes
\* up; a terminate is sent, fails or is cancelled.  Nothing is promised about
\* the device, the network or the browser.
Fairness ==
  /\ \A h \in Streams : WF_vars(Handle(h))
  /\ \A c \in Cameras : WF_vars(WatchdogFires(c))
  /\ WF_vars(TerminateEnds)

Spec == Init /\ [][Next]_vars

FairSpec == Spec /\ Fairness

-----------------------------------------------------------------------------
\* Whatever candidates the buffer holds came from the stream the camera serves:
\* those of a closed or superseded stream are not kept for the next one, not by a
\* flush either that was suspended when the streams changed.  It does not say in
\* which session they are sent.
CandidatesAreOfTheStream ==
  \A c \in Cameras : \A i \in DOMAIN pending[c] : pending[c][i] = haSession[c]

\* No peer slot is forgotten: a live view session the device still holds is the
\* camera's session, or a terminate for it runs, or its ack is about to decide
\* (issues #58 and #60, the "leaked peer" of async_handle_async_webrtc_offer).
PeersAreAccountedFor ==
  \A s \in (peers \cap Sessions) \ lost :
    \/ \E c \in Cameras : sigSession[c] = s
    \/ \E r \in terminating : r.sid = s
    \/ \E h \in Streams : handler[h].pc = "offering" /\ handler[h].sid = s

\* A late answer or ack never brings a session back that the camera has ended:
\* what _is_foreign_session protects, over everything the handlers interleave.
EndedStaysEnded ==
  [][\A c \in Cameras :
       sigSession'[c] \in Sessions /\ sigSession'[c] # sigSession[c]
         => ~Ended(c, sigSession'[c])]_vars

\* _async_answer_watchdog never hangs up the stream the camera serves once the
\* answer to that stream's offer has come to its own on_answer, before the ack or
\* after it, whatever the other cameras on the client and the calls do.  Not so
\* for an offer sent while a call keeps _release_stale_session from releasing the
\* older session: an answer that comes before the ack is dropped as foreign.
WatchdogSparesAnswers ==
  [][\A r \in terminating' \ terminating :
       r.by = "watchdog" /\ heard[r.cam] /\ ~beside[r.cam]
         => haSession[r.cam] # opener[r.sid]]_vars
=============================================================================
