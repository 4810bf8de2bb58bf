---------------------------- MODULE CallTracking ----------------------------
(***************************************************************************)
(* How the integration follows a call: the push handlers of the            *)
(* coordinator (coordinator.py), its per-module call sessions and their    *)
(* watchdogs, the call binary sensor with its turn-off timer               *)
(* (binary_sensor.py) and the reject_call service (__init__.py).           *)
(*                                                                         *)
(* Every asyncio callback runs without interruption up to its next await.  *)
(* A handler is therefore one action when nothing it does after its await  *)
(* touches this state, and two actions when it does (the offer and         *)
(* incoming_call handlers, which wait for the history store first).        *)
(*                                                                         *)
(* The push service is the environment: any push may be delivered at any   *)
(* time, any number of times, in any order, or never.                      *)
(***************************************************************************)
EXTENDS Naturals, FiniteSets

CONSTANTS
  Units,              \* external units, each with a call binary sensor
  Bridge,             \* the bridge, the device_id of every push
  NoModule,           \* a push or a call that names no module
  Sessions,           \* session ids
  NoId,               \* a push without a session id
  Tasks,              \* asyncio tasks that run _handle_websocket_message
  NoCall,             \* Python's None for calls, sessions and handlers
  RetransmitWindow,   \* CALL_RETRANSMIT_WINDOW
  MaxDuration,        \* CALL_SESSION_MAX_DURATION
  ClosedWindow,       \* CLOSED_SESSION_DEDUP_WINDOW
  StatusWindow,       \* STATUS_PUSH_DEDUP_WINDOW
  SensorTimeout,      \* CALL_SENSOR_TIMEOUT
  MaxAwait            \* the longest wait for the history store

ASSUME DurationsArePositive ==
  /\ RetransmitWindow \in Nat \ {0}
  /\ MaxDuration \in Nat \ {0}
  /\ ClosedWindow \in Nat \ {0}
  /\ StatusWindow \in Nat \ {0}
  /\ SensorTimeout \in Nat \ {0}
  /\ MaxAwait \in Nat

\* A handler waits its turn for the FIFO lock of the history, behind one other
\* task at most per task, and then for two downloads of at most 15 s each: far
\* less than the window of one hour.
ASSUME AwaitIsShort == MaxAwait < StatusWindow

ASSUME SentinelsAreDistinct ==
  /\ Bridge \notin Units
  /\ NoModule \notin Units \cup {Bridge}
  /\ NoId \notin Sessions

VARIABLES
  activeCall,   \* _active_call: the call the camera would answer
  activeCalls,  \* _active_calls: key -> open call session
  watchdogs,    \* the running _call_session_watchdog tasks
  closedAge,    \* _closed_sessions: time since each session was closed
  seenAge,      \* _seen_status_pushes: time since each push was first seen
  lastEvent,    \* data[DATA_LAST_EVENT]
  sensorOn,     \* is_on of the unit's call sensor
  turnOff,      \* time left on the unit's turn-off timer
  callEvent,    \* the last bticino_intercom_call event fired for a module
  handler,      \* what each task is waiting for
  rejecting     \* the module captured by a reject_call waiting for its ack

sessionVars == <<activeCalls, watchdogs>>
dedupVars == <<closedAge, seenAge>>
entityVars == <<sensorOn, turnOff, callEvent>>
vars == <<activeCall, sessionVars, dedupVars, lastEvent, entityVars, handler,
          rejecting>>

-----------------------------------------------------------------------------
Sids == Sessions \cup {NoId}
Modules == Units \cup {NoModule}
Keys == Units \cup {Bridge}
StatusTypes == {"incoming_call", "missed_call", "accepted_call"}
EventTypes == StatusTypes \cup {"none", "answered_elsewhere", "terminated"}
NotArmed == SensorTimeout + 1

Call == [sid : Sids, module : Modules]
CallSession == [sid : Sids, idle : Nat, total : Nat]
Watchdog == [key : Keys, sid : Sids, left : 0..RetransmitWindow]
LastEvent == [type : EventTypes, sid : Sids, image : Sids]
Pending == [kind : {"offer", "incoming_call"}, module : Modules, sid : Sids,
            age : 0..MaxAwait]

\* Nor a time, or what Doorbell sees of an open session.
ASSUME NoCallIsNoTime ==
  NoCall \notin Nat \cup [silence : Nat, age : Nat]

ASSUME NoCallIsNoRecord ==
  NoCall \notin Call \cup CallSession \cup Pending \cup Modules

TypeOK ==
  /\ activeCall \in Call \cup {NoCall}
  /\ activeCalls \in [Keys -> CallSession \cup {NoCall}]
  /\ watchdogs \subseteq Watchdog
  /\ closedAge \in [Sessions -> 0..ClosedWindow]
  /\ seenAge \in [StatusTypes \X Sessions -> 0..StatusWindow]
  /\ lastEvent \in LastEvent
  /\ sensorOn \in [Units -> BOOLEAN]
  /\ turnOff \in [Units -> 0..NotArmed]
  /\ callEvent \in [Modules -> {"none", "ring", "end"}]
  /\ handler \in [Tasks -> Pending \cup {NoCall}]
  /\ rejecting \in Modules \cup {NoCall}

Init ==
  /\ activeCall = NoCall
  /\ activeCalls = [k \in Keys |-> NoCall]
  /\ watchdogs = {}
  /\ closedAge = [s \in Sessions |-> ClosedWindow]
  /\ seenAge = [p \in StatusTypes \X Sessions |-> StatusWindow]
  /\ lastEvent = [type |-> "none", sid |-> NoId, image |-> NoId]
  /\ sensorOn = [u \in Units |-> FALSE]
  /\ turnOff = [u \in Units |-> NotArmed]
  /\ callEvent = [m \in Modules |-> "none"]
  /\ handler = [t \in Tasks |-> NoCall]
  /\ rejecting = NoCall

-----------------------------------------------------------------------------
(* Helpers of the coordinator *)

\* A module named by the push, else the one of the active call.
CallingModule(m) ==
  IF m = NoModule /\ activeCall # NoCall THEN activeCall.module ELSE m

\* The bridge's device id stands in for an unknown module.
KeyOf(m) == IF m = NoModule THEN Bridge ELSE m

\* The unit a status push refers to: the active call's, else the only one.
ResolveCallingModule ==
  IF activeCall # NoCall /\ activeCall.module # NoModule
  THEN activeCall.module
  ELSE IF \E u \in Units : Units = {u}
       THEN CHOOSE u \in Units : Units = {u}
       ELSE NoModule

\* A mistake: the watchdog of the closed session goes on.
WatchdogsUncancelled(k) == watchdogs

\* The watchdogs left once the session of key k is closed.
WatchdogsWithout(k) ==
  {w \in watchdogs : ~(/\ w.key = k
                       /\ activeCalls[k] # NoCall
                       /\ w.sid = activeCalls[k].sid)}

EndCallSession(k) ==
  /\ activeCalls' = [activeCalls EXCEPT ![k] = NoCall]
  /\ watchdogs' = WatchdogsWithout(k)

IsSessionRecentlyClosed(s) == s \in Sessions /\ closedAge[s] < ClosedWindow

MarkSessionClosed(s) ==
  closedAge' = [x \in Sessions |-> IF x = s THEN 0 ELSE closedAge[x]]

IsDuplicateStatusPush(type, s) ==
  s \in Sessions /\ seenAge[<<type, s>>] < StatusWindow

\* A mistake: the push is not recorded before its images are downloaded.
RecordNothing(type, s) == UNCHANGED seenAge

RecordStatusPush(type, s) ==
  seenAge' = [p \in StatusTypes \X Sessions |->
                IF p = <<type, s>> THEN 0 ELSE seenAge[p]]

\* A mistake: a True that starts no timer.
DispatchUntimed(state, m) ==
  /\ sensorOn' = [u \in Units |-> IF u = m THEN state ELSE sensorOn[u]]
  /\ turnOff' = [u \in Units |-> IF u = m THEN NotArmed ELSE turnOff[u]]

\* SIGNAL_CALL_RECEIVED reaches the sensor of module m only; a True restarts
\* its turn-off timer, a False cancels it.
DispatchCallReceived(state, m) ==
  /\ sensorOn' = [u \in Units |-> IF u = m THEN state ELSE sensorOn[u]]
  /\ turnOff' = [u \in Units |->
                   IF u # m THEN turnOff[u]
                   ELSE IF state THEN SensorTimeout ELSE NotArmed]

FireCallEvent(type, m) == callEvent' = [callEvent EXCEPT ![m] = type]

-----------------------------------------------------------------------------
(* RTC pushes *)

\* The fields of an offer are stored, for the camera that would answer it,
\* before the retransmission check.
StoreOffer(m, s) == activeCall' = [sid |-> s, module |-> CallingModule(m)]

IsRetransmission(k, s) == activeCalls[k] # NoCall /\ activeCalls[k].sid = s

RetransmittedOffer(t, m, s) ==
  LET key == KeyOf(CallingModule(m)) IN
  /\ handler[t] = NoCall
  /\ IsRetransmission(key, s)
  /\ StoreOffer(m, s)
  /\ activeCalls' = [activeCalls EXCEPT ![key] = [@ EXCEPT !.idle = 0]]
  /\ UNCHANGED <<watchdogs, dedupVars, lastEvent, entityVars, handler,
                 rejecting>>

\* A new session replaces the one of its module and opens with a watchdog;
\* the handler then waits for the history store.
NewOffer(t, m, s) ==
  LET key == KeyOf(CallingModule(m)) IN
  /\ handler[t] = NoCall
  /\ ~IsRetransmission(key, s)
  /\ StoreOffer(m, s)
  /\ activeCalls' = [activeCalls EXCEPT
                       ![key] = [sid |-> s, idle |-> 0, total |-> 0]]
  /\ watchdogs' = WatchdogsWithout(key)
                    \cup {[key |-> key, sid |-> s, left |-> RetransmitWindow]}
  /\ handler' = [handler EXCEPT ![t] = [kind |-> "offer", sid |-> s, age |-> 0,
                                        module |-> CallingModule(m)]]
  /\ UNCHANGED <<dedupVars, lastEvent, entityVars, rejecting>>

\* The rest of the offer handler, after the await: the call is announced.
OfferRecorded(t) ==
  /\ handler[t] # NoCall
  /\ handler[t].kind = "offer"
  /\ DispatchCallReceived(TRUE, handler[t].module)
  /\ FireCallEvent("ring", handler[t].module)
  /\ lastEvent' = [type |-> "incoming_call", sid |-> handler[t].sid,
                   image |-> NoId]
  /\ handler' = [handler EXCEPT ![t] = NoCall]
  /\ UNCHANGED <<activeCall, sessionVars, dedupVars, rejecting>>

\* rescind and terminate name no module: it is the active call's, whatever
\* session the push is about.
EndPush(t, s, type) ==
  LET module == CallingModule(NoModule)
      key == KeyOf(module)
      closing == IF s = NoId /\ activeCalls[key] # NoCall
                 THEN activeCalls[key].sid ELSE s
  IN
  /\ handler[t] = NoCall
  /\ ~IsSessionRecentlyClosed(s)
  /\ EndCallSession(key)
  /\ MarkSessionClosed(closing)
  /\ DispatchCallReceived(FALSE, module)
  /\ FireCallEvent("end", module)
  /\ activeCall' = NoCall
  /\ lastEvent' = [type |-> type, sid |-> s, image |-> NoId]
  /\ UNCHANGED <<seenAge, handler, rejecting>>

Rescind(t, s) == EndPush(t, s, "answered_elsewhere")

Terminate(t, s) == EndPush(t, s, "terminated")

-----------------------------------------------------------------------------
(* Status pushes *)

\* The push is recorded as seen before the handler downloads its images.
IncomingCall(t, s) ==
  /\ handler[t] = NoCall
  /\ ~IsDuplicateStatusPush("incoming_call", s)
  /\ RecordStatusPush("incoming_call", s)
  /\ handler' = [handler EXCEPT ![t] = [kind |-> "incoming_call", sid |-> s,
                                        age |-> 0, module |-> NoModule]]
  /\ UNCHANGED <<activeCall, sessionVars, closedAge, lastEvent, entityVars,
                 rejecting>>

\* After the download: a last event of this type is enriched, whichever call
\* it is about, and the ring is dispatched unless an active call exists now.
IncomingCallRecorded(t) ==
  LET module == ResolveCallingModule
      announcedByOffer == activeCall # NoCall
  IN
  /\ handler[t] # NoCall
  /\ handler[t].kind = "incoming_call"
  /\ lastEvent' = IF lastEvent.type = "incoming_call"
                  THEN [lastEvent EXCEPT !.image = handler[t].sid]
                  ELSE [type |-> "incoming_call", sid |-> handler[t].sid,
                        image |-> handler[t].sid]
  /\ IF module # NoModule
     THEN /\ FireCallEvent("ring", module)
          /\ IF announcedByOffer
             THEN UNCHANGED <<sensorOn, turnOff>>
             ELSE DispatchCallReceived(TRUE, module)
     ELSE UNCHANGED entityVars
  /\ handler' = [handler EXCEPT ![t] = NoCall]
  /\ UNCHANGED <<activeCall, sessionVars, dedupVars, rejecting>>

MissedCall(t, s) ==
  /\ handler[t] = NoCall
  /\ ~IsDuplicateStatusPush("missed_call", s)
  /\ RecordStatusPush("missed_call", s)
  /\ DispatchCallReceived(FALSE, ResolveCallingModule)
  /\ activeCall' = NoCall
  /\ lastEvent' = [type |-> "missed_call", sid |-> s, image |-> NoId]
  /\ UNCHANGED <<sessionVars, closedAge, callEvent, handler,
                 rejecting>>

AcceptedCall(t, s) ==
  /\ handler[t] = NoCall
  /\ ~IsDuplicateStatusPush("accepted_call", s)
  /\ RecordStatusPush("accepted_call", s)
  /\ lastEvent' = [type |-> "accepted_call", sid |-> s, image |-> NoId]
  /\ UNCHANGED <<activeCall, sessionVars, closedAge, entityVars, handler,
                 rejecting>>

-----------------------------------------------------------------------------
(* Timers, watchdogs and the reject_call service *)

\* What the watchdog reads when it wakes: the session its module has now.
MustClose(session) ==
  \/ session.idle >= RetransmitWindow
  \/ session.total >= MaxDuration

\* A mistake: the session is closed and its sensor is left on.
WatchdogEndsUnheard(w) ==
  /\ w.left = 0
  /\ activeCalls[w.key] # NoCall => MustClose(activeCalls[w.key])
  /\ watchdogs' = watchdogs \ {w}
  /\ activeCalls' = [activeCalls EXCEPT ![w.key] = NoCall]
  /\ UNCHANGED <<activeCall, dedupVars, lastEvent, entityVars, handler, rejecting>>

\* The watchdog ends, closing the session if there still is one. It turns the
\* sensor off but neither clears _active_call nor fires a call event.
WatchdogEnds(w) ==
  /\ w.left = 0
  /\ activeCalls[w.key] # NoCall => MustClose(activeCalls[w.key])
  /\ watchdogs' = watchdogs \ {w}
  /\ activeCalls' = [activeCalls EXCEPT ![w.key] = NoCall]
  /\ DispatchCallReceived(FALSE, IF activeCalls[w.key] # NoCall THEN w.key
                                                                ELSE NoModule)
  /\ UNCHANGED <<activeCall, dedupVars, lastEvent, callEvent, handler, rejecting>>

WatchdogSleepsOn(w) ==
  /\ w.left = 0
  /\ activeCalls[w.key] # NoCall
  /\ ~MustClose(activeCalls[w.key])
  /\ watchdogs' = (watchdogs \ {w}) \cup {[w EXCEPT !.left = RetransmitWindow]}
  /\ UNCHANGED <<activeCall, activeCalls, dedupVars, lastEvent, entityVars,
                 handler, rejecting>>

\* _turn_off_callback, which ends the active call whatever its module.
TurnOff(u) ==
  /\ turnOff[u] = 0
  /\ sensorOn' = [sensorOn EXCEPT ![u] = FALSE]
  /\ turnOff' = [turnOff EXCEPT ![u] = NotArmed]
  /\ FireCallEvent("end", u)
  /\ activeCall' = NoCall
  /\ UNCHANGED <<sessionVars, dedupVars, lastEvent, handler,
                 rejecting>>

RejectCall ==
  /\ rejecting = NoCall
  /\ activeCall # NoCall
  /\ rejecting' = activeCall.module
  /\ UNCHANGED <<activeCall, sessionVars, dedupVars, lastEvent, entityVars,
                 handler>>

\* send_terminate returned: the active call of now is dropped, the module
\* named in the end event is the one captured before the wait.
RejectAcknowledged ==
  /\ rejecting # NoCall
  /\ FireCallEvent("end", rejecting)
  /\ activeCall' = NoCall
  /\ rejecting' = NoCall
  /\ UNCHANGED <<sessionVars, dedupVars, lastEvent, sensorOn,
                 turnOff, handler>>

RejectFailed ==
  /\ rejecting # NoCall
  /\ rejecting' = NoCall
  /\ UNCHANGED <<activeCall, sessionVars, dedupVars, lastEvent, entityVars,
                 handler>>

\* A mistake: ages that are never forgotten.
OlderForEver(age, bound) == age + 1

Older(age, bound) == IF age < bound THEN age + 1 ELSE bound

\* Time passes once every callback that is due has run.
Tick ==
  /\ \A w \in watchdogs : w.left > 0
  /\ \A u \in Units : turnOff[u] > 0
  /\ \A t \in Tasks : handler[t] # NoCall => handler[t].age < MaxAwait
  /\ watchdogs' = {[w EXCEPT !.left = @ - 1] : w \in watchdogs}
  /\ activeCalls' = [k \in Keys |->
       IF activeCalls[k] = NoCall THEN NoCall
       ELSE [sid |-> activeCalls[k].sid, idle |-> activeCalls[k].idle + 1,
             total |-> activeCalls[k].total + 1]]
  /\ turnOff' = [u \in Units |-> IF turnOff[u] = NotArmed THEN NotArmed
                                                          ELSE turnOff[u] - 1]
  /\ closedAge' = [s \in Sessions |-> Older(closedAge[s], ClosedWindow)]
  /\ seenAge' = [p \in StatusTypes \X Sessions |->
                   Older(seenAge[p], StatusWindow)]
  /\ handler' = [t \in Tasks |->
       IF handler[t] = NoCall THEN NoCall
       ELSE [handler[t] EXCEPT !.age = @ + 1]]
  /\ UNCHANGED <<activeCall, lastEvent, sensorOn, callEvent, rejecting>>

-----------------------------------------------------------------------------
\* The connection manager gives up the listener that runs a suspended handler:
\* the rest of the handler is skipped, what it has recorded stays.
HandlerCancelled(t) ==
  /\ handler[t] # NoCall
  /\ handler' = [handler EXCEPT ![t] = NoCall]
  /\ UNCHANGED <<activeCall, sessionVars, dedupVars, lastEvent, entityVars,
                 rejecting>>

RtcPush(t, s) ==
  \/ \E m \in Modules : RetransmittedOffer(t, m, s) \/ NewOffer(t, m, s)
  \/ Rescind(t, s)
  \/ Terminate(t, s)

StatusPush(t, s) ==
  \/ IncomingCall(t, s)
  \/ MissedCall(t, s)
  \/ AcceptedCall(t, s)

\* What the push service, its connection and the user do.
Environment ==
  \/ \E t \in Tasks, s \in Sids : RtcPush(t, s) \/ StatusPush(t, s)
  \/ \E t \in Tasks : HandlerCancelled(t)
  \/ RejectCall

Resume(t) == OfferRecorded(t) \/ IncomingCallRecorded(t)

WatchdogWakes == \E w \in watchdogs : WatchdogEnds(w) \/ WatchdogSleepsOn(w)

System ==
  \/ \E t \in Tasks : Resume(t)
  \/ WatchdogWakes
  \/ \E u \in Units : TurnOff(u)
  \/ RejectAcknowledged
  \/ RejectFailed
  \/ Tick

Next == Environment \/ System

\* The event loop runs what is due and time goes on; nothing is assumed of
\* the push service, nor of the answer to a rejection.
Fairness ==
  /\ \A t \in Tasks : WF_vars(Resume(t))
  /\ \A u \in Units : WF_vars(TurnOff(u))
  /\ WF_vars(WatchdogWakes)
  /\ WF_vars(Tick)

Spec == Init /\ [][Next]_vars

FairSpec == Spec /\ Fairness

-----------------------------------------------------------------------------
(* Properties *)

\* Every open call session has exactly one running watchdog, started for that
\* very session, and no watchdog outlives its session: replacing, ending and
\* expiring a session (_end_call_session) never leaks or loses a task.
WatchdogPerSession ==
  /\ \A k \in Keys : activeCalls[k] # NoCall => \E w \in watchdogs : w.key = k
  /\ \A w \in watchdogs : /\ activeCalls[w.key] # NoCall
                          /\ activeCalls[w.key].sid = w.sid
  /\ \A v, w \in watchdogs : v.key = w.key => v = w

\* A call whose offers are no longer retransmitted is closed within two
\* retransmission windows, whenever its last offer fell between two wake-ups
\* of the watchdog.
SilentCallIsClosed ==
  \A k \in Keys :
    activeCalls[k] # NoCall => activeCalls[k].idle < 2 * RetransmitWindow

\* However long its offers are retransmitted, a call session lives less than
\* the maximum duration and one more wake-up of its watchdog.
DurationIsBounded ==
  \A k \in Keys :
    activeCalls[k] # NoCall =>
      activeCalls[k].total < MaxDuration + RetransmitWindow

\* A sensor is on exactly while its turn-off timer is armed: no interleaving
\* of dispatches, timeouts and watchdogs leaves a doorbell ringing for ever,
\* or an old timer to cut the next ring short.
SensorOnIffTimerArmed ==
  \A u \in Units : sensorOn[u] <=> turnOff[u] # NotArmed

\* Two copies of one incoming_call push are never processed at the same time,
\* even though the first is suspended in its download: it is recorded as seen
\* before the wait, and the wait is shorter than the window.
CopiesNeverOverlap ==
  \A t, v \in Tasks :
    /\ handler[t] # NoCall /\ handler[t].kind = "incoming_call"
    /\ handler[v] # NoCall /\ handler[v].kind = "incoming_call"
    /\ handler[t].sid = handler[v].sid /\ handler[t].sid # NoId
    => t = v

\* "Return the active call state, or None if no call is in progress", says the
\* active_call property of the coordinator: the call that the camera answers,
\* that later pushes take for the announced one and that reject_call ends is
\* the call of an open session, whenever no handler is half-way.  The watchdog
\* that closes a silent call leaves it behind.
ActiveCallIsInProgress ==
  activeCall # NoCall /\ (\A t \in Tasks : handler[t] = NoCall) =>
    activeCalls[KeyOf(activeCall.module)] # NoCall

-----------------------------------------------------------------------------
(* What Doorbell promises, of the calls and bells of this module *)

\* An open session, as silent as its last offer is old and as old as its first.
openCalls ==
  [k \in Keys |->
     IF activeCalls[k] = NoCall THEN NoCall
     ELSE [silence |-> activeCalls[k].idle, age |-> activeCalls[k].total]]

\* A sensor that is on, for as long as its timer still runs.
ringingSensors ==
  [u \in Units |-> IF sensorOn[u] THEN turnOff[u] ELSE NoCall]

DoorbellView == INSTANCE Doorbell WITH
  call <- openCalls, bell <- ringingSensors,
  Closed <- NoCall, Silent <- NoCall,
  MaxSilence <- 2 * RetransmitWindow,
  MaxAge <- MaxDuration + RetransmitWindow,
  RingTime <- SensorTimeout

\* The sessions, watchdogs, sensors and timers together implement Doorbell:
\* whatever the pushes, a call only ends together with the ringing of its own
\* sensor, no handler touches another unit's call or sensor, and no call or
\* ring outlives its time.
DoorbellIsImplemented == DoorbellView!Spec

-----------------------------------------------------------------------------
\* No session, watchdog, ringing sensor or suspended handler is left.  The
\* active call is not among them: see ActiveCallIsInProgress.
Quiet ==
  /\ activeCalls = [k \in Keys |-> NoCall]
  /\ watchdogs = {}
  /\ \A u \in Units : ~sensorOn[u]
  /\ \A t \in Tasks : handler[t] = NoCall
=============================================================================
