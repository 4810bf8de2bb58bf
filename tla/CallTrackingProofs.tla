------------------------- MODULE CallTrackingProofs -------------------------
(***************************************************************************)
(* Proofs about CallTracking, for any number of units, sessions and tasks  *)
(* and any durations.                                                      *)
(***************************************************************************)
EXTENDS MCCallTracking, Integers, TLAPS

-----------------------------------------------------------------------------
(* What the helpers return, and the effect they have on types *)

LEMMA CallingModuleType ==
  ASSUME TypeOK, NEW m \in Modules
  PROVE  CallingModule(m) \in Modules /\ KeyOf(CallingModule(m)) \in Keys
  BY DEF TypeOK, CallingModule, KeyOf, Call, Modules, Keys

LEMMA ResolvedModuleType ==
  ASSUME TypeOK PROVE ResolveCallingModule \in Modules
  BY DEF TypeOK, ResolveCallingModule, Call, Modules

LEMMA DispatchType ==
  ASSUME TypeOK, NEW state \in BOOLEAN, NEW m, DispatchCallReceived(state, m)
  PROVE  /\ sensorOn' \in [Units -> BOOLEAN]
         /\ turnOff' \in [Units -> 0..NotArmed]
  BY DurationsArePositive DEF TypeOK, DispatchCallReceived, NotArmed

LEMMA FireType ==
  ASSUME TypeOK, NEW m \in Modules, NEW type \in {"ring", "end"},
         FireCallEvent(type, m)
  PROVE  callEvent' \in [Modules -> {"none", "ring", "end"}]
  BY DEF TypeOK, FireCallEvent

LEMMA SeenType ==
  ASSUME TypeOK, NEW s, NEW type, RecordStatusPush(type, s)
  PROVE  seenAge' \in [StatusTypes \X Sessions -> 0..StatusWindow]
  BY DurationsArePositive DEF TypeOK, RecordStatusPush

LEMMA ClosedType ==
  ASSUME TypeOK, NEW s, MarkSessionClosed(s)
  PROVE  closedAge' \in [Sessions -> 0..ClosedWindow]
  BY DurationsArePositive DEF TypeOK, MarkSessionClosed

LEMMA SuspendedHandler ==
  ASSUME TypeOK, NEW t \in Tasks, handler[t] # NoCall
  PROVE  /\ handler[t].module \in Modules
         /\ handler[t].sid \in Sids
         /\ handler[t].age \in 0..MaxAwait
         /\ handler[t].kind \in {"offer", "incoming_call"}
  BY DEF TypeOK, Pending

LEMMA OpenSession ==
  ASSUME TypeOK, NEW k \in Keys, activeCalls[k] # NoCall
  PROVE  /\ activeCalls[k] \in CallSession
         /\ activeCalls[k].sid \in Sids
         /\ activeCalls[k].idle \in Nat
         /\ activeCalls[k].total \in Nat
  BY DEF TypeOK, CallSession

-----------------------------------------------------------------------------
\* The types of every variable are preserved by every handler, timer and
\* watchdog of the coordinator and the call sensor.
LEMMA TypeStep == TypeOK /\ [Next]_vars => TypeOK'
<1> SUFFICES ASSUME TypeOK, [Next]_vars PROVE TypeOK'
  OBVIOUS
<1> USE DurationsArePositive DEF Sids, Modules, Keys, StatusTypes, EventTypes,
      NotArmed, Call, CallSession, Watchdog, LastEvent, Pending, TypeOK
<1> USE DEF sessionVars, dedupVars, entityVars
<1>1. ASSUME NEW t \in Tasks, NEW m \in Modules, NEW s \in Sids,
             RetransmittedOffer(t, m, s)
      PROVE  TypeOK'
  <2> DEFINE key == KeyOf(CallingModule(m))
  <2>1. key \in Keys /\ CallingModule(m) \in Modules
    BY CallingModuleType DEF Keys, Modules
  <2>2. activeCalls[key] \in CallSession
    BY <1>1, <2>1, OpenSession DEF RetransmittedOffer, IsRetransmission
  <2>3. activeCalls' \in [Keys -> CallSession \cup {NoCall}]
    BY <1>1, <2>1, <2>2 DEF RetransmittedOffer
  <2> QED
    BY <1>1, <2>1, <2>3 DEF RetransmittedOffer, StoreOffer
<1>2. ASSUME NEW t \in Tasks, NEW m \in Modules, NEW s \in Sids,
             NewOffer(t, m, s)
      PROVE  TypeOK'
  <2> DEFINE key == KeyOf(CallingModule(m))
  <2>1. key \in Keys /\ CallingModule(m) \in Modules
    BY CallingModuleType DEF Keys, Modules
  <2>2. watchdogs' \subseteq Watchdog
    BY <1>2, <2>1 DEF NewOffer, WatchdogsWithout
  <2>3. activeCalls' \in [Keys -> CallSession \cup {NoCall}]
    BY <1>2, <2>1 DEF NewOffer
  <2>4. handler' \in [Tasks -> Pending \cup {NoCall}]
    BY <1>2, <2>1 DEF NewOffer
  <2> QED
    BY <1>2, <2>1, <2>2, <2>3, <2>4 DEF NewOffer, StoreOffer
<1>3. ASSUME NEW t \in Tasks, OfferRecorded(t) PROVE TypeOK'
  <2>1. handler[t].module \in Modules /\ handler[t].sid \in Sids
    BY <1>3, SuspendedHandler DEF OfferRecorded
  <2>2. /\ sensorOn' \in [Units -> BOOLEAN]
        /\ turnOff' \in [Units -> 0..NotArmed]
    BY <1>3, DispatchType DEF OfferRecorded
  <2>3. callEvent' \in [Modules -> {"none", "ring", "end"}]
    BY <1>3, <2>1, FireType DEF OfferRecorded
  <2> QED
    BY <1>3, <2>1, <2>2, <2>3 DEF OfferRecorded
<1>4. ASSUME NEW t \in Tasks, NEW s \in Sids,
             NEW type \in {"answered_elsewhere", "terminated"},
             EndPush(t, s, type)
      PROVE  TypeOK'
  <2> DEFINE module == CallingModule(NoModule)
  <2>1. module \in Modules /\ KeyOf(module) \in Keys
    BY CallingModuleType DEF Keys, Modules
  <2>2. /\ sensorOn' \in [Units -> BOOLEAN]
        /\ turnOff' \in [Units -> 0..NotArmed]
    BY <1>4, DispatchType DEF EndPush
  <2>3. callEvent' \in [Modules -> {"none", "ring", "end"}]
    BY <1>4, <2>1, FireType DEF EndPush
  <2>4. closedAge' \in [Sessions -> 0..ClosedWindow]
    BY <1>4, ClosedType DEF EndPush
  <2>5. /\ activeCalls' \in [Keys -> CallSession \cup {NoCall}]
        /\ watchdogs' \subseteq Watchdog
    BY <1>4, <2>1 DEF EndPush, EndCallSession, WatchdogsWithout
  <2> QED
    BY <1>4, <2>2, <2>3, <2>4, <2>5 DEF EndPush
<1>5. ASSUME NEW t \in Tasks, NEW s \in Sids, IncomingCall(t, s) PROVE TypeOK'
  <2>1. handler' \in [Tasks -> Pending \cup {NoCall}]
    BY <1>5 DEF IncomingCall
  <2> QED
    BY <1>5, <2>1, SeenType DEF IncomingCall
<1>6. ASSUME NEW t \in Tasks, IncomingCallRecorded(t) PROVE TypeOK'
  <2>1. handler[t].sid \in Sids
    BY <1>6, SuspendedHandler DEF IncomingCallRecorded
  <2>2. lastEvent' \in LastEvent
    BY <1>6, <2>1 DEF IncomingCallRecorded
  <2>3. /\ sensorOn' \in [Units -> BOOLEAN]
        /\ turnOff' \in [Units -> 0..NotArmed]
    BY <1>6, DispatchType DEF IncomingCallRecorded
  <2>4. callEvent' \in [Modules -> {"none", "ring", "end"}]
    BY <1>6, ResolvedModuleType, FireType DEF IncomingCallRecorded
  <2> QED
    BY <1>6, <2>2, <2>3, <2>4 DEF IncomingCallRecorded
<1>7. ASSUME NEW t \in Tasks, NEW s \in Sids, MissedCall(t, s) PROVE TypeOK'
  <2>1. /\ sensorOn' \in [Units -> BOOLEAN]
        /\ turnOff' \in [Units -> 0..NotArmed]
    BY <1>7, DispatchType DEF MissedCall
  <2> QED
    BY <1>7, <2>1, SeenType DEF MissedCall
<1>8. ASSUME NEW t \in Tasks, NEW s \in Sids, AcceptedCall(t, s) PROVE TypeOK'
  BY <1>8, SeenType DEF AcceptedCall
<1>9. ASSUME NEW w \in watchdogs, WatchdogEnds(w) PROVE TypeOK'
  <2>1. /\ sensorOn' \in [Units -> BOOLEAN]
        /\ turnOff' \in [Units -> 0..NotArmed]
    BY <1>9, DispatchType DEF WatchdogEnds
  <2> QED
    BY <1>9, <2>1 DEF WatchdogEnds
<1>10. ASSUME NEW w \in watchdogs, WatchdogSleepsOn(w) PROVE TypeOK'
  BY <1>10 DEF WatchdogSleepsOn
<1>11. ASSUME NEW u \in Units, TurnOff(u) PROVE TypeOK'
  BY <1>11 DEF TurnOff, FireCallEvent
<1>12. CASE RejectCall
  BY <1>12 DEF RejectCall
<1>13. CASE RejectAcknowledged
  BY <1>13 DEF RejectAcknowledged, FireCallEvent
<1>14. CASE RejectFailed
  BY <1>14 DEF RejectFailed
<1>15. CASE Tick
  <2>1. watchdogs' \subseteq Watchdog
    <3>1. /\ watchdogs' = {[w EXCEPT !.left = @ - 1] : w \in watchdogs}
          /\ \A w \in watchdogs : w.left > 0
      BY <1>15 DEF Tick
    <3> QED
      BY <3>1
  <2>2. activeCalls' \in [Keys -> CallSession \cup {NoCall}]
    <3>1. activeCalls' = [k \in Keys |->
             IF activeCalls[k] = NoCall THEN NoCall
             ELSE [sid |-> activeCalls[k].sid, idle |-> activeCalls[k].idle + 1,
                   total |-> activeCalls[k].total + 1]]
      BY <1>15 DEF Tick
    <3> QED
      BY <3>1
  <2>3. turnOff' \in [Units -> 0..NotArmed]
    <3>1. /\ turnOff' = [u \in Units |->
                IF turnOff[u] = NotArmed THEN NotArmed ELSE turnOff[u] - 1]
          /\ \A u \in Units : turnOff[u] > 0
      BY <1>15 DEF Tick
    <3> QED
      BY <3>1
  <2>4. /\ closedAge' \in [Sessions -> 0..ClosedWindow]
        /\ seenAge' \in [StatusTypes \X Sessions -> 0..StatusWindow]
    <3>1. /\ closedAge' = [s \in Sessions |-> Older(closedAge[s], ClosedWindow)]
          /\ seenAge' = [p \in StatusTypes \X Sessions |->
                           Older(seenAge[p], StatusWindow)]
      BY <1>15 DEF Tick
    <3> QED
      BY <3>1 DEF Older
  <2>5. handler' \in [Tasks -> Pending \cup {NoCall}]
    <3>1. handler' = [t \in Tasks |->
             IF handler[t] = NoCall THEN NoCall
             ELSE [handler[t] EXCEPT !.age = @ + 1]]
      BY <1>15 DEF Tick
    <3>2. ASSUME NEW t \in Tasks, handler[t] # NoCall
          PROVE  [handler[t] EXCEPT !.age = @ + 1] \in Pending
      <4>1. handler[t].age < MaxAwait
        BY <1>15, <3>2 DEF Tick
      <4> QED
        BY <3>2, <4>1
    <3> QED
      BY <3>1, <3>2
  <2> QED
    BY <1>15, <2>1, <2>2, <2>3, <2>4, <2>5 DEF Tick
<1>16. ASSUME NEW t \in Tasks, HandlerCancelled(t) PROVE TypeOK'
  BY <1>16 DEF HandlerCancelled
<1>17. CASE UNCHANGED vars
  BY <1>17 DEF vars
<1> QED
  BY <1>1, <1>2, <1>3, <1>4, <1>5, <1>6, <1>7, <1>8, <1>9, <1>10, <1>11,
     <1>12, <1>13, <1>14, <1>15, <1>16, <1>17
     DEF Next, Environment, System, RtcPush, StatusPush, Resume, WatchdogWakes,
         Rescind, Terminate

\* Which actions disturb which variables: all the others leave them alone.
LEMMA SessionSteps ==
  ASSUME [Next]_vars
  PROVE  \/ UNCHANGED sessionVars
         \/ \E t \in Tasks, m \in Modules, s \in Sids :
              RetransmittedOffer(t, m, s) \/ NewOffer(t, m, s)
         \/ EndCallSession(KeyOf(CallingModule(NoModule)))
         \/ \E w \in watchdogs : WatchdogEnds(w) \/ WatchdogSleepsOn(w)
         \/ Tick
  BY DEF Next, Environment, System, RtcPush, StatusPush, Resume, WatchdogWakes,
         Rescind, Terminate, EndPush, OfferRecorded, IncomingCall,
         IncomingCallRecorded, MissedCall, AcceptedCall, TurnOff, RejectCall,
         RejectAcknowledged, RejectFailed, HandlerCancelled, vars

LEMMA SensorSteps ==
  ASSUME [Next]_vars
  PROVE  \/ UNCHANGED <<sensorOn, turnOff>>
         \/ \E state \in BOOLEAN : \E m : DispatchCallReceived(state, m)
         \/ \E u \in Units : TurnOff(u)
         \/ Tick
  <1>1. ASSUME NEW t \in Tasks, IncomingCallRecorded(t)
        PROVE  \/ UNCHANGED <<sensorOn, turnOff>>
               \/ \E state \in BOOLEAN : \E m : DispatchCallReceived(state, m)
    BY <1>1 DEF IncomingCallRecorded, entityVars
  <1>2. ASSUME NEW w, WatchdogEnds(w)
        PROVE  \E state \in BOOLEAN : \E m : DispatchCallReceived(state, m)
    BY <1>2 DEF WatchdogEnds
  <1>3. ASSUME NEW t, NEW s, NEW type, EndPush(t, s, type)
        PROVE  \E state \in BOOLEAN : \E m : DispatchCallReceived(state, m)
    BY <1>3 DEF EndPush
  <1>4. ASSUME NEW t, OfferRecorded(t)
        PROVE  \E state \in BOOLEAN : \E m : DispatchCallReceived(state, m)
    BY <1>4 DEF OfferRecorded
  <1>5. ASSUME NEW t, NEW s, MissedCall(t, s)
        PROVE  \E state \in BOOLEAN : \E m : DispatchCallReceived(state, m)
    BY <1>5 DEF MissedCall
  <1> QED
    BY <1>1, <1>2, <1>3, <1>4, <1>5
       DEF Next, Environment, System, RtcPush, StatusPush, Resume,
           WatchdogWakes, Rescind, Terminate, RetransmittedOffer, NewOffer,
           IncomingCall, AcceptedCall, WatchdogSleepsOn, RejectCall,
           RejectAcknowledged, RejectFailed, HandlerCancelled, vars, entityVars

-----------------------------------------------------------------------------
\* A sensor is on exactly while its turn-off timer is armed.
LEMMA SensorStep ==
  ASSUME TypeOK, SensorOnIffTimerArmed, [Next]_vars
  PROVE  SensorOnIffTimerArmed'
<1> USE DurationsArePositive DEF SensorOnIffTimerArmed, NotArmed
<1>1. CASE UNCHANGED <<sensorOn, turnOff>>
  BY <1>1
<1>2. ASSUME NEW state \in BOOLEAN, NEW m, DispatchCallReceived(state, m)
      PROVE  SensorOnIffTimerArmed'
  BY <1>2 DEF DispatchCallReceived, TypeOK
<1>3. ASSUME NEW u \in Units, TurnOff(u) PROVE SensorOnIffTimerArmed'
  BY <1>3 DEF TurnOff, TypeOK
<1>4. CASE Tick
  <2>1. /\ turnOff' = [u \in Units |->
              IF turnOff[u] = NotArmed THEN NotArmed ELSE turnOff[u] - 1]
        /\ sensorOn' = sensorOn
        /\ turnOff \in [Units -> 0..NotArmed]
        /\ \A u \in Units : turnOff[u] > 0
    BY <1>4 DEF Tick, TypeOK
  <2> QED
    BY <2>1
<1> QED
  BY <1>1, <1>2, <1>3, <1>4, SensorSteps

-----------------------------------------------------------------------------
\* What bounds a session: the time it has been silent, or open, plus the time
\* to the next wake-up of its watchdog.
SessionClock ==
  \A w \in watchdogs :
    /\ activeCalls[w.key].idle + w.left < 2 * RetransmitWindow
    /\ activeCalls[w.key].total + w.left < MaxDuration + RetransmitWindow

SessionInv == WatchdogPerSession /\ SessionClock

LEMMA SessionStep ==
  ASSUME TypeOK, SessionInv, [Next]_vars
  PROVE  SessionInv'
<1> USE DurationsArePositive, NoCallIsNoRecord
<1> USE DEF SessionInv, WatchdogPerSession, SessionClock
<1>1. CASE UNCHANGED sessionVars
  BY <1>1 DEF sessionVars
<1>2. ASSUME NEW t \in Tasks, NEW m \in Modules, NEW s \in Sids,
             RetransmittedOffer(t, m, s)
      PROVE  SessionInv'
  <2> DEFINE key == KeyOf(CallingModule(m))
  <2>1. /\ key \in Keys
        /\ activeCalls[key] \in CallSession
        /\ activeCalls' = [activeCalls EXCEPT ![key] = [@ EXCEPT !.idle = 0]]
        /\ watchdogs' = watchdogs
    BY <1>2, CallingModuleType, OpenSession
       DEF RetransmittedOffer, IsRetransmission
  <2> QED
    BY <2>1 DEF TypeOK, CallSession, Watchdog
<1>3. ASSUME NEW t \in Tasks, NEW m \in Modules, NEW s \in Sids,
             NewOffer(t, m, s)
      PROVE  SessionInv'
  <2> DEFINE key == KeyOf(CallingModule(m))
             new == [key |-> key, sid |-> s, left |-> RetransmitWindow]
  <2>1. /\ key \in Keys
        /\ activeCalls' = [activeCalls EXCEPT
                             ![key] = [sid |-> s, idle |-> 0, total |-> 0]]
        /\ watchdogs' = WatchdogsWithout(key) \cup {new}
    BY <1>3, CallingModuleType DEF NewOffer
  <2>2. WatchdogsWithout(key) = {w \in watchdogs : w.key # key}
    BY DEF WatchdogsWithout
  <2> DEFINE opened == [sid |-> s, idle |-> 0, total |-> 0]
  <2>3. opened # NoCall
    BY DEF CallSession
  <2>4. /\ activeCalls'[key] = opened
        /\ \A k \in Keys : k # key => activeCalls'[k] = activeCalls[k]
    BY <2>1 DEF TypeOK
  <2>5. \A w \in watchdogs' : \/ w = new
                              \/ w \in watchdogs /\ w.key # key /\ w.key \in Keys
    <3>1. \A w \in watchdogs : w.key \in Keys
      BY DEF TypeOK, Watchdog
    <3>2. watchdogs' = {w \in watchdogs : w.key # key} \cup {new}
      BY <2>1, <2>2
    <3> HIDE DEF new, key
    <3> QED
      BY <3>1, <3>2
  <2>6. new \in watchdogs' /\ new.key = key /\ new.sid = s
          /\ new.left = RetransmitWindow
    BY <2>1
  <2>7. \A w \in watchdogs : w.key # key => w \in watchdogs'
    BY <2>1, <2>2
  <2> HIDE DEF new, key
  <2>8. WatchdogPerSession'
    <3>1. \A k \in Keys : activeCalls'[k] # NoCall =>
                            \E w \in watchdogs' : w.key = k
      BY <2>4, <2>6, <2>7
    <3>2. \A w \in watchdogs' : /\ activeCalls'[w.key] # NoCall
                                /\ activeCalls'[w.key].sid = w.sid
      BY <2>3, <2>4, <2>5, <2>6
    <3>3. \A v, w \in watchdogs' : v.key = w.key => v = w
      BY <2>5, <2>6
    <3> QED
      BY <3>1, <3>2, <3>3
  <2>9. SessionClock'
    BY <2>4, <2>5, <2>6
  <2> QED
    BY <2>8, <2>9
<1>4. CASE EndCallSession(KeyOf(CallingModule(NoModule)))
  <2> DEFINE key == KeyOf(CallingModule(NoModule))
  <2>1. /\ key \in Keys
        /\ activeCalls' = [activeCalls EXCEPT ![key] = NoCall]
        /\ watchdogs' = WatchdogsWithout(key)
    BY <1>4, CallingModuleType DEF EndCallSession, Modules
  <2>2. WatchdogsWithout(key) = {w \in watchdogs : w.key # key}
    BY DEF WatchdogsWithout
  <2> QED
    BY <2>1, <2>2 DEF TypeOK, Watchdog
<1>5. ASSUME NEW w \in watchdogs, WatchdogEnds(w) PROVE SessionInv'
  <2>1. /\ watchdogs' = watchdogs \ {w}
        /\ activeCalls' = [activeCalls EXCEPT ![w.key] = NoCall]
    BY <1>5 DEF WatchdogEnds
  <2> QED
    BY <2>1 DEF TypeOK, Watchdog
<1>6. ASSUME NEW w \in watchdogs, WatchdogSleepsOn(w) PROVE SessionInv'
  <2> DEFINE awake == [w EXCEPT !.left = RetransmitWindow]
  <2>1. /\ watchdogs' = (watchdogs \ {w}) \cup {awake}
        /\ activeCalls' = activeCalls
        /\ activeCalls[w.key].idle < RetransmitWindow
        /\ activeCalls[w.key].total < MaxDuration
    <3>1. /\ w.key \in Keys
          /\ activeCalls[w.key] # NoCall
      BY <1>6 DEF WatchdogSleepsOn, TypeOK, Watchdog
    <3> QED
      BY <1>6, <3>1, OpenSession DEF WatchdogSleepsOn, MustClose
  <2>2. awake.key = w.key /\ awake.sid = w.sid /\ awake.left = RetransmitWindow
    BY DEF TypeOK, Watchdog
  <2>3. w.key \in Keys /\ activeCalls[w.key] \in CallSession
    BY OpenSession DEF TypeOK, Watchdog
  <2>4. \A v \in watchdogs' : v = awake \/ (v \in watchdogs /\ v.key # w.key)
    BY <2>1
  <2>5. \A v \in watchdogs : v.key # w.key => v \in watchdogs'
    BY <2>1
  <2>6. awake \in watchdogs'
    BY <2>1
  <2> HIDE DEF awake
  <2>7. WatchdogPerSession'
    BY <2>1, <2>2, <2>4, <2>5, <2>6
  <2>8. SessionClock'
    <3>1. ASSUME NEW v \in watchdogs'
          PROVE  /\ activeCalls[v.key].idle + v.left < 2 * RetransmitWindow
                 /\ activeCalls[v.key].total + v.left
                      < MaxDuration + RetransmitWindow
      <4>1. CASE v = awake
        BY <4>1, <2>1, <2>2, <2>3 DEF CallSession
      <4>2. CASE v # awake
        BY <4>2, <2>4, <3>1
      <4> QED
        BY <4>1, <4>2
    <3> QED
      BY <2>1, <3>1
  <2> QED
    BY <2>7, <2>8
<1>7. CASE Tick
  <2>1. /\ watchdogs' = {[w EXCEPT !.left = @ - 1] : w \in watchdogs}
        /\ activeCalls' = [k \in Keys |->
             IF activeCalls[k] = NoCall THEN NoCall
             ELSE [sid |-> activeCalls[k].sid, idle |-> activeCalls[k].idle + 1,
                   total |-> activeCalls[k].total + 1]]
    BY <1>7 DEF Tick
  <2> DEFINE older(w) == [w EXCEPT !.left = @ - 1]
  <2>2. \A w \in watchdogs : /\ older(w) \in watchdogs'
                             /\ older(w).key = w.key
                             /\ older(w).sid = w.sid
                             /\ older(w).left = w.left - 1
                             /\ w.key \in Keys /\ w.left \in Int
    BY <2>1 DEF TypeOK, Watchdog
  <2>3. \A v \in watchdogs' : \E w \in watchdogs : v = older(w)
    BY <2>1
  <2>4. \A k \in Keys : activeCalls[k] # NoCall =>
          /\ activeCalls'[k] # NoCall
          /\ activeCalls'[k].sid = activeCalls[k].sid
          /\ activeCalls'[k].idle = activeCalls[k].idle + 1
          /\ activeCalls'[k].total = activeCalls[k].total + 1
          /\ activeCalls[k].idle \in Nat
          /\ activeCalls[k].total \in Nat
    <3> SUFFICES ASSUME NEW k \in Keys, activeCalls[k] # NoCall
                 PROVE  /\ activeCalls'[k] # NoCall
                        /\ activeCalls'[k].sid = activeCalls[k].sid
                        /\ activeCalls'[k].idle = activeCalls[k].idle + 1
                        /\ activeCalls'[k].total = activeCalls[k].total + 1
                        /\ activeCalls[k].idle \in Nat
                        /\ activeCalls[k].total \in Nat
      OBVIOUS
    <3>1. activeCalls'[k] = [sid |-> activeCalls[k].sid,
                             idle |-> activeCalls[k].idle + 1,
                             total |-> activeCalls[k].total + 1]
      BY <2>1
    <3>2. activeCalls'[k] \in CallSession
      BY <3>1, OpenSession DEF CallSession
    <3> QED
      BY <3>1, <3>2, OpenSession
  <2>5. \A k \in Keys : activeCalls[k] = NoCall => activeCalls'[k] = NoCall
    BY <2>1
  <2> HIDE DEF older
  <2>6. WatchdogPerSession'
    <3>1. \A k \in Keys : activeCalls'[k] # NoCall =>
                            \E w \in watchdogs' : w.key = k
      BY <2>2, <2>5
    <3>2. \A w \in watchdogs' : /\ activeCalls'[w.key] # NoCall
                                /\ activeCalls'[w.key].sid = w.sid
      BY <2>2, <2>3, <2>4
    <3>3. \A v, w \in watchdogs' : v.key = w.key => v = w
      BY <2>2, <2>3
    <3> QED
      BY <3>1, <3>2, <3>3
  <2>7. SessionClock'
    <3>1. ASSUME NEW w \in watchdogs
          PROVE  /\ activeCalls'[older(w).key].idle + older(w).left
                      < 2 * RetransmitWindow
                 /\ activeCalls'[older(w).key].total + older(w).left
                      < MaxDuration + RetransmitWindow
      BY <3>1, <2>2, <2>4
    <3> QED
      BY <3>1, <2>3
  <2> QED
    BY <2>6, <2>7
<1> QED
  BY <1>1, <1>2, <1>3, <1>4, <1>5, <1>6, <1>7, SessionSteps

-----------------------------------------------------------------------------
\* A suspended incoming_call handler has been waiting at least as long as its
\* push is remembered, so the push is still in the window.
PendingPushIsSeen ==
  \A t \in Tasks :
    handler[t] # NoCall /\ handler[t].kind = "incoming_call"
                        /\ handler[t].sid \in Sessions
      => seenAge[<<"incoming_call", handler[t].sid>>] <= handler[t].age

CopiesInv == PendingPushIsSeen /\ CopiesNeverOverlap

\* The handlers and the seen pushes: a task starts a wait, ends one, or waits
\* on while pushes of other types are recorded.
LEMMA HandlerSteps ==
  ASSUME TypeOK, [Next]_vars
  PROVE  \/ UNCHANGED <<handler, seenAge>>
         \/ \E t \in Tasks : /\ handler' = [handler EXCEPT ![t] = NoCall]
                             /\ UNCHANGED seenAge
         \/ \E t \in Tasks, m \in Modules, s \in Sids :
              /\ handler' = [handler EXCEPT
                              ![t] = [kind |-> "offer", sid |-> s, age |-> 0,
                                      module |-> CallingModule(m)]]
              /\ UNCHANGED seenAge
         \/ \E t \in Tasks, s \in Sids : IncomingCall(t, s)
         \/ \E type \in {"missed_call", "accepted_call"}, s \in Sids :
              RecordStatusPush(type, s) /\ UNCHANGED handler
         \/ Tick
  <1>1. ASSUME NEW t \in Tasks, NEW s \in Sids, MissedCall(t, s)
        PROVE  RecordStatusPush("missed_call", s) /\ UNCHANGED handler
    BY <1>1 DEF MissedCall
  <1>2. ASSUME NEW t \in Tasks, NEW s \in Sids, AcceptedCall(t, s)
        PROVE  RecordStatusPush("accepted_call", s) /\ UNCHANGED handler
    BY <1>2 DEF AcceptedCall
  <1>3. ASSUME NEW t \in Tasks, Resume(t) \/ HandlerCancelled(t)
        PROVE  handler' = [handler EXCEPT ![t] = NoCall] /\ UNCHANGED seenAge
    BY <1>3 DEF Resume, OfferRecorded, IncomingCallRecorded, HandlerCancelled,
                dedupVars
  <1>4. ASSUME NEW t \in Tasks, NEW m \in Modules, NEW s \in Sids,
               NewOffer(t, m, s)
        PROVE  /\ handler' = [handler EXCEPT
                               ![t] = [kind |-> "offer", sid |-> s, age |-> 0,
                                       module |-> CallingModule(m)]]
               /\ UNCHANGED seenAge
    BY <1>4 DEF NewOffer, dedupVars
  <1>5. ASSUME \/ \E t, m, s : RetransmittedOffer(t, m, s)
               \/ \E t, s, type : EndPush(t, s, type)
               \/ WatchdogWakes
               \/ \E u : TurnOff(u)
               \/ RejectCall \/ RejectAcknowledged \/ RejectFailed
               \/ UNCHANGED vars
        PROVE  UNCHANGED <<handler, seenAge>>
    BY <1>5 DEF RetransmittedOffer, EndPush, WatchdogWakes, WatchdogEnds,
                WatchdogSleepsOn, TurnOff, RejectCall, RejectAcknowledged,
                RejectFailed, vars, dedupVars
  <1> QED
    BY <1>1, <1>2, <1>3, <1>4, <1>5
       DEF Next, Environment, System, RtcPush, StatusPush, Rescind, Terminate

LEMMA CopiesStep ==
  ASSUME TypeOK, CopiesInv, [Next]_vars
  PROVE  CopiesInv'
<1> USE DurationsArePositive, AwaitIsShort, SentinelsAreDistinct
<1> USE DEF CopiesInv, PendingPushIsSeen, CopiesNeverOverlap
<1>1. CASE UNCHANGED <<handler, seenAge>>
  BY <1>1
<1>2. ASSUME NEW t \in Tasks, handler' = [handler EXCEPT ![t] = NoCall],
             UNCHANGED seenAge
      PROVE  CopiesInv'
  BY <1>2 DEF TypeOK
<1>3. ASSUME NEW t \in Tasks, NEW m \in Modules, NEW s \in Sids,
             handler' = [handler EXCEPT
                          ![t] = [kind |-> "offer", sid |-> s, age |-> 0,
                                  module |-> CallingModule(m)]],
             UNCHANGED seenAge
      PROVE  CopiesInv'
  <2> DEFINE offer == [kind |-> "offer", sid |-> s, age |-> 0,
                       module |-> CallingModule(m)]
  <2>1. offer.kind # "incoming_call"
    OBVIOUS
  <2>2. /\ handler'[t] = offer
        /\ \A v \in Tasks : v # t => handler'[v] = handler[v]
    BY <1>3 DEF TypeOK
  <2> HIDE DEF offer
  <2> QED
    BY <1>3, <2>1, <2>2
<1>4. ASSUME NEW t \in Tasks, NEW s \in Sids, IncomingCall(t, s)
      PROVE  CopiesInv'
  <2> DEFINE new == [kind |-> "incoming_call", sid |-> s, age |-> 0,
                     module |-> NoModule]
             push(x) == <<"incoming_call", x>>
  <2>1. /\ new.sid = s
        /\ new.age = 0
    OBVIOUS
  <2>2. /\ handler[t] = NoCall
        /\ handler'[t] = new
        /\ \A v \in Tasks : v # t => handler'[v] = handler[v]
    BY <1>4 DEF IncomingCall, TypeOK
  <2>3. \A x \in Sessions : seenAge'[push(x)] =
                              IF x = s THEN 0 ELSE seenAge[push(x)]
    BY <1>4 DEF IncomingCall, RecordStatusPush, StatusTypes
  <2>4. s \in Sessions => /\ seenAge[push(s)] >= StatusWindow
                          /\ seenAge[push(s)] \in Nat
    BY <1>4 DEF IncomingCall, IsDuplicateStatusPush, TypeOK, StatusTypes
  <2>5. \A v \in Tasks :
          handler[v] # NoCall => /\ handler[v].age \in 0..MaxAwait
                                 /\ handler[v].sid \in Sids
    BY SuspendedHandler
  <2>6. \A v \in Tasks :
          handler[v] # NoCall /\ handler[v].kind = "incoming_call"
                              /\ s \in Sessions
            => handler[v].sid # s
    <3> SUFFICES ASSUME NEW v \in Tasks, handler[v] # NoCall,
                        handler[v].kind = "incoming_call", s \in Sessions,
                        handler[v].sid = s
                 PROVE  FALSE
      OBVIOUS
    <3>1. seenAge[push(s)] <= handler[v].age
      OBVIOUS
    <3> HIDE DEF push
    <3> QED
      BY <3>1, <2>4, <2>5
  <2> HIDE DEF new, push
  <2>7. PendingPushIsSeen'
    BY <2>1, <2>2, <2>3, <2>5, <2>6 DEF push
  <2>8. CopiesNeverOverlap'
    BY <2>1, <2>2, <2>5, <2>6 DEF Sids
  <2> QED
    BY <2>7, <2>8
<1>5. ASSUME NEW type \in {"missed_call", "accepted_call"}, NEW s \in Sids,
             RecordStatusPush(type, s), UNCHANGED handler
      PROVE  CopiesInv'
  <2>1. \A x \in Sessions : seenAge'[<<"incoming_call", x>>]
                              = seenAge[<<"incoming_call", x>>]
    BY <1>5 DEF RecordStatusPush, StatusTypes
  <2> QED
    BY <1>5, <2>1
<1>6. CASE Tick
  <2>1. \A t \in Tasks :
          handler[t] # NoCall =>
            /\ handler'[t].kind = handler[t].kind
            /\ handler'[t].sid = handler[t].sid
            /\ handler'[t].age = handler[t].age + 1
            /\ handler[t].age \in 0..MaxAwait
    <3>1. \A t \in Tasks : handler'[t] =
             IF handler[t] = NoCall THEN NoCall
             ELSE [handler[t] EXCEPT !.age = @ + 1]
      BY <1>6 DEF Tick
    <3> QED
      BY <3>1 DEF TypeOK, Pending
  <2>2. \A t \in Tasks : handler[t] = NoCall => handler'[t] = NoCall
    BY <1>6 DEF Tick
  <2>3. \A x \in Sessions :
          /\ seenAge'[<<"incoming_call", x>>]
               <= seenAge[<<"incoming_call", x>>] + 1
          /\ seenAge[<<"incoming_call", x>>] \in Nat
          /\ seenAge'[<<"incoming_call", x>>] \in Nat
    <3>1. seenAge' = [p \in StatusTypes \X Sessions |->
                       Older(seenAge[p], StatusWindow)]
      BY <1>6 DEF Tick
    <3> QED
      BY <3>1 DEF TypeOK, Older, StatusTypes
  <2>4. PendingPushIsSeen'
    BY <2>1, <2>2, <2>3
  <2>5. CopiesNeverOverlap'
    BY <2>1, <2>2
  <2> QED
    BY <2>4, <2>5
<1> QED
  BY <1>1, <1>2, <1>3, <1>4, <1>5, <1>6, HandlerSteps

-----------------------------------------------------------------------------
\* The inductive invariant.
IInv ==
  /\ TypeOK
  /\ SensorOnIffTimerArmed
  /\ SessionInv
  /\ CopiesInv

LEMMA InitIInv == Init => IInv
<1> SUFFICES ASSUME Init PROVE IInv
  OBVIOUS
<1> USE DurationsArePositive DEF Init
<1>1. TypeOK
  BY DEF TypeOK, Sids, Modules, Keys, EventTypes, LastEvent, NotArmed
<1>2. SensorOnIffTimerArmed
  BY DEF SensorOnIffTimerArmed
<1>3. SessionInv
  BY DEF SessionInv, WatchdogPerSession, SessionClock
<1>4. CopiesInv
  BY DEF CopiesInv, PendingPushIsSeen, CopiesNeverOverlap
<1> QED
  BY <1>1, <1>2, <1>3, <1>4 DEF IInv

THEOREM IInvHolds == Spec => []IInv
<1>1. IInv /\ [Next]_vars => IInv'
  BY TypeStep, SensorStep, SessionStep, CopiesStep DEF IInv
<1> QED
  BY InitIInv, <1>1, PTL DEF Spec

\* Type correctness of the call tracking.
THEOREM TypeCorrectness == Spec => []TypeOK
  BY IInvHolds, PTL DEF IInv

\* Every open session has its own watchdog and no watchdog leaks.
THEOREM WatchdogsMatchSessions == Spec => []WatchdogPerSession
<1>1. IInv => WatchdogPerSession
  BY DEF IInv, SessionInv
<1> QED
  BY IInvHolds, <1>1, PTL

\* A silent call is closed within two retransmission windows, and no call
\* session outlives the maximum duration by a wake-up of its watchdog.
THEOREM CallSessionsAreBounded == Spec => [](SilentCallIsClosed /\ DurationIsBounded)
<1>1. IInv => SilentCallIsClosed /\ DurationIsBounded
  <2> SUFFICES ASSUME IInv, NEW k \in Keys, activeCalls[k] # NoCall
               PROVE  /\ activeCalls[k].idle < 2 * RetransmitWindow
                      /\ activeCalls[k].total < MaxDuration + RetransmitWindow
    BY DEF SilentCallIsClosed, DurationIsBounded
  <2>1. PICK w \in watchdogs : w.key = k
    BY DEF IInv, SessionInv, WatchdogPerSession
  <2>2. /\ activeCalls[k].idle + w.left < 2 * RetransmitWindow
        /\ activeCalls[k].total + w.left < MaxDuration + RetransmitWindow
    BY <2>1 DEF IInv, SessionInv, SessionClock
  <2>3. /\ activeCalls[k].idle \in Nat
        /\ activeCalls[k].total \in Nat
        /\ w.left \in 0..RetransmitWindow
    BY OpenSession DEF IInv, TypeOK, Watchdog
  <2> QED
    BY <2>2, <2>3, DurationsArePositive
<1> QED
  BY IInvHolds, <1>1, PTL

\* A sensor is on exactly while its turn-off timer is armed.
THEOREM SensorsTurnOff == Spec => []SensorOnIffTimerArmed
  BY IInvHolds, PTL DEF IInv

\* Copies of an incoming_call push are never processed at the same time.
THEOREM CopiesAreSerialised == Spec => []CopiesNeverOverlap
<1>1. IInv => CopiesNeverOverlap
  BY DEF IInv, CopiesInv
<1> QED
  BY IInvHolds, <1>1, PTL

-----------------------------------------------------------------------------
(***************************************************************************)
(* CallTracking implements Doorbell, for any number of units, sessions and *)
(* tasks and any durations.                                                *)
(***************************************************************************)
(* What the updates of the coordinator are on the view *)

LEMMA SameView ==
  /\ UNCHANGED activeCalls => UNCHANGED openCalls
  /\ UNCHANGED <<sensorOn, turnOff>> => UNCHANGED ringingSensors
  BY DEF openCalls, ringingSensors

LEMMA ViewsAreFunctions ==
  /\ openCalls = [k \in Keys |-> openCalls[k]]
  /\ ringingSensors = [u \in Units |-> ringingSensors[u]]
  BY DEF openCalls, ringingSensors

LEMMA SessionClosed ==
  ASSUME TypeOK, NEW k \in Keys,
         activeCalls' = [activeCalls EXCEPT ![k] = NoCall]
  PROVE  openCalls' = [openCalls EXCEPT ![k] = NoCall]
  BY DEF TypeOK, openCalls

LEMMA SessionSet ==
  ASSUME TypeOK, NEW k \in Keys, NEW s \in Sids, NEW total \in Nat,
         activeCalls' = [activeCalls EXCEPT
                           ![k] = [sid |-> s, idle |-> 0, total |-> total]]
  PROVE  openCalls' = [openCalls EXCEPT
                         ![k] = [silence |-> 0, age |-> total]]
<1>1. [sid |-> s, idle |-> 0, total |-> total] # NoCall
  BY NoCallIsNoRecord DEF CallSession
<1> QED
  BY <1>1 DEF TypeOK, openCalls

\* A dispatched True starts the bell of its unit, a False silences it.
LEMMA Dispatched ==
  ASSUME NEW m, NEW state \in BOOLEAN, DispatchCallReceived(state, m)
  PROVE  ringingSensors' =
           [u \in Units |-> IF u # m THEN ringingSensors[u]
                            ELSE IF state THEN SensorTimeout ELSE NoCall]
<1>1. \A u \in Units :
        /\ sensorOn'[u] = IF u = m THEN state ELSE sensorOn[u]
        /\ turnOff'[u] = IF u # m THEN turnOff[u]
                         ELSE IF state THEN SensorTimeout ELSE NotArmed
  BY DEF DispatchCallReceived
<1>2. \A u \in Units :
        (IF sensorOn'[u] THEN turnOff'[u] ELSE NoCall)
          = IF u # m THEN ringingSensors[u]
            ELSE IF state THEN SensorTimeout ELSE NoCall
  BY <1>1 DEF ringingSensors
<1> QED
  BY <1>2 DEF ringingSensors

\* What Doorbell's steps are, with the names of CallTracking.
Opens(k) == DoorbellView!Open(k)
Renews(k) == DoorbellView!Renew(k)
Ends(k) == DoorbellView!End(k)
Rings(u) == DoorbellView!Ring(u)
Silences(u) == DoorbellView!Silence(u)

DoorbellStep ==
  \/ \E k \in Keys : Opens(k) \/ Renews(k) \/ Ends(k)
  \/ \E u \in Units : Rings(u) \/ Silences(u)
  \/ DoorbellView!Tick
  \/ UNCHANGED <<openCalls, ringingSensors>>

\* A dispatch of its own is a ring, a silence or nothing.
LEMMA DispatchAlone ==
  ASSUME TypeOK, NEW m \in Modules, NEW state \in BOOLEAN,
         DispatchCallReceived(state, m), UNCHANGED activeCalls
  PROVE  DoorbellStep
<1>1. CASE m \in Units
  <2>1. ringingSensors' =
          [ringingSensors EXCEPT ![m] = IF state THEN SensorTimeout ELSE NoCall]
    <3>1. ringingSensors' =
            [u \in Units |-> IF u # m THEN ringingSensors[u]
                             ELSE IF state THEN SensorTimeout ELSE NoCall]
      BY Dispatched
    <3> QED
      BY <1>1, <3>1, ViewsAreFunctions
  <2>2. CASE state
    BY <1>1, <2>1, <2>2, SameView DEF DoorbellStep, Rings, DoorbellView!Ring
  <2>3. CASE ~state
    BY <1>1, <2>1, <2>3, SameView
       DEF DoorbellStep, Silences, DoorbellView!Silence
  <2> QED
    BY <2>2, <2>3
<1>2. CASE m \notin Units
  <2>1. ringingSensors' = ringingSensors
    BY <1>2, Dispatched DEF ringingSensors
  <2> QED
    BY <2>1, SameView DEF DoorbellStep
<1> QED
  BY <1>1, <1>2

\* A session that is closed with a dispatch to its module ends with its bell.
LEMMA ClosedWithItsBell ==
  ASSUME TypeOK, NEW m \in Modules, NEW k \in Keys,
         m \in Units => k = m,
         m \notin Units => k = Bridge,
         activeCalls' = [activeCalls EXCEPT ![k] = NoCall],
         DispatchCallReceived(FALSE, m)
  PROVE  DoorbellStep
<1>1. \A u \in Units : u = k <=> u = m
  BY SentinelsAreDistinct
<1>2. ringingSensors' =
        [u \in Units |-> IF u = k THEN NoCall ELSE ringingSensors[u]]
  <2>1. ringingSensors' =
          [u \in Units |-> IF u # m THEN ringingSensors[u]
                           ELSE IF FALSE THEN SensorTimeout ELSE NoCall]
    BY Dispatched
  <2> QED
    BY <1>1, <2>1
<1> QED
  BY <1>2, SessionClosed DEF DoorbellStep, Ends, DoorbellView!End

-----------------------------------------------------------------------------
(* Every step of CallTracking is a step of Doorbell *)

LEMMA OfferSteps ==
  ASSUME TypeOK, NEW t \in Tasks, NEW m \in Modules, NEW s \in Sids,
         RetransmittedOffer(t, m, s) \/ NewOffer(t, m, s)
  PROVE  DoorbellStep
<1> DEFINE key == KeyOf(CallingModule(m))
<1>1. key \in Keys
  BY CallingModuleType
<1>2. UNCHANGED ringingSensors
  BY SameView DEF RetransmittedOffer, NewOffer, entityVars
<1>3. CASE RetransmittedOffer(t, m, s)
  <2>1. activeCalls[key] # NoCall /\ activeCalls[key] \in CallSession
    BY <1>1, <1>3, OpenSession DEF RetransmittedOffer, IsRetransmission
  <2>2. activeCalls' = [activeCalls EXCEPT ![key] = [@ EXCEPT !.idle = 0]]
    BY <1>3 DEF RetransmittedOffer
  <2> HIDE DEF key
  <2>3. activeCalls' = [activeCalls EXCEPT
          ![key] = [sid |-> activeCalls[key].sid, idle |-> 0,
                    total |-> activeCalls[key].total]]
    <3>1. [activeCalls[key] EXCEPT !.idle = 0]
            = [sid |-> activeCalls[key].sid, idle |-> 0,
               total |-> activeCalls[key].total]
      BY <2>1 DEF CallSession
    <3> QED
      BY <1>1, <2>2, <3>1
  <2>4. openCalls' = [openCalls EXCEPT
          ![key] = [silence |-> 0, age |-> activeCalls[key].total]]
    BY <1>1, <2>1, <2>3, SessionSet DEF CallSession
  <2>5. /\ openCalls[key] # NoCall
        /\ openCalls[key].age = activeCalls[key].total
    BY <1>1, <2>1, NoCallIsNoTime DEF openCalls, CallSession
  <2> QED
    BY <1>1, <1>2, <2>4, <2>5 DEF DoorbellStep, Renews, DoorbellView!Renew
<1>4. CASE NewOffer(t, m, s)
  <2>1. activeCalls' = [activeCalls EXCEPT
                          ![key] = [sid |-> s, idle |-> 0, total |-> 0]]
    BY <1>4 DEF NewOffer
  <2> HIDE DEF key
  <2> QED
    BY <1>1, <1>2, <2>1, SessionSet DEF DoorbellStep, Opens, DoorbellView!Open
<1> QED
  BY <1>3, <1>4

LEMMA EndSteps ==
  ASSUME TypeOK, NEW t \in Tasks, NEW s \in Sids, NEW type,
         EndPush(t, s, type)
  PROVE  DoorbellStep
<1> DEFINE m == CallingModule(NoModule)
<1>1. m \in Modules /\ KeyOf(m) \in Keys
  BY CallingModuleType DEF Modules
<1>2. /\ activeCalls' = [activeCalls EXCEPT ![KeyOf(m)] = NoCall]
      /\ DispatchCallReceived(FALSE, m)
  BY DEF EndPush, EndCallSession
<1>3. /\ m \in Units => KeyOf(m) = m
      /\ m \notin Units => KeyOf(m) = Bridge
  BY <1>1, SentinelsAreDistinct DEF KeyOf, Modules
<1> HIDE DEF m
<1> QED
  BY <1>1, <1>2, <1>3, ClosedWithItsBell

LEMMA WatchdogSteps ==
  ASSUME TypeOK, WatchdogPerSession, WatchdogWakes
  PROVE  DoorbellStep
<1>1. PICK w \in watchdogs : WatchdogEnds(w) \/ WatchdogSleepsOn(w)
  BY DEF WatchdogWakes
<1>2. CASE WatchdogEnds(w)
  <2>1. w.key \in Keys /\ activeCalls[w.key] # NoCall
    BY DEF TypeOK, Watchdog, WatchdogPerSession
  <2>2. /\ activeCalls' = [activeCalls EXCEPT ![w.key] = NoCall]
        /\ DispatchCallReceived(FALSE, w.key)
    BY <1>2, <2>1 DEF WatchdogEnds
  <2>3. ringingSensors' = [u \in Units |-> IF u = w.key THEN NoCall
                                           ELSE ringingSensors[u]]
    <3>1. ringingSensors' =
            [u \in Units |-> IF u # w.key THEN ringingSensors[u]
                             ELSE IF FALSE THEN SensorTimeout ELSE NoCall]
      BY <2>2, Dispatched
    <3> QED
      BY <3>1
  <2> QED
    BY <2>1, <2>2, <2>3, SessionClosed DEF DoorbellStep, Ends, DoorbellView!End
<1>3. CASE WatchdogSleepsOn(w)
  BY <1>3, SameView DEF WatchdogSleepsOn, entityVars, DoorbellStep
<1> QED
  BY <1>1, <1>2, <1>3

LEMMA TurnOffSteps ==
  ASSUME TypeOK, NEW u \in Units, TurnOff(u)
  PROVE  DoorbellStep
<1>1. DispatchCallReceived(FALSE, u)
  BY DEF TurnOff, TypeOK, DispatchCallReceived
<1>2. UNCHANGED activeCalls
  BY DEF TurnOff, sessionVars
<1> QED
  BY <1>1, <1>2, DispatchAlone DEF Modules

\* Time passes for every open call and ringing bell; the bounds on sessions
\* after the step are those of Doorbell before it.
LEMMA TickSteps ==
  ASSUME TypeOK, SensorOnIffTimerArmed, Tick,
         SilentCallIsClosed', DurationIsBounded'
  PROVE  DoorbellStep
<1> USE DurationsArePositive
<1>1. \A k \in Keys :
        activeCalls'[k] =
          IF activeCalls[k] = NoCall THEN NoCall
          ELSE [sid |-> activeCalls[k].sid, idle |-> activeCalls[k].idle + 1,
                total |-> activeCalls[k].total + 1]
  BY DEF Tick
<1>2. ASSUME NEW k \in Keys, activeCalls[k] # NoCall
      PROVE  /\ openCalls[k] # NoCall
             /\ openCalls'[k] = [silence |-> openCalls[k].silence + 1,
                                 age |-> openCalls[k].age + 1]
             /\ openCalls[k].silence + 1 < 2 * RetransmitWindow
             /\ openCalls[k].age + 1 < MaxDuration + RetransmitWindow
  <2>1. activeCalls[k].idle \in Nat /\ activeCalls[k].total \in Nat
        /\ activeCalls[k].sid \in Sids
    BY <1>2, OpenSession
  <2>2. activeCalls'[k] =
          [sid |-> activeCalls[k].sid, idle |-> activeCalls[k].idle + 1,
           total |-> activeCalls[k].total + 1]
    BY <1>1, <1>2
  <2>3. activeCalls'[k] # NoCall
    BY <2>1, <2>2, NoCallIsNoRecord DEF CallSession
  <2>4. openCalls[k] = [silence |-> activeCalls[k].idle,
                        age |-> activeCalls[k].total]
    BY <1>2 DEF openCalls
  <2>5. openCalls'[k] = [silence |-> activeCalls'[k].idle,
                         age |-> activeCalls'[k].total]
    BY <2>3 DEF openCalls
  <2>6. openCalls[k] # NoCall
    BY <2>1, <2>4, NoCallIsNoTime
  <2>7. /\ activeCalls'[k].idle < 2 * RetransmitWindow
        /\ activeCalls'[k].total < MaxDuration + RetransmitWindow
    BY <2>3 DEF SilentCallIsClosed, DurationIsBounded
  <2>8. /\ openCalls[k].silence = activeCalls[k].idle
        /\ openCalls[k].age = activeCalls[k].total
    BY <2>4
  <2> QED
    BY <2>2, <2>5, <2>6, <2>7, <2>8
<1>3. ASSUME NEW k \in Keys, activeCalls[k] = NoCall
      PROVE  openCalls[k] = NoCall /\ openCalls'[k] = NoCall
  BY <1>1, <1>3 DEF openCalls
<1>4. openCalls' = [k \in Keys |->
        IF openCalls[k] = NoCall THEN NoCall
        ELSE [silence |-> openCalls[k].silence + 1,
              age |-> openCalls[k].age + 1]]
  <2>1. \A k \in Keys : openCalls'[k] =
          IF openCalls[k] = NoCall THEN NoCall
          ELSE [silence |-> openCalls[k].silence + 1,
                age |-> openCalls[k].age + 1]
    <3> SUFFICES ASSUME NEW k \in Keys
                 PROVE  openCalls'[k] =
                          IF openCalls[k] = NoCall THEN NoCall
                          ELSE [silence |-> openCalls[k].silence + 1,
                                age |-> openCalls[k].age + 1]
      OBVIOUS
    <3>1. CASE activeCalls[k] = NoCall
      BY <1>3, <3>1
    <3>2. CASE activeCalls[k] # NoCall
      BY <1>2, <3>2
    <3> QED
      BY <3>1, <3>2
  <2>2. openCalls' = [k \in Keys |-> openCalls'[k]]
    BY DEF openCalls
  <2> QED
    BY <2>1, <2>2
<1>5. \A k \in Keys : openCalls[k] # NoCall =>
        /\ openCalls[k].silence + 1 < 2 * RetransmitWindow
        /\ openCalls[k].age + 1 < MaxDuration + RetransmitWindow
  <2> SUFFICES ASSUME NEW k \in Keys, openCalls[k] # NoCall
               PROVE  /\ openCalls[k].silence + 1 < 2 * RetransmitWindow
                      /\ openCalls[k].age + 1 < MaxDuration + RetransmitWindow
    OBVIOUS
  <2>1. activeCalls[k] # NoCall
    BY <1>3
  <2> QED
    BY <1>2, <2>1
<1>6. \A u \in Units :
        /\ sensorOn'[u] = sensorOn[u]
        /\ turnOff[u] > 0
        /\ turnOff[u] \in Nat
        /\ turnOff'[u] = IF turnOff[u] = NotArmed THEN NotArmed
                                                  ELSE turnOff[u] - 1
        /\ sensorOn[u] => turnOff[u] # NotArmed
  BY DEF Tick, TypeOK, SensorOnIffTimerArmed
<1>7. \A u \in Units :
        /\ ringingSensors[u] # NoCall => ringingSensors[u] > 0
        /\ ringingSensors'[u] = IF ringingSensors[u] = NoCall THEN NoCall
                                ELSE ringingSensors[u] - 1
  <2> SUFFICES ASSUME NEW u \in Units
               PROVE  /\ ringingSensors[u] # NoCall => ringingSensors[u] > 0
                      /\ ringingSensors'[u] =
                           IF ringingSensors[u] = NoCall THEN NoCall
                           ELSE ringingSensors[u] - 1
    OBVIOUS
  <2>1. /\ ringingSensors[u] = IF sensorOn[u] THEN turnOff[u] ELSE NoCall
        /\ ringingSensors'[u] = IF sensorOn'[u] THEN turnOff'[u] ELSE NoCall
    BY DEF ringingSensors
  <2>2. turnOff[u] # NoCall
    BY <1>6, NoCallIsNoTime
  <2> QED
    BY <1>6, <2>1, <2>2
<1>8. ringingSensors' = [u \in Units |->
        IF ringingSensors[u] = NoCall THEN NoCall ELSE ringingSensors[u] - 1]
  <2>1. ringingSensors' = [u \in Units |-> ringingSensors'[u]]
    BY DEF ringingSensors
  <2> QED
    BY <1>7, <2>1
<1> QED
  BY <1>4, <1>5, <1>7, <1>8 DEF DoorbellStep, DoorbellView!Tick

LEMMA StatusSteps ==
  ASSUME TypeOK, NEW t \in Tasks,
         \/ Resume(t)
         \/ HandlerCancelled(t)
         \/ \E s \in Sids : StatusPush(t, s)
  PROVE  DoorbellStep
<1>1. CASE OfferRecorded(t)
  <2>1. handler[t].module \in Modules
    BY <1>1, SuspendedHandler DEF OfferRecorded
  <2> QED
    BY <1>1, <2>1, DispatchAlone DEF OfferRecorded, sessionVars
<1>2. CASE IncomingCallRecorded(t)
  <2>1. \/ UNCHANGED <<sensorOn, turnOff>>
        \/ DispatchCallReceived(TRUE, ResolveCallingModule)
    BY <1>2 DEF IncomingCallRecorded, entityVars
  <2>2. UNCHANGED activeCalls
    BY <1>2 DEF IncomingCallRecorded, sessionVars
  <2>3. CASE UNCHANGED <<sensorOn, turnOff>>
    BY <2>2, <2>3, SameView DEF DoorbellStep
  <2>4. CASE DispatchCallReceived(TRUE, ResolveCallingModule)
    BY <2>2, <2>4, ResolvedModuleType, DispatchAlone
  <2> QED
    BY <2>1, <2>3, <2>4
<1>3. ASSUME NEW s \in Sids, MissedCall(t, s)
      PROVE  DoorbellStep
  BY <1>3, ResolvedModuleType, DispatchAlone DEF MissedCall, sessionVars
<1>4. CASE \/ HandlerCancelled(t)
           \/ \E s \in Sids : IncomingCall(t, s) \/ AcceptedCall(t, s)
  BY <1>4, SameView
     DEF HandlerCancelled, IncomingCall, AcceptedCall, entityVars, sessionVars,
         DoorbellStep
<1> QED
  BY <1>1, <1>2, <1>3, <1>4 DEF Resume, StatusPush

LEMMA NextIsADoorbellStep ==
  ASSUME IInv, SilentCallIsClosed', DurationIsBounded', [Next]_vars
  PROVE  DoorbellStep
<1>1. TypeOK /\ SensorOnIffTimerArmed /\ WatchdogPerSession
  BY DEF IInv, SessionInv
<1>2. CASE \/ RejectCall \/ RejectAcknowledged \/ RejectFailed
           \/ UNCHANGED vars
  BY <1>2, SameView
     DEF RejectCall, RejectAcknowledged, RejectFailed, vars, entityVars,
         sessionVars, DoorbellStep
<1> QED
  BY <1>1, <1>2, OfferSteps, EndSteps, WatchdogSteps, TurnOffSteps, TickSteps,
     StatusSteps
     DEF Next, Environment, System, RtcPush, StatusPush, Rescind, Terminate

-----------------------------------------------------------------------------
\* The call tracking implements Doorbell: in every home and under every
\* delivery of pushes a call ends together with its own bell, units do not
\* disturb each other, and no call or ring outlives its time.
THEOREM CallTrackingImplementsDoorbell == Spec => DoorbellIsImplemented
<1>1. Init => DoorbellView!Init
  BY DEF Init, DoorbellView!Init, openCalls, ringingSensors
<1>2. /\ IInv /\ [Next]_vars
      /\ (SilentCallIsClosed /\ DurationIsBounded)
      /\ (SilentCallIsClosed /\ DurationIsBounded)'
      => [DoorbellView!Next]_DoorbellView!vars
  BY NextIsADoorbellStep
     DEF DoorbellStep, Opens, Renews, Ends, Rings, Silences, DoorbellView!Next,
         DoorbellView!vars
<1> QED
  BY <1>1, <1>2, IInvHolds, CallSessionsAreBounded, PTL
     DEF Spec, DoorbellView!Spec, DoorbellIsImplemented

-----------------------------------------------------------------------------
(***************************************************************************)
(* The rings of a home without offers.  offered, the history variable of   *)
(* MCCallTracking, is all that is taken from there.                        *)
(***************************************************************************)
\* Without an offer there is no active call, and no handler waits for one.
NoOfferYet ==
  /\ offered \in BOOLEAN
  /\ ~offered => /\ activeCall = NoCall
                 /\ \A t \in Tasks : handler[t] # NoCall => handler[t].kind = "incoming_call"

\* An active call is only set by an offer, which is a push.
LEMMA CallsComeWithOffers ==
  ASSUME TypeOK, System, activeCall = NoCall
  PROVE  activeCall' = NoCall
  BY DEF System, Resume, OfferRecorded, IncomingCallRecorded, WatchdogWakes, WatchdogEnds,
         WatchdogSleepsOn, TurnOff, RejectAcknowledged, RejectFailed, Tick

LEMMA HandlersAwaitPictures ==
  ASSUME TypeOK, [Next]_vars, activeCall' = NoCall,
         \A t \in Tasks : handler[t] # NoCall => handler[t].kind = "incoming_call"
  PROVE  \A t \in Tasks : handler'[t] # NoCall => handler'[t].kind = "incoming_call"
  <1>1. ASSUME NEW t \in Tasks, NEW m \in Modules, NEW s \in Sids, NewOffer(t, m, s)
        PROVE  FALSE
    <2>1. CallingModule(m) \in Modules
      BY CallingModuleType
    <2>2. activeCall' \in Call
      BY <1>1, <2>1 DEF NewOffer, StoreOffer, Call
    <2> QED
      BY <2>2, NoCallIsNoRecord
  <1>2. handler \in [Tasks -> Pending \cup {NoCall}]
    BY DEF TypeOK
  <1>3. ASSUME NEW t \in Tasks, NEW s \in Sids, IncomingCall(t, s)
        PROVE  \A x \in Tasks : handler'[x] # NoCall => handler'[x].kind = "incoming_call"
    BY <1>2, <1>3 DEF IncomingCall
  <1>4. ASSUME NEW t \in Tasks, handler' = [handler EXCEPT ![t] = NoCall]
        PROVE  \A x \in Tasks : handler'[x] # NoCall => handler'[x].kind = "incoming_call"
    BY <1>2, <1>4
  <1>5. CASE Tick
    <2>1. handler' = [t \in Tasks |-> IF handler[t] = NoCall THEN NoCall
                                      ELSE [handler[t] EXCEPT !.age = @ + 1]]
      BY <1>5 DEF Tick
    <2>2. ASSUME NEW t \in Tasks, handler'[t] # NoCall
          PROVE  handler'[t].kind = "incoming_call"
      <3>1. handler[t] # NoCall /\ handler'[t] = [handler[t] EXCEPT !.age = @ + 1]
        BY <2>1, <2>2
      <3>2. handler[t] \in Pending /\ handler[t].kind = "incoming_call"
        BY <1>2, <3>1
      <3> QED
        BY <3>1, <3>2 DEF Pending
    <2> QED
      BY <2>2
  <1>6. CASE UNCHANGED handler
    BY <1>6
  <1> QED
    BY <1>1, <1>3, <1>4, <1>5, <1>6
       DEF Next, Environment, System, RtcPush, StatusPush, Resume, WatchdogWakes,
           Rescind, Terminate, EndPush, OfferRecorded, IncomingCallRecorded, MissedCall,
           AcceptedCall, TurnOff, RejectCall, RejectAcknowledged, RejectFailed,
           RetransmittedOffer, WatchdogEnds, WatchdogSleepsOn, HandlerCancelled, vars

LEMMA NoOfferYetStep ==
  ASSUME TypeOK, NoOfferYet, [MCNext]_mcvars
  PROVE  NoOfferYet'
  <1>1. CASE Environment /\ offered' = (offered \/ activeCall' # NoCall)
    <2>1. offered' \in BOOLEAN
      BY <1>1 DEF NoOfferYet
    <2>2. ASSUME ~offered'
          PROVE  /\ activeCall' = NoCall
                 /\ \A t \in Tasks : handler'[t] # NoCall => handler'[t].kind = "incoming_call"
      <3>1. ~offered /\ activeCall' = NoCall
        BY <1>1, <2>2, Zenon DEF NoOfferYet
      <3> QED
        BY <1>1, <3>1, HandlersAwaitPictures DEF NoOfferYet, Next
    <2> QED
      BY <2>1, <2>2 DEF NoOfferYet
  <1>2. CASE System /\ UNCHANGED offered
    <2>1. ASSUME ~offered
          PROVE  /\ activeCall' = NoCall
                 /\ \A t \in Tasks : handler'[t] # NoCall => handler'[t].kind = "incoming_call"
      <3>1. activeCall' = NoCall
        BY <1>2, <2>1, CallsComeWithOffers DEF NoOfferYet
      <3> QED
        BY <1>2, <2>1, <3>1, HandlersAwaitPictures DEF NoOfferYet, Next
    <2> QED
      BY <1>2, <2>1 DEF NoOfferYet
  <1>3. CASE UNCHANGED mcvars
    BY <1>3 DEF mcvars, vars, NoOfferYet
  <1> QED
    BY <1>1, <1>2, <1>3 DEF MCNext

\* A handler that ends without being cancelled has done the rest of its work.
LEMMA HandlersEndResumed ==
  ASSUME TypeOK, [Next]_vars, NEW t \in Tasks, handler[t] # NoCall, handler'[t] = NoCall,
         ~HandlerCancelled(t)
  PROVE  Resume(t)
  <1>1. handler \in [Tasks -> Pending \cup {NoCall}]
    BY DEF TypeOK
  <1>2. ASSUME NEW x \in Tasks, handler[x] = NoCall \/ x # t, NEW v,
               handler' = [handler EXCEPT ![x] = v]
        PROVE  FALSE
    BY <1>1, <1>2
  <1>3. CASE UNCHANGED handler
    BY <1>3
  <1>4. CASE Tick
    <2>1. handler'[t] = [handler[t] EXCEPT !.age = @ + 1] /\ handler[t] \in Pending
      BY <1>1, <1>4 DEF Tick
    <2>2. handler'[t] \in [kind : {"offer", "incoming_call"}, module : Modules, sid : Sids,
                           age : Int]
      BY <2>1 DEF Pending
    <2>3. handler[t].age < MaxAwait /\ handler[t].age \in 0..MaxAwait
      BY <1>4, <2>1 DEF Tick, Pending
    <2>4. handler'[t] \in Pending
      BY <2>1, <2>3, DurationsArePositive DEF Pending
    <2> QED
      BY <2>4, NoCallIsNoRecord
  <1>5. ASSUME NEW x \in Tasks, Resume(x) \/ HandlerCancelled(x)
        PROVE  Resume(t)
    <2>1. x = t
      BY <1>2, <1>5 DEF Resume, OfferRecorded, IncomingCallRecorded, HandlerCancelled
    <2> QED
      BY <1>5, <2>1
  <1>6. ASSUME NEW x \in Tasks, NEW m \in Modules, NEW s \in Sids,
               NewOffer(x, m, s) \/ IncomingCall(x, s)
        PROVE  FALSE
    BY <1>2, <1>6 DEF NewOffer, IncomingCall
  <1>7. ASSUME \/ \E x, m, s : RetransmittedOffer(x, m, s)
               \/ \E x, s, type : EndPush(x, s, type)
               \/ \E x, s : MissedCall(x, s) \/ AcceptedCall(x, s)
               \/ WatchdogWakes
               \/ \E u : TurnOff(u)
               \/ RejectCall \/ RejectAcknowledged \/ RejectFailed
               \/ UNCHANGED vars
        PROVE  UNCHANGED handler
    BY <1>7 DEF RetransmittedOffer, EndPush, MissedCall, AcceptedCall, WatchdogWakes,
                WatchdogEnds, WatchdogSleepsOn, TurnOff, RejectCall, RejectAcknowledged,
                RejectFailed, vars
  <1>8. \/ \E x \in Tasks : Resume(x) \/ HandlerCancelled(x)
        \/ \E x \in Tasks, m \in Modules, s \in Sids : NewOffer(x, m, s) \/ IncomingCall(x, s)
        \/ Tick
        \/ UNCHANGED handler
    BY <1>7 DEF Next, Environment, System, RtcPush, StatusPush, Rescind, Terminate, Modules
  <1>9. CASE \E x \in Tasks : Resume(x) \/ HandlerCancelled(x)
    BY <1>5, <1>9
  <1>10. CASE \E x \in Tasks, m \in Modules, s \in Sids : NewOffer(x, m, s) \/ IncomingCall(x, s)
    BY <1>6, <1>10
  <1> QED
    BY <1>3, <1>4, <1>8, <1>9, <1>10

\* In a home with one unit and no offers the ring goes to that unit.
LEMMA LoneRing ==
  ASSUME TypeOK, activeCall = NoCall, NEW u \in Units, Units = {u},
         NEW t \in Tasks, handler[t] # NoCall => handler[t].kind = "incoming_call", Resume(t)
  PROVE  sensorOn'[u] = TRUE /\ turnOff'[u] = SensorTimeout
  <1>1. IncomingCallRecorded(t)
    BY DEF Resume, OfferRecorded
  <1>2. ResolveCallingModule = u
    BY DEF ResolveCallingModule
  <1>3. u # NoModule
    BY SentinelsAreDistinct
  <1>4. DispatchCallReceived(TRUE, u)
    BY <1>1, <1>2, <1>3 DEF IncomingCallRecorded
  <1> QED
    BY <1>4 DEF DispatchCallReceived

\* Before any offer every incoming_call push of a home with one unit turns the
\* sensor on and arms its timer, whatever ended the rings before it, and however
\* many tasks handle pushes (ResolveCallingModule, the ring of the status push).
THEOREM StatusRingsAreAnnounced == MCSpec => EveryStatusRingIsAnnounced
  <1>1. MCInit => TypeOK /\ NoOfferYet
    BY InitIInv DEF MCInit, IInv, Init, NoOfferYet
  <1>2. [MCNext]_mcvars => [Next]_vars
    BY DEF MCNext, Next, mcvars
  <1>3. TypeOK /\ NoOfferYet /\ [MCNext]_mcvars => (TypeOK /\ NoOfferYet)'
    BY <1>2, TypeStep, NoOfferYetStep
  <1>4. TypeOK /\ NoOfferYet /\ [MCNext]_mcvars =>
          [\A t \in Tasks, u \in Units :
             /\ ~offered
             /\ handler[t] # NoCall
             /\ handler'[t] = NoCall /\ ~HandlerCancelled(t)
             /\ Units = {u}
             => sensorOn'[u] /\ turnOff'[u] = SensorTimeout]_mcvars
    <2> SUFFICES ASSUME TypeOK, NoOfferYet, [MCNext]_mcvars, NEW t \in Tasks, NEW u \in Units,
                        ~offered, handler[t] # NoCall,
                        handler'[t] = NoCall, ~HandlerCancelled(t), Units = {u}
                 PROVE  sensorOn'[u] /\ turnOff'[u] = SensorTimeout
      OBVIOUS
    <2>1. Resume(t)
      BY <1>2, HandlersEndResumed
    <2>2. activeCall = NoCall /\ handler[t].kind = "incoming_call"
      BY DEF NoOfferYet
    <2>3. sensorOn'[u] = TRUE /\ turnOff'[u] = SensorTimeout
      BY <2>1, <2>2, LoneRing
    <2> QED
      BY <2>3
  <1> QED
    BY <1>1, <1>3, <1>4, PTL DEF MCSpec, EveryStatusRingIsAnnounced
=============================================================================
