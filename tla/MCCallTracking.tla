--------------------------- MODULE MCCallTracking ---------------------------
(***************************************************************************)
(* CallTracking with a bounded environment: MaxPushes pushes and           *)
(* rejections in a behaviour, after which only the integration itself and  *)
(* time go on.  offered is a history variable: whether any offer came.     *)
(***************************************************************************)
EXTENDS CallTracking

CONSTANT MaxPushes

VARIABLES pushes, offered

mcvars == <<vars, pushes, offered>>

MCInit == Init /\ pushes = 0 /\ offered = FALSE

MCNext ==
  \/ /\ pushes < MaxPushes
     /\ Environment
     /\ pushes' = pushes + 1
     /\ offered' = (offered \/ activeCall' # NoCall)
  \/ System /\ UNCHANGED <<pushes, offered>>

MCSpec == MCInit /\ [][MCNext]_mcvars

MCFairSpec == MCSpec /\ Fairness

-----------------------------------------------------------------------------
\* Once the pushes stop, the sessions, watchdogs, suspended handlers and sensors
\* of every call go away, whatever pushes were lost or overtaken.  The active
\* call itself does not (ActiveCallIsInProgress).
QuietEventually == <>[]Quiet

\* Before any offer (BDIY and BNCX bridges send none), every incoming_call push
\* of a home with one external unit turns its sensor on and arms its timer,
\* unless its task is cancelled: this push is the only notice of the ring, after
\* a missed call, a timeout or another ring as well.  Proved of every such home;
\* with two units no such push names a unit.
EveryStatusRingIsAnnounced ==
  [][\A t \in Tasks, u \in Units :
       /\ ~offered
       /\ handler[t] # NoCall
       /\ handler'[t] = NoCall /\ ~HandlerCancelled(t)
       /\ Units = {u}
       => sensorOn'[u] /\ turnOff'[u] = SensorTimeout]_mcvars
=============================================================================
