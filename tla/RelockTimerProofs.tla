-------------------------- MODULE RelockTimerProofs --------------------------
(***************************************************************************)
(* What RelockTimer guarantees of its doors, for any number of entities    *)
(* and overlapping service calls.                                          *)
(***************************************************************************)
EXTENDS RelockTimer, TLAPS

\* Only a call that was made has armed a timer.
TimersAreOfCalls == \A c \in timers : call[c] # NoCall

IInv == TypeOK /\ TimersAreOfCalls /\ DoorsKnowTheirTimer

-----------------------------------------------------------------------------
\* Every variable keeps its type, for any entities and calls.
THEOREM TypeCorrectness == Spec => []TypeOK
<1>1. Init => TypeOK
  BY DEF Init, TypeOK
<1>2. TypeOK /\ [Next]_vars => TypeOK'
  <2> SUFFICES ASSUME TypeOK, [Next]_vars PROVE TypeOK'
    OBVIOUS
  <2> USE DEF TypeOK
  <2>1. ASSUME NEW c \in Calls, NEW e \in Entities, UnlockDoor(c, e)
        PROVE TypeOK'
    BY <2>1 DEF UnlockDoor, Command, TimersWithout, ServiceCall
  <2>2. ASSUME NEW c \in Calls, NEW e \in Entities, UnlockLight(c, e)
        PROVE TypeOK'
    BY <2>2 DEF UnlockLight, Command, TimersWithout, ServiceCall
  <2>3. ASSUME NEW c \in Calls, NEW e \in Entities, Lock(c, e)
        PROVE TypeOK'
    BY <2>3 DEF Lock, Command, TimersWithout, ServiceCall
  <2>4. ASSUME NEW c \in Calls, UnlockDone(c) PROVE TypeOK'
    BY <2>4 DEF UnlockDone, Pending, Over, ServiceCall
  <2>5. ASSUME NEW c \in Calls, UnlockFailed(c) PROVE TypeOK'
    BY <2>5 DEF UnlockFailed, Pending, Over, ServiceCall, TimersWithout
  <2>6. ASSUME NEW c \in Calls, LockDone(c) PROVE TypeOK'
    BY <2>6 DEF LockDone, Pending, Over, ServiceCall
  <2>7. ASSUME NEW c \in Calls, LockFailed(c) PROVE TypeOK'
    BY <2>7 DEF LockFailed, Pending, Over, ServiceCall
  <2>8. ASSUME NEW c \in Calls, CallCancelled(c) PROVE TypeOK'
    BY <2>8 DEF CallCancelled, Over, ServiceCall
  <2>9. ASSUME NEW c \in Calls, RelockCallback(c) PROVE TypeOK'
    BY <2>9 DEF RelockCallback
  <2>10. ASSUME NEW e \in Entities, CoordinatorUpdate(e) PROVE TypeOK'
    BY <2>10 DEF CoordinatorUpdate, Reported
  <2>11. ASSUME NEW e \in Entities, WillRemoveFromHass(e) PROVE TypeOK'
    BY <2>11 DEF WillRemoveFromHass, TimersWithout
  <2>12. CASE UNCHANGED vars
    BY <2>12 DEF vars
  <2> QED
    BY <2>1, <2>2, <2>3, <2>4, <2>5, <2>6, <2>7, <2>8, <2>9, <2>10, <2>11,
       <2>12 DEF Next
<1> QED
  BY <1>1, <1>2, PTL DEF Spec

\* A command makes its call and leaves the others alone.
LEMMA CommandMakesACall ==
  ASSUME TypeOK, NEW c \in Calls, NEW e \in Entities, NEW does \in {"lock", "unlock"},
         Command(c, e, does)
  PROVE  /\ call[c] = NoCall
         /\ call'[c] # NoCall /\ call'[c].entity = e
         /\ \A d \in Calls \ {c} : call'[d] = call[d]
<1>1. [entity |-> e, does |-> does, pending |-> TRUE] \in ServiceCall
  BY DEF ServiceCall
<1> QED
  BY <1>1, NoServiceCallIsNoCall DEF Command, TypeOK

\* A call that returns stays the call it was.
LEMMA OverKeepsCalls ==
  ASSUME TypeOK, NEW c \in Calls, call[c] # NoCall, Over(c)
  PROVE  \A d \in Calls : /\ call[d] # NoCall => call'[d] # NoCall
                          /\ call'[d].entity = call[d].entity
<1>1. call[c] \in ServiceCall
  BY DEF TypeOK
<1>2. call' = [call EXCEPT ![c] = [call[c] EXCEPT !.pending = FALSE]]
  BY DEF Over
<1>3. [call[c] EXCEPT !.pending = FALSE] \in ServiceCall
  BY <1>1 DEF ServiceCall
<1>4. [call[c] EXCEPT !.pending = FALSE].entity = call[c].entity
  BY <1>1 DEF ServiceCall
<1>5. call'[c] # NoCall /\ call'[c].entity = call[c].entity
  BY <1>2, <1>3, <1>4, NoServiceCallIsNoCall DEF TypeOK
<1>6. \A d \in Calls \ {c} : call'[d] = call[d]
  BY <1>2 DEF TypeOK
<1> QED
  BY <1>5, <1>6

\* Every step keeps what the handle of a door knows.
LEMMA InvariantStep ==
  IInv /\ TypeOK' /\ [Next]_vars => IInv'
<1> SUFFICES ASSUME IInv, TypeOK', [Next]_vars
             PROVE TimersAreOfCalls' /\ DoorsKnowTheirTimer'
  BY DEF IInv
<1> USE DEF IInv, TimersAreOfCalls, DoorsKnowTheirTimer, TimerOf
<1> DEFINE Goal == TimersAreOfCalls' /\ DoorsKnowTheirTimer'
<1>1. ASSUME NEW c \in Calls, NEW e \in Entities, UnlockDoor(c, e) PROVE Goal
  <2>1. Command(c, e, "unlock") /\ timers' = TimersWithout(e) \cup {c}
    BY <1>1 DEF UnlockDoor
  <2>2. \A d \in Entities : canceller'[d] = IF d = e THEN c ELSE canceller[d]
    BY <1>1 DEF UnlockDoor, TypeOK
  <2> QED
    BY <2>1, <2>2, CommandMakesACall DEF TimersWithout, TypeOK, Entities
<1>2. ASSUME NEW c \in Calls, NEW e \in Entities,
             UnlockLight(c, e) \/ Lock(c, e)
      PROVE Goal
  <2>1. PICK does \in {"lock", "unlock"} : Command(c, e, does)
    BY <1>2 DEF UnlockLight, Lock
  <2>2. timers' = TimersWithout(e)
    BY <1>2 DEF UnlockLight, Lock
  <2>3. \A d \in Entities : d # e => canceller'[d] = canceller[d]
    BY <1>2 DEF UnlockLight, Lock, TypeOK
  <2> QED
    BY <2>1, <2>2, <2>3, CommandMakesACall DEF TimersWithout, TypeOK, Entities
<1>3. ASSUME NEW c \in Calls, UnlockDone(c) PROVE Goal
  <2>1. call[c] # NoCall /\ Over(c)
    BY <1>3 DEF UnlockDone, Pending
  <2>2. timers' \subseteq timers \cup {c}
    BY <1>3 DEF UnlockDone
  <2>3. call[c].entity \in Lights \/ UNCHANGED <<timers, canceller>>
    BY <1>3 DEF UnlockDone
  <2>4. \A d \in Doors : canceller'[d] = canceller[d]
    BY <1>3, ClassesAreDisjoint DEF UnlockDone, TypeOK, Entities
  <2>5. \A d \in Calls : /\ call[d] # NoCall => call'[d] # NoCall
                         /\ call'[d].entity = call[d].entity
    BY <2>1, OverKeepsCalls
  <2>6. TimersAreOfCalls'
    BY <2>1, <2>2, <2>5 DEF TypeOK
  <2>7. DoorsKnowTheirTimer'
    BY <2>2, <2>3, <2>4, <2>5, ClassesAreDisjoint
  <2> QED
    BY <2>6, <2>7
<1>4. ASSUME NEW c \in Calls, UnlockFailed(c) PROVE Goal
  <2>1. call[c] # NoCall /\ Over(c)
    BY <1>4 DEF UnlockFailed, Pending
  <2>2. timers' = TimersWithout(call[c].entity)
    BY <1>4 DEF UnlockFailed
  <2>3. \A d \in Entities : d # call[c].entity => canceller'[d] = canceller[d]
    BY <1>4 DEF UnlockFailed, TypeOK
  <2> QED
    BY <2>1, <2>2, <2>3, OverKeepsCalls DEF TimersWithout, TypeOK, Entities
<1>5. ASSUME NEW c \in Calls, LockDone(c) \/ LockFailed(c) \/ CallCancelled(c)
      PROVE Goal
  <2>1. call[c] # NoCall /\ Over(c) /\ UNCHANGED <<canceller, timers>>
    BY <1>5 DEF LockDone, LockFailed, CallCancelled, Pending
  <2>2. \A d \in Calls : /\ call[d] # NoCall => call'[d] # NoCall
                         /\ call'[d].entity = call[d].entity
    BY <2>1, OverKeepsCalls
  <2> QED
    BY <2>1, <2>2 DEF TypeOK
<1>6. ASSUME NEW c \in Calls, RelockCallback(c) PROVE Goal
  BY <1>6 DEF RelockCallback, TypeOK
<1>7. ASSUME NEW e \in Entities, CoordinatorUpdate(e) PROVE Goal
  BY <1>7 DEF CoordinatorUpdate
<1>8. ASSUME NEW e \in Entities, WillRemoveFromHass(e) PROVE Goal
  BY <1>8 DEF WillRemoveFromHass, TimersWithout, TypeOK
<1>9. CASE UNCHANGED vars
  BY <1>9 DEF vars
<1> QED
  BY <1>1, <1>2, <1>3, <1>4, <1>5, <1>6, <1>7, <1>8, <1>9 DEF Next

LEMMA Invariance == Spec => []IInv
<1>1. Init => IInv
  BY DEF Init, IInv, TypeOK, TimersAreOfCalls, DoorsKnowTheirTimer, TimerOf
<1> QED
  BY <1>1, InvariantStep, TypeCorrectness, PTL DEF Spec

\* However its service calls overlap, fail or are cancelled, a door has no
\* timer but the one its handle cancels (async_will_remove_from_hass included).
THEOREM DoorsHaveNoStrayTimer == Spec => []DoorsKnowTheirTimer
<1>1. IInv => DoorsKnowTheirTimer
  BY DEF IInv
<1> QED
  BY <1>1, Invariance, PTL

\* A removed door has no timer left: the docstring of
\* async_will_remove_from_hass, which the light does not keep.
THEOREM NoTimerOutlivesItsDoor ==
  Spec => [][\A d \in Doors : d \in removed' \ removed
               => ~\E c \in Calls : c \in timers' /\ call'[c].entity = d]_vars
<1>1. IInv /\ IInv' /\ [Next]_vars =>
        [\A d \in Doors : d \in removed' \ removed
           => ~\E c \in Calls : c \in timers' /\ call'[c].entity = d]_vars
  <2> SUFFICES ASSUME IInv', [Next]_vars,
                      NEW d \in Doors, d \in removed' \ removed,
                      NEW c \in Calls, c \in timers', call'[c].entity = d
               PROVE FALSE
    OBVIOUS
  <2>1. canceller'[d] = c
    BY DEF IInv, DoorsKnowTheirTimer, TimerOf
  <2>2. WillRemoveFromHass(d)
    BY DEF Next, vars, UnlockDoor, UnlockLight, Lock, Command, UnlockDone,
           UnlockFailed, LockDone, LockFailed, CallCancelled, Over,
           RelockCallback, CoordinatorUpdate, WillRemoveFromHass
  <2>3. canceller'[d] = NoCall
    BY <2>2 DEF WillRemoveFromHass, IInv, TypeOK
  <2> QED
    BY <2>1, <2>3, NoCallIsNoCall
<1> QED
  BY <1>1, Invariance, PTL DEF Spec

\* While a timer of a door runs, no poll changes what the door shows.
THEOREM PollsKeepTheDoor == Spec => DoorsStayOptimistic
<1>1. IInv /\ [Next]_vars => [PollsKeepDoors]_vars
  <2> SUFFICES ASSUME IInv, Next,
                      NEW d \in Doors, NEW c \in Calls, TimerOf(d, c),
                      UNCHANGED <<timers, call>>
               PROVE isLocked'[d] = isLocked[d]
    BY DEF vars, PollsKeepDoors
  <2>1. canceller[d] = c /\ c \in timers
    BY DEF IInv, DoorsKnowTheirTimer, TimerOf
  <2>2. ASSUME NEW e \in Entities, CoordinatorUpdate(e)
        PROVE isLocked'[d] = isLocked[d]
    <3>1. d # e
      BY <2>1, <2>2, NoCallIsNoCall DEF CoordinatorUpdate
    <3> QED
      BY <2>2, <3>1 DEF CoordinatorUpdate, IInv, TypeOK
  <2>3. ASSUME NEW e \in Entities, WillRemoveFromHass(e)
        PROVE isLocked'[d] = isLocked[d]
    BY <2>3 DEF WillRemoveFromHass
  <2>4. ~\E b \in Calls : RelockCallback(b)
    BY DEF RelockCallback
  <2>5. ~\E b \in Calls, e \in Entities :
           UnlockDoor(b, e) \/ UnlockLight(b, e) \/ Lock(b, e)
    BY CommandMakesACall DEF UnlockDoor, UnlockLight, Lock, IInv
  <2>6. ~\E b \in Calls : UnlockDone(b) \/ UnlockFailed(b) \/ LockDone(b)
                            \/ LockFailed(b) \/ CallCancelled(b)
    BY DEF UnlockDone, UnlockFailed, LockDone, LockFailed, CallCancelled,
           Pending, Over, IInv, TypeOK, ServiceCall
  <2> QED
    BY <2>2, <2>3, <2>4, <2>5, <2>6 DEF Next
<1> QED
  BY <1>1, Invariance, PTL DEF Spec, DoorsStayOptimistic
=============================================================================
