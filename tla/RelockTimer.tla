----------------------------- MODULE RelockTimer -----------------------------
(***************************************************************************)
(* The two lock entities (lock.py): BticinoLock, a door lock, and          *)
(* BticinoLightAsLock, a staircase light used as one. Both show a command  *)
(* before the API has taken it and show "locked" again when the relock     *)
(* timer fires; the door arms the timer before its API call, the light     *)
(* after it. While an entity holds the handle of its timer it ignores      *)
(* polls. Service calls overlap, and Home Assistant may cancel one (a      *)
(* script that is restarted) or remove the entity while one runs.          *)
(***************************************************************************)
EXTENDS Naturals, FiniteSets

CONSTANTS
  Doors,    \* entities of class BticinoLock
  Lights,   \* entities of class BticinoLightAsLock
  Calls,    \* service calls: lock, unlock or open, each made once
  NoCall    \* no call yet, and no timer handle

ASSUME ClassesAreDisjoint == Doors \cap Lights = {}

ASSUME NoCallIsNoCall == NoCall \notin Calls

VARIABLES
  isLocked,   \* _attr_is_locked
  canceller,  \* _relock_canceller: the call whose timer it cancels
  timers,     \* the calls whose timer is running
  call,       \* the service calls made so far
  removed     \* the entities taken out of Home Assistant

vars == <<isLocked, canceller, timers, call, removed>>

-----------------------------------------------------------------------------
Entities == Doors \cup Lights

ServiceCall == [entity : Entities, does : {"lock", "unlock"}, pending : BOOLEAN]

ASSUME NoServiceCallIsNoCall == NoCall \notin ServiceCall

TypeOK ==
  /\ isLocked \in [Entities -> BOOLEAN]
  /\ canceller \in [Entities -> Calls \cup {NoCall}]
  /\ timers \subseteq Calls
  /\ call \in [Calls -> ServiceCall \cup {NoCall}]
  /\ removed \subseteq Entities

Init ==
  /\ isLocked \in [Entities -> BOOLEAN]
  /\ canceller = [e \in Entities |-> NoCall]
  /\ timers = {}
  /\ call = [c \in Calls |-> NoCall]
  /\ removed = {}

-----------------------------------------------------------------------------
\* A mistake: the old timer is not cancelled.
TimersLeft(e) == timers

\* The timers left once the entity has cancelled the one it knows.
TimersWithout(e) == timers \ {canceller[e]}

\* A mistake: the polled value is not made a Boolean.
ReportedOrNone == BOOLEAN \cup {NoCall}

\* What a poll may report of the module.
Reported == BOOLEAN

Command(c, e, does) ==
  /\ call[c] = NoCall
  /\ e \notin removed
  /\ isLocked' = [isLocked EXCEPT ![e] = (does = "lock")]
  /\ call' = [call EXCEPT ![c] = [entity |-> e, does |-> does, pending |-> TRUE]]
  /\ UNCHANGED removed

UnlockDoor(c, e) ==
  /\ e \in Doors
  /\ Command(c, e, "unlock")
  /\ timers' = TimersWithout(e) \cup {c}
  /\ canceller' = [canceller EXCEPT ![e] = c]

UnlockLight(c, e) ==
  /\ e \in Lights
  /\ Command(c, e, "unlock")
  /\ timers' = TimersWithout(e)
  /\ canceller' = [canceller EXCEPT ![e] = NoCall]

Lock(c, e) ==
  /\ Command(c, e, "lock")
  /\ timers' = TimersWithout(e)
  /\ canceller' = [canceller EXCEPT ![e] = NoCall]

-----------------------------------------------------------------------------
(* After the API call *)

Pending(c, does) == call[c] # NoCall /\ call[c].pending /\ call[c].does = does

Over(c) == call' = [call EXCEPT ![c].pending = FALSE] /\ UNCHANGED removed

\* A light arms its timer now, over the handle of any other.
UnlockDone(c) ==
  LET e == call[c].entity IN
  /\ Pending(c, "unlock")
  /\ IF e \in Lights
     THEN /\ timers' = timers \cup {c}
          /\ canceller' = [canceller EXCEPT ![e] = c]
     ELSE UNCHANGED <<timers, canceller>>
  /\ Over(c)
  /\ UNCHANGED isLocked

\* The timer the entity has now is cancelled, whichever call armed it.
UnlockFailed(c) ==
  LET e == call[c].entity IN
  /\ Pending(c, "unlock")
  /\ timers' = TimersWithout(e)
  /\ canceller' = [canceller EXCEPT ![e] = NoCall]
  /\ isLocked' = [isLocked EXCEPT ![e] = TRUE]
  /\ Over(c)

LockDone(c) ==
  /\ Pending(c, "lock")
  /\ Over(c)
  /\ UNCHANGED <<isLocked, canceller, timers>>

LockFailed(c) ==
  /\ Pending(c, "lock")
  /\ isLocked' = [isLocked EXCEPT ![call[c].entity] = FALSE]
  /\ Over(c)
  /\ UNCHANGED <<canceller, timers>>

\* CancelledError is no Exception: the rest of the service is skipped.
CallCancelled(c) ==
  /\ call[c] # NoCall
  /\ call[c].pending
  /\ Over(c)
  /\ UNCHANGED <<isLocked, canceller, timers>>

-----------------------------------------------------------------------------
(* Callbacks *)

\* A mistake: the handle outlives its timer.
RelockKeepingHandle(c) ==
  /\ c \in timers
  /\ timers' = timers \ {c}
  /\ isLocked' = [isLocked EXCEPT ![call[c].entity] = TRUE]
  /\ UNCHANGED <<canceller, call, removed>>

RelockCallback(c) ==
  /\ c \in timers
  /\ timers' = timers \ {c}
  /\ canceller' = [canceller EXCEPT ![call[c].entity] = NoCall]
  /\ isLocked' = [isLocked EXCEPT ![call[c].entity] = TRUE]
  /\ UNCHANGED <<call, removed>>

CoordinatorUpdate(e) ==
  /\ e \notin removed
  /\ canceller[e] = NoCall
  /\ \E state \in Reported : isLocked' = [isLocked EXCEPT ![e] = state]
  /\ UNCHANGED <<canceller, timers, call, removed>>

WillRemoveFromHass(e) ==
  /\ e \notin removed
  /\ removed' = removed \cup {e}
  /\ timers' = TimersWithout(e)
  /\ canceller' = [canceller EXCEPT ![e] = NoCall]
  /\ UNCHANGED <<isLocked, call>>

-----------------------------------------------------------------------------
Next ==
  \/ \E c \in Calls, e \in Entities :
       UnlockDoor(c, e) \/ UnlockLight(c, e) \/ Lock(c, e)
  \/ \E c \in Calls :
       \/ UnlockDone(c)
       \/ UnlockFailed(c)
       \/ LockDone(c)
       \/ LockFailed(c)
       \/ CallCancelled(c)
       \/ RelockCallback(c)
  \/ \E e \in Entities : CoordinatorUpdate(e) \/ WillRemoveFromHass(e)

Spec == Init /\ [][Next]_vars

\* The event loop fires the timers; nothing is assumed of the API.
Fairness == \A c \in Calls : WF_vars(RelockCallback(c))

FairSpec == Spec /\ Fairness

-----------------------------------------------------------------------------
(* Properties *)

TimerOf(e, c) == c \in timers /\ call[c].entity = e

\* The one timer of a door is the one its handle cancels: however its calls
\* overlap, fail or are cancelled, no stray timer locks the door early or
\* outlives the entity (async_unlock, async_will_remove_from_hass).
DoorsKnowTheirTimer ==
  \A e \in Doors, c \in Calls : TimerOf(e, c) => canceller[e] = c

PollsKeepDoors ==
  \A e \in Doors :
    (\E c \in Calls : TimerOf(e, c)) /\ UNCHANGED <<timers, call>>
      => isLocked'[e] = isLocked[e]

\* test_lock_optimistic_state_survives_coordinator_refresh, for any calls that
\* overlap: while a timer of a door runs no poll changes what it shows.
DoorsStayOptimistic == [][PollsKeepDoors]_vars

\* No entity ignores the polls for ever: its handle is given up in the end,
\* though a later call may have overwritten or cancelled it.
PollsAreHeardAgain ==
  \A e \in Entities : canceller[e] # NoCall ~> canceller[e] = NoCall
=============================================================================
