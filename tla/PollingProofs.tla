--------------------------- MODULE PollingProofs ---------------------------
(***************************************************************************)
(* Proofs about Polling, for any modules, bridges, lights and limit.       *)
(***************************************************************************)
EXTENDS Polling, TLAPS

-----------------------------------------------------------------------------
(* Type correctness *)

LEMMA NewCoordinatorType ==
  ASSUME NewCoordinator, TypeOK, UNCHANGED <<registry, lit>>,
         command' \in [Commands -> Command]
  PROVE  TypeOK'
  BY ErrorsAreAllowed DEF TypeOK, NewCoordinator, Idle, Poll, Unknown, Statuses

LEMMA ReportedType ==
  ASSUME TypeOK, NEW st \in [Lights -> Statuses]
  PROVE  Reported(st) \in [Lights -> BOOLEAN]
  BY DEF TypeOK, Reported

\* A poll that begins and the three answers it waits for.
LEMMA PollTypes ==
  ASSUME TypeOK, NEW found \in SUBSET Modules, NEW reported \in SUBSET Lights,
         \/ PollBegins \/ PollCancelled \/ TopologyAnswers(found)
         \/ StatusAnswers(reported) \/ StatusFails \/ PollEnds
  PROVE  TypeOK'
<1> USE ErrorsAreAllowed, ModulesOfTheHome
<1> USE DEF TypeOK, Poll, Idle, Unknown, Statuses, dataVars, healthVars,
            entryVars, lightVars
<1>1. CASE PollBegins \/ PollCancelled \/ StatusFails
  BY <1>1 DEF PollBegins, PollCancelled, StatusFails
<1>2. CASE TopologyAnswers(found)
  <2>1. mainDevice' \in Bridges \cup {NoModule}
    BY <1>2 DEF TopologyAnswers, MainDevices
  <2>2. [l \in Lights |-> IF l \in found THEN "none" ELSE status[l]]
          \in [Lights -> Statuses]
    OBVIOUS
  <2>3. poll' \in Poll
    BY <1>2, <2>2 DEF TopologyAnswers
  <2> QED
    BY <1>2, <2>1, <2>3 DEF TopologyAnswers
<1>3. CASE StatusAnswers(reported)
  <2> DEFINE Merge(st, some) == [l \in Lights |-> IF l \in some THEN StatusOf(l)
                                                  ELSE st[l]]
         merged == reported \cap (known \cup poll.found)
  <2>1. ASSUME NEW some, NEW st \in [Lights -> Statuses]
        PROVE  Merge(st, some) \in [Lights -> Statuses]
    BY DEF StatusOf
  <2>2. /\ poll' = [poll EXCEPT !.at = "events", !.status = Merge(@, merged)]
        /\ status' = Merge(status, merged \ poll.found)
    BY <1>3 DEF StatusAnswers
  <2>3. poll.status \in [Lights -> Statuses] /\ poll \in Poll
    OBVIOUS
  <2> HIDE DEF Merge, merged
  <2>4. Merge(poll.status, merged) \in [Lights -> Statuses]
        /\ status' \in [Lights -> Statuses]
    BY <2>1, <2>2, <2>3
  <2>5. poll' \in Poll
    BY <2>2, <2>3, <2>4
  <2> QED
    BY <1>3, <2>4, <2>5 DEF StatusAnswers
<1>4. CASE PollEnds
  <2>1. poll.status \in [Lights -> Statuses] /\ poll.found \in SUBSET Modules
    OBVIOUS
  <2>2. shown' \in [Lights -> BOOLEAN]
    BY <1>4, <2>1, ReportedType DEF PollEnds
  <2> QED
    BY <1>4, <2>1, <2>2 DEF PollEnds, CarriedForward, FinalLastEvent
<1> QED
  BY <1>1, <1>2, <1>3, <1>4

LEMMA FailureTypes ==
  ASSUME TypeOK, TransientFailure \/ HardFailure
  PROVE  TypeOK'
<1> USE ErrorsAreAllowed
<1>1. ASSUME Failed, phase = "booting"
      PROVE  TypeOK'
  <2>1. NewCoordinator /\ UNCHANGED <<registry, lit, command>>
    BY <1>1 DEF Failed
  <2> QED
    BY <2>1, NewCoordinatorType DEF TypeOK
<1>2. shown' = (IF ok THEN Reported(status) ELSE shown)
        \/ shown' = Reported(status) => shown' \in [Lights -> BOOLEAN]
  BY ReportedType DEF TypeOK
<1>3. ASSUME Failed, phase # "booting", errors' \in 0..MaxErrors
      PROVE  TypeOK'
  <2>1. Idle \in Poll
    BY DEF Idle, Poll, Unknown, Statuses
  <2>2. /\ ok' = FALSE
        /\ poll' = Idle
        /\ shown' = IF ok THEN Reported(status) ELSE shown
        /\ UNCHANGED <<dataVars, mainDevice, entryVars, lit, command>>
    BY <1>3 DEF Failed
  <2> QED
    BY <1>2, <1>3, <2>1, <2>2 DEF TypeOK, dataVars, entryVars
<1>4. CASE HardFailure
  BY <1>1, <1>3, <1>4 DEF HardFailure, TypeOK
<1>5. CASE TransientFailure
  <2>1. CASE known = {} \/ IsExhausted(errors + 1)
    <3>1. Failed /\ (phase # "booting" =>
            errors' = IF errors + 1 > MaxErrors THEN errors ELSE errors + 1)
      BY <1>5, <2>1 DEF TransientFailure
    <3>2. phase # "booting" => errors' \in 0..MaxErrors
      BY <3>1 DEF TypeOK
    <3> QED
      BY <1>1, <1>3, <3>1, <3>2
  <2>2. CASE ~(known = {} \/ IsExhausted(errors + 1))
    <3>1. errors' \in 0..MaxErrors
      BY <1>5, <2>2 DEF TransientFailure, IsExhausted, TypeOK
    <3> QED
      BY <1>2, <1>5, <2>2, <3>1
         DEF TransientFailure, TypeOK, Poll, Idle, Unknown, Statuses, dataVars,
             entryVars
  <2> QED
    BY <2>1, <2>2
<1> QED
  BY <1>4, <1>5

\* Set-up, restart, pushes, service calls and the lamps themselves.
LEMMA OtherTypes ==
  ASSUME TypeOK,
         \/ SetUpPlatforms \/ Restart
         \/ \E e \in Events : Push(e)
         \/ \E c \in Commands : Turn(c) \/ DeviceApplies(c)
                                  \/ CommandProceeds(c)
         \/ \E l \in Lights : SwitchedByHand(l)
  PROVE  TypeOK'
<1> USE DEF dataVars, healthVars, entryVars, lightVars
<1>1. CASE SetUpPlatforms
  BY <1>1 DEF SetUpPlatforms, Cleaned, TypeOK
<1>2. CASE Restart
  <2>1. command' \in [Commands -> Command]
    <3>1. \A d \in Commands :
            /\ command[d] \in Command
            /\ [command[d] EXCEPT !.pc = "done"] \in Command
      BY DEF TypeOK, Command
    <3> QED
      BY <1>2, <3>1 DEF Restart
  <2> QED
    BY <1>2, <2>1, NewCoordinatorType DEF Restart
<1>3. ASSUME NEW e \in Events, Push(e)
      PROVE  TypeOK'
  <2>1. shown' \in [Lights -> BOOLEAN]
    BY <1>3, ReportedType DEF Push, TypeOK
  <2> QED
    BY <1>3, <2>1 DEF Push, TypeOK
<1>4. ASSUME NEW c \in Commands,
             Turn(c) \/ DeviceApplies(c) \/ CommandProceeds(c)
      PROVE  TypeOK'
  <2>1. /\ command[c] \in Command
        /\ [command[c] EXCEPT !.pc = "sent"] \in Command
        /\ [command[c] EXCEPT !.pc = "applied"] \in Command
        /\ [command[c] EXCEPT !.pc = "done"] \in Command
        /\ command[c].on \in BOOLEAN
        /\ command[c].light \in Lights
    BY DEF TypeOK, Command
  <2>2. CASE Turn(c) \/ DeviceApplies(c)
    BY <2>1, <2>2 DEF Turn, DeviceApplies, TypeOK
  <2>3. CASE CommandProceeds(c)
    BY <2>1, <2>3 DEF CommandProceeds, CommandEnds, CommandFails, TypeOK
  <2> QED
    BY <1>4, <2>2, <2>3
<1>5. ASSUME NEW l \in Lights, SwitchedByHand(l)
      PROVE  TypeOK'
  BY <1>5 DEF SwitchedByHand, TypeOK
<1> QED
  BY <1>1, <1>2, <1>3, <1>4, <1>5

LEMMA TypeStep == TypeOK /\ [Next]_vars => TypeOK'
<1> SUFFICES ASSUME TypeOK, [Next]_vars PROVE TypeOK'
  OBVIOUS
<1>1. CASE PollBegins \/ PollProceeds \/ PollCancelled
  BY <1>1, PollTypes, FailureTypes DEF PollProceeds
<1>2. CASE \/ SetUpPlatforms \/ Restart
           \/ \E e \in Events : Push(e)
           \/ \E c \in Commands : Turn(c) \/ DeviceApplies(c)
                                    \/ CommandProceeds(c)
           \/ \E l \in Lights : SwitchedByHand(l)
  BY <1>2, OtherTypes
<1>3. CASE UNCHANGED vars
  BY <1>3 DEF vars, dataVars, healthVars, entryVars, lightVars, TypeOK
<1> QED
  BY <1>1, <1>2, <1>3 DEF Next

\* Every variable of the poll, the lights and the set-up keeps its type.
THEOREM TypeCorrectness == Spec => []TypeOK
<1>1. Init => TypeOK
  BY ErrorsAreAllowed
     DEF Init, TypeOK, Poll, Idle, Unknown, Statuses, Command
<1> QED
  BY <1>1, TypeStep, PTL DEF Spec

-----------------------------------------------------------------------------
(* Action properties *)

\* A set-up that is not beginning keeps every module it knows: what a poll
\* brings is added to the modules carried forward.
THEOREM NoModuleIsDropped == Spec => ModulesAreKept
<1>1. ASSUME [Next]_vars, phase' # "booting"
      PROVE  known \subseteq known'
  <2>1. CASE \E c \in Commands : Turn(c) \/ DeviceApplies(c) \/ CommandProceeds(c)
    BY <2>1 DEF Turn, DeviceApplies, CommandProceeds, CommandEnds, CommandFails,
                dataVars
  <2>2. CASE \/ PollBegins \/ PollCancelled \/ SetUpPlatforms \/ Restart
             \/ \E e \in Events : Push(e)
             \/ \E l \in Lights : SwitchedByHand(l)
             \/ UNCHANGED vars
    BY <1>1, <2>2
       DEF PollBegins, PollCancelled, SetUpPlatforms, Restart, NewCoordinator,
           Push, SwitchedByHand, dataVars, vars
  <2>3. CASE \/ \E found \in SUBSET Modules : TopologyAnswers(found)
             \/ \E reported \in SUBSET Lights : StatusAnswers(reported)
             \/ StatusFails \/ PollEnds
    BY <2>3 DEF TopologyAnswers, StatusAnswers, StatusFails, PollEnds,
                CarriedForward, dataVars
  <2>4. CASE TransientFailure \/ HardFailure
    BY <1>1, <2>4 DEF TransientFailure, HardFailure, Failed, NewCoordinator,
                      dataVars
  <2> QED
    BY <1>1, <2>1, <2>2, <2>3, <2>4 DEF Next, PollProceeds
<1> QED
  BY <1>1, PTL DEF Spec, ModulesAreKept
=============================================================================
