----------------------- MODULE ConnectionManagerProofs -----------------------
(***************************************************************************)
(* One manager per entry, for any number of set-ups, of failures before a  *)
(* reload and of tries, and however set-ups and unloads fall into the      *)
(* start of Home Assistant.                                                *)
(***************************************************************************)
EXTENDS ConnectionManager, TLAPS

\* A manager that runs is in hass.data, or an unload has taken it and waits.
ManagersAreKnown ==
  \A g \in Generations :
    Alive(g) => \/ g = entryData.task
                \/ unload.at = "manager" /\ g = unload.awaits

\* Only a loaded entry has a manager in hass.data.
TaskOfLoadedEntry ==
  /\ entryState # "loaded" => entryData.task = NoGeneration
  /\ unload.at # "no" <=> entryState = "unload_in_progress"

IInv == TypeOK /\ ManagersAreKnown /\ TaskOfLoadedEntry

-----------------------------------------------------------------------------
\* The fields of a manager that a step changes keep their types.
LEMMA ManagerValues ==
  /\ Off \in Manager /\ Connecting \in Manager
  /\ [Off EXCEPT !.pc = "crashed"] \in Manager
  /\ Off.pc = "off"
  /\ \A m \in Manager : Cancel(m) \in Manager /\ Cancel(m).pc = m.pc
  /\ \A m \in Manager : NextWebsocketRetry(m) \in 0..MaxFailures
<1>1. Off \in Manager /\ Off.pc = "off"
  BY BoundsArePositive DEF Off, Manager, Phases
<1>2. Connecting \in Manager /\ [Off EXCEPT !.pc = "crashed"] \in Manager
  BY <1>1 DEF Connecting, Manager, Phases
<1>3. \A m \in Manager : Cancel(m) \in Manager /\ Cancel(m).pc = m.pc
  BY DEF Cancel, Manager
<1>4. \A m \in Manager : NextWebsocketRetry(m) \in 0..MaxFailures
  BY BoundsArePositive DEF NextWebsocketRetry, Manager
<1> QED
  BY <1>1, <1>2, <1>3, <1>4

\* A start puts at most its own manager into hass.data, where there is none.
LEMMA StartKeepsTypes ==
  ASSUME TypeOK, NEW g \in Generations, Start(g)
  PROVE  /\ entryData' \in [gen : AnyGeneration, task : AnyGeneration]
         /\ manager' \in [Generations -> Manager]
         /\ \A h \in Generations :
              manager'[h] = manager[h] \/ (h = g /\ entryData'.task = g)
         /\ entryData'.task = entryData.task \/ entryData.task = NoGeneration
<1> USE DEF TypeOK, AnyGeneration
<1>1. CASE entryData # NoData /\ entryData.task = NoGeneration
  <2>1. entryData' = [entryData EXCEPT !.task = g]
    BY <1>1 DEF Start
  <2>2. manager' = manager \/ manager' = [manager EXCEPT ![g] = Connecting]
    BY <1>1 DEF Start
  <2>3. manager' \in [Generations -> Manager]
    BY <2>2, ManagerValues
  <2> QED
    BY <1>1, <2>1, <2>2, <2>3
<1>2. CASE ~(entryData # NoData /\ entryData.task = NoGeneration)
  <2>1. entryData' = entryData /\ manager' = manager
    BY <1>2 DEF Start
  <2>2. \A h \in Generations : manager'[h] = manager[h]
    BY <2>1
  <2>3. entryData'.task = entryData.task
    BY <2>1
  <2> QED
    BY <2>1, <2>2, <2>3
<1> QED
  BY <1>1, <1>2

\* A step of the manager's loop changes its own record, keeps it a manager and
\* never brings it to life.
LEMMA LoopKeepsTypes ==
  ASSUME TypeOK, NEW g \in Generations,
         Client(g) \/ Proceed(g) \/ Resubscribe(g)
  PROVE  /\ manager' \in [Generations -> Manager]
         /\ \A h \in Generations : Alive(h)' => Alive(h)
         /\ reload' \in BOOLEAN
         /\ UNCHANGED <<lifeCycle, entryData>>
<1>0. manager[g] \in Manager
  BY DEF TypeOK
<1> USE <1>0, ManagerValues DEF TypeOK, Alive, At
<1>1. CASE SessionIsHealthy(g)
  <2>1. [manager[g] EXCEPT !.healthy = TRUE] \in Manager
    BY DEF Manager
  <2> QED
    BY <1>1, <2>1 DEF SessionIsHealthy, Manager
<1>2. CASE ListenerEnds(g)
  <2>1. [manager[g] EXCEPT !.listener = "none"] \in Manager
    BY DEF Manager
  <2> QED
    BY <1>2, <2>1 DEF ListenerEnds, Manager
<1>3. CASE Attempt(g)
  <2> USE DEF Manager, Phases, Opened
  <2>1. CASE Connects(g)
    BY <2>1 DEF Connects
  <2>2. CASE ConnectsWithoutListener(g)
    BY <2>2 DEF ConnectsWithoutListener
  <2>3. CASE ConnectFails(g)
    BY <2>3 DEF ConnectFails
  <2> QED
    BY <1>3, <2>1, <2>2, <2>3 DEF Attempt
<1>4. CASE ListenerFinished(g)
  BY <1>4 DEF ListenerFinished, Manager, Phases
<1>5. CASE Resubscribe(g) \/ Resubscribed(g) \/ ResubscribeFails(g)
  <2> USE DEF Manager, Phases
  <2>1. CASE Resubscribe(g)
    BY <2>1 DEF Resubscribe
  <2>2. CASE Resubscribed(g)
    BY <2>2 DEF Resubscribed
  <2>3. CASE ResubscribeFails(g)
    BY <2>3 DEF ResubscribeFails
  <2> QED
    BY <1>5, <2>1, <2>2, <2>3
<1>6. CASE LoopEnds(g)
  BY <1>6 DEF LoopEnds
<1>7. CASE ForceReload(g) \/ CleanUpFails(g)
  <2>1. CASE ForceReload(g)
    BY <2>1 DEF ForceReload
  <2>2. CASE CleanUpFails(g)
    <3>1. [Off EXCEPT !.pc = "crashed"].pc = "crashed"
      BY DEF Off
    <3> QED
      BY <2>2, <3>1 DEF CleanUpFails
  <2> QED
    BY <1>7, <2>1, <2>2
<1>8. CASE BackOff(g)
  <2>1. NextWebsocketRetry(manager[g]) \in 0..MaxFailures
    OBVIOUS
  <2> QED
    BY <1>8, <2>1 DEF BackOff, Disconnected, Manager, Phases
<1>9. CASE Reconnect(g)
  <2>1. manager[g].pc = "sleeping"
    BY <1>9 DEF Reconnect
  <2>2. [manager[g] EXCEPT !.pc = "connecting", !.healthy = FALSE] \in Manager
    BY DEF Manager, Phases
  <2> QED
    BY <1>9, <2>1, <2>2 DEF Reconnect
<1>10. CASE Interrupted(g)
  <2>1. CASE manager[g].pc \in {"sleeping", "disconnecting"}
    <3>1. manager' = [manager EXCEPT ![g] = Off]
      BY <1>10, <2>1 DEF Interrupted
    <3> QED
      BY <1>10, <3>1 DEF Interrupted
  <2>2. CASE manager[g].pc \notin {"sleeping", "disconnecting"}
    <3>1. \E n \in Manager : n.pc # "off" /\ manager' = [manager EXCEPT ![g] = n]
      <4>1. CASE manager[g].listener = "none"
        <5> DEFINE n == [manager[g] EXCEPT !.pc = "disconnecting",
                                           !.leaving = TRUE, !.cancelled = FALSE]
        <5>1. n \in Manager /\ n.pc # "off"
          BY DEF Manager, Phases
        <5>2. manager' = [manager EXCEPT ![g] = n]
          BY <1>10, <2>2, <4>1 DEF Interrupted
        <5> QED
          BY <5>1, <5>2
      <4>2. CASE manager[g].listener # "none"
        <5> DEFINE n == [manager[g] EXCEPT !.pc = "cleaning", !.leaving = TRUE,
                                           !.cancelled = FALSE,
                                           !.listener = "cancelled"]
        <5>1. n \in Manager /\ n.pc # "off"
          BY DEF Manager, Phases
        <5>2. manager' = [manager EXCEPT ![g] = n]
          BY <1>10, <2>2, <4>2 DEF Interrupted
        <5> QED
          BY <5>1, <5>2
      <4> QED
        BY <4>1, <4>2
    <3>2. manager[g].pc \notin {"off", "crashed"}
      BY <1>10 DEF Interrupted
    <3> QED
      BY <1>10, <3>1, <3>2 DEF Interrupted
  <2> QED
    BY <2>1, <2>2
<1> QED
  BY <1>1, <1>2, <1>3, <1>4, <1>5, <1>6, <1>7, <1>8, <1>9, <1>10
     DEF Client, Proceed

-----------------------------------------------------------------------------
\* Nothing is set up at first.
LEMMA TypeInit == Init => TypeOK
<1> SUFFICES ASSUME Init PROVE TypeOK
  OBVIOUS
<1>1. NotDeferred \in [tries : 0..Tries, owned : BOOLEAN]
  BY BoundsArePositive DEF NotDeferred
<1>2. deferred \in [Generations -> [tries : 0..Tries, owned : BOOLEAN]]
  BY <1>1 DEF Init
<1>3. manager \in [Generations -> Manager]
  BY ManagerValues DEF Init
<1>4. /\ entryData \in [gen : AnyGeneration, task : AnyGeneration]
      /\ unload \in [at : {"no", "manager", "signaling", "platforms"},
                     awaits : AnyGeneration]
  BY DEF Init, NoData, NoUnload, AnyGeneration
<1> QED
  BY <1>2, <1>3, <1>4 DEF Init, TypeOK

\* Every variable keeps its type, for any generations and bounds.
LEMMA TypeStep == TypeOK /\ [Next]_vars => TypeOK'
<1> SUFFICES ASSUME TypeOK, [Next]_vars PROVE TypeOK'
  OBVIOUS
<1> USE DEF TypeOK, AnyGeneration
<1>1. ASSUME NEW g \in Generations, SetUpBegins(g) PROVE TypeOK'
  <2>1. NotDeferred \in [tries : 0..Tries, owned : BOOLEAN]
    BY BoundsArePositive DEF NotDeferred
  <2> QED
    BY <1>1, <2>1, ManagerValues DEF SetUpBegins
<1>2. CASE SetUpFails
  BY <1>2 DEF SetUpFails
<1>3. CASE SetUpSucceeds
  <2>1. [tries |-> Tries, owned |-> TRUE] \in [tries : 0..Tries, owned : BOOLEAN]
    BY BoundsArePositive
  <2>2. startListener' \subseteq Generations
    BY <1>3 DEF SetUpSucceeds
  <2> QED
    BY <1>3, <2>1, <2>2 DEF SetUpSucceeds
<1>4. ASSUME NEW g \in Generations, DeferredStarts(g) PROVE TypeOK'
  <2>1. [deferred[g] EXCEPT !.tries = 0] \in [tries : 0..Tries, owned : BOOLEAN]
    BY BoundsArePositive
  <2>2. Start(g) /\ deferred' = [deferred EXCEPT ![g].tries = 0]
    BY <1>4 DEF DeferredStarts
  <2> QED
    BY <1>4, <2>1, <2>2, StartKeepsTypes DEF DeferredStarts
<1>5. ASSUME NEW g \in Generations, DeferredWaits(g) PROVE TypeOK'
  <2>1. [deferred[g] EXCEPT !.tries = @ - 1] \in [tries : 0..Tries, owned : BOOLEAN]
    BY <1>5, BoundsArePositive DEF DeferredWaits, TriesLeft
  <2> QED
    BY <1>5, <2>1 DEF DeferredWaits
<1>6. ASSUME NEW g \in Generations, Client(g) \/ Proceed(g) \/ Resubscribe(g)
      PROVE TypeOK'
  BY <1>6, LoopKeepsTypes DEF lifeCycle
<1>7. CASE Unload
  BY <1>7, ManagerValues DEF Unload
<1>8. CASE UnloadProceeds
  <2>1. NotDeferred \in [tries : 0..Tries, owned : BOOLEAN]
    BY BoundsArePositive DEF NotDeferred
  <2>2. DeferredCancelled \in [Generations -> [tries : 0..Tries, owned : BOOLEAN]]
    BY <2>1 DEF DeferredCancelled
  <2>3. CASE ManagerAwaited
    BY <2>3 DEF ManagerAwaited, NoUnload
  <2>4. CASE StartListenerRemoved
    BY <2>4 DEF StartListenerRemoved
  <2>5. CASE UnloadSucceeds
    BY <2>2, <2>5 DEF UnloadSucceeds, NoUnload, NoData
  <2>6. CASE UnloadFails
    BY <2>6 DEF UnloadFails, NoUnload
  <2> QED
    BY <1>8, <2>3, <2>4, <2>5, <2>6 DEF UnloadProceeds
<1>9. CASE HomeAssistantStarts
  <2>1. [tries |-> Tries - 1, owned |-> FALSE] \in [tries : 0..Tries, owned : BOOLEAN]
    BY BoundsArePositive
  <2>2. CASE entryState = "loaded" /\ startListener # {}
    <3>1. PICK g \in startListener : Start(g)
      BY <1>9, <2>2 DEF HomeAssistantStarts
    <3> QED
      BY <1>9, <2>2, <3>1, StartKeepsTypes DEF HomeAssistantStarts
  <2>3. CASE ~(entryState = "loaded" /\ startListener # {})
    BY <1>9, <2>1, <2>3 DEF HomeAssistantStarts
  <2> QED
    BY <2>2, <2>3
<1>10. CASE HomeAssistantRuns
  BY <1>10 DEF HomeAssistantRuns
<1>11. CASE HomeAssistantStops
  BY <1>11, ManagerValues DEF HomeAssistantStops
<1>12. CASE UNCHANGED vars
  BY <1>12 DEF vars
<1> QED
  BY <1>1, <1>2, <1>3, <1>4, <1>5, <1>6, <1>7, <1>8, <1>9, <1>10, <1>11, <1>12
     DEF Next, SetUp, DeferredStart, HomeAssistant

\* Every variable keeps its type, for any generations and bounds.
THEOREM TypeCorrectness == Spec => []TypeOK
<1> QED
  BY TypeInit, TypeStep, PTL DEF Spec

-----------------------------------------------------------------------------
\* A cancellation neither starts nor ends a manager at once.
LEMMA CancelKeepsAlive ==
  ASSUME TypeOK, NEW task \in AnyGeneration,
         manager' = IF task = NoGeneration THEN manager
                    ELSE [manager EXCEPT ![task] = Cancel(@)]
  PROVE  \A g \in Generations : Alive(g)' <=> Alive(g)
  BY ManagerValues DEF Alive, TypeOK, AnyGeneration

\* Starting and stopping a manager, an unload and its wait keep track of every
\* manager that runs.
LEMMA InvariantStep == IInv /\ TypeOK' /\ [Next]_vars => IInv'
<1> SUFFICES ASSUME IInv, TypeOK', [Next]_vars
             PROVE ManagersAreKnown' /\ TaskOfLoadedEntry'
  BY DEF IInv
<1> DEFINE Goal == ManagersAreKnown' /\ TaskOfLoadedEntry'
<1> USE DEF IInv, ManagersAreKnown, TaskOfLoadedEntry
<1>1. CASE SetUp \/ HomeAssistantRuns
  <2>1. ASSUME NEW g \in Generations, SetUpBegins(g) PROVE Goal
    <3>1. \A h \in Generations : Alive(h)' => Alive(h)
      BY <2>1, ManagerValues DEF SetUpBegins, Alive, TypeOK
    <3> QED
      BY <2>1, <3>1 DEF SetUpBegins
  <2> QED
    BY <1>1, <2>1 DEF SetUp, SetUpFails, SetUpSucceeds, HomeAssistantRuns, Alive
<1>2. ASSUME NEW g \in Generations, entryState = "loaded", Start(g),
             UNCHANGED <<entryState, unload>>
      PROVE Goal
  BY <1>2, StartKeepsTypes, NoGenerationIsNone DEF Alive
<1>3. ASSUME NEW g \in Generations, DeferredStart(g) PROVE Goal
  BY <1>2, <1>3 DEF DeferredStart, DeferredStarts, DeferredWaits, Alive
<1>4. ASSUME NEW g \in Generations, Client(g) \/ Proceed(g) \/ Resubscribe(g)
      PROVE Goal
  BY <1>4, LoopKeepsTypes DEF lifeCycle
<1>5. CASE Unload
  <2>1. \A g \in Generations : Alive(g)' <=> Alive(g)
    BY <1>5, CancelKeepsAlive DEF Unload, TypeOK
  <2> QED
    BY <1>5, <2>1 DEF Unload, TypeOK
<1>6. CASE UnloadProceeds
  <2>1. CASE ManagerAwaited
    BY <2>1 DEF ManagerAwaited, NoUnload, Alive, TypeOK
  <2>2. CASE StartListenerRemoved
    BY <2>2 DEF StartListenerRemoved, Alive, TypeOK
  <2>3. CASE UnloadSucceeds
    BY <2>3 DEF UnloadSucceeds, NoUnload, NoData, Alive, TypeOK
  <2>4. CASE UnloadFails
    BY <2>4 DEF UnloadFails, NoUnload, Alive, TypeOK
  <2> QED
    BY <1>6, <2>1, <2>2, <2>3, <2>4 DEF UnloadProceeds
<1>7. CASE HomeAssistantStarts
  <2>1. CASE entryState = "loaded" /\ startListener # {}
    <3>1. PICK g \in startListener : Start(g)
      BY <1>7, <2>1 DEF HomeAssistantStarts
    <3>2. g \in Generations
      BY DEF TypeOK
    <3> QED
      BY <1>2, <1>7, <2>1, <3>1, <3>2 DEF HomeAssistantStarts
  <2>2. CASE ~(entryState = "loaded" /\ startListener # {})
    BY <1>7, <2>2 DEF HomeAssistantStarts, Alive
  <2> QED
    BY <2>1, <2>2
<1>8. CASE HomeAssistantStops
  <2>1. \A g \in Generations : Alive(g)' <=> Alive(g)
    BY <1>8, CancelKeepsAlive DEF HomeAssistantStops, TypeOK
  <2> QED
    BY <1>8, <2>1 DEF HomeAssistantStops
<1>9. CASE UNCHANGED vars
  BY <1>9 DEF vars, Alive
<1> QED
  BY <1>1, <1>3, <1>4, <1>5, <1>6, <1>7, <1>8, <1>9 DEF Next, HomeAssistant

\* An entry never has two managers (async_unload_entry awaits the old one,
\* _async_start_websocket_manager keeps the one that is there).
THEOREM OneManagerOnly == Spec => []OneManager
<1>1. Init => IInv
  <2> SUFFICES ASSUME Init PROVE IInv
    OBVIOUS
  <2>1. \A g \in Generations : ~Alive(g)
    BY ManagerValues DEF Init, Alive
  <2>2. TaskOfLoadedEntry
    BY DEF Init, TaskOfLoadedEntry, NoData, NoUnload
  <2> QED
    BY <2>1, <2>2, TypeInit DEF IInv, ManagersAreKnown
<1>2. IInv => OneManager
  BY NoGenerationIsNone
     DEF IInv, ManagersAreKnown, TaskOfLoadedEntry, OneManager, TypeOK
<1> QED
  BY <1>1, <1>2, InvariantStep, TypeStep, PTL DEF Spec, IInv

-----------------------------------------------------------------------------
\* A start of the present set-up, or one of the start event, which has no owner.
IsOfTheEntry(g) == g = entryData.gen \/ ~deferred[g].owned

\* Whatever waits to start a manager, has started one or awaits its end.
StartsAreOfTheEntry ==
  /\ \A g \in Generations :
       \/ g = entryData.task
       \/ unload.at = "manager" /\ g = unload.awaits
       => IsOfTheEntry(g)
  /\ \A g \in Generations :
       deferred[g].tries > 0 =>
         /\ IsOfTheEntry(g)
         /\ deferred[g].owned =>
              entryState \in {"loaded", "unload_in_progress", "failed_unload"}
  /\ \A g \in startListener :
       /\ g = entryData.gen
       /\ entryState = "loaded" \/ unload.at \in {"manager", "signaling"}

\* An unload removes the one listener and cancels the one start that is owned.
LEMMA StartsStep ==
  ASSUME IInv, StartsAreOfTheEntry, TypeOK', [Next]_vars
  PROVE  StartsAreOfTheEntry'
<1> TypeOK /\ TaskOfLoadedEntry
  BY DEF IInv
<1> USE DEF StartsAreOfTheEntry, IsOfTheEntry
<1>1. ASSUME NEW g \in Generations, SetUpBegins(g) PROVE StartsAreOfTheEntry'
  <2>1. /\ entryState \in {"not_loaded", "setup_retry"}
        /\ unload.at = "no" /\ unload' = unload
        /\ entryData' = [gen |-> g, task |-> NoGeneration]
        /\ startListener' = startListener /\ startListener = {}
    BY <1>1 DEF SetUpBegins, TaskOfLoadedEntry
  <2>2. /\ deferred'[g].tries = 0
        /\ \A h \in Generations : h # g => deferred'[h] = deferred[h]
    BY <1>1 DEF SetUpBegins, NotDeferred, TypeOK
  <2>3. \A h \in Generations : deferred'[h].tries > 0 => ~deferred'[h].owned
    BY <2>1, <2>2
  <2> QED
    BY <2>1, <2>3, NoGenerationIsNone
<1>2. CASE SetUpFails
  BY <1>2 DEF SetUpFails, TaskOfLoadedEntry
<1>3. CASE SetUpSucceeds
  <2>1. \A h \in Generations : h # entryData.gen => deferred'[h] = deferred[h]
    BY <1>3 DEF SetUpSucceeds, TypeOK
  <2> QED
    BY <1>3, <2>1 DEF SetUpSucceeds, TaskOfLoadedEntry, TypeOK
<1>4. ASSUME NEW g \in Generations, Start(g), IsOfTheEntry(g)
      PROVE  /\ entryData'.gen = entryData.gen
             /\ entryData'.task \in {g, entryData.task}
  BY <1>4 DEF Start, TypeOK
<1>5. ASSUME NEW g \in Generations, DeferredStarts(g) PROVE StartsAreOfTheEntry'
  <2>1. IsOfTheEntry(g) /\ Start(g) /\ entryState = "loaded"
    BY <1>5 DEF DeferredStarts, TriesLeft
  <2>2. \A h \in Generations : /\ deferred'[h].owned = deferred[h].owned
                               /\ deferred'[h].tries > 0 => deferred[h].tries > 0
    BY <1>5 DEF DeferredStarts, TypeOK
  <2> QED
    BY <1>4, <1>5, <2>1, <2>2 DEF DeferredStarts, TypeOK
<1>6. ASSUME NEW g \in Generations, DeferredWaits(g) PROVE StartsAreOfTheEntry'
  <2>1. \A h \in Generations : /\ deferred'[h].owned = deferred[h].owned
                               /\ deferred'[h].tries > 0 => deferred[h].tries > 0
    BY <1>6 DEF DeferredWaits, TriesLeft, TypeOK
  <2> QED
    BY <1>6, <2>1 DEF DeferredWaits
<1>7. ASSUME NEW g \in Generations, Client(g) \/ Proceed(g) \/ Resubscribe(g)
      PROVE  StartsAreOfTheEntry'
  BY <1>7, LoopKeepsTypes DEF lifeCycle
<1>8. CASE Unload
  BY <1>8, NoGenerationIsNone DEF Unload, TypeOK
<1>9. CASE ManagerAwaited
  BY <1>9 DEF ManagerAwaited, NoUnload
<1>10. CASE StartListenerRemoved
  BY <1>10 DEF StartListenerRemoved
<1>11. CASE UnloadSucceeds
  <2>1. \A g \in Generations : deferred'[g].tries > 0 => ~deferred'[g].owned
    BY <1>11 DEF UnloadSucceeds, DeferredCancelled, NotDeferred, TypeOK
  <2> QED
    BY <1>11, <2>1, NoGenerationIsNone
       DEF UnloadSucceeds, NoUnload, NoData, TaskOfLoadedEntry
<1>12. CASE UnloadFails
  BY <1>12 DEF UnloadFails, NoUnload, TypeOK, TaskOfLoadedEntry
<1>13. CASE HomeAssistantStarts
  <2>1. CASE entryState = "loaded" /\ startListener # {}
    <3>1. PICK g \in startListener : Start(g)
      BY <1>13, <2>1 DEF HomeAssistantStarts
    <3>2. g \in Generations /\ IsOfTheEntry(g)
      BY DEF TypeOK
    <3>3. /\ entryData'.gen = entryData.gen
          /\ entryData'.task \in {g, entryData.task}
      BY <1>4, <3>1, <3>2
    <3>4. UNCHANGED <<entryState, deferred, unload>> /\ startListener' = {}
      BY <1>13, <2>1 DEF HomeAssistantStarts
    <3> QED
      BY <3>2, <3>3, <3>4
  <2>2. CASE ~(entryState = "loaded" /\ startListener # {})
    <3>1. \A g \in Generations : deferred'[g] = deferred[g] \/ ~deferred'[g].owned
      BY <1>13, <2>2 DEF HomeAssistantStarts, TypeOK
    <3>2. UNCHANGED <<entryState, entryData, unload>> /\ startListener' = {}
      BY <1>13, <2>2 DEF HomeAssistantStarts
    <3> QED
      BY <3>1, <3>2
  <2> QED
    BY <2>1, <2>2
<1>14. CASE HomeAssistantRuns \/ HomeAssistantStops \/ UNCHANGED vars
  BY <1>14 DEF HomeAssistantRuns, HomeAssistantStops, vars
<1> QED
  BY <1>1, <1>2, <1>3, <1>5, <1>6, <1>7, <1>8, <1>9, <1>10, <1>11, <1>12, <1>13,
     <1>14 DEF Next, SetUp, DeferredStart, UnloadProceeds, HomeAssistant

\* The manager that runs is that of the entry's present set-up, or of a start
\* made by the start event of Home Assistant while the entry was not loaded: no
\* other deferred start survives an unload (async_unload_entry).
THEOREM ManagersServeTheirEntry == Spec => []ManagerServesItsEntry
<1>1. Init => IInv /\ StartsAreOfTheEntry
  <2> SUFFICES ASSUME Init PROVE IInv /\ StartsAreOfTheEntry
    OBVIOUS
  <2>1. \A g \in Generations : ~Alive(g)
    BY ManagerValues DEF Init, Alive
  <2>2. TaskOfLoadedEntry /\ StartsAreOfTheEntry
    BY NoGenerationIsNone
       DEF Init, TaskOfLoadedEntry, StartsAreOfTheEntry, NoData, NoUnload, NotDeferred
  <2> QED
    BY <2>1, <2>2, TypeInit DEF IInv, ManagersAreKnown
<1>2. IInv /\ StartsAreOfTheEntry /\ [Next]_vars => (IInv /\ StartsAreOfTheEntry)'
  BY InvariantStep, TypeStep, StartsStep DEF IInv
<1>3. IInv /\ StartsAreOfTheEntry => ManagerServesItsEntry
  BY NoGenerationIsNone
     DEF IInv, ManagersAreKnown, StartsAreOfTheEntry, IsOfTheEntry, ManagerServesItsEntry
<1> QED
  BY <1>1, <1>2, <1>3, PTL DEF Spec
=============================================================================
