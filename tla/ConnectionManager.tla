--------------------------- MODULE ConnectionManager ---------------------------
(***************************************************************************)
(* The life of a config entry (__init__.py): set-up, the deferred start of *)
(* the WebSocket connection manager, its connect / listen / reconnect loop *)
(* with the forced reload, and the unload, while Home Assistant starts,    *)
(* runs and stops.                                                         *)
(*                                                                         *)
(* Every set-up makes a coordinator, a WebSocket client and a manager of   *)
(* its own: a generation.  A manager can only be interrupted at an await;  *)
(* its steps are the pieces between them.  The WebSocket client and Home   *)
(* Assistant's core are external.                                          *)
(***************************************************************************)
EXTENDS Naturals

CONSTANTS
  Generations,   \* set-ups of the entry that may still leave a trace
  NoGeneration,
  MaxFailures,   \* MAX_CONSECUTIVE_WS_FAILURES
  Tries          \* the polls of _deferred_start_websocket, one per second

ASSUME BoundsArePositive == MaxFailures \in Nat \ {0} /\ Tries \in Nat \ {0}

ASSUME NoGenerationIsNone == NoGeneration \notin Generations

VARIABLES
  hassState,     \* hass.state
  entryState,    \* entry.state
  entryData,     \* hass.data[DOMAIN][entry_id]: its generation, and the
                 \* generation of WEBSOCKET_TASK_KEY's manager
  startListener, \* generations that wait for EVENT_HOMEASSISTANT_START
  deferred,      \* running _deferred_start_websocket calls, and whether they
                 \* are the set-up's own task or the start event's
  manager,       \* _websocket_connection_manager of each generation
  unload,        \* where async_unload_entry is, and the manager it waits for
  reload         \* async_schedule_reload has been called

vars == <<hassState, entryState, entryData, startListener, deferred, manager,
          unload, reload>>

lifeCycle == <<hassState, entryState, startListener, deferred, unload>>

-----------------------------------------------------------------------------
Phases == {"off", "connecting", "listening", "resubscribing", "dropping",
           "cleaning", "disconnecting", "sleeping", "crashed"}

\* crashed: ended by an exception of its own clean-up; boot: is_boot; healthy: the session was long or brought a message; leaving:
\* an exception ends the loop after the clean-up; cancelled: a CancelledError is
\* on its way; listener: the client's listener task.
Manager == [pc : Phases, boot : BOOLEAN, attempt : 0..MaxFailures,
            healthy : BOOLEAN, leaving : BOOLEAN, cancelled : BOOLEAN,
            listener : {"none", "running", "cancelled"}]

Off == [pc |-> "off", boot |-> TRUE, attempt |-> 0, healthy |-> FALSE,
        leaving |-> FALSE, cancelled |-> FALSE, listener |-> "none"]

Connecting == [Off EXCEPT !.pc = "connecting"]

NoData == [gen |-> NoGeneration, task |-> NoGeneration]
NotDeferred == [tries |-> 0, owned |-> TRUE]
NoUnload == [at |-> "no", awaits |-> NoGeneration]

AnyGeneration == Generations \cup {NoGeneration}

TypeOK ==
  /\ hassState \in {"not_running", "starting", "running", "stopping"}
  /\ entryState \in {"not_loaded", "setup_in_progress", "setup_retry", "loaded",
                     "unload_in_progress", "failed_unload"}
  /\ entryData \in [gen : AnyGeneration, task : AnyGeneration]
  /\ entryState = "setup_in_progress" => entryData.gen \in Generations
  /\ startListener \subseteq Generations
  /\ deferred \in [Generations -> [tries : 0..Tries, owned : BOOLEAN]]
  /\ manager \in [Generations -> Manager]
  /\ unload \in [at : {"no", "manager", "signaling", "platforms"},
                 awaits : AnyGeneration]
  /\ reload \in BOOLEAN

Init ==
  /\ hassState \in {"not_running", "running"}
  /\ entryState = "not_loaded"
  /\ entryData = NoData
  /\ startListener = {}
  /\ deferred = [g \in Generations |-> NotDeferred]
  /\ manager = [g \in Generations |-> Off]
  /\ unload = NoUnload
  /\ reload = FALSE

-----------------------------------------------------------------------------
(* Helpers *)

IsRunning == hassState \in {"starting", "running"}

Alive(g) == manager[g].pc \notin {"off", "crashed"}

\* An id is used again once nothing of its last set-up is left.
Unused(g) ==
  /\ ~Alive(g)
  /\ deferred[g].tries = 0
  /\ g \notin startListener
  /\ entryData.gen # g

\* task.cancel(): a task that waits for another one passes its cancellation on,
\* and suppress(CancelledError) around that await hides it from the manager.
Cancel(m) ==
  IF m.pc \in {"off", "crashed", "dropping", "cleaning"} THEN m
  ELSE [m EXCEPT !.cancelled = TRUE]

\* _async_start_websocket_manager, called by the set-up of generation g.
Start(g) ==
  IF entryData # NoData /\ entryData.task = NoGeneration
  THEN /\ entryData' = [entryData EXCEPT !.task = g]
       /\ manager' = IF hassState' = "stopping" THEN manager
                     ELSE [manager EXCEPT ![g] = Connecting]
  ELSE UNCHANGED <<entryData, manager>>

\* _next_websocket_retry, counting up to the number that forces a reload.
NextWebsocketRetry(m) ==
  LET attempt == IF m.healthy THEN 0 ELSE m.attempt
  IN  IF attempt < MaxFailures THEN attempt + 1 ELSE MaxFailures

-----------------------------------------------------------------------------
(* Set-up *)

\* The entry is set up, set up again after ConfigEntryNotReady, or reloaded.
\* Nobody reads hass.data[DOMAIN] before the set-up has ended.
SetUpBegins(g) ==
  /\ entryState \in {"not_loaded", "setup_retry"}
  /\ hassState # "stopping"
  /\ Unused(g)
  /\ entryState' = "setup_in_progress"
  /\ entryData' = [gen |-> g, task |-> NoGeneration]
  /\ deferred' = [deferred EXCEPT ![g] = NotDeferred]
  /\ manager' = [manager EXCEPT ![g] = Off]
  /\ UNCHANGED <<hassState, startListener, unload, reload>>

\* The credentials, the history or the first refresh: nothing is scheduled yet.
SetUpFails ==
  /\ entryState = "setup_in_progress"
  /\ entryState' = "setup_retry"
  /\ UNCHANGED <<hassState, entryData, startListener, deferred, manager, unload,
                 reload>>

\* The start of the manager is deferred to a task that the unload cancels, or
\* to the start of Home Assistant.
SetUpSucceeds ==
  LET g == entryData.gen IN
  /\ entryState = "setup_in_progress"
  /\ entryState' = "loaded"
  /\ IF hassState = "running"
     THEN /\ deferred' = [deferred EXCEPT ![g] = [tries |-> Tries, owned |-> TRUE]]
          /\ UNCHANGED startListener
     ELSE /\ startListener' = startListener \cup {g}
          /\ UNCHANGED deferred
  /\ UNCHANGED <<hassState, entryData, manager, unload, reload>>

\* A mistake: the last try is followed by one more.
OneTryMore(g) == deferred[g].tries >= 0

TriesLeft(g) == deferred[g].tries > 0

DeferredStarts(g) ==
  /\ TriesLeft(g)
  /\ entryState = "loaded"
  /\ deferred' = [deferred EXCEPT ![g].tries = 0]
  /\ UNCHANGED hassState
  /\ Start(g)
  /\ UNCHANGED <<entryState, startListener, unload, reload>>

DeferredWaits(g) ==
  /\ TriesLeft(g)
  /\ entryState # "loaded"
  /\ deferred' = [deferred EXCEPT ![g].tries = @ - 1]
  /\ UNCHANGED <<hassState, entryState, entryData, startListener, manager,
                 unload, reload>>

-----------------------------------------------------------------------------
(* The manager of generation g *)

\* An await of the manager ends while nothing has cancelled it.
At(g, pc) == manager[g].pc = pc /\ ~manager[g].cancelled

\* A mistake: a completed handshake resets the count of failures.
OpenedAndReset(m) == [m EXCEPT !.boot = FALSE, !.attempt = 0]

Opened(m) == [m EXCEPT !.boot = FALSE]

\* The client hands out its listener task, or none.
Connects(g) ==
  /\ At(g, "connecting")
  /\ manager' = [manager EXCEPT ![g] =
                   [Opened(@) EXCEPT !.pc = "listening", !.listener = "running"]]
  /\ UNCHANGED <<lifeCycle, entryData, reload>>

ConnectsWithoutListener(g) ==
  /\ At(g, "connecting")
  /\ manager' = [manager EXCEPT ![g] = [Opened(@) EXCEPT !.pc = "disconnecting"]]
  /\ UNCHANGED <<lifeCycle, entryData, reload>>

\* A mistake: after an AuthError there is no other attempt.
ConnectGivesUp(g) ==
  /\ At(g, "connecting")
  /\ manager' = [manager EXCEPT ![g] = Off]
  /\ UNCHANGED <<lifeCycle, entryData, reload>>

\* AuthError, PyBticinoException, WebSocketException, or anything else.
ConnectFails(g) ==
  /\ At(g, "connecting")
  /\ manager' = [manager EXCEPT ![g].pc = "disconnecting"]
  /\ UNCHANGED <<lifeCycle, entryData, reload>>

\* The coordinator gets a message, or WS_STABLE_CONNECTION_SECONDS have passed.
SessionIsHealthy(g) ==
  /\ manager[g].listener = "running"
  /\ manager' = [manager EXCEPT ![g].healthy = TRUE]
  /\ UNCHANGED <<lifeCycle, entryData, reload>>

\* The connection is closed or breaks, or the cancelled listener ends.
ListenerEnds(g) ==
  /\ manager[g].listener # "none"
  /\ manager' = [manager EXCEPT ![g].listener = "none"]
  /\ UNCHANGED <<lifeCycle, entryData, reload>>

\* Nothing is cancelled: the finally clause goes on to the disconnect.
ListenerFinished(g) ==
  /\ At(g, "listening") \/ At(g, "dropping") \/ At(g, "cleaning")
  /\ manager[g].listener = "none"
  /\ manager' = [manager EXCEPT ![g].pc = "disconnecting"]
  /\ UNCHANGED <<lifeCycle, entryData, reload>>

\* TOKEN_RESUBSCRIBE_INTERVAL has passed, longer than a healthy session needs.
Resubscribe(g) ==
  /\ At(g, "listening")
  /\ manager[g].listener = "running"
  /\ manager' = [manager EXCEPT ![g].pc = "resubscribing", ![g].healthy = TRUE]
  /\ UNCHANGED <<lifeCycle, entryData, reload>>

Resubscribed(g) ==
  /\ At(g, "resubscribing")
  /\ manager' = [manager EXCEPT ![g].pc = "listening"]
  /\ UNCHANGED <<lifeCycle, entryData, reload>>

ResubscribeFails(g) ==
  /\ At(g, "resubscribing")
  /\ manager' = [manager EXCEPT ![g].pc = "dropping",
                                ![g].listener = IF @ = "none" THEN @
                                                ELSE "cancelled"]
  /\ UNCHANGED <<lifeCycle, entryData, reload>>

\* A mistake: the state of the entry is not looked at.
GoesOnWhileRunning == IsRunning

GoesOn == IsRunning /\ entryState = "loaded"

Disconnected(g) == At(g, "disconnecting") /\ ~manager[g].leaving

LoopEnds(g) ==
  /\ At(g, "disconnecting")
  /\ manager[g].leaving \/ ~GoesOn
  /\ manager' = [manager EXCEPT ![g] = Off]
  /\ UNCHANGED <<lifeCycle, entryData, reload>>

\* The clean-up itself raises: the awaited listener, or the client's disconnect.
\* The outer except clause ends the manager, whatever is still to do.
CleanUpFails(g) ==
  /\ \/ At(g, "disconnecting")
     \/ At(g, "cleaning") /\ manager[g].listener = "none"
  /\ manager' = [manager EXCEPT ![g] = [Off EXCEPT !.pc = "crashed"]]
  /\ UNCHANGED <<lifeCycle, entryData, reload>>

TooManyFailures(m) == ~m.boot /\ NextWebsocketRetry(m) = MaxFailures

ForceReload(g) ==
  /\ Disconnected(g)
  /\ GoesOn
  /\ TooManyFailures(manager[g])
  /\ reload' = TRUE
  /\ manager' = [manager EXCEPT ![g] = Off]
  /\ UNCHANGED <<lifeCycle, entryData>>

BackOff(g) ==
  /\ Disconnected(g)
  /\ GoesOn
  /\ ~TooManyFailures(manager[g])
  /\ manager' = [manager EXCEPT ![g].pc = "sleeping",
                                ![g].attempt = NextWebsocketRetry(manager[g])]
  /\ UNCHANGED <<lifeCycle, entryData, reload>>

Reconnect(g) ==
  /\ At(g, "sleeping")
  /\ manager' = [manager EXCEPT ![g] =
                   IF IsRunning THEN [@ EXCEPT !.pc = "connecting", !.healthy = FALSE]
                   ELSE Off]
  /\ UNCHANGED <<lifeCycle, entryData, reload>>

\* CancelledError: the sleep and the disconnect end the loop at once, the other
\* awaits after the finally clause has cancelled the listener and disconnected.
Interrupted(g) ==
  LET m == manager[g] IN
  /\ Alive(g) /\ m.cancelled
  /\ manager' = [manager EXCEPT ![g] =
       IF m.pc \in {"sleeping", "disconnecting"} THEN Off
       ELSE IF m.listener = "none"
            THEN [m EXCEPT !.pc = "disconnecting", !.leaving = TRUE,
                           !.cancelled = FALSE]
            ELSE [m EXCEPT !.pc = "cleaning", !.leaving = TRUE,
                           !.cancelled = FALSE, !.listener = "cancelled"]]
  /\ UNCHANGED <<lifeCycle, entryData, reload>>

-----------------------------------------------------------------------------
(* async_unload_entry: by the user, for new options, or by the manager *)

\* A mistake: the manager is dropped without being cancelled.
UnloadForgetsTask ==
  /\ entryState = "loaded"
  /\ entryState' = "unload_in_progress"
  /\ entryData' = [entryData EXCEPT !.task = NoGeneration]
  /\ unload' = [at |-> "manager", awaits |-> NoGeneration]
  /\ reload' = FALSE
  /\ UNCHANGED <<hassState, startListener, deferred, manager>>

\* A manager that has ended may still be the entry's: it is awaited as well.
Unload ==
  LET task == entryData.task IN
  /\ entryState = "loaded"
  /\ entryState' = "unload_in_progress"
  /\ entryData' = [entryData EXCEPT !.task = NoGeneration]
  /\ unload' = [at |-> "manager", awaits |-> task]
  /\ manager' = IF task = NoGeneration THEN manager
                ELSE [manager EXCEPT ![task] = Cancel(@)]
  /\ reload' = FALSE
  /\ UNCHANGED <<hassState, startListener, deferred>>

ManagerAwaited ==
  /\ unload.at = "manager"
  /\ unload.awaits \in Generations => ~Alive(unload.awaits)
  /\ unload' = [NoUnload EXCEPT !.at = "signaling"]
  /\ UNCHANGED <<hassState, entryState, entryData, startListener, deferred,
                 manager, reload>>

\* The signaling client is disconnected and the start listener removed.
StartListenerRemoved ==
  /\ unload.at = "signaling"
  /\ unload' = [unload EXCEPT !.at = "platforms"]
  /\ startListener' = startListener \ {entryData.gen}
  /\ UNCHANGED <<hassState, entryState, entryData, deferred, manager, reload>>

\* A mistake: nothing cancels the deferred start.
DeferredKept == deferred

\* The on_unload callbacks cancel the task of the set-up, but not the one that
\* the start of Home Assistant has made.
DeferredCancelled ==
  [g \in Generations |-> IF g = entryData.gen /\ deferred[g].owned THEN NotDeferred
                         ELSE deferred[g]]

UnloadSucceeds ==
  /\ unload.at = "platforms"
  /\ unload' = NoUnload
  /\ entryState' = "not_loaded"
  /\ entryData' = NoData
  /\ deferred' = DeferredCancelled
  /\ UNCHANGED <<hassState, startListener, manager, reload>>

\* async_unload_platforms returns False: Home Assistant gives the entry up.
UnloadFails ==
  /\ unload.at = "platforms"
  /\ unload' = NoUnload
  /\ entryState' = "failed_unload"
  /\ UNCHANGED <<hassState, entryData, startListener, deferred, manager, reload>>

-----------------------------------------------------------------------------
(* Home Assistant *)

\* EVENT_HOMEASSISTANT_START reaches _start_after_ha_start of those who wait.
HomeAssistantStarts ==
  /\ hassState = "not_running"
  /\ hassState' = "starting"
  /\ startListener' = {}
  /\ IF entryState = "loaded" /\ startListener # {}
     THEN /\ \E g \in startListener : Start(g)
          /\ UNCHANGED deferred
     ELSE /\ deferred' = [g \in Generations |->
                            IF g \in startListener
                            THEN [tries |-> Tries - 1, owned |-> FALSE]
                            ELSE deferred[g]]
          /\ UNCHANGED <<entryData, manager>>
  /\ UNCHANGED <<entryState, unload, reload>>

HomeAssistantRuns ==
  /\ hassState = "starting"
  /\ hassState' = "running"
  /\ UNCHANGED <<entryState, entryData, startListener, deferred, manager, unload,
                 reload>>

\* EVENT_HOMEASSISTANT_STOP: _async_cancel_websocket_on_stop.
HomeAssistantStops ==
  LET task == entryData.task IN
  /\ IsRunning
  /\ hassState' = "stopping"
  /\ manager' = IF task = NoGeneration THEN manager
                ELSE [manager EXCEPT ![task] = Cancel(@)]
  /\ UNCHANGED <<entryState, entryData, startListener, deferred, unload, reload>>

-----------------------------------------------------------------------------
SetUp == (\E g \in Generations : SetUpBegins(g)) \/ SetUpFails \/ SetUpSucceeds

DeferredStart(g) == DeferredStarts(g) \/ DeferredWaits(g)

\* What the client's connection does on its own.
Client(g) == SessionIsHealthy(g) \/ ListenerEnds(g)

Attempt(g) == Connects(g) \/ ConnectsWithoutListener(g) \/ ConnectFails(g)

Proceed(g) ==
  \/ Attempt(g)
  \/ ListenerFinished(g)
  \/ Resubscribed(g)
  \/ ResubscribeFails(g)
  \/ LoopEnds(g)
  \/ CleanUpFails(g)
  \/ ForceReload(g)
  \/ BackOff(g)
  \/ Reconnect(g)
  \/ Interrupted(g)

UnloadProceeds ==
  ManagerAwaited \/ StartListenerRemoved \/ UnloadSucceeds \/ UnloadFails

HomeAssistant == HomeAssistantStarts \/ HomeAssistantRuns \/ HomeAssistantStops

Next ==
  \/ SetUp
  \/ Unload
  \/ UnloadProceeds
  \/ HomeAssistant
  \/ \E g \in Generations :
       DeferredStart(g) \/ Client(g) \/ Proceed(g) \/ Resubscribe(g)

Spec == Init /\ [][Next]_vars

\* Connecting, resubscribing, disconnecting and sleeping end, a cancelled
\* listener ends, and Home Assistant carries out the reload it has scheduled.
\* A connection need not end, nor a set-up succeed.
Fairness ==
  /\ \A g \in Generations :
       /\ WF_vars(Proceed(g))
       /\ WF_vars(DeferredStart(g))
       /\ WF_vars(manager[g].listener = "cancelled" /\ ListenerEnds(g))
  /\ WF_vars(UnloadProceeds)
  /\ WF_vars(reload /\ Unload)
  /\ WF_vars(HomeAssistantRuns)

FairSpec == Spec /\ Fairness

-----------------------------------------------------------------------------
(* Properties *)

\* An entry never has two managers, each with a connection that delivers every
\* push: unload waits for the old one, and a start finds the one that is there.
OneManager == \A g, h \in Generations : Alive(g) /\ Alive(h) => g = h

\* The manager that runs feeds the coordinator the entities read: no start that
\* was deferred by an earlier set-up survives into this one, but for the one the
\* start event made while its entry was being unloaded, which nothing cancels.
ManagerServesItsEntry ==
  \A g \in Generations : Alive(g) => g = entryData.gen \/ ~deferred[g].owned

\* Whoever waits for a cancelled manager gets on (async_unload_entry,
\* _async_cancel_websocket_on_stop), though the manager may swallow the
\* CancelledError while it waits for its own listener.
CancelledManagersEnd ==
  /\ entryState = "unload_in_progress" ~> entryState # "unload_in_progress"
  /\ hassState = "stopping" ~> \A g \in Generations : ~Alive(g)

\* What leaves a loaded entry without pushes for good: its set-up ended between
\* the start event it waits for and the running state, its manager was ended by
\* its own clean-up, or its place was taken by the start of an earlier set-up.
Stranded ==
  \/ entryData.gen \in startListener
  \/ \E g \in Generations : g = entryData.task /\ manager[g].pc = "crashed"
  \/ entryData.task \notin {NoGeneration, entryData.gen}

\* An entry that stays loaded while Home Assistant runs has a manager of its own
\* that goes on, however connecting, listening and resubscribing fail; the three
\* ways in which _start_after_ha_start and the outer except clause do leave "the
\* integration with no WebSocket" are named in Stranded.
LoadedEntryListens ==
  <>[](entryState = "loaded" /\ hassState = "running")
    => <>[](\E g \in Generations : g = entryData.gen /\ Alive(g)) \/ <>[]Stranded

\* _next_websocket_retry: "Completing a WebSocket handshake isn't enough to
\* prove recovery."  No manager goes on reconnecting without a healthy session.
FlappingEndsInReload ==
  \A g \in Generations :
    []<>(manager[g].pc = "connecting" /\ ~manager[g].boot)
      => []<>(manager[g].healthy \/ ~Alive(g))
=============================================================================
