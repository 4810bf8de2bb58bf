------------------------------- MODULE Polling -------------------------------
(***************************************************************************)
(* The poll of the coordinator (coordinator.py, _async_update_data), the   *)
(* data it shares with the push handlers, the lights that mirror it        *)
(* (light.py) and the set-up that creates them and cleans the registry     *)
(* (__init__.py, utils.py).                                                *)
(*                                                                         *)
(* A poll is split at its awaits: topology, status and events.  Nothing is *)
(* read from shared state between the events and the backfill of the       *)
(* history that follows them, so those are one wait.  Home Assistant's     *)
(* DataUpdateCoordinator runs one poll at a time and notifies the entities *)
(* of every result but the second failure in a row.                        *)
(***************************************************************************)
EXTENDS Naturals, FiniteSets

CONSTANTS
  Modules,    \* module ids of the home
  Bridges,    \* those that look like a MAC address
  Lights,     \* staircase lights
  Commands,   \* service calls on the lights
  Events,     \* last events that pushes bring
  NoEvent,    \* the empty last event
  NoModule,   \* Python's None for the main device
  MaxErrors   \* MAX_CONSECUTIVE_TRANSIENT_ERRORS

ASSUME ModulesOfTheHome ==
  /\ Bridges \subseteq Modules
  /\ Lights \subseteq Modules \ Bridges
  /\ NoModule \notin Modules
  /\ NoEvent \notin Events

ASSUME ErrorsAreAllowed == MaxErrors \in Nat \ {0}

VARIABLES
  lit,        \* whether the lamp is on
  known,      \* the modules of coordinator.data
  status,     \* what coordinator.data says of each light
  lastEvent,  \* data[DATA_LAST_EVENT]
  errors,     \* _consecutive_transient_errors
  ok,         \* last_update_success
  mainDevice, \* _main_device_id
  poll,       \* the running _async_update_data and its local modules_data
  phase,      \* set-up of the entry
  entities,   \* the light entities of this set-up
  registry,   \* the lights registered with Home Assistant, over all set-ups
  shown,      \* _attr_is_on
  command     \* the service calls

dataVars == <<known, status, lastEvent>>
healthVars == <<errors, ok, mainDevice>>
entryVars == <<phase, entities, registry>>
lightVars == <<lit, shown, command>>
vars == <<dataVars, healthVars, poll, entryVars, lightVars>>

-----------------------------------------------------------------------------
Statuses == {"on", "off", "none"}
Unknown == [l \in Lights |-> "none"]

Poll == [at : {"idle", "topology", "status", "events"}, found : SUBSET Modules,
         status : [Lights -> Statuses]]
Idle == [at |-> "idle", found |-> {}, status |-> Unknown]

Command == [pc : {"new", "sent", "applied", "done"}, light : Lights, on : BOOLEAN]

TypeOK ==
  /\ lit \in [Lights -> BOOLEAN]
  /\ known \subseteq Modules
  /\ status \in [Lights -> Statuses]
  /\ lastEvent \in Events \cup {NoEvent}
  /\ errors \in 0..MaxErrors
  /\ ok \in BOOLEAN
  /\ mainDevice \in Bridges \cup {NoModule}
  /\ poll \in Poll
  /\ phase \in {"booting", "forwarding", "running"}
  /\ entities \subseteq Lights
  /\ registry \subseteq Lights
  /\ shown \in [Lights -> BOOLEAN]
  /\ command \in [Commands -> Command]

\* A coordinator that was just created.
NewCoordinator ==
  /\ known' = {}
  /\ status' = Unknown
  /\ lastEvent' = NoEvent
  /\ errors' = 0
  /\ ok' = TRUE
  /\ mainDevice' = NoModule
  /\ poll' = Idle
  /\ phase' = "booting"
  /\ entities' = {}
  /\ shown' = [l \in Lights |-> FALSE]

Init ==
  /\ lit \in [Lights -> BOOLEAN]
  /\ known = {}
  /\ status = Unknown
  /\ lastEvent = NoEvent
  /\ errors = 0
  /\ ok = TRUE
  /\ mainDevice = NoModule
  /\ poll = Idle
  /\ phase = "booting"
  /\ entities = {}
  /\ registry = {}
  /\ shown = [l \in Lights |-> FALSE]
  /\ command \in [Commands -> [pc : {"new"}, light : Lights, on : BOOLEAN]]

-----------------------------------------------------------------------------
(* The entities *)

\* A mistake: a light that was switched off is not noticed.
ReportedOn(st) ==
  [l \in Lights |-> IF l \in entities THEN shown[l] \/ st[l] = "on" ELSE shown[l]]

\* _handle_coordinator_update of every light: no status at all reads as off.
Reported(st) ==
  [l \in Lights |-> IF l \in entities THEN st[l] = "on" ELSE shown[l]]

\* cleanup_orphaned_entities: what this set-up did not create is removed,
\* unless it created nothing at all.
Cleaned(made) == IF made = {} THEN registry ELSE made

-----------------------------------------------------------------------------
(* The poll *)

PollBegins ==
  /\ phase # "forwarding"
  /\ poll.at = "idle"
  /\ poll' = [Idle EXCEPT !.at = "topology"]
  /\ UNCHANGED <<dataVars, healthVars, entryVars, lightVars>>

\* A mistake: a module that is absent from this topology is dropped.
OnlyFound(found) == found

\* Modules known before are carried forward.
CarriedForward(found) == known \cup found

\* The bridge of the topology, else one that is carried forward: the last of
\* them, in an order the model leaves open.
MainDevices(found) ==
  IF found \cap Bridges # {} THEN found \cap Bridges
  ELSE IF known \cap Bridges # {} THEN known \cap Bridges
  ELSE {mainDevice}

\* Without a bridge, even a carried forward one, the poll fails.
IsBridgeFound(device, found) == device \in CarriedForward(found)

\* The modules of the topology have no status yet, those carried forward keep
\* theirs.  The main device changes before the poll has succeeded.
TopologyAnswers(found) ==
  /\ poll.at = "topology"
  /\ mainDevice' \in MainDevices(found)
  /\ IsBridgeFound(mainDevice', found)
  /\ poll' = [at |-> "status", found |-> found,
              status |-> [l \in Lights |-> IF l \in found THEN "none"
                                                          ELSE status[l]]]
  /\ UNCHANGED <<dataVars, errors, ok, entryVars, lightVars>>

StatusOf(l) == IF lit[l] THEN "on" ELSE "off"

\* The status of a module that was carried forward is written into the very
\* object coordinator.data holds.
StatusAnswers(reported) ==
  LET merged == reported \cap (known \cup poll.found)
      Merge(st, some) == [l \in Lights |-> IF l \in some THEN StatusOf(l)
                                                         ELSE st[l]]
  IN
  /\ poll.at = "status"
  /\ poll' = [poll EXCEPT !.at = "events", !.status = Merge(@, merged)]
  /\ status' = Merge(status, merged \ poll.found)
  /\ UNCHANGED <<known, lastEvent, healthVars, entryVars, lightVars>>

\* An ApiError or AuthError of the status request is tolerated.
StatusFails ==
  /\ poll.at = "status"
  /\ poll' = [poll EXCEPT !.at = "events"]
  /\ UNCHANGED <<dataVars, healthVars, entryVars, lightVars>>

\* The last event of now, not of the beginning of the poll.
FinalLastEvent == lastEvent

\* The events came, or their request failed and is tolerated, and the backfill
\* is done: the data is replaced.
PollEnds ==
  /\ poll.at = "events"
  /\ known' = CarriedForward(poll.found)
  /\ status' = poll.status
  /\ lastEvent' = FinalLastEvent
  /\ errors' = 0
  /\ ok' = TRUE
  /\ shown' = Reported(poll.status)
  /\ phase' = IF phase = "booting" THEN "forwarding" ELSE phase
  /\ poll' = Idle
  /\ UNCHANGED <<mainDevice, entities, registry, lit, command>>

\* UpdateFailed: the data stays, the entities become unavailable; they are
\* notified of the first failure only.  The first refresh of a set-up that
\* fails ends the set-up, and Home Assistant tries again.
Failed ==
  IF phase = "booting"
  THEN NewCoordinator /\ UNCHANGED <<registry, lit, command>>
  ELSE /\ ok' = FALSE
       /\ poll' = Idle
       /\ shown' = IF ok THEN Reported(status) ELSE shown
       /\ UNCHANGED <<dataVars, mainDevice, entryVars, lit, command>>

\* A mistake: the limit is met once, not from then on.
IsExhaustedOnce(n) == n = MaxErrors

IsExhausted(n) == n >= MaxErrors

\* An empty topology, or an ApiError, a timeout or an OSError that nobody
\* tolerates: the last data is served again, up to a limit.  The counter stops
\* there in the model.
TransientFailure ==
  LET n == errors + 1 IN
  /\ poll.at # "idle"
  /\ IF known = {} \/ IsExhausted(n)
     THEN /\ Failed
          /\ phase # "booting" => errors' = IF n > MaxErrors THEN errors ELSE n
     ELSE /\ errors' = n
          /\ ok' = TRUE
          /\ shown' = Reported(status)
          /\ poll' = Idle
          /\ UNCHANGED <<dataVars, mainDevice, entryVars, lit, command>>

\* A mistake: a failure of another kind makes the tolerated ones start anew.
HardFailureForgets ==
  /\ poll.at # "idle"
  /\ Failed
  /\ phase # "booting" => errors' = 0

\* An AuthError of the topology, a missing home, a missing bridge or anything
\* else.  The counter is left alone.
HardFailure ==
  /\ poll.at # "idle"
  /\ Failed
  /\ phase # "booting" => UNCHANGED errors

\* The push handler or service call that awaits the poll is cancelled.
PollCancelled ==
  /\ poll.at # "idle"
  /\ phase = "running"
  /\ poll' = Idle
  /\ UNCHANGED <<dataVars, healthVars, entryVars, lightVars>>

-----------------------------------------------------------------------------
(* Set-up, pushes and lights *)

\* The light platform, after the first refresh.
SetUpPlatforms ==
  LET made == Lights \cap known IN
  /\ phase = "forwarding"
  /\ entities' = made
  /\ registry' = Cleaned(made)
  /\ shown' = [l \in Lights |-> l \in made /\ status[l] = "on"]
  /\ phase' = "running"
  /\ UNCHANGED <<dataVars, healthVars, poll, lit, command>>

\* The entry is reloaded or Home Assistant restarted; calls under way end.
Restart ==
  /\ phase = "running"
  /\ NewCoordinator
  /\ command' = [c \in Commands |-> IF command[c].pc = "new" THEN command[c]
                                    ELSE [command[c] EXCEPT !.pc = "done"]]
  /\ UNCHANGED <<registry, lit>>

\* A push writes the last event into the data and notifies every entity.
Push(e) ==
  /\ phase = "running"
  /\ lastEvent' = e
  /\ shown' = Reported(status)
  /\ UNCHANGED <<known, status, healthVars, poll, entryVars, lit, command>>

\* async_turn_on and async_turn_off show the result at once.
Turn(c) ==
  LET l == command[c].light IN
  /\ phase = "running"
  /\ ok
  /\ l \in entities
  /\ command[c].pc = "new"
  /\ shown' = [shown EXCEPT ![l] = command[c].on]
  /\ command' = [command EXCEPT ![c].pc = "sent"]
  /\ UNCHANGED <<dataVars, healthVars, poll, entryVars, lit>>

DeviceApplies(c) ==
  /\ command[c].pc = "sent"
  /\ lit' = [lit EXCEPT ![command[c].light] = command[c].on]
  /\ command' = [command EXCEPT ![c].pc = "applied"]
  /\ UNCHANGED <<dataVars, healthVars, poll, entryVars, shown>>

\* The API confirms, or the call is cancelled: nothing more is written.  The
\* refresh that is asked for is dropped if a poll is running.
CommandEnds(c) ==
  /\ command[c].pc \in {"sent", "applied"}
  /\ command' = [command EXCEPT ![c].pc = "done"]
  /\ UNCHANGED <<dataVars, healthVars, poll, entryVars, lit, shown>>

\* A failed call shows the opposite of what it asked for, whatever was shown
\* before and whether the lamp has obeyed.
CommandFails(c) ==
  /\ command[c].pc \in {"sent", "applied"}
  /\ shown' = [shown EXCEPT ![command[c].light] = ~command[c].on]
  /\ command' = [command EXCEPT ![c].pc = "done"]
  /\ UNCHANGED <<dataVars, healthVars, poll, entryVars, lit>>

SwitchedByHand(l) ==
  /\ lit' = [lit EXCEPT ![l] = ~@]
  /\ UNCHANGED <<dataVars, healthVars, poll, entryVars, shown, command>>

-----------------------------------------------------------------------------
PollProceeds ==
  \/ \E found \in SUBSET Modules : TopologyAnswers(found)
  \/ \E reported \in SUBSET Lights : StatusAnswers(reported)
  \/ StatusFails
  \/ PollEnds
  \/ TransientFailure
  \/ HardFailure

CommandProceeds(c) == CommandEnds(c) \/ CommandFails(c)

Next ==
  \/ PollBegins
  \/ PollProceeds
  \/ PollCancelled
  \/ SetUpPlatforms
  \/ Restart
  \/ \E e \in Events : Push(e)
  \/ \E c \in Commands : Turn(c) \/ DeviceApplies(c) \/ CommandProceeds(c)
  \/ \E l \in Lights : SwitchedByHand(l)

Spec == Init /\ [][Next]_vars

\* The poll is scheduled again whatever its end, its requests time out, and so
\* do those of the commands.
Fairness ==
  /\ WF_vars(PollBegins)
  /\ WF_vars(PollProceeds)
  /\ WF_vars(SetUpPlatforms)
  /\ \A c \in Commands : WF_vars(CommandProceeds(c))

FairSpec == Spec /\ Fairness

-----------------------------------------------------------------------------
(* Properties *)

\* No partial topology, failed or cancelled poll takes a module out of the data
\* while the entry is set up: its entity would be stranded as unavailable (the
\* comment on carried forward modules in _async_update_data).
ModulesAreKept == [][phase' # "booting" => known \subseteq known']_vars

\* "After MAX_CONSECUTIVE_TRANSIENT_ERRORS in a row, raise UpdateFailed so
\* entities are properly marked unavailable": if no poll succeeds any more, the
\* entities in the end become unavailable and stay so, however tolerated
\* failures, others that are not counted and cancelled polls follow each other.
\* Until then a tolerated failure may serve the old data again.
DeadCloudIsNoticed ==
  /\ <>[][~PollEnds /\ ~Restart]_vars
  /\ []<><<TransientFailure \/ HardFailure>>_vars
  => <>[](phase # "booting" => ~ok)

\* What never happens again once the house is quiet and the status complete.
Disturbs ==
  \/ Restart
  \/ StatusFails
  \/ \E l \in Lights : SwitchedByHand(l)
  \/ \E some \in SUBSET Lights : some # Lights /\ StatusAnswers(some)

\* If the house is left alone and polls keep succeeding, every light in the end
\* shows what the lamp does: an optimistic state, a failed command's guess or a
\* status read before the command never stays.
LightsConverge ==
  (<>[][~Disturbs]_vars /\ []<><<PollEnds>>_vars)
    => <>[](\A l \in entities : shown[l] = lit[l])
=============================================================================
