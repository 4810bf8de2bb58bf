# TLA+ models of the BTicino Intercom integration

`bticino_intercom` is a Home Assistant custom component (about 6100 lines of
Python under `custom_components/bticino_intercom`). It connects a BTicino
(Netatmo) video intercom to Home Assistant: calls arrive as pushes over a
WebSocket, the state of the house is polled over HTTP, and the video of an
external unit is a WebRTC session negotiated over a second WebSocket, the
signaling channel. All of it runs on one asyncio event loop. Nothing runs in
parallel, and everything interleaves at every `await`.

This directory models the parts of the component whose correctness depends on
the order of events. TLC checks the models on small instances; the TLA+ proof
system (TLAPS) proves every safety property the passing runs check, for every
instance or for a special case that is named (section 5). `PROJECT.json` relates
every definition to the source lines it stands for.

## 1. Inventory

| Component | State it keeps | Operations | Model |
|---|---|---|---|
| Call tracking (`coordinator.py` 90-104, 312-936) | `_active_call`, `_active_calls` and their watchdog tasks, `_closed_sessions`, `_seen_status_pushes`, last event | RTC pushes `call`, `rescind`, `terminate`; status pushes `incoming_call`, `missed_call`, `accepted_call`; watchdog wake-ups | `CallTracking` |
| Call binary sensor (`binary_sensor.py` 179-209) | `is_on`, turn-off timer | call signal, 30 s timeout | `CallTracking` |
| Doorbell event entity (`event.py`) | none | triggers on the call signal | `CallTracking` (its trigger) |
| `reject_call` service (`__init__.py` 245-269) | none | terminate the active call | `CallTracking` |
| WebRTC camera and Call Home (`camera.py` 330-1166) | stream, signaling session, ready flag, ended sessions, pending terminate, answered call, watchdog, candidate buffer | offer, answer mode, answer, event, close, candidate, flush, no-answer watchdog, terminate | `WebRTCSession` |
| SDP rewriting (`camera.py` 479-768) | none | three rewrites of the browser's offer, two of the device's answer, one of its own offer | `SessionDescription` |
| Event image cameras (`camera.py` 128-330) | attributes, cached image | coordinator update, read of an image | `EventImages` |
| Event history (`history.py`) | event list, lock, images, storage file | load, retention, record, close | `EventHistory` |
| History backfill (`coordinator.py` 776-818) | none | records polled calls the push missed | `EventHistory` |
| Locks (`lock.py`) | optimistic state, relock timer handle | unlock, open, lock, timer, poll, removal | `RelockTimer` |
| WebSocket connection manager (`__init__.py` 63-107, 282-520) | task, retry counter, listener | connect, listen, resubscribe, back off, forced reload | `ConnectionManager` |
| Entry set-up, unload, reload (`__init__.py` 110-213, 450-592) | `hass.data`, tasks, listeners | set-up, deferred start, unload, removal | `ConnectionManager` (the history's set-up is in `EventHistory`) |
| Polling (`coordinator.py` 130-310) | modules, last event, transient error counter, bridge id | topology, status, events, each with its failures | `Polling` |
| Light (`light.py`), `cleanup_orphaned_entities` (`utils.py`) | optimistic state; entity registry | on, off, coordinator update; cleanup at set-up | `Polling` |
| Sensors, media source, diagnostics, base entity | none | reads | not modelled (section 6) |
| Select, number, switch | one setting each | write the setting, mirror the poll | not modelled (section 6) |
| Config and options flow | dialogue state | steps | not modelled: a linear dialogue (section 6) |

The parts interact in four ways.

- *Calls.* The WebSocket listener calls `_handle_websocket_message`, which runs
  a push handler to its end before it takes the next push. The debug service
  `inject_test_event` runs the same handler in another task.
- *Signals.* `SIGNAL_CALL_RECEIVED` reaches binary sensor and event entity at
  once, within the step that sends it.
- *Shared state.* Cameras read `coordinator.active_call` to decide whether an
  offer answers a call or opens a live view. All cameras share one
  `SignalingClient`, which holds one set of callbacks. Push handlers and the
  poll share the history store and its lock, and both write the coordinator's
  data, which entities mirror whenever they are notified.
- *Callbacks and tasks.* Turn-off timers, relock timers, call watchdogs,
  no-answer watchdogs and terminates run on their own.

What is hard here: pushes are lost, repeated dozens of times, delayed and
reordered (issues #58, #67, #99); handlers are suspended in downloads while the
state they have read changes; streams are superseded at every await of the
offer handler, so that acks, answers and events arrive for sessions nobody
serves any more; the device has few peer slots and a leaked one blocks the
next stream (#58, #60); tasks are cancelled between two steps; the process dies
between two writes. `PROJECT.json` lists each hazard at its line, with the
property that would show it or the reason why there is none.

What makes each component correct:

- *Call tracking:* one watchdog per open call, every call session closed in
  bounded time whatever is lost, a copy of a push never processed beside the
  first. The active call should end with its session too, and does not
  (section 4).
- *Sensor:* on exactly while its timer is armed; quiet in the end.
- *Camera:* every slot of the device known to somebody until it is released, as
  long as no call is answered; an ended session never served again; a stream
  not hung up by the watchdog once its own `on_answer` has got its answer, with
  the exceptions section 4 names; no candidate of a stream that is gone kept in
  the buffer. In which session a candidate is sent is not checked.
- *SDP:* the browser gets an answer to the offer it made, not to the one the
  device was sent: a section for each of its own, in its order, as many accepted
  as the device accepted, directions and codecs compatible.
- *Event images:* once a call's picture is announced no image of an earlier call
  is served; an old one expires. Which of the call's own images is served, its
  picture or the placeholder, is not told apart.
- *History:* no call twice, none lost, newest first, images where the records
  say they are, also after a crash.
- *Locks:* one timer, known to its entity; a poll does not undo a command.
- *Polling:* no module is dropped by a partial answer, a cloud that stays dead
  is noticed in the end, lights show the lamp in the end.
- *Connection:* one manager per entry, that of its latest set-up but for the start
  nothing cancels; a loaded entry keeps its manager however connecting,
  listening and resubscribing fail, unless it is stranded in one of three ways
  (section 2); whoever cancels the manager can wait for its end.

## 2. Modules

| Module | Content |
|---|---|
| `CallTracking` | coordinator, call sensor, reject service |
| `Doorbell` | what they promise: calls and bells; the abstract specification |
| `MCCallTracking` | `CallTracking` with a bounded number of pushes; liveness |
| `CallTrackingProofs` | theorems about `CallTracking`; it implements `Doorbell` |
| `WebRTCSession` | the streams of the cameras |
| `MCWebRTCSession` | the liveness property, symmetry and a view |
| `WebRTCSessionProofs` | theorems about `WebRTCSession` |
| `SessionDescription` | the rewrites of session descriptions |
| `MCSessionDescription` | its instance |
| `SessionDescriptionProofs` | theorems about `SessionDescription` |
| `EventImages` | a last event camera and what it reads |
| `MCEventImages` | its instance with a view |
| `EventImagesProofs` | theorems about `EventImages` |
| `EventHistory` | history store, its set-up, push and poll as its callers |
| `MCEventHistory` | the same with a bounded number of operations and faults |
| `EventHistoryProofs` | theorems about `EventHistory` |
| `Polling` | the poll, the lights, the set-up of platforms |
| `MCPolling` | its instance |
| `PollingProofs` | theorems about `Polling` |
| `RelockTimer` | both lock classes |
| `MCRelockTimer` | its instance |
| `RelockTimerProofs` | theorems about `RelockTimer` |
| `ConnectionManager` | set-up, manager and unload of the config entry |
| `MCConnectionManager` | its instance |
| `ConnectionManagerProofs` | theorems about `ConnectionManager` |

Operators whose comment begins with "A mistake" or "Two mistakes" are wrong
variants of the definition that follows them. No specification uses them; each
shows that a property notices the mistake (section 4).

### Conventions

- A callback runs without interruption to its next `await`, so an action is the
  code between two awaits. An await whose continuation touches no state of the
  model ends the action (the history's close at the end of a closing handler).
- Time in `CallTracking` is discrete, and `Tick` waits until what is due has
  run: the event loop is prompt at the scale of seconds. `EventHistory` has a
  clock because retention and order depend on it, `EventImages` one because a
  cache expires. The other modules have none: a timer may fire at any moment
  after it is armed, which covers all durations.
- pybticino, aiohttp, Home Assistant's `Store`, the device and the browser are
  external. They are modelled from how the code uses them: any answer, late
  answer, error or silence.
- Logging, names, URLs, logbook texts and the wording of events are left out.

### CallTracking

`activeCall`, `activeCalls`, `closedAge`, `seenAge`, `lastEvent` are the
coordinator's fields; the two ages replace time stamps. `watchdogs` holds the
running `_call_session_watchdog` tasks with the time each still sleeps.
`handler[t]` is what task `t` waits for inside `_handle_websocket_message`.
The session the signaling client keeps for itself is left out: a push sets it
(`set_session_from_push`), the offer of a live view may replace it, and only
`reject_call` relies on it. The camera names the session it answers.

| Action | Code |
|---|---|
| `RetransmittedOffer`, `NewOffer`, `OfferRecorded` | the `call` branch of `_process_rtc_event`, split at `async_record_call` |
| `Rescind`, `Terminate` | the other two branches, via `EndPush` |
| `IncomingCall`, `IncomingCallRecorded` | the `incoming_call` branch of `_process_status_event`, split at the same await |
| `MissedCall`, `AcceptedCall` | its other branches |
| `WatchdogEnds`, `WatchdogSleepsOn` | one turn of the watchdog's loop |
| `TurnOff` | `_turn_off_callback`, `fire_call_timeout` |
| `RejectCall`, `RejectAcknowledged`, `RejectFailed` | the service, split at `send_terminate` |
| `HandlerCancelled` | the listener is cancelled while its handler waits |
| `Tick` | a second passes |

Assumptions of the model: the push is for the selected home (others are ignored
by the code: a stutter), it carries the device id of the bridge, history and
signaling client exist, and one rejection runs at a time. The ages stop at
their window, where the code forgets or ignores the entry. `AwaitIsShort` says
that a handler waits less for the history than the duplicate window lasts: at
most one other task per task ahead of it in the lock's FIFO queue, two
downloads of at most 15 s each, against an hour.

`Doorbell` is what an owner sees of this: for each module a call, closed or open
with its silence and its age; for each unit a bell, silent or ringing for so
long. It says that a call ends together with its own bell, that nothing about
one unit touches another, and that time never passes a bound. The refinement
mapping hides the active call; it takes a call from the session of its module (`openCalls`: `silence` is
`idle`, `age` is `total`) and a bell from sensor and timer together
(`ringingSensors`), so a sensor that is on without a timer is no bell at all.
The bounds are those of the code: `MaxSilence` two retransmission windows,
`MaxAge` the maximum duration and one window, `RingTime` the sensor's timeout.
Watchdogs, ages, pushes and suspended handlers are hidden.

### WebRTCSession

`handler[h]` is the offer handler of stream `h`: `new`, `connecting` (waits for
the connection and the pending terminate), `answering` (has sent the answer to
a call), `releasing` (terminates the session it replaces), `offering` (waits for
the ack), `done`. The per-camera variables are the fields of the entity;
`callbacks` is the stream whose callbacks the shared client holds; `terminating`
holds the running `_terminate` calls and who started them. `peers`, `liveCalls`,
`opener`, `answered`, `answers` and `events` are the device and the channel.
`lost` collects sessions whose ack or terminate failed or was cancelled: the
integration cannot release those, and the properties set them apart.

| Action | Code |
|---|---|
| `Offer`, `Superseded`, `AnswerCall`, `CallAnswered`, `SendOffer`, `ReleaseStaleSession`, `StaleSessionReleased`, `Acked`, `AckTooLate` | the offer handler, split at its awaits |
| `OnAnswer`, `OnEvent` | the callbacks of the signaling client |
| `Close` | `close_webrtc_session`, up to its terminate |
| `OnCandidate` | `async_on_webrtc_candidate` |
| `FlushProceeds`, `FlushFails` | one turn of the loop of `_flush_pending_candidates` |
| `NoAnswer`, `AnswerWatchdogReturns` | the no-answer watchdog |
| `TerminateSent`, `TerminateFails` | the end of a `_terminate` |

A buffered candidate is represented by the stream it came from. The buffer is
one list that is cleared in place, and a flush goes by index over the list as it
is at that moment, though a new stream may have emptied and filled it again; it
clears the buffer when it is through.

Two history variables are kept for each camera and read by no action: `heard`,
that the answer to the offer of the stream it serves came to that stream's own
callbacks, and `beside`, that this offer was sent while the camera kept an older
session. A candidate that is sent at once, or dropped because its stream is gone,
changes nothing that is modelled; `OnCandidate` is the one that is buffered.

An offer handler may fail or be cancelled at every await (`OfferFails`). Each
stream makes one offer, so behaviours end; `CHECK_DEADLOCK FALSE` is in the
configurations for that reason alone.

### SessionDescription

A description is the sequence of its m-sections, each a record of what the
rewrites read or change: media, mid, direction, source, codecs, whether it is
accepted. One behaviour is one exchange: the browser makes any offer of up to
`MaxSections` sections (`SendOffer`, `SendAnswer` in answer mode), the device
answers any of the sections it got, each at most once, in any order, with any
direction RFC 3264 allows, with or without mids (`Device`), and `OnAnswer`
delivers the rewritten answer.

| Operator | Code |
|---|---|
| `EnableAudioSendrecv`, `InjectAudioSsrc`, `FilterVideoCodecs` | the rewrites of the offer, composed by `Prepared` |
| `FixAnswerAudioDirection`, `AlignAnswerWithOffer` | the rewrites of the answer in `on_answer` |
| `ReorderMlines`, `ConvertOfferToAnswer` | answer mode |

`last` stands for the empty line behind the final line break, which the
alignment has to take out before it moves sections. Payload types are reduced to
codecs: the retransmission and feedback lines of a codec go with it.

The alignment's loop over the offered sections is the recursive function `Taken`:
`Taken(answer, offer)[k]` is what `remaining` and `rebuilt` are after `k` of
them, `Take` its body. `ReorderMlines` groups the device's sections by media type
and writes a group out at every place the offer has that type. `Moves` are these
pairs of a place and a section, and `MoveRank` is the position of a pair in the
result: by place, then in the device's order.

### EventImages

The camera has attributes (`shown`) that follow the coordinator's last event,
and an image (`cached`) that follows the newest record of the history; the two
change at different moments of a push handler. `op` is what listener and poller
are doing: record a call, store its picture, close it, announce it. `reads` are
the executor jobs that read a file.

| Action | Code |
|---|---|
| `Offer`, `IncomingCall`, `EndCall`, `Announce` | push handlers up to their first await and from their last one |
| `Backfill`, `PollEnds` | the poll |
| `Record`, `Store`, `Close` | the history, one step per write |
| `BeginRead`, `ReadEnds`, `ReadFails` | `async_camera_image` around its executor job |
| `Cancelled`, `Reload`, `Tick` | faults and time |

The lock of the history is left out, which only adds interleavings. The pushes
of different calls arrive in the order the calls rang; one call that no push
brought comes from a poll at any time (`IsInOrder`). A copy of an
`incoming_call` push is dropped for good, not for an hour: a repeated one says
nothing new. RTC pushes carry no picture. `announced` and `superseded` are
history variables.

### EventHistory

`lock` is the asyncio lock: the owner at its head and the waiting tasks behind
it, in the order asyncio serves them. `op[t]` is what task `t` is doing;
`todo` holds the images still to be stored. `events` is the list in memory,
`disk` the list in the storage file, `files` the images.

| Action | Code |
|---|---|
| `RecordCall`, `CloseCall`, `BackfillHistory` | the callers, up to `async with self._lock` |
| `EnterRecord`, `EnterClose` | the look-up and the changes under the lock |
| `ImageStored`, `ImageFailed` | one download, or the SOUND ONLY placeholder |
| `Save` | `_persist_locked` and the release; the backfill queues again for its close |
| `Load`, `DeleteEventFiles`, `PersistRetention` | `async_load` and `async_apply_retention` at set-up |
| `Cancelled`, `Restart` | the listener is cancelled, Home Assistant dies |

The retention sorts and cuts. `Rank` is the place of a record in the sorted list,
which keeps the order of equal times as Python's `sorted` does with
`reverse=True`; `KeptCount` is how many the loop of `async_apply_retention` keeps
of it. A task is one coroutine of a running process, so there are finitely many
(`TasksAreFinite`).

`missed_call` closes a record as `terminated` does. Any push may come at any
time here: the duplicate windows of `CallTracking` only remove behaviours. A
save is atomic, as the temporary file and rename of `Store` make it, and does
not fail. Options do not change between a crash and the restart. `async_clear`
is left out: it runs on a store of its own after the entry is gone.

### Polling

`known`, `status` and `lastEvent` are the coordinator's data, `poll` is the
running `_async_update_data` with its local `modules_data`, `errors` and `ok`
are the transient error counter and `last_update_success`. `lit` is the lamp,
`shown` what the entity says of it.

| Action | Code |
|---|---|
| `PollBegins`, `TopologyAnswers`, `StatusAnswers`, `StatusFails`, `PollEnds` | `_async_update_data`, split at its awaits |
| `TransientFailure`, `HardFailure`, `PollCancelled` | its exceptions |
| `SetUpPlatforms`, `Restart` | set-up of the light platform with the cleanup of orphans; reload |
| `Push` | a push handler as far as the shared data is concerned |
| `Turn`, `CommandEnds`, `CommandFails` | `async_turn_on` and `async_turn_off` |
| `DeviceApplies`, `SwitchedByHand` | the lamp |

Of Home Assistant's `DataUpdateCoordinator` the model has what decides the
outcome: one refresh at a time, a request during a refresh dropped, entities
notified of each success and of the first failure, the next refresh scheduled
whatever the end of the last. A module of the topology is a new dictionary
without a status; one that is carried forward is the very object the data holds,
so a status answer changes what entities see before the poll has succeeded
(`StatusAnswers`). The early return without a bridge id is left out as in
`RelockTimer`. The counter stops at its limit, beyond which only the comparison
reads it.

### RelockTimer

`timers` holds the service calls whose timer runs and `canceller[e]` the one
whose timer the handle of entity `e` cancels. The door arms its timer in
`UnlockDoor`, before the API call; the light in `UnlockDone`, after it. The
early return without a bridge id is left out: a lock exists only once the
coordinator knows a bridge.

### ConnectionManager

Each set-up creates a coordinator, a WebSocket client and a manager function of
its own: a generation. `manager[g]` is the task of generation `g`, with its
place in the loop, the local variables the loop decides by (`boot`, `attempt`,
whether the session was `healthy`) and its listener. `entryData` is what
`hass.data` says of the entry: its generation and the manager under
`WEBSOCKET_TASK_KEY`. `deferred` and `startListener` are the two ways to start a
manager later. An id of `Generations` is used again once nothing of its last
set-up is left, so set-ups are not bounded.

| Action | Code |
|---|---|
| `SetUpBegins`, `SetUpFails`, `SetUpSucceeds` | `async_setup_entry`: its start, its exceptions, the scheduling at its end |
| `DeferredStarts`, `DeferredWaits` | one turn of `_deferred_start_websocket` |
| `Connects`, `ConnectsWithoutListener`, `ConnectFails` | the ends of `connect()` |
| `SessionIsHealthy`, `ListenerEnds` | a message or 300 s; the connection ends |
| `ListenerFinished`, `Resubscribe`, `Resubscribed`, `ResubscribeFails` | the monitor loop |
| `LoopEnds`, `ForceReload`, `BackOff`, `Reconnect` | what follows `disconnect()`, and the sleep |
| `CleanUpFails` | an exception of the finally clause, which the outer `except` ends the manager with |
| `Interrupted` | a CancelledError at each await, and the finally clause it leads through |
| `Unload`, `ManagerAwaited`, `StartListenerRemoved`, `UnloadSucceeds`, `UnloadFails` | `async_unload_entry` |
| `HomeAssistantStarts`, `HomeAssistantRuns`, `HomeAssistantStops` | the events of the core |

The core behaves as in the release `hacs.json` asks for (2026.5): an entry that
is being unloaded is no longer `LOADED`, and on-unload callbacks run when the
unload has succeeded. `Cancel` follows asyncio: a task that awaits another one
passes its cancellation on, so that `suppress(CancelledError)` hides it. The
client's `connect`, `resubscribe` and `disconnect` end, with an exception or
without. Delays are left out and the failure count stops at the number that
forces a reload, since only that comparison reads it.

Set-ups and unloads may fall into the start of Home Assistant at any moment, and
three things then leave a loaded entry without a manager of its own for good.
`Stranded` names them: a set-up that ends between the start event and the running
state waits for an event that has passed (`__init__.py:468`); an exception of the
clean-up goes to the outer `except` (437-441); a start made by the start event
while its entry was being unloaded, which has no owner to cancel it, takes the
place of the entry's own (500). The last one is also the exception of
`ManagerServesItsEntry`.

## 3. Runs

| Run | Instance | Result |
|---|---|---|
| `calls` | 2 units, 2 sessions, 2 tasks, 3 pushes, fairness | types and watchdogs hold, copies never overlap; `Doorbell` is implemented; all but the active call is quiet in the end |
| `calls_stale` | 2 units, 2 sessions, 1 task, 3 pushes | violation: the active call outlives its session |
| `streams_live` | 1 camera without calls, 3 streams, 2 device sessions, fairness | no slot forgotten, slots released |
| `streams_calls` | 2 cameras, 2 streams, 2 device sessions, 1 call, 2 candidates | no ended session served, no candidate of a stream that is gone buffered, no stream hung up that has heard its answer, with answer mode and the shared callbacks |
| `streams_leak` | 1 camera, 1 live view, 1 call | violation: answer mode forgets the live view |
| `history` | 2 calls, listener and poll, 3 operations, 2 faults, fairness | no call twice or lost, newest first, images present, every handler finishes |
| `history_answered` | 1 call, 3 operations | violation: an answered call reads as not answered |
| `locks` | 1 door, 1 light, 4 calls, fairness | the door knows its timer, polls are heard again |
| `connection` | 3 generations, 5 failures, 3 tries, fairness | one manager, the right one but for an unowned start, kept while the entry is loaded and not stranded; waits for it end; flapping ends in a reload |
| `polling` | bridge, light and door, 2 commands, 1 event, 3 errors, fairness | modules kept, a dead cloud noticed, lights converge |
| `sdp` | 2 codecs, offers of up to 3 sections | answers line up, keep what was accepted, are compatible with the offer |
| `event_images` | 2 calls of one unit, cache of 2, reads of up to 1, 2 at a time | announced pictures are served, stale ones expire |

### Bounds, and why they are enough

- `MaxPushes` (3) counts pushes, rejections and cancellations; watchdogs, timers
  and resumptions are free. The hazards need two or three pushes of at most two
  sessions: an offer, its replacement or its copy, and an end. Windows are scaled (2 for the retransmission window, 3
  for the maximum duration, 4 for the sensor's timeout) so that each can run
  out before, with and after the others. The duplicate window, an hour, is cut
  to 4, still longer than the longest wait of 2. What is proved (section 5)
  does not depend on these numbers.
- Three streams: one that is superseded, the one that supersedes it, and one
  that supersedes or closes that, with two device sessions for them. Two cameras
  are the least that can disturb each other through the shared client.
  `Remembered` is 1 or 2 instead of 4; `streams_live` uses 1, the bound at which
  a session is forgotten soonest. Two candidates let a flush be suspended between
  them while another stream takes the camera; the property is proved for any number.
  The view `WithoutLost` of `streams_calls` hides `lost`, which neither an action
  nor a property of that run reads.
- Two calls, a maximum of one event and a retention of one day let age and
  count both drop an event at set-up; two faults allow a restart into the
  retention and a crash inside it. One image kind is enough for `history`, the
  placeholder being a second file of the same record; `history_answered` has
  both.
- Three generations: one in use, one left behind by an earlier set-up, one to be
  set up next. `MaxFailures` is the code's 5; 3 tries instead of 30 let a
  deferred start run out, wait and succeed.
- One bridge, one light and one other module give every partial topology its
  case: without the bridge, without the light, without either, empty. Two
  commands may overlap with each other and with a poll; 3 errors are the code's
  limit. The event is one because a push only replaces it. With one bridge the
  main device never changes; `ModulesAreKept`, which is what the run says of
  the bridge, is proved for any number of them.
- Three sections are one of each media type, or two of one and another, in every
  order; two codecs make H264 offered alone, beside another, or not at all.
- Two calls of one unit are the hard case for the image cameras: the attributes
  do not tell them apart. The cache outlives a read, as the code's 5 minutes do. The view
  `WhatMatters` hides the polled events while nothing reads them: they are read
  only when there is no last event, and replaced before there is none again.
- Four service calls allow three overlapping unlocks and a lock.
- Symmetry is used only in runs without liveness properties; `Doorbell` is a
  safety property and symmetric in units and sessions. In `CallTracking`
  the one `CHOOSE` is over a singleton.

### Fairness

Weak fairness stands for the event loop and for waits that end: suspended push
handlers, due timers and watchdog wake-ups and the passing of time in
`CallTracking`; wake-ups of the no-answer watchdog and the end of a terminate
(its request times out) in `WebRTCSession`; the steps of the lock's owner in
`EventHistory` (downloads time out after 15 s, executor jobs end); relock
timers in `RelockTimer`; in `Polling` the next poll, the answer or failure of
its requests, the set-up of the platforms and the end of commands; in
`ConnectionManager` the steps of the manager (connecting times out, a sleep
ends), the end of a cancelled listener, deferred starts, the unload and the
reload Home Assistant has scheduled. Nothing is assumed of the push service,
the device, the browser, the API or the user: `LightsConverge` and
`DeadCloudIsNoticed` state what they need of them as a premise (nobody touches
the lamp any more, the status stays complete, polls succeed again and again; no
poll succeeds any more, and polls go on failing). `SessionDescription` and
`EventImages` have safety properties only; the bound on stale images is stated
with their clock.

## 4. Properties and what would break them

Besides one type invariant per module:

| Property | Claim | Broken by, for instance |
|---|---|---|
| `WatchdogPerSession` | each open call has exactly its own watchdog | the old watchdog not cancelled |
| `DoorbellIsImplemented` | a call session ends together with its own bell and with nothing of another unit, none outlives its time | a watchdog that closes the session and leaves the sensor on |
| `CopiesNeverOverlap` | copies of one push are not processed together | recorded after the download |
| `QuietEventually` | sessions, watchdogs, bells and handlers of a call end | a ring without a timer |
| `PeersAreAccountedFor` | without calls, somebody knows every peer slot | a late ack dropped |
| `EndedStaysEnded` | no ended session is served again | ended sessions not looked up |
| `CandidatesAreOfTheStream` | the buffer holds candidates of the present stream only | the buffer not cleared by a new offer |
| `WatchdogSparesAnswers` | the watchdog spares a stream whose own `on_answer` has its answer | the ready flag not checked |
| `SlotsAreFreed` | after the last close the device gets its slots back | a late ack dropped |
| `AnswersLineUp` | the browser gets a section for each of its own, in its order | only the number of sections compared |
| `AcceptedMediaSurvive` | of each media type, as many sections accepted as the device accepted | a used section not taken out |
| `AnswersAreCompatible` | direction, codecs and mid answer the browser's offer; two-way audio stays two-way | a device that only listens passed on |
| `AnnouncedPicturesAreServed` | after a picture's announcement no image of an earlier call is served | the cache cleared for another module only |
| `StaleImagesExpire` | an older image is served for a cache time and a read at most | a cache that never expires |
| `UniqueIds` | no call recorded twice | no second look-up under the lock |
| `NewestFirst` | ordered by time of call | inserted by arrival |
| `ImagesExist` | recorded images exist, also after a crash in the retention | one event too many dropped |
| `NoCallIsLost` | only the retention removes calls from disk | the list cut at each record |
| `EveryHandlerFinishes` | nobody waits for the lock for ever | the backfill closes while it holds it |
| `ModulesAreKept` | a loaded entry never loses a module | a partial topology taken as it is |
| `DeadCloudIsNoticed` | if no poll succeeds any more, entities end up unavailable for good | the count reset by another failure |
| `LightsConverge` | lights show the lamp in the end | a light that was switched off not noticed |
| `DoorsKnowTheirTimer` | the handle cancels the only timer | a new timer beside the old one |
| `PollsAreHeardAgain` | the handle is given up in the end | the callback keeps it |
| `OneManager` | an entry never has two managers | an unload that does not cancel |
| `ManagerServesItsEntry` | the manager feeds the coordinator in use, but for an unowned start | the deferred start not cancelled |
| `CancelledManagersEnd` | unload and stop do not wait for ever | the entry's state not checked before the next attempt |
| `LoadedEntryListens` | a loaded entry keeps a manager of its own, unless `Stranded` | no other attempt after an error |
| `FlappingEndsInReload` | no endless reconnecting without a healthy session | the count reset by a handshake |

`SilentCallIsClosed`, `DurationIsBounded` and `SensorOnIffTimerArmed` of
`CallTracking` are parts of what `DoorbellIsImplemented` says and have no run of
their own; they are proved, like `DoorsStayOptimistic` of `RelockTimer` and
`EveryStatusRingIsAnnounced` of `MCCallTracking` (without offers, each
`incoming_call` push of a home with one unit rings).

What these properties leave out, because the code does not keep it:

- `DoorbellIsImplemented`: a terminate names no module, so the push that ends one
  unit's call may arrive late and end the active call of another unit
  (`coordinator.py:406`); it ends that call with its own bell, and no more.
- `WatchdogSparesAnswers`: the answer that the callbacks of another camera's
  offer have taken (`camera.py:928`), and the offer sent beside the older session
  that `_release_stale_session` keeps during a call, whose answer is foreign when
  it comes before its ack.
- `AnswersLineUp`: a media type offered twice and answered in part, and answer
  mode with other media types than the device's (below).
- `AnnouncedPicturesAreServed`: a read that was under way at the announcement.
- `DeadCloudIsNoticed`: data declared dead may come back for a while. An
  `AuthError` makes the entities unavailable without counting
  (`coordinator.py:279-281`), and a timeout below the limit then returns the old
  data as a success (306).

### Findings

Three runs refute what a docstring or a comment says of the code.

1. `calls_stale`: the watchdog that closes a silent call leaves it active. The
   docstring at `coordinator.py:127` says that `active_call` is None if no call
   is in progress. The camera then answers its next stream to the dead session,
   and the next `incoming_call` push does not ring.
2. `streams_leak`: answering a call overwrites the signaling session of the
   live view it interrupts, and its slot leaks. The comment at `camera.py:351`
   says that a new offer releases the previous session.
3. `history_answered`: the terminate at the end of an answered call overwrites
   its record, which then reads as not answered, what closing it on
   `accepted_call` was to prevent (`coordinator.py:738`).

### Disagreements without a run of their own

The code also disagrees with these lines. The models contain the behaviour, and
the properties name the case as an exception or leave it out; `PROJECT.json` has
each at its hazard.

- `camera.py:359`, "Incoming call already answered: the device's offer cannot be
  reused": the call is marked answered after the await of `send_answer`, so a
  second offer of the camera in between answers it again.
- `camera.py:713`, "one for one, in order": of two audio sections of which the
  device answers the second only, the fallback at line 741 passes it on in the
  place of the first and rejects the second.
- `camera.py:697` and `715`, no empty line within a message and no section
  missing: `_reorder_mlines` (676-682) drops or repeats sections when browser and
  device offer different media or one of them twice, and leaves the empty line of
  the device's last section where that section goes.
- `__init__.py:494-500`, which is to keep the integration from being left with no
  WebSocket: the three cases of `Stranded` do leave it so.

The models show more that no line denies: a light used as a lock may keep a timer
nothing cancels; the late answer of a superseded stream disarms the watchdog of
its successor; a set-up on a topology without some modules removes their
entities; with two bridges a poll that fails after its topology leaves a main
device the kept data may not hold (`coordinator.py:212`). They are notes of the
hazards in `PROJECT.json`, at their lines, and the properties there say what
holds all the same.

## 5. Proofs

Everything in this section holds for every value of the constants that satisfies
the named assumptions of the modules: positive windows and bounds, distinct
sentinels, and where said a special case. The theorems are about `Spec`, without
fairness, or in `CallTrackingProofs` about `MCSpec`, which only adds a history variable.

**`CallTrackingProofs`** proves `TypeOK`, `WatchdogPerSession`,
`SilentCallIsClosed`, `DurationIsBounded`, `SensorOnIffTimerArmed`,
`CopiesNeverOverlap` (with `AwaitIsShort`), and for `MCSpec`, where the history
variable `offered` is declared, `EveryStatusRingIsAnnounced`. Three of them are not inductive, and `IInv`
strengthens them:

- *Bounds.* A silent session may wait up to a full window for its watchdog to
  look, so `idle < 2 * RetransmitWindow` does not follow from itself.
  `SessionClock` adds the time the watchdog still sleeps: `idle + left` and
  `total + left` stay below the bounds. `Tick` moves time from one term to the
  other, and a watchdog goes back to sleep only below the window. It needs
  `WatchdogPerSession`, which makes "the watchdog of a session" a function.
- *Copies.* `PendingPushIsSeen` says that the age of a seen push is at most the
  age of the handler that waits on it. A handler waits less than the window, so
  the push is still remembered while it waits.

`TypeStep` treats each action. `SessionSteps`, `SensorSteps`, `CallSteps` and
`HandlerSteps` then say what the actions can do to a group of variables, and
each property is proved over these cases rather than over all actions.

`EveryStatusRingIsAnnounced` needs that before any offer no call is active and
every suspended handler waits with an `incoming_call` (`NoOfferYet`): only then is
the ring not left to an offer's handler. A handler that ends and was not
cancelled has done the rest of its work (`HandlersEndResumed`), and in a home with
one unit that is the ring of this unit (`LoneRing`).

The second part of the module proves `Spec => DoorbellIsImplemented`. Under `IInv`, each
action maps to one action of `Doorbell` or leaves `openCalls` and
`ringingSensors` alone: an offer opens or renews, the ring that follows it is a
step of its own, `EndPush` and the watchdog end a call together with its bell,
the timer silences. For `Tick` the guards of `Doorbell` follow from
`SessionClock`, and from the guard by which a due timer runs before time goes
on. The proof has one lemma per kind of step (`DoorbellStep`).

**`WebRTCSessionProofs`** proves `TypeOK`, which includes the bound on remembered
sessions, and `CandidatesAreOfTheStream`. The type invariant alone is not
inductive: what a handler does with its session after an await depends on the
kind of session it waits with (`SidsOK`). The property about candidates holds by
each writer of the buffer appending only under `haSession`, and by each writer
of `haSession` clearing.

The second part proves three properties of the device's sessions over the type
invariant.

- `EndedStaysEnded`, for any constants. A session is named only after the device
  gave it to one stream (`SessionsAreOpened`), and the stream that waits for its
  ack keeps its camera from having ended it (`OfferedIsNotEnded`): only that
  stream's close or replacement could have.
- `PeersAreAccountedFor`, for any cameras and streams and `Calls = {}`. The
  property is not inductive: an ack overwrites whatever session its camera
  serves. `SlotsAreOwned` says that nothing held is there to overwrite once a
  stream has released what it found and waits for its ack. Without the
  assumption it is false, as `streams_leak` shows: answer mode releases nothing.
- `WatchdogSparesAnswers`, for any cameras, streams and calls. The answer may come
  before the ack. It sets the ready flag
  unless it is foreign, and it is not: its session has not been ended
  (`ServedIsNotEnded`, `OfferedIsNotEnded`), and what stands beside a stream that
  waits for its ack came with an answer itself, a call's session too
  (`StrangersAreReady`). `Ready(c)` collects this for each camera; a step leaves
  it alone at every camera it does not touch (`UntouchedStaysReady`). Which answer a
  stream has heard is known because it has one session (`OneSessionEach`). Both exceptions of the property
  are needed: TLC finds the counterexample when either is dropped.

**`RelockTimerProofs`** proves `TypeOK`, `DoorsKnowTheirTimer`,
`DoorsStayOptimistic` and that a removed door leaves no timer. The invariant
adds that only a call that was made has a timer. Doors and lights must be
disjoint: the same step by a light breaks the property.

**`ConnectionManagerProofs`** proves `TypeOK`, `OneManager` and
`ManagerServesItsEntry`. The invariant says where a running manager can be: in
`hass.data`, or in the hands of the unload that has taken it out and waits for it
(`ManagersAreKnown`). Only a loaded entry has one in `hass.data`
(`TaskOfLoadedEntry`), so both cannot be at once. Whatever could still start a
manager, a deferred start or a start listener, belongs to the present set-up or
is a start without an owner (`StartsAreOfTheEntry`), because an unload removes
the others before a new set-up can begin.

**`PollingProofs`** proves `TypeOK` and `ModulesAreKept`, for any modules, bridges
and failures.

**`EventImagesProofs`** proves `TypeOK`, `AnnouncedPicturesAreServed` and
`StaleImagesExpire`. Three facts make them inductive: a handler past its record
has one, and `newest` is the newest record (`RecordsOK`); a picture's url is in
the attributes only once it was announced, so that its first announcement
changes them and drops the image (`UrlsAreAnnounced`); and a superseded image is
no older than its own age and the read's (`AgesAreTrue`).

**`EventHistoryProofs`** proves `TypeOK`, `UniqueIds`, `NewestFirst`, `ImagesExist`
and the action property `NoCallIsLost`, for any tasks, calls, image kinds,
retention and maximum. Each property speaks of one moment; what makes them
inductive is how memory, disk and image files relate at each phase.

- *Disk.* A save or a restart copies one list to the other, so both are ordered
  and free of repetitions (`ListsOK`). In operation, what is on disk is also in
  memory and every image either of them names is there (`RunningOK`).
- *Set-up.* The retention removes the files of an event before it saves the list
  without it, so after a crash in between the disk names images that are gone.
  `SetUpOK` says that these are events the next set-up drops again: time only
  goes on, and what was dropped for its age or for the maximum still is
  (`TimeDropsMore`). `PurgingOK` says that no kept event shares a file with one
  that is being removed.
- *Lock.* A task queues once and its look-up is its own as long as it holds the
  lock (`LockOK`); a cancelled task leaves the queue without changing its order.

The lemmas about the list say what the operators do to any list: that an
insertion at `Position` keeps the order, that the sorted list of an ordered one is
itself (`InOrderAlready`, as every stored list is ordered), and that the retention
cuts a list in two (`RetentionCuts`).

**`SessionDescriptionProofs`** proves `TypeOK`, `AnswersLineUp`,
`AcceptedMediaSurvive` and `AnswersAreCompatible`, for any codecs, any number of
sections, and any answer `Device` allows. The properties are about a finished
exchange; the invariant adds what an unfinished one remembers (`OfferIsKept`): the
device answers a rewritten copy of the offer that is kept for its answer.

- The rewrites of the offer change directions, sources and codecs and nothing
  else (`Resembles`), so every answer fits the browser's own offer: each of its
  sections has a place there, no two the same (`Covers`).
- `Alignment`: `Progress` is the invariant of the loop. Of each media type, what
  remains and what was taken add up to the answer, and what remains is never more
  than the offered sections still to come. The second fact is the one that counts.
  It holds of the whole answer because of `Covers`, and it says that at the
  end nothing remains, although the loop prefers a section with the right mid to
  the first one: of each media type as many sections are accepted as the device
  accepted. `KeysAreTaken` adds where they go, if the device answered all of the
  type with their mids: nothing but a section with its key is taken for a place.
- `DirectionsReply`: the direction that answers the rewritten offer, rewritten
  back, answers the browser's. It needs that the browser offers each media once:
  a second audio section would be rewritten for the sake of the first.
- `ReorderIsSound`: the ranks of the moves are `1..n`, each once (`RanksGrow`,
  `RanksAreAll`), so the result has every move, in order.

Where these proofs need induction, over the loop or over a list, they take the
least counterexample: a nonempty set of natural numbers has one (`MinIsLeast`).

Only model-checked are the liveness properties, `QuietEventually`,
`SlotsAreFreed`, `EveryHandlerFinishes`, `PollsAreHeardAgain`, `CancelledManagersEnd`,
`LoadedEntryListens`, `FlappingEndsInReload`, `DeadCloudIsNoticed` and
`LightsConverge`: the provers do not handle fairness or ENABLED.

## 6. Not modelled

- *Do-not-disturb, studio and setting entities* (`select.py`, `number.py`,
  `switch.py`): each writes one setting through the API and reads it back at the
  next poll. Two writes of one entity may overlap; the next read corrects it and
  nothing else depends on it.
- *Sensors, media source, image view, diagnostics, base entity:* functions of
  data that is modelled where it changes.
- *Config and options flow:* a dialogue Home Assistant drives one step at a time,
  without state it shares with a running entry.
- *Removal of the entry* (`async_remove_entry`, `async_clear`), token store and
  frontend resources: one-time steps on files nothing else uses at that moment.
- *Two history stores over one file*, when a poll outlives the unload of its
  entry: `EventHistory` has one store, replaced at once by a restart. The hazard
  is listed without a property.
- *TURN servers* are fetched once when a camera is added; *remote candidates* are
  passed on without being kept.
- *A stale active call and the streams:* `CallTracking` and `WebRTCSession` each
  have the active call. The second lets it come, go or stay at any time
  (`CallArrives`, `CallForgotten`), which covers what the first does with it,
  so the two are not composed.
