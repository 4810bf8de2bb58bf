---------------------------- MODULE EventHistory ----------------------------
(***************************************************************************)
(* The call history of the integration: EventHistoryStore (history.py),    *)
(* its start-up (__init__.py) and the two that write to it, the push       *)
(* handlers and the poll's backfill (coordinator.py).                      *)
(*                                                                         *)
(* Every mutation holds one asyncio lock across its downloads and its      *)
(* save, so the steps of a task are the pieces between those awaits. The   *)
(* lock is a FIFO queue whose head is the owner. The process may die at    *)
(* any await, and the task of a push may be cancelled at any await when    *)
(* the connection manager gives up its listener.                           *)
(***************************************************************************)
EXTENDS Naturals, Sequences, FiniteSets, SequencesExt

CONSTANTS
  Ids,         \* event ids: the session ids of the calls
  PushTasks,   \* tasks that run push handlers
  Poller,      \* the task that runs _async_update_data
  NoOp,        \* a task with nothing to write
  ImageKinds,  \* IMAGE_KINDS: "snapshot" and "vignette", or fewer
  Retention,   \* retention_days
  MaxEvents,   \* max_events
  MaxTime      \* bound of the clock

ASSUME BoundsAreNatural ==
  Retention \in Nat /\ MaxEvents \in Nat \ {0} /\ MaxTime \in Nat

ASSUME ImagesAreOfTheKinds == ImageKinds \subseteq {"snapshot", "vignette"}

ASSUME TasksAreFinite == IsFiniteSet(PushTasks)

ASSUME PollerIsNoPushTask == Poller \notin PushTasks

VARIABLES
  events,    \* _events, newest first
  disk,      \* the list in Home Assistant's storage file
  files,     \* the images in the entry's directory
  lock,      \* _lock: its owner and, behind it, the tasks that wait for it
  op,        \* what each task is doing to the store
  phase,     \* set-up of the entry: starting, purging or running
  dropping,  \* the events whose files are being removed at set-up
  now        \* the wall clock

vars == <<events, disk, files, lock, op, phase, dropping, now>>

-----------------------------------------------------------------------------
Tasks == PushTasks \cup {Poller}
Times == 0..MaxTime
FileKinds == ImageKinds \cup {"placeholder"}

\* missed_call closes a record exactly as terminated does: not answered.
ClosedTypes == {"answered_elsewhere", "terminated"}
EventTypes == ClosedTypes \cup {"incoming_call"}

Event == [id : Ids, ts : Times, type : EventTypes, files : SUBSET FileKinds]

\* todo: the images still to be stored; closeAs: how the backfill closes its
\* record, or how a close does.
Op == [does : {"record", "close"}, at : {"waiting", "locked"}, id : Ids,
       ts : Times, todo : SUBSET FileKinds, closeAs : ClosedTypes \cup {"none"}]

ASSUME NoOpIsNoOp == NoOp \notin Op

TypeOK ==
  /\ events \in Seq(Event)
  /\ disk \in Seq(Event)
  /\ files \subseteq Ids \X FileKinds
  /\ lock \in Seq(Tasks) /\ Len(lock) <= Cardinality(Tasks)
  /\ op \in [Tasks -> Op \cup {NoOp}]
  /\ phase \in {"starting", "purging", "running"}
  /\ dropping \in Seq(Event)
  /\ now \in Times

Init ==
  /\ events = <<>>
  /\ disk = <<>>
  /\ files = {}
  /\ lock = <<>>
  /\ op = [t \in Tasks |-> NoOp]
  /\ phase = "starting"
  /\ dropping = <<>>
  /\ now = 0

-----------------------------------------------------------------------------
(* Helpers *)

IdsOf(s) == {e.id : e \in ToSet(s)}

\* list_events and get_event: the position of a record, 0 if there is none.
IndexOf(id) == SelectInSeq(events, LAMBDA e : e.id = id)

HasSnapshot(e) == e.files \cap {"snapshot", "placeholder"} # {}

\* A mistake: by arrival instead of by timestamp.
FirstPosition(ts) == 1

\* Before the first record that is not newer.
Position(ts) ==
  LET i == SelectInSeq(events, LAMBDA e : e.ts <= ts)
  IN IF i = 0 THEN Len(events) + 1 ELSE i

\* Two mistakes: the record is not looked up again under the lock, and the
\* list is cut to its maximum at every call.
InsertedBlindly(e) == InsertAt(events, Position(e.ts), e)

InsertedAndCut(e) ==
  IF e.id \in IdsOf(events) THEN events
  ELSE LET all == InsertAt(events, Position(e.ts), e)
       IN SubSeq(all, 1, Min({MaxEvents, Len(all)}))

\* A record of this id is kept, else the new one is inserted.
Recorded(e) ==
  IF e.id \in IdsOf(events) THEN events
  ELSE InsertAt(events, Position(e.ts), e)

\* The lock was handed to t, which is in one of its critical sections.
Owns(t) == op[t] # NoOp /\ lock # <<>> /\ Head(lock) = t

\* An image of the list at set-up and at work: snapshot before vignette.
NextImage(t) ==
  IF "snapshot" \in op[t].todo THEN "snapshot"
  ELSE CHOOSE k \in op[t].todo : TRUE

-----------------------------------------------------------------------------
(* Set-up: async_load and async_apply_retention *)

\* sorted(..., reverse=True) keeps the order of equal timestamps.
Before(s, i, j) == s[i].ts > s[j].ts \/ (s[i].ts = s[j].ts /\ i < j)

\* The place of s[i] in the sorted list.
Rank(s, i) == Cardinality({j \in DOMAIN s : ~Before(s, i, j)})

NewestFirstOrder(s) ==
  [n \in DOMAIN s |-> s[CHOOSE i \in DOMAIN s : Rank(s, i) = n]]

\* Going down the sorted list, the records are kept until one is too old or
\* there are enough.
KeptCount(s) ==
  LET recent == Cardinality({i \in DOMAIN s : s[i].ts + Retention >= now})
  IN IF recent < MaxEvents THEN recent ELSE MaxEvents

Kept(s) == SubSeq(NewestFirstOrder(s), 1, KeptCount(s))

\* A mistake: the last event that is kept loses its files.
DroppedOneTooMany(s) ==
  SubSeq(NewestFirstOrder(s), IF KeptCount(s) = 0 THEN 1 ELSE KeptCount(s), Len(s))

Dropped(s) == SubSeq(NewestFirstOrder(s), KeptCount(s) + 1, Len(s))

\* The stored list is loaded and, unless all of it stays, its rest dropped.
Load ==
  /\ phase = "starting"
  /\ IF Dropped(disk) = <<>>
     THEN events' = disk /\ phase' = "running"
     ELSE events' = Kept(disk) /\ phase' = "purging"
  /\ dropping' = Dropped(disk)
  /\ UNCHANGED <<disk, files, lock, op, now>>

\* One executor job for the files of one event; missing ones are ignored.
DeleteEventFiles ==
  /\ phase = "purging"
  /\ dropping # <<>>
  /\ files' = {f \in files :
                 ~(f[1] = Head(dropping).id /\ f[2] \in Head(dropping).files)}
  /\ dropping' = Tail(dropping)
  /\ UNCHANGED <<events, disk, lock, op, phase, now>>

PersistRetention ==
  /\ phase = "purging"
  /\ dropping = <<>>
  /\ disk' = events
  /\ phase' = "running"
  /\ UNCHANGED <<events, files, lock, op, dropping, now>>

-----------------------------------------------------------------------------
(* The callers: each asks for the lock and waits *)

Request(t, o) ==
  /\ phase = "running"
  /\ op[t] = NoOp
  /\ op' = [op EXCEPT ![t] = o]
  /\ lock' = Append(lock, t)
  /\ UNCHANGED <<events, disk, files, phase, dropping, now>>

\* The offer, which has no images, and the incoming_call push.
RecordCall(t, id, urls) ==
  Request(t, [does |-> "record", at |-> "waiting", id |-> id, ts |-> now,
              todo |-> urls, closeAs |-> "none"])

\* _close_history_event: rescind, terminate, missed_call and accepted_call.
CloseCall(t, id, type) ==
  Request(t, [does |-> "close", at |-> "waiting", id |-> id, ts |-> now,
              todo |-> {}, closeAs |-> type])

\* A polled call within the retention time that the history lacks now.
BackfillHistory(id, urls, ts, type) ==
  /\ ts + Retention >= now
  /\ id \notin IdsOf(events)
  /\ Request(Poller, [does |-> "record", at |-> "waiting", id |-> id, ts |-> ts,
                      todo |-> urls, closeAs |-> type])

-----------------------------------------------------------------------------
(* Under the lock *)

EnterRecord(t) ==
  LET o == op[t]
      list == Recorded([id |-> o.id, ts |-> o.ts, type |-> "incoming_call",
                        files |-> {}])
      e == list[SelectInSeq(list, LAMBDA x : x.id = o.id)]
  IN
  /\ Owns(t)
  /\ o.at = "waiting" /\ o.does = "record"
  /\ events' = list
  /\ op' = [op EXCEPT ![t].at = "locked",
                      ![t].todo = {k \in @ : /\ k \notin e.files
                                             /\ k = "snapshot" => ~HasSnapshot(e)}]
  /\ UNCHANGED <<disk, files, lock, phase, dropping, now>>

\* A record without a snapshot gets a placeholder when it is closed.
EnterClose(t) ==
  LET o == op[t]
      i == IndexOf(o.id)
  IN
  /\ Owns(t)
  /\ o.at = "waiting" /\ o.does = "close"
  /\ IF i = 0
     THEN /\ op' = [op EXCEPT ![t] = NoOp]
          /\ lock' = Tail(lock)
          /\ UNCHANGED events
     ELSE /\ events' = [events EXCEPT ![i].type = o.closeAs]
          /\ op' = [op EXCEPT ![t].at = "locked",
                              ![t].todo = IF HasSnapshot(events[i]) THEN {}
                                          ELSE {"placeholder"}]
          /\ UNCHANGED lock
  /\ UNCHANGED <<disk, files, phase, dropping, now>>

\* _download_image or _generate_placeholder wrote the file.
ImageStored(t) ==
  LET kind == NextImage(t) IN
  /\ Owns(t)
  /\ op[t].at = "locked" /\ op[t].todo # {}
  /\ files' = files \cup {<<op[t].id, kind>>}
  /\ events' = [events EXCEPT ![IndexOf(op[t].id)].files = @ \cup {kind}]
  /\ op' = [op EXCEPT ![t].todo = @ \ {kind}]
  /\ UNCHANGED <<disk, lock, phase, dropping, now>>

\* An HTTP error, a timeout or a full disk: the record stays without it.
ImageFailed(t) ==
  /\ Owns(t)
  /\ op[t].at = "locked" /\ op[t].todo # {}
  /\ op' = [op EXCEPT ![t].todo = @ \ {NextImage(t)}]
  /\ UNCHANGED <<events, disk, files, lock, phase, dropping, now>>

\* A mistake: the backfill's first call never releases the lock.
RequeuedHolding(t) == Append(lock, t)

Requeued(t) == Append(Tail(lock), t)

\* The save ends and the lock is released; the backfill goes on to close the
\* record it has made, behind the tasks that wait.
Save(t) ==
  LET o == op[t]
      closes == o.does = "record" /\ o.closeAs # "none"
  IN
  /\ Owns(t)
  /\ o.at = "locked" /\ o.todo = {}
  /\ disk' = events
  /\ op' = [op EXCEPT ![t] = IF closes THEN [o EXCEPT !.does = "close",
                                                      !.at = "waiting"]
                                       ELSE NoOp]
  /\ lock' = IF closes THEN Requeued(t) ELSE Tail(lock)
  /\ UNCHANGED <<events, files, phase, dropping, now>>

-----------------------------------------------------------------------------
(* Faults and time *)

\* A cancelled push handler leaves its list as it is; the executor may still
\* finish the write it had begun.
Cancelled(t) ==
  /\ op[t] # NoOp
  /\ LET working == Owns(t) /\ op[t].at = "locked" IN
     \/ UNCHANGED <<disk, files>>
     \/ working /\ op[t].todo = {} /\ disk' = events /\ UNCHANGED files
     \/ /\ working /\ op[t].todo # {}
        /\ files' = files \cup {<<op[t].id, NextImage(t)>>}
        /\ UNCHANGED disk
  /\ op' = [op EXCEPT ![t] = NoOp]
  /\ lock' = RemoveFirst(lock, t)
  /\ UNCHANGED <<events, phase, dropping, now>>

\* Home Assistant dies and starts again; what is on disk is all that is left.
Restart ==
  /\ events' = <<>>
  /\ lock' = <<>>
  /\ op' = [t \in Tasks |-> NoOp]
  /\ phase' = "starting"
  /\ dropping' = <<>>
  /\ UNCHANGED <<disk, files, now>>

Tick ==
  /\ now < MaxTime
  /\ now' = now + 1
  /\ UNCHANGED <<events, disk, files, lock, op, phase, dropping>>

-----------------------------------------------------------------------------
Push(t) ==
  \E id \in Ids :
    \/ \E urls \in SUBSET ImageKinds : RecordCall(t, id, urls)
    \/ \E type \in ClosedTypes : CloseCall(t, id, type)

Poll ==
  \E id \in Ids, urls \in SUBSET ImageKinds, ts \in 0..now, type \in ClosedTypes :
    BackfillHistory(id, urls, ts, type)

\* What the push service and the polled events bring.
Environment == Poll \/ \E t \in PushTasks : Push(t)

Step(t) ==
  \/ EnterRecord(t)
  \/ EnterClose(t)
  \/ ImageStored(t)
  \/ ImageFailed(t)
  \/ Save(t)

SetUp == Load \/ DeleteEventFiles \/ PersistRetention

Faults == Restart \/ \E t \in PushTasks : Cancelled(t)

System == SetUp \/ (\E t \in Tasks : Step(t)) \/ Tick

Next == Environment \/ System \/ Faults

Spec == Init /\ [][Next]_vars

\* Downloads time out after 15 s and executor jobs end.
Fairness == \A t \in Tasks : WF_vars(Step(t))

FairSpec == Spec /\ Fairness

-----------------------------------------------------------------------------
(* Properties *)

\* No call is recorded twice, although _backfill_history looks the call up
\* before it waits for the lock, and its push may be recorded meanwhile.
UniqueIds ==
  \A i, j \in DOMAIN events : events[i].id = events[j].id => i = j

\* The list is newest first by the time of the call, not by arrival: the event
\* cameras serve index 0 (async_record_call, #99), after a restart as well.
NewestFirst ==
  \A i, j \in DOMAIN events : i < j => events[i].ts >= events[j].ts

\* Once set-up has ended every image a record names is there, though set-up may
\* die between the removal of the files and the save (async_apply_retention).
ImagesExist ==
  phase = "running" =>
    \A e \in ToSet(events), k \in FileKinds : k \in e.files => <<e.id, k>> \in files

\* Only the retention at set-up takes a call off the disk: no save, no cancelled
\* task and no restart loses a call that was saved.
NoCallIsLost == [][phase # "purging" => IdsOf(disk) \subseteq IdsOf(disk')]_vars

\* No handler waits for the lock for ever, nor for its own.
EveryHandlerFinishes == \A t \in Tasks : op[t] # NoOp ~> op[t] = NoOp

\* The comment in _process_status_event on accepted_call: without its close
\* "every answered call still reads as missed in the history". So an answered
\* call stays answered.
AnsweredStaysAnswered ==
  [][phase = "running" /\ phase' = "running" =>
       \A e \in ToSet(events) :
         e.type = "answered_elsewhere" =>
           \E f \in ToSet(events') : f.id = e.id /\ f.type = e.type]_vars
=============================================================================
