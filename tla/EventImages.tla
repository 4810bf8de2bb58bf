----------------------------- MODULE EventImages -----------------------------
(***************************************************************************)
(* The last event cameras (camera.py, BticinoBaseEventCamera): which image *)
(* they serve while calls are recorded, announced, closed and backfilled.  *)
(*                                                                         *)
(* A camera takes its attributes from the coordinator's last event but its *)
(* image from the newest record of the history, and keeps it for           *)
(* CacheSeconds unless the attributes change. The two are written at       *)
(* different moments of a handler, and the image is read in an executor.   *)
(*                                                                         *)
(* Calls are numbered in the order they rang. The first push of a call     *)
(* never comes after that of a later one; a call whose pushes were lost is *)
(* recorded by a poll at any time, in its place.                           *)
(***************************************************************************)
EXTENDS Naturals, FiniteSets

CONSTANTS
  LastCall,      \* the number of the last call
  UnitOf,        \* the unit that rings in each call
  Bridge,        \* the name on status pushes: that of the bridge
  NoName,        \* no event, hence no module name
  Listener,      \* the task that handles pushes
  Poller,        \* the task that polls and backfills
  CacheSeconds,  \* IMAGE_CACHE_SECONDS
  MaxRead,       \* bound: the longest read of a local file
  MaxReads       \* bound: reads in progress at a time

Calls == 1..LastCall
Names == {UnitOf[c] : c \in Calls} \cup {Bridge}

ASSUME BoundsAreNatural ==
  {LastCall, CacheSeconds, MaxRead, MaxReads} \subseteq Nat

ASSUME CallsHaveUnits == DOMAIN UnitOf = Calls

ASSUME NoNameIsNoName == NoName \notin Names

ASSUME ListenerIsNoPoller == Listener # Poller

VARIABLES
  stored,      \* the calls that have a record
  newest,      \* list_events(limit=1): the newest of them, or 0
  pictures,    \* the records whose snapshot is on disk
  lastEvent,   \* data["last_event"]: type, url of which call, module name
  polled,      \* the newest polled event with a picture, or 0
  shown,       \* _image_url and _last_event_module_name
  cached,      \* _cached_image and its age
  reads,       \* reads of image files in progress
  op,          \* what the listener and the poller are doing
  begun,       \* the incoming_call pushes recorded as seen
  announced,   \* history: the last call whose picture was announced
  superseded   \* history: how long ago a newer call was recorded

vars == <<stored, newest, pictures, lastEvent, polled, shown, cached, reads,
          op, begun, announced, superseded>>

storeVars == <<stored, newest, pictures, superseded>>
cameraVars == <<shown, cached, reads, announced>>

-----------------------------------------------------------------------------
Tasks == {Listener, Poller}
Urls == 0..LastCall
Forgotten == CacheSeconds + MaxRead + 1

LastEvent == [type : {"incoming_call", "closed", "none"}, url : Urls,
              name : Names \cup {NoName}]

\* overtaken: the picture of a newer call was announced during the read.
Image == [call : Urls, overtaken : BOOLEAN, age : 0..CacheSeconds]
Read == [call : Calls, overtaken : BOOLEAN, age : 0..MaxRead]

Op == [does : {"idle", "offer", "incoming_call", "close", "backfill"},
       at : {"record", "store", "close", "announce"}, call : Urls,
       hasUrl : BOOLEAN]

Idle == [does |-> "idle", at |-> "announce", call |-> 0, hasUrl |-> FALSE]
NoEvent == [type |-> "none", url |-> 0, name |-> NoName]
NoImage == [call |-> 0, overtaken |-> FALSE, age |-> 0]

TypeOK ==
  /\ stored \subseteq Calls
  /\ newest \in Urls
  /\ pictures \subseteq stored
  /\ lastEvent \in LastEvent
  /\ polled \in Urls
  /\ shown \in [url : Urls, name : Names \cup {NoName}]
  /\ cached \in Image
  /\ reads \subseteq Read
  /\ op \in [Tasks -> Op]
  /\ begun \subseteq Calls
  /\ announced \in Urls
  /\ superseded \in [Calls -> 0..Forgotten]

Init ==
  /\ stored = {}
  /\ newest = 0
  /\ pictures = {}
  /\ lastEvent = NoEvent
  /\ polled = 0
  /\ shown = [url |-> 0, name |-> NoName]
  /\ cached = NoImage
  /\ reads = {}
  /\ op = [t \in Tasks |-> Idle]
  /\ begun = {}
  /\ announced = 0
  /\ superseded = [c \in Calls |-> 0]

-----------------------------------------------------------------------------
(* The camera *)

\* _update_state_internal: a polled picture only as long as there is no event.
Attributes(event, polls) ==
  [url |-> IF event = NoEvent THEN polls ELSE event.url, name |-> event.name]

\* A mistake: only another module name clears the cache.
KeptForName(attributes) ==
  IF attributes.name = shown.name THEN cached ELSE NoImage

\* _handle_coordinator_update: the image is dropped if the attributes change.
Kept(attributes) == IF attributes = shown THEN cached ELSE NoImage

\* async_update_listeners.
Notify(event, polls) ==
  /\ shown' = Attributes(event, polls)
  /\ cached' = Kept(Attributes(event, polls))
  /\ UNCHANGED <<reads, announced>>

\* The same when the event carries the picture of call c for the first time.
NotifyPicture(event, polls, c) ==
  /\ shown' = Attributes(event, polls)
  /\ cached' = Kept(Attributes(event, polls))
  /\ reads' = {[r EXCEPT !.overtaken = @ \/ r.call < c] : r \in reads}
  /\ announced' = IF c > announced THEN c ELSE announced

\* A mistake: the cache never expires.
IsKept == cached.call # 0

IsFresh == cached.call # 0 /\ cached.age < CacheSeconds

\* async_camera_image: the cached image, which changes nothing, or a read of
\* the newest record's file, if it has one.
BeginRead ==
  /\ ~IsFresh
  /\ newest \in pictures
  /\ Cardinality(reads) < MaxReads
  /\ reads' = reads \cup {[call |-> newest, overtaken |-> FALSE, age |-> 0]}
  /\ UNCHANGED <<shown, cached, announced, storeVars, lastEvent, polled, op, begun>>

ReadEnds(r) ==
  /\ r \in reads
  /\ reads' = reads \ {r}
  /\ cached' = [call |-> r.call, overtaken |-> r.overtaken, age |-> 0]
  /\ UNCHANGED <<shown, announced, storeVars, lastEvent, polled, op, begun>>

\* OSError.
ReadFails(r) ==
  /\ r \in reads
  /\ reads' = reads \ {r}
  /\ UNCHANGED <<shown, cached, announced, storeVars, lastEvent, polled, op, begun>>

-----------------------------------------------------------------------------
(* The history *)

NewestWith(c) == IF c > newest THEN c ELSE newest

\* async_record_call: the record of the task's call, at its place.
Record(t) ==
  LET c == op[t].call IN
  /\ op[t].does # "idle" /\ op[t].at = "record"
  /\ stored' = stored \cup {c}
  /\ newest' = NewestWith(c)
  /\ op' = [op EXCEPT ![t].at = "store"]
  /\ UNCHANGED <<pictures, superseded, cameraVars, lastEvent, polled, begun>>

AfterStore(t) == IF op[t].does = "backfill" THEN "close" ELSE "announce"

\* The download of the picture, if there is one to download, ends or fails.
Store(t) ==
  /\ op[t].does # "idle" /\ op[t].at = "store"
  /\ \/ op[t].hasUrl /\ pictures' = pictures \cup {op[t].call}
     \/ UNCHANGED pictures
  /\ op' = [op EXCEPT ![t].at = AfterStore(t)]
  /\ UNCHANGED <<stored, newest, superseded, cameraVars, lastEvent, polled, begun>>

\* async_close_call: a record without a picture gets a placeholder.
Close(t) ==
  /\ op[t].does # "idle" /\ op[t].at = "close"
  /\ \/ op[t].call \in stored /\ pictures' = pictures \cup {op[t].call}
     \/ UNCHANGED pictures
  /\ op' = [op EXCEPT ![t].at = "announce"]
  /\ UNCHANGED <<stored, newest, superseded, cameraVars, lastEvent, polled, begun>>

-----------------------------------------------------------------------------
(* Pushes and polls *)

Begins(t, does, at, c, hasUrl) ==
  /\ op[t] = Idle
  /\ op' = [op EXCEPT ![t] = [does |-> does, at |-> at, call |-> c,
                              hasUrl |-> hasUrl]]

\* The listener brings a call that is new or known.
IsInOrder(c) == c \in stored \/ c >= newest

\* An RTC offer, which carries no picture.
Offer(c) ==
  /\ IsInOrder(c)
  /\ Begins(Listener, "offer", "record", c, FALSE)
  /\ UNCHANGED <<storeVars, cameraVars, lastEvent, polled, begun>>

\* _process_status_event, incoming_call: copies of the push are dropped.
IncomingCall(c, hasUrl) ==
  /\ IsInOrder(c)
  /\ c \notin begun
  /\ begun' = begun \cup {c}
  /\ Begins(Listener, "incoming_call", "record", c, hasUrl)
  /\ UNCHANGED <<storeVars, cameraVars, lastEvent, polled>>

\* Rescind, terminate, missed_call or accepted_call: the last event is
\* replaced before the record is closed. RTC pushes name the unit, status
\* pushes the bridge.
EndCall(c, name) ==
  /\ Begins(Listener, "close", "close", c, FALSE)
  /\ lastEvent' = [type |-> "closed", url |-> 0, name |-> name]
  /\ UNCHANGED <<storeVars, cameraVars, polled, begun>>

\* _backfill_history: a polled call that has no record.
Backfill(c, hasUrl) ==
  /\ c \notin stored
  /\ Begins(Poller, "backfill", "record", c, hasUrl)
  /\ UNCHANGED <<storeVars, cameraVars, lastEvent, polled, begun>>

UrlOf(t) == IF op[t].hasUrl THEN op[t].call ELSE 0

\* incoming_call enriches the event of its offer, or makes one of its own.
Enriched(t) ==
  IF lastEvent.type = "incoming_call" THEN [lastEvent EXCEPT !.url = UrlOf(t)]
  ELSE [type |-> "incoming_call", url |-> UrlOf(t), name |-> Bridge]

\* The handler ends: the listeners are notified.
Announce ==
  LET o == op[Listener] IN
  /\ o.does # "idle" /\ o.at = "announce"
  /\ lastEvent' =
       CASE o.does = "offer" -> [type |-> "incoming_call", url |-> 0,
                                 name |-> UnitOf[o.call]]
         [] o.does = "incoming_call" -> Enriched(Listener)
         [] OTHER -> lastEvent
  /\ IF UrlOf(Listener) # 0 THEN NotifyPicture(lastEvent', polled, o.call)
                            ELSE Notify(lastEvent', polled)
  /\ op' = [op EXCEPT ![Listener] = Idle]
  /\ UNCHANGED <<storeVars, polled, begun>>

\* _async_update_data returns, after its backfill if it had one, and brings
\* the polled events; a poll that fails notifies them of what they know.
PollEnds(c) ==
  /\ op[Poller].at = "announce"
  /\ polled' = c
  /\ Notify(lastEvent, c)
  /\ op' = [op EXCEPT ![Poller] = Idle]
  /\ UNCHANGED <<storeVars, lastEvent, begun>>

-----------------------------------------------------------------------------
(* Faults and time *)

\* The listener is cancelled at an await, or a poll fails in its backfill.
Cancelled(t) ==
  /\ op[t] # Idle
  /\ op' = [op EXCEPT ![t] = Idle]
  /\ UNCHANGED <<storeVars, cameraVars, lastEvent, polled, begun>>

\* The entry is reloaded: what remains is the history.
Reload(c) ==
  /\ lastEvent' = NoEvent
  /\ polled' = c
  /\ shown' = Attributes(NoEvent, c)
  /\ cached' = NoImage
  /\ reads' = {}
  /\ op' = [t \in Tasks |-> Idle]
  /\ begun' = {}
  /\ announced' = 0
  /\ UNCHANGED storeVars

\* A mistake: no bound.
OlderForEver(age, bound) == age + 1

Older(age, bound) == IF age < bound THEN age + 1 ELSE age

Tick ==
  /\ \A r \in reads : r.age < MaxRead
  /\ reads' = {[r EXCEPT !.age = @ + 1] : r \in reads}
  /\ cached' = IF cached.call = 0 THEN cached
               ELSE [cached EXCEPT !.age = Older(@, CacheSeconds)]
  /\ superseded' = [c \in Calls |->
                      IF c < newest THEN Older(superseded[c], Forgotten) ELSE 0]
  /\ UNCHANGED <<stored, newest, pictures, lastEvent, polled, shown, op,
                 begun, announced>>

-----------------------------------------------------------------------------
View == BeginRead \/ \E r \in reads : ReadEnds(r) \/ ReadFails(r)

Push ==
  \/ \E c \in Calls : Offer(c)
  \/ \E c \in Calls, hasUrl \in BOOLEAN : IncomingCall(c, hasUrl)
  \/ \E c \in Calls : \E name \in {UnitOf[c], Bridge} : EndCall(c, name)

Poll ==
  \/ \E c \in Calls, hasUrl \in BOOLEAN : Backfill(c, hasUrl)
  \/ \E c \in Urls : PollEnds(c)

Work == Announce \/ \E t \in Tasks : Record(t) \/ Store(t) \/ Close(t)

Faults == (\E t \in Tasks : Cancelled(t)) \/ \E c \in Urls : Reload(c)

Next == View \/ Push \/ Poll \/ Work \/ Faults \/ Tick

Spec == Init /\ [][Next]_vars

-----------------------------------------------------------------------------
(* Properties *)

\* "Images are downloaded to disk when the incoming_call push arrives, so we
\* always read locally" and "BEFORE firing events": once the picture of a call
\* is announced no image of an earlier call is kept or read, except by a read
\* that was under way (async_camera_image, _handle_coordinator_update).
AnnouncedPicturesAreServed ==
  \A image \in reads \cup {cached} :
    image.call # 0 /\ image.call < announced => image.overtaken

\* A call that no push announced, or one that such a read hid, takes over
\* when the cache expires: the image of an earlier call is served for at most
\* CacheSeconds and a read after the newer call was recorded.
StaleImagesExpire ==
  IsFresh => superseded[cached.call] < CacheSeconds + MaxRead
=============================================================================
