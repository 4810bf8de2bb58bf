-------------------------- MODULE EventImagesProofs --------------------------
(***************************************************************************)
(* Proofs about EventImages: types, which call's image a camera may hold   *)
(* once the picture of another was announced, and for how long.            *)
(***************************************************************************)
EXTENDS EventImages, TLAPS

-----------------------------------------------------------------------------
(* The inductive invariant *)

\* A handler past its record has one; the newest record is the newest.
RecordsOK ==
  /\ \A t \in Tasks : op[t].does # "idle" => op[t].call \in Calls
  /\ \A t \in Tasks : op[t].at = "store" => op[t].call \in stored
  /\ op[Listener].does = "incoming_call" /\ op[Listener].at = "announce"
       => op[Listener].call \in stored
  /\ op[Listener].hasUrl => op[Listener].does = "incoming_call"
  /\ op[Listener].does = "incoming_call" => op[Listener].at # "close"
  /\ \A c \in stored : c <= newest

\* A url is in the last event or among the attributes of an event only once it
\* was announced, so the next announcement changes the attributes.
UrlsAreAnnounced ==
  /\ announced <= newest
  /\ lastEvent.url <= announced
  /\ lastEvent.type = "none" => lastEvent = NoEvent
  /\ lastEvent.type # "none" => lastEvent.name \in Names
  /\ shown.name # NoName => shown.url <= announced

\* The images in memory are not older than their ages say.
AgesAreTrue ==
  /\ \A c \in Calls : c >= newest => superseded[c] = 0
  /\ \A r \in reads : superseded[r.call] <= r.age
  /\ IsFresh => superseded[cached.call] <= cached.age + MaxRead

IInv ==
  /\ TypeOK
  /\ RecordsOK
  /\ UrlsAreAnnounced
  /\ AnnouncedPicturesAreServed
  /\ AgesAreTrue

-----------------------------------------------------------------------------
(* Types *)

LEMMA Bounds ==
  /\ LastCall \in Nat /\ CacheSeconds \in Nat /\ MaxRead \in Nat
  /\ Forgotten \in Nat
  /\ \A c \in Calls : c \in Urls /\ c \in Nat /\ c # 0
  /\ 0 \in Urls
  /\ \A c \in Calls : UnitOf[c] \in Names
  /\ Bridge \in Names /\ NoName \notin Names
  BY BoundsAreNatural, NoNameIsNoName DEF Calls, Urls, Forgotten, Names

LEMMA AttributesAreTyped ==
  ASSUME NEW event \in LastEvent, NEW polls \in Urls
  PROVE  Attributes(event, polls) \in [url : Urls, name : Names \cup {NoName}]
  BY DEF Attributes, LastEvent

LEMMA KeptIsTyped ==
  ASSUME TypeOK, NEW attributes
  PROVE  Kept(attributes) \in Image
  BY Bounds DEF TypeOK, Kept, NoImage, Image

LEMMA OlderIsTyped ==
  ASSUME NEW bound \in Nat, NEW age \in 0..bound
  PROVE  /\ Older(age, bound) \in 0..bound
         /\ age < bound => Older(age, bound) = age + 1
         /\ Older(age, bound) <= age + 1 /\ Older(age, bound) >= age
  BY DEF Older

LEMMA EnrichedIsTyped ==
  ASSUME TypeOK, RecordsOK, op[Listener].does # "idle"
  PROVE  /\ UrlOf(Listener) \in Urls
         /\ Enriched(Listener) \in LastEvent
         /\ Enriched(Listener).url = UrlOf(Listener)
         /\ Enriched(Listener).type = "incoming_call"
  <1>1. op[Listener].call \in Calls
    BY DEF RecordsOK, Tasks
  <1>2. UrlOf(Listener) \in Urls
    BY <1>1, Bounds DEF UrlOf
  <1> QED
    BY <1>2, Bounds DEF TypeOK, Enriched, LastEvent

LEMMA IdleIsTyped == Idle \in Op
  BY Bounds DEF Idle, Op

\* What the last event is once a handler has ended.
LEMMA AnnouncedEvent ==
  ASSUME TypeOK, RecordsOK, Announce
  PROVE  /\ lastEvent' \in LastEvent
         /\ lastEvent'.url \in {UrlOf(Listener), lastEvent.url}
         /\ UrlOf(Listener) # 0 => lastEvent' = Enriched(Listener)
  <1>1. op[Listener].does # "idle" /\ op[Listener].call \in Calls
    BY DEF Announce, RecordsOK, Tasks
  <1>2. UrlOf(Listener) # 0 => op[Listener].does = "incoming_call"
    BY DEF UrlOf, RecordsOK
  <1>3. CASE op[Listener].does = "offer"
    BY <1>1, <1>2, <1>3, Bounds DEF Announce, LastEvent, UrlOf, RecordsOK
  <1>4. CASE op[Listener].does = "incoming_call"
    BY <1>1, <1>4, EnrichedIsTyped DEF Announce
  <1>5. CASE op[Listener].does \notin {"offer", "incoming_call"}
    BY <1>1, <1>2, <1>5 DEF Announce, TypeOK
  <1> QED
    BY <1>3, <1>4, <1>5

LEMMA InitTypes == Init => TypeOK
  <1> SUFFICES ASSUME Init PROVE TypeOK
    OBVIOUS
  <1>1. /\ lastEvent \in LastEvent /\ cached \in Image
        /\ op \in [Tasks -> Op] /\ superseded \in [Calls -> 0..Forgotten]
    BY Bounds, IdleIsTyped DEF Init, LastEvent, NoEvent, Image, NoImage
  <1> QED
    BY <1>1, Bounds DEF Init, TypeOK

LEMMA TypeStep == TypeOK /\ RecordsOK /\ [Next]_vars => TypeOK'
  <1> SUFFICES ASSUME TypeOK, RecordsOK, [Next]_vars PROVE TypeOK'
    OBVIOUS
  <1> USE Bounds
  <1>1. CASE BeginRead
    <2>1. newest \in Calls /\ 0 \in 0..MaxRead
      BY <1>1 DEF BeginRead, TypeOK
    <2>2. [call |-> newest, overtaken |-> FALSE, age |-> 0] \in Read
      BY <2>1 DEF Read
    <2>3. reads' \subseteq Read
      BY <1>1, <2>2, Zenon DEF BeginRead, TypeOK
    <2> QED
      BY <1>1, <2>3 DEF BeginRead, TypeOK, storeVars
  <1>2. ASSUME NEW r \in reads, ReadEnds(r) PROVE TypeOK'
    <2>1. cached' \in Image
      BY <1>2 DEF ReadEnds, TypeOK, Read, Image
    <2> QED
      BY <1>2, <2>1 DEF ReadEnds, TypeOK, storeVars
  <1>3. ASSUME NEW r \in reads, ReadFails(r) PROVE TypeOK'
    BY <1>3 DEF ReadFails, TypeOK, storeVars
  <1>4. ASSUME NEW t \in Tasks, NEW c \in Calls,
               NEW does \in {"offer", "incoming_call", "close", "backfill"},
               NEW at \in {"record", "close"}, NEW hasUrl \in BOOLEAN,
               Begins(t, does, at, c, hasUrl)
        PROVE  op' \in [Tasks -> Op]
    BY <1>4 DEF Begins, TypeOK, Op
  <1> Listener \in Tasks /\ Poller \in Tasks
    BY DEF Tasks
  <1>5. ASSUME NEW c \in Calls, Offer(c) PROVE TypeOK'
    BY <1>4, <1>5 DEF Offer, TypeOK, storeVars, cameraVars
  <1>6. ASSUME NEW c \in Calls, NEW hasUrl \in BOOLEAN, IncomingCall(c, hasUrl)
        PROVE  TypeOK'
    BY <1>4, <1>6 DEF IncomingCall, TypeOK, storeVars, cameraVars
  <1>7. ASSUME NEW c \in Calls, NEW name \in {UnitOf[c], Bridge}, EndCall(c, name)
        PROVE  TypeOK'
    <2>1. lastEvent' \in LastEvent
      BY <1>7 DEF EndCall, LastEvent
    <2> QED
      BY <1>4, <1>7, <2>1 DEF EndCall, TypeOK, storeVars, cameraVars
  <1>8. ASSUME NEW c \in Calls, NEW hasUrl \in BOOLEAN, Backfill(c, hasUrl)
        PROVE  TypeOK'
    BY <1>4, <1>8 DEF Backfill, TypeOK, storeVars, cameraVars
  <1>9. ASSUME NEW c \in Urls, PollEnds(c) PROVE TypeOK'
    <2>1. shown' \in [url : Urls, name : Names \cup {NoName}] /\ cached' \in Image
      BY <1>9, AttributesAreTyped, KeptIsTyped DEF PollEnds, Notify, TypeOK
    <2>2. op' \in [Tasks -> Op]
      BY <1>9, IdleIsTyped DEF PollEnds, TypeOK
    <2> QED
      BY <1>9, <2>1, <2>2 DEF PollEnds, Notify, TypeOK, storeVars
  <1>10. CASE Announce
    <2>1. lastEvent' \in LastEvent
      BY <1>10, AnnouncedEvent
    <2>2. shown' \in [url : Urls, name : Names \cup {NoName}] /\ cached' \in Image
      BY <1>10, <2>1, AttributesAreTyped, KeptIsTyped
         DEF Announce, Notify, NotifyPicture, TypeOK
    <2>3. op' \in [Tasks -> Op]
      BY <1>10, IdleIsTyped DEF Announce, TypeOK
    <2>4. op[Listener].call \in Calls
      BY <1>10 DEF Announce, RecordsOK
    <2>5. reads' \subseteq Read
      <3>1. ASSUME NEW r \in Read
            PROVE  [r EXCEPT !.overtaken = @ \/ r.call < op[Listener].call] \in Read
        BY <2>4 DEF Read
      <3> QED
        BY <1>10, <3>1 DEF Announce, Notify, NotifyPicture, TypeOK
    <2>6. announced' \in Urls
      BY <1>10, <2>4 DEF Announce, Notify, NotifyPicture, TypeOK
    <2> QED
      BY <1>10, <2>1, <2>2, <2>3, <2>5, <2>6 DEF Announce, TypeOK, storeVars
  <1>11. ASSUME NEW t \in Tasks, Record(t) PROVE TypeOK'
    <2>1. op[t].call \in Calls
      BY <1>11 DEF Record, RecordsOK
    <2>2. newest' \in Urls
      BY <1>11, <2>1 DEF Record, NewestWith, TypeOK
    <2>3. op' \in [Tasks -> Op]
      BY <1>11 DEF Record, TypeOK, Op
    <2> QED
      BY <1>11, <2>1, <2>2, <2>3 DEF Record, TypeOK, cameraVars
  <1>12. ASSUME NEW t \in Tasks, Store(t) PROVE TypeOK'
    <2>1. op' \in [Tasks -> Op]
      BY <1>12 DEF Store, AfterStore, TypeOK, Op
    <2>2. op[t].call \in stored
      BY <1>12 DEF Store, RecordsOK
    <2> QED
      BY <1>12, <2>1, <2>2 DEF Store, TypeOK, cameraVars
  <1>13. ASSUME NEW t \in Tasks, Close(t) PROVE TypeOK'
    <2>1. op' \in [Tasks -> Op]
      BY <1>13 DEF Close, TypeOK, Op
    <2> QED
      BY <1>13, <2>1 DEF Close, TypeOK, cameraVars
  <1>14. ASSUME NEW t \in Tasks, Cancelled(t) PROVE TypeOK'
    <2>1. op' \in [Tasks -> Op]
      BY <1>14, IdleIsTyped DEF Cancelled, TypeOK
    <2> QED
      BY <1>14, <2>1 DEF Cancelled, TypeOK, storeVars, cameraVars
  <1>15. ASSUME NEW c \in Urls, Reload(c) PROVE TypeOK'
    <2>1. NoEvent \in LastEvent /\ NoImage \in Image
      BY DEF NoEvent, LastEvent, NoImage, Image
    <2>2. shown' \in [url : Urls, name : Names \cup {NoName}]
      BY <1>15, <2>1, AttributesAreTyped DEF Reload
    <2>3. op' \in [Tasks -> Op]
      BY <1>15, IdleIsTyped DEF Reload
    <2> QED
      BY <1>15, <2>1, <2>2, <2>3 DEF Reload, TypeOK, storeVars
  <1>16. CASE Tick
    <2>1. cached' \in Image
      BY <1>16, OlderIsTyped DEF Tick, TypeOK, Image
    <2>2. reads' \subseteq Read
      <3>1. ASSUME NEW r \in Read, r.age < MaxRead
            PROVE  [r EXCEPT !.age = @ + 1] \in Read
        BY <3>1 DEF Read
      <3> QED
        BY <1>16, <3>1 DEF Tick, TypeOK
    <2>3. superseded' \in [Calls -> 0..Forgotten]
      BY <1>16, OlderIsTyped DEF Tick, TypeOK
    <2> QED
      BY <1>16, <2>1, <2>2, <2>3 DEF Tick, TypeOK
  <1>17. CASE UNCHANGED vars
    BY <1>17 DEF vars, storeVars, TypeOK
  <1> QED
    BY <1>1, <1>2, <1>3, <1>5, <1>6, <1>7, <1>8, <1>9, <1>10, <1>11, <1>12,
       <1>13, <1>14, <1>15, <1>16, <1>17
       DEF Next, View, Push, Poll, Work, Faults

-----------------------------------------------------------------------------
(* Records and announcements *)

LEMMA InitRest ==
  Init => /\ RecordsOK /\ UrlsAreAnnounced
          /\ AnnouncedPicturesAreServed /\ AgesAreTrue
  <1> SUFFICES ASSUME Init
               PROVE  RecordsOK /\ UrlsAreAnnounced
                      /\ AnnouncedPicturesAreServed /\ AgesAreTrue
    OBVIOUS
  <1> USE Bounds
  <1>1. RecordsOK
    BY DEF Init, RecordsOK, Idle, Tasks
  <1>2. UrlsAreAnnounced
    BY DEF Init, UrlsAreAnnounced, NoEvent
  <1>3. AnnouncedPicturesAreServed
    BY DEF Init, AnnouncedPicturesAreServed, NoImage
  <1>4. AgesAreTrue
    BY DEF Init, AgesAreTrue, IsFresh, NoImage
  <1> QED
    BY <1>1, <1>2, <1>3, <1>4

LEMMA RecordsStep == TypeOK /\ RecordsOK /\ [Next]_vars => RecordsOK'
  <1> SUFFICES ASSUME TypeOK, RecordsOK, [Next]_vars PROVE RecordsOK'
    OBVIOUS
  <1> USE Bounds
  <1> Listener \in Tasks /\ Poller \in Tasks /\ Listener # Poller
    BY ListenerIsNoPoller DEF Tasks
  <1>1. CASE UNCHANGED <<op, stored, newest>>
    BY <1>1 DEF RecordsOK
  <1>2. ASSUME NEW t \in Tasks, NEW c \in Calls,
               NEW does \in {"offer", "incoming_call", "close", "backfill"},
               NEW at \in {"record", "close"}, NEW hasUrl \in BOOLEAN,
               Begins(t, does, at, c, hasUrl), UNCHANGED <<stored, newest>>,
               t = Listener => /\ hasUrl => does = "incoming_call"
                               /\ does = "incoming_call" => at # "close"
        PROVE  RecordsOK'
    BY <1>2 DEF Begins, TypeOK, RecordsOK
  <1>3. ASSUME NEW t \in Tasks, op' = [op EXCEPT ![t] = Idle],
               UNCHANGED <<stored, newest>>
        PROVE  RecordsOK'
    BY <1>3 DEF TypeOK, RecordsOK, Idle
  <1>4. ASSUME NEW t \in Tasks, Record(t) PROVE RecordsOK'
    BY <1>4 DEF Record, NewestWith, TypeOK, RecordsOK, Calls, Urls
  <1>5. ASSUME NEW t \in Tasks, Store(t) PROVE RecordsOK'
    BY <1>5 DEF Store, AfterStore, TypeOK, RecordsOK
  <1>6. ASSUME NEW t \in Tasks, Close(t) PROVE RecordsOK'
    BY <1>6 DEF Close, TypeOK, RecordsOK
  <1>7. ASSUME NEW c \in Urls, Reload(c) PROVE RecordsOK'
    BY <1>7 DEF Reload, RecordsOK, Idle, storeVars
  <1>8. View \/ Tick \/ UNCHANGED vars => UNCHANGED <<op, stored, newest>>
    BY DEF View, BeginRead, ReadEnds, ReadFails, Tick, storeVars, vars
  <1>9. ASSUME Push PROVE RecordsOK'
    BY <1>2, <1>9 DEF Push, Offer, IncomingCall, EndCall, storeVars
  <1>10. ASSUME Poll PROVE RecordsOK'
    BY <1>2, <1>3, <1>10 DEF Poll, Backfill, PollEnds, storeVars
  <1>11. CASE Announce
    BY <1>3, <1>11 DEF Announce, storeVars
  <1>12. ASSUME NEW t \in Tasks, Cancelled(t) PROVE RecordsOK'
    BY <1>3, <1>12 DEF Cancelled, storeVars
  <1> QED
    BY <1>1, <1>4, <1>5, <1>6, <1>7, <1>8, <1>9, <1>10, <1>11, <1>12
       DEF Next, Work, Faults

\* Attributes that carry the url of a call not announced before are new.
LEMMA NewUrlsClearTheCache ==
  ASSUME TypeOK, UrlsAreAnnounced, NEW event \in LastEvent,
         event.type # "none", event.name \in Names, event.url > announced
  PROVE  Kept(Attributes(event, polled)) = NoImage
  <1>1. Attributes(event, polled).url = event.url
        /\ Attributes(event, polled).name = event.name
    BY DEF Attributes, NoEvent
  <1>2. Attributes(event, polled) # shown
    <2>1. CASE shown.name = NoName
      BY <1>1, <2>1, Bounds
    <2>2. CASE shown.name # NoName
      BY <1>1, <2>2 DEF UrlsAreAnnounced, TypeOK, LastEvent, Urls
    <2> QED
      BY <2>1, <2>2
  <1> QED
    BY <1>2 DEF Kept

LEMMA AnnouncedStep ==
  TypeOK /\ RecordsOK /\ UrlsAreAnnounced /\ AnnouncedPicturesAreServed /\ [Next]_vars
    => UrlsAreAnnounced' /\ AnnouncedPicturesAreServed'
  <1> SUFFICES ASSUME TypeOK, RecordsOK, UrlsAreAnnounced,
                      AnnouncedPicturesAreServed, [Next]_vars
               PROVE  UrlsAreAnnounced' /\ AnnouncedPicturesAreServed'
    OBVIOUS
  <1> USE Bounds
  <1> Listener \in Tasks /\ Poller \in Tasks
    BY DEF Tasks
  <1> newest \in Nat /\ announced \in Nat /\ lastEvent.url \in Nat
      /\ newest' \in Nat /\ announced' \in Nat /\ lastEvent'.url \in Nat
    BY TypeStep DEF TypeOK, LastEvent, Urls
  <1>1. CASE UNCHANGED <<lastEvent, shown, cached, reads, announced>> /\ newest' >= newest
    BY <1>1 DEF UrlsAreAnnounced, AnnouncedPicturesAreServed
  <1>2. CASE BeginRead
    <2>1. UNCHANGED <<newest, lastEvent, shown, cached, announced>>
      BY <1>2 DEF BeginRead, storeVars
    <2>2. reads' = reads \cup {[call |-> newest, overtaken |-> FALSE, age |-> 0]}
      BY <1>2 DEF BeginRead
    <2> QED
      BY <2>1, <2>2 DEF UrlsAreAnnounced, AnnouncedPicturesAreServed
  <1>3. ASSUME NEW r \in reads, ReadEnds(r) \/ ReadFails(r)
        PROVE  UrlsAreAnnounced' /\ AnnouncedPicturesAreServed'
    BY <1>3 DEF ReadEnds, ReadFails, storeVars, UrlsAreAnnounced,
                AnnouncedPicturesAreServed
  <1>4. ASSUME NEW c \in Calls, NEW name \in {UnitOf[c], Bridge}, EndCall(c, name)
        PROVE  UrlsAreAnnounced' /\ AnnouncedPicturesAreServed'
    BY <1>4 DEF EndCall, storeVars, cameraVars, UrlsAreAnnounced,
                AnnouncedPicturesAreServed
  <1>5. ASSUME NEW c \in Urls, PollEnds(c)
        PROVE  UrlsAreAnnounced' /\ AnnouncedPicturesAreServed'
    <2>1. UNCHANGED <<newest, lastEvent, reads, announced>>
      BY <1>5 DEF PollEnds, Notify, storeVars
    <2>2. shown' = Attributes(lastEvent, c) /\ cached' \in {cached, NoImage}
      BY <1>5 DEF PollEnds, Notify, Kept
    <2>3. shown'.name # NoName => shown'.url = lastEvent.url
      BY <2>2 DEF Attributes, NoEvent
    <2> QED
      BY <2>1, <2>2, <2>3 DEF UrlsAreAnnounced, AnnouncedPicturesAreServed, NoImage
  <1>6. CASE Announce
    <2> DEFINE c == op[Listener].call
    <2>1. c \in Calls /\ UNCHANGED newest /\ lastEvent' \in LastEvent
      BY <1>6, AnnouncedEvent DEF Announce, RecordsOK, storeVars
    <2>2. shown' = Attributes(lastEvent', polled)
          /\ cached' = Kept(Attributes(lastEvent', polled))
      BY <1>6 DEF Announce, Notify, NotifyPicture
    <2>3. /\ lastEvent'.type = "none" => lastEvent' = NoEvent
          /\ lastEvent'.type # "none" => lastEvent'.name \in Names
      BY <1>6, <2>1 DEF Announce, Enriched, UrlsAreAnnounced
    <2>4. shown'.name # NoName => shown'.url = lastEvent'.url
      BY <2>2 DEF Attributes, NoEvent
    <2>5. CASE UrlOf(Listener) = 0
      <3>1. UNCHANGED <<reads, announced>>
        BY <1>6, <2>5 DEF Announce, Notify
      <3>2. lastEvent'.url <= announced
        BY <1>6, <2>5, AnnouncedEvent DEF UrlsAreAnnounced
      <3>3. cached' \in {cached, NoImage}
        BY <2>2 DEF Kept
      <3> QED
        BY <2>1, <2>3, <2>4, <3>1, <3>2, <3>3
           DEF UrlsAreAnnounced, AnnouncedPicturesAreServed, NoImage
    <2>6. CASE UrlOf(Listener) # 0
      <3>1. /\ reads' = {[r EXCEPT !.overtaken = @ \/ r.call < c] : r \in reads}
            /\ announced' = IF c > announced THEN c ELSE announced
        BY <1>6, <2>6 DEF Announce, NotifyPicture
      <3>2. UrlOf(Listener) = c /\ op[Listener].does = "incoming_call"
        BY <2>6 DEF UrlOf, RecordsOK
      <3>3. c \in stored /\ c <= newest
        BY <1>6, <3>2 DEF Announce, RecordsOK
      <3>4. lastEvent'.url = c /\ lastEvent'.type = "incoming_call"
        BY <1>6, <2>6, <3>2, AnnouncedEvent, EnrichedIsTyped DEF Announce
      <3>5. UrlsAreAnnounced'
        BY <2>1, <2>3, <2>4, <3>1, <3>3, <3>4 DEF UrlsAreAnnounced, Calls
      <3>6. ASSUME NEW r \in reads
            PROVE  LET s == [r EXCEPT !.overtaken = @ \/ r.call < c]
                   IN s.call < announced' => s.overtaken
        BY <2>1, <3>1, <3>6 DEF AnnouncedPicturesAreServed, TypeOK, Read, Calls
      <3>7. cached'.call # 0 /\ cached'.call < announced' => cached'.overtaken
        <4>1. CASE c > announced
          BY <2>1, <2>2, <2>3, <3>4, <4>1, NewUrlsClearTheCache DEF NoImage
        <4>2. CASE ~(c > announced)
          BY <2>2, <3>1, <4>2 DEF Kept, NoImage, AnnouncedPicturesAreServed
        <4> QED
          BY <4>1, <4>2
      <3>8. ASSUME NEW s \in reads' PROVE s.call < announced' => s.overtaken
        <4>1. PICK r \in reads : s = [r EXCEPT !.overtaken = @ \/ r.call < c]
          BY <3>1
        <4> QED
          BY <3>6, <4>1
      <3> QED
        BY <3>5, <3>7, <3>8 DEF AnnouncedPicturesAreServed
    <2> QED
      BY <2>5, <2>6
  <1>7. ASSUME NEW c \in Urls, Reload(c)
        PROVE  UrlsAreAnnounced' /\ AnnouncedPicturesAreServed'
    BY <1>7 DEF Reload, Attributes, NoEvent, NoImage, storeVars,
                UrlsAreAnnounced, AnnouncedPicturesAreServed
  <1>8. CASE Tick
    <2>1. UNCHANGED <<newest, lastEvent, shown, announced>>
      BY <1>8 DEF Tick
    <2>2. reads' = {[r EXCEPT !.age = @ + 1] : r \in reads}
      BY <1>8 DEF Tick
    <2>3. ASSUME NEW r \in reads
          PROVE  LET s == [r EXCEPT !.age = @ + 1]
                 IN s.call = r.call /\ s.overtaken = r.overtaken
      BY DEF TypeOK, Read
    <2>4. \A r \in reads' : r.call < announced => r.overtaken
      BY <2>2, <2>3 DEF AnnouncedPicturesAreServed, TypeOK, Read, Calls
    <2>5. cached'.call = cached.call /\ cached'.overtaken = cached.overtaken
      BY <1>8 DEF Tick, TypeOK, Image
    <2> QED
      BY <2>1, <2>4, <2>5 DEF UrlsAreAnnounced, AnnouncedPicturesAreServed
  <1>9. ASSUME NEW t \in Tasks, Record(t) \/ Store(t) \/ Close(t) \/ Cancelled(t)
        PROVE  UrlsAreAnnounced' /\ AnnouncedPicturesAreServed'
    <2>1. newest' >= newest
      BY <1>9 DEF Record, Store, Close, Cancelled, NewestWith, RecordsOK, Calls,
                  storeVars
    <2> QED
      BY <1>1, <1>9, <2>1 DEF Record, Store, Close, Cancelled, storeVars, cameraVars
  <1>10. ASSUME NEW c \in Calls, NEW hasUrl \in BOOLEAN,
                Offer(c) \/ IncomingCall(c, hasUrl) \/ Backfill(c, hasUrl)
         PROVE  UrlsAreAnnounced' /\ AnnouncedPicturesAreServed'
    <2>1. /\ UNCHANGED <<lastEvent, shown, cached, reads, announced>>
          /\ UNCHANGED newest
      BY <1>10 DEF Offer, IncomingCall, Backfill, storeVars, cameraVars
    <2> QED
      BY <1>1, <2>1
  <1>11. CASE UNCHANGED vars
    BY <1>1, <1>11 DEF vars, storeVars
  <1> QED
    BY <1>2, <1>3, <1>4, <1>5, <1>6, <1>7, <1>8, <1>9, <1>10, <1>11
       DEF Next, View, Push, Poll, Work, Faults

-----------------------------------------------------------------------------
(* Ages *)

LEMMA AgesStep == TypeOK /\ RecordsOK /\ AgesAreTrue /\ [Next]_vars => AgesAreTrue'
  <1> SUFFICES ASSUME TypeOK, RecordsOK, AgesAreTrue, [Next]_vars
               PROVE  AgesAreTrue'
    OBVIOUS
  <1> USE Bounds
  <1> newest \in Nat /\ newest' \in Nat
    BY TypeStep DEF TypeOK, Urls
  <1>1. ASSUME UNCHANGED <<superseded, reads>>, newest' >= newest,
               cached' \in {cached, NoImage}
        PROVE  AgesAreTrue'
    BY <1>1 DEF AgesAreTrue, IsFresh, NoImage, Calls
  <1>2. CASE BeginRead
    <2>1. UNCHANGED <<newest, superseded, cached>>
      BY <1>2 DEF BeginRead, storeVars
    <2>2. reads' = reads \cup {[call |-> newest, overtaken |-> FALSE, age |-> 0]}
      BY <1>2 DEF BeginRead
    <2>3. superseded[newest] = 0
      BY <1>2 DEF BeginRead, AgesAreTrue, TypeOK
    <2> QED
      BY <2>1, <2>2, <2>3 DEF AgesAreTrue, IsFresh
  <1>3. ASSUME NEW r \in reads, ReadEnds(r) PROVE AgesAreTrue'
    <2>1. superseded[r.call] <= r.age /\ r.age <= MaxRead
          /\ superseded[r.call] \in Nat /\ r.age \in Nat
      BY DEF AgesAreTrue, TypeOK, Read, Forgotten
    <2> QED
      BY <1>3, <2>1 DEF ReadEnds, storeVars, AgesAreTrue, IsFresh
  <1>4. ASSUME NEW r \in reads, ReadFails(r) PROVE AgesAreTrue'
    BY <1>4 DEF ReadFails, storeVars, AgesAreTrue, IsFresh
  <1>5. CASE Announce
    <2>1. UNCHANGED <<superseded, newest>> /\ cached' \in {cached, NoImage}
      BY <1>5 DEF Announce, Notify, NotifyPicture, Kept, storeVars
    <2>2. CASE UNCHANGED reads
      BY <1>1, <2>1, <2>2
    <2>3. CASE reads' = {[r EXCEPT !.overtaken = @ \/ r.call < op[Listener].call]
                           : r \in reads}
      <3>1. ASSUME NEW s \in reads' PROVE superseded[s.call] <= s.age
        <4>1. PICK r \in reads :
                s = [r EXCEPT !.overtaken = @ \/ r.call < op[Listener].call]
          BY <2>3
        <4>2. s.call = r.call /\ s.age = r.age
          BY <4>1 DEF TypeOK, Read
        <4> QED
          BY <4>2 DEF AgesAreTrue
      <3> QED
        BY <2>1, <3>1 DEF AgesAreTrue, IsFresh, NoImage
    <2> QED
      BY <1>5, <2>2, <2>3 DEF Announce, Notify, NotifyPicture
  <1>6. ASSUME NEW c \in Urls, PollEnds(c) PROVE AgesAreTrue'
    BY <1>1, <1>6 DEF PollEnds, Notify, Kept, storeVars
  <1>7. ASSUME NEW c \in Urls, Reload(c) PROVE AgesAreTrue'
    BY <1>7 DEF Reload, NoImage, storeVars, AgesAreTrue, IsFresh
  <1>8. CASE Tick
    <2>1. UNCHANGED newest
      BY <1>8 DEF Tick
    <2>2. ASSUME NEW c \in Calls
          PROVE  /\ superseded'[c] <= superseded[c] + 1
                 /\ c >= newest => superseded'[c] = 0
                 /\ superseded'[c] \in Nat /\ superseded[c] \in Nat
      <3>1. superseded[c] \in 0..Forgotten
        BY DEF TypeOK
      <3>2. superseded'[c] = IF c < newest THEN Older(superseded[c], Forgotten) ELSE 0
        BY <1>8 DEF Tick
      <3>3. /\ Older(superseded[c], Forgotten) \in 0..Forgotten
            /\ Older(superseded[c], Forgotten) <= superseded[c] + 1
        BY <3>1, OlderIsTyped
      <3> QED
        BY <3>1, <3>2, <3>3 DEF Calls
    <2>3. ASSUME NEW s \in reads' PROVE superseded'[s.call] <= s.age
      <3>1. PICK r \in reads : s = [r EXCEPT !.age = @ + 1]
        BY <1>8 DEF Tick
      <3>2. s.call = r.call /\ s.age = r.age + 1 /\ r.call \in Calls /\ r.age \in Nat
        BY <3>1 DEF TypeOK, Read
      <3> QED
        BY <2>2, <3>2 DEF AgesAreTrue
    <2>4. IsFresh' => superseded'[cached'.call] <= cached'.age + MaxRead
      <3> SUFFICES ASSUME IsFresh'
                   PROVE  superseded'[cached'.call] <= cached'.age + MaxRead
        OBVIOUS
      <3>1. cached.call # 0 /\ cached.age \in 0..CacheSeconds /\ cached.call \in Calls
        BY <1>8 DEF Tick, IsFresh, TypeOK, Image, Urls, Calls
      <3>2. cached' = [cached EXCEPT !.age = Older(@, CacheSeconds)]
        BY <1>8, <3>1 DEF Tick
      <3>3. cached'.call = cached.call /\ cached'.age = Older(cached.age, CacheSeconds)
        BY <3>2 DEF TypeOK, Image
      <3>4. cached.age < CacheSeconds /\ cached'.age = cached.age + 1
        <4>1. /\ cached.age < CacheSeconds =>
                   Older(cached.age, CacheSeconds) = cached.age + 1
              /\ Older(cached.age, CacheSeconds) >= cached.age
          BY <3>1, OlderIsTyped
        <4>2. Older(cached.age, CacheSeconds) < CacheSeconds
          BY <3>3 DEF IsFresh
        <4> QED
          BY <3>1, <3>3, <4>1, <4>2 DEF Older
      <3> QED
        BY <2>2, <3>1, <3>3, <3>4 DEF AgesAreTrue, IsFresh
    <2> QED
      BY <2>1, <2>2, <2>3, <2>4 DEF AgesAreTrue
  <1>9. ASSUME NEW t \in Tasks, Record(t) PROVE AgesAreTrue'
    BY <1>1, <1>9 DEF Record, NewestWith, RecordsOK, Calls, cameraVars
  <1>10. CASE UNCHANGED <<superseded, newest, reads, cached>>
    BY <1>1, <1>10
  <1>11. ASSUME NEW c \in Calls, NEW hasUrl \in BOOLEAN, NEW name \in Names,
                Offer(c) \/ IncomingCall(c, hasUrl) \/ Backfill(c, hasUrl)
                  \/ EndCall(c, name)
         PROVE  AgesAreTrue'
    BY <1>10, <1>11 DEF Offer, IncomingCall, Backfill, EndCall, storeVars, cameraVars
  <1>12. ASSUME NEW t \in Tasks, Store(t) \/ Close(t) \/ Cancelled(t)
         PROVE  AgesAreTrue'
    BY <1>10, <1>12 DEF Store, Close, Cancelled, storeVars, cameraVars
  <1>13. CASE UNCHANGED vars
    BY <1>10, <1>13 DEF vars, storeVars
  <1> QED
    BY <1>2, <1>3, <1>4, <1>5, <1>6, <1>7, <1>8, <1>9, <1>11, <1>12, <1>13
       DEF Next, View, Push, Poll, Work, Faults

-----------------------------------------------------------------------------
(* Theorems *)

THEOREM InductiveInvariant == Spec => []IInv
  <1>1. Init => IInv
    BY InitTypes, InitRest DEF IInv
  <1>2. IInv /\ [Next]_vars => IInv'
    BY TypeStep, RecordsStep, AnnouncedStep, AgesStep DEF IInv
  <1> QED
    BY <1>1, <1>2, PTL DEF Spec

\* Every variable of EventImages keeps its type.
THEOREM TypeCorrectness == Spec => []TypeOK
  <1>1. IInv => TypeOK
    BY DEF IInv
  <1> QED
    BY <1>1, InductiveInvariant, PTL

\* Whatever calls, polls and reads interleave, once the picture of a call was
\* announced a camera holds no image of an earlier one, unless it was reading
\* it when the announcement came (_handle_coordinator_update).
THEOREM AnnouncementsReplaceImages == Spec => []AnnouncedPicturesAreServed
  <1>1. IInv => AnnouncedPicturesAreServed
    BY DEF IInv
  <1> QED
    BY <1>1, InductiveInvariant, PTL

\* No image is served for longer than the cache and one read after the record
\* of a newer call (async_camera_image).
THEOREM ImagesExpire == Spec => []StaleImagesExpire
  <1>1. IInv => StaleImagesExpire
    <2> SUFFICES ASSUME IInv, IsFresh
                 PROVE  superseded[cached.call] < CacheSeconds + MaxRead
      BY DEF StaleImagesExpire
    <2>1. cached.call \in Calls /\ cached.age \in Nat /\ cached.age < CacheSeconds
      BY DEF IInv, TypeOK, Image, IsFresh, Urls, Calls
    <2>2. superseded[cached.call] \in Nat
      BY <2>1, Bounds DEF IInv, TypeOK
    <2> QED
      BY <2>1, <2>2, Bounds DEF IInv, AgesAreTrue
  <1> QED
    BY <1>1, InductiveInvariant, PTL
=============================================================================
