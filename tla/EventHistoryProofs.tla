------------------------- MODULE EventHistoryProofs -------------------------
(***************************************************************************)
(* Proofs about EventHistory, for any tasks, calls, image kinds and        *)
(* retention: what the list, its file and the images on disk have in       *)
(* common, in operation, in the retention and after a crash in either.     *)
(***************************************************************************)
EXTENDS EventHistory, FiniteSetTheorems, SequenceTheorems, TLAPS

-----------------------------------------------------------------------------
(* The inductive invariant *)

IsNewestFirst(s) == \A i, j \in DOMAIN s : i < j => s[i].ts >= s[j].ts

HasUniqueIds(s) == \A i, j \in DOMAIN s : s[i].id = s[j].id => i = j

NoRepeats(s) == \A i, j \in DOMAIN s : s[i] = s[j] => i = j

HasImages(e) == \A k \in FileKinds : k \in e.files => <<e.id, k>> \in files

\* The two lists; what is on disk is what was once in memory.
ListsOK ==
  /\ IsNewestFirst(events) /\ HasUniqueIds(events)
  /\ IsNewestFirst(disk) /\ HasUniqueIds(disk)

\* A task queues once for the lock, and only for what it does.
LockOK == NoRepeats(lock) /\ \A t \in ToSet(lock) : op[t] # NoOp

\* A task that closes a record knows how.
CloseOK == \A t \in Tasks : op[t] # NoOp /\ op[t].does = "close" => op[t].closeAs # "none"

\* In operation nothing is ever taken from the list or from the directory.
RunningOK ==
  phase = "running" =>
    /\ IdsOf(disk) \subseteq IdsOf(events)
    /\ \A e \in ToSet(events) \cup ToSet(disk) : HasImages(e)

\* During set-up only records that will be dropped, now or at the next set-up,
\* lack images: the window only gets stricter while the process is down.
SetUpOK ==
  phase # "running" =>
    /\ lock = <<>>
    /\ \A e \in ToSet(disk) : HasImages(e) \/ e.id \in IdsOf(Dropped(disk))

\* The files that are being removed are those of no record that was kept.
PurgingOK ==
  phase = "purging" =>
    /\ \A e \in ToSet(events) : HasImages(e)
    /\ IdsOf(events) \cap IdsOf(dropping) = {}
    /\ IdsOf(dropping) \subseteq IdsOf(Dropped(disk))

IInv == TypeOK /\ ListsOK /\ LockOK /\ CloseOK /\ RunningOK /\ SetUpOK /\ PurgingOK

-----------------------------------------------------------------------------
(* Lists *)

LEMMA MinIsLeast ==
  ASSUME NEW S \in SUBSET Nat, S # {}
  PROVE  Min(S) \in S /\ \A m \in S : Min(S) <= m
  <1> DEFINE less == {ss \in Nat \X Nat : ss[1] < ss[2]}
  <1>1. less = OpToRel(<, Nat)
    BY Zenon DEF OpToRel
  <1>2. PICK n \in S : \A m \in S : ~(<<m, n>> \in less)
    BY <1>1, NatLessThanWellFounded, WFMin, Zenon
  <1>3. \A m \in S : n <= m
    <2> SUFFICES ASSUME NEW m \in S, m < n PROVE FALSE
      OBVIOUS
    <2>1. <<m, n>> \in less
      OBVIOUS
    <2> QED
      BY <1>2, <2>1
  <1> QED
    BY <1>3 DEF Min

LEMMA IndexOfFinds ==
  ASSUME NEW id, events \in Seq(Event)
  PROVE  /\ IndexOf(id) \in 0..Len(events)
         /\ IndexOf(id) # 0 => events[IndexOf(id)].id = id
         /\ IndexOf(id) = 0 => id \notin IdsOf(events)
  <1> DEFINE I == {i \in 1..Len(events) : events[i].id = id}
  <1>1. IndexOf(id) = IF I # {} THEN Min(I) ELSE 0
    BY DEF IndexOf, SelectInSeq
  <1>2. I # {} => Min(I) \in I
    <2>1. I \in SUBSET Nat
      OBVIOUS
    <2> QED
      BY <2>1, MinIsLeast
  <1> QED
    BY <1>1, <1>2 DEF IdsOf, ToSet

LEMMA PositionSplits ==
  ASSUME NEW ts \in Nat, events \in Seq(Event), NewestFirst
  PROVE  /\ Position(ts) \in 1..(Len(events) + 1)
         /\ \A i \in 1..Len(events) : i < Position(ts) => events[i].ts > ts
         /\ \A i \in 1..Len(events) : i >= Position(ts) => events[i].ts <= ts
  <1> DEFINE I == {i \in 1..Len(events) : events[i].ts <= ts}
             p == IF I # {} THEN Min(I) ELSE 0
  <1>1. Position(ts) = IF p = 0 THEN Len(events) + 1 ELSE p
    BY DEF Position, SelectInSeq
  <1>2. I # {} => Min(I) \in I /\ \A m \in I : Min(I) <= m
    <2>1. I \in SUBSET Nat
      OBVIOUS
    <2> QED
      BY <2>1, MinIsLeast
  <1>3. \A i \in 1..Len(events) : events[i].ts \in Nat
    <2>1. \A i \in 1..Len(events) : events[i] \in Event
      OBVIOUS
    <2> QED
      BY <2>1, BoundsAreNatural DEF Event, Times
  <1>4. CASE I = {}
    BY <1>1, <1>3, <1>4
  <1>5. CASE I # {}
    <2>1. Position(ts) = Min(I) /\ Min(I) \in 1..Len(events) /\ events[Min(I)].ts <= ts
      BY <1>1, <1>2, <1>5
    <2>2. \A i \in 1..Len(events) : i < Min(I) => events[i].ts > ts
      BY <1>2, <1>3, <1>5, <2>1
    <2>3. \A i \in 1..Len(events) : i >= Min(I) => events[i].ts <= ts
      BY <1>3, <2>1 DEF NewestFirst
    <2> QED
      BY <2>1, <2>2, <2>3
  <1> QED
    BY <1>4, <1>5

LEMMA Insertion ==
  ASSUME NEW s \in Seq(Event), NEW p \in 1..(Len(s) + 1), NEW e \in Event
  PROVE  /\ InsertAt(s, p, e) \in Seq(Event)
         /\ Len(InsertAt(s, p, e)) = Len(s) + 1
         /\ \A i \in 1..(Len(s) + 1) :
              InsertAt(s, p, e)[i] = IF i < p THEN s[i] ELSE IF i = p THEN e ELSE s[i - 1]
  <1> DEFINE before == SubSeq(s, 1, p - 1)
             after == SubSeq(s, p, Len(s))
  <1>1. /\ before \in Seq(Event) /\ Len(before) = p - 1
        /\ \A i \in 1..(p - 1) : before[i] = s[i]
    OBVIOUS
  <1>2. /\ after \in Seq(Event) /\ Len(after) = Len(s) - p + 1
        /\ \A i \in 1..(Len(s) - p + 1) : after[i] = s[p + i - 1]
    OBVIOUS
  <1> HIDE DEF before, after
  <1> DEFINE left == before \o <<e>>
  <1>3. /\ left \in Seq(Event) /\ Len(left) = p
        /\ \A i \in 1..p : left[i] = IF i < p THEN s[i] ELSE e
    BY <1>1
  <1> HIDE DEF left
  <1>4. /\ left \o after \in Seq(Event) /\ Len(left \o after) = Len(s) + 1
        /\ \A i \in 1..(Len(s) + 1) :
             (left \o after)[i] = IF i <= p THEN left[i] ELSE after[i - p]
    BY <1>2, <1>3
  <1>5. \A i \in 1..(Len(s) + 1) : i > p => i - p \in 1..(Len(s) - p + 1) /\ p + (i - p) - 1 = i - 1
    OBVIOUS
  <1>6. InsertAt(s, p, e) = left \o after
    BY DEF InsertAt, left, before, after
  <1> QED
    BY <1>2, <1>3, <1>4, <1>5, <1>6

LEMMA RecordedIsSound ==
  ASSUME NEW e \in Event, events \in Seq(Event),
         IsNewestFirst(events), HasUniqueIds(events)
  PROVE  /\ Recorded(e) \in Seq(Event)
         /\ IsNewestFirst(Recorded(e)) /\ HasUniqueIds(Recorded(e))
         /\ ToSet(events) \subseteq ToSet(Recorded(e))
         /\ ToSet(Recorded(e)) \subseteq ToSet(events) \cup {e}
  <1> DEFINE p == Position(e.ts)
             list == InsertAt(events, p, e)
  <1>1. CASE e.id \in IdsOf(events)
    BY <1>1 DEF Recorded
  <1>2. CASE e.id \notin IdsOf(events)
    <2>1. e.ts \in Nat /\ \A i \in 1..Len(events) : events[i].ts \in Nat
      <3>1. \A i \in 1..Len(events) : events[i] \in Event
        OBVIOUS
      <3> QED
        BY <3>1, BoundsAreNatural DEF Event, Times
    <2>2. /\ p \in 1..(Len(events) + 1)
          /\ \A i \in 1..Len(events) : i < p => events[i].ts > e.ts
          /\ \A i \in 1..Len(events) : i >= p => events[i].ts <= e.ts
      BY <2>1, PositionSplits DEF NewestFirst, IsNewestFirst
    <2> HIDE DEF p
    <2>3. /\ list \in Seq(Event) /\ Len(list) = Len(events) + 1
          /\ \A i \in 1..(Len(events) + 1) :
               list[i] = IF i < p THEN events[i] ELSE IF i = p THEN e ELSE events[i - 1]
      BY <2>2, Insertion
    <2>4. Recorded(e) = list
      BY <1>2 DEF Recorded, p
    <2>5. \A i \in 1..Len(events) : events[i].id # e.id
      BY <1>2 DEF IdsOf, ToSet
    <2> HIDE DEF list
    <2> DEFINE at(i) == IF i < p THEN i ELSE i - 1
    <2>6. \A i \in 1..(Len(events) + 1) :
            i # p => at(i) \in 1..Len(events) /\ list[i] = events[at(i)]
      BY <2>2, <2>3
    <2>7. \A i, j \in 1..(Len(events) + 1) : i < j /\ i # p /\ j # p => at(i) < at(j)
      BY <2>2
    <2>8. list[p] = e /\ p \in 1..(Len(events) + 1)
      BY <2>2, <2>3
    <2>9. \A i \in 1..(Len(events) + 1) : (i < p => at(i) < p) /\ (i > p => at(i) >= p)
      BY <2>2
    <2>10. \A i \in 1..Len(events) : \E j \in 1..(Len(events) + 1) : list[j] = events[i]
      <3> SUFFICES ASSUME NEW i \in 1..Len(events)
                   PROVE  \E j \in 1..(Len(events) + 1) : list[j] = events[i]
        OBVIOUS
      <3>1. CASE i < p
        BY <2>3, <3>1
      <3>2. CASE i >= p
        <4>1. i + 1 \in 1..(Len(events) + 1) /\ ~(i + 1 < p) /\ i + 1 # p /\ (i + 1) - 1 = i
          BY <2>2, <3>2
        <4>2. list[i + 1] = events[i]
          BY <2>3, <4>1
        <4> QED
          BY <4>1, <4>2
      <3> QED
        BY <2>2, <3>1, <3>2
    <2> HIDE DEF at
    <2>11. IsNewestFirst(list)
      <3> SUFFICES ASSUME NEW i \in 1..(Len(events) + 1), NEW j \in 1..(Len(events) + 1), i < j
                   PROVE  list[i].ts >= list[j].ts
        BY <2>3 DEF IsNewestFirst
      <3>1. CASE i # p /\ j # p
        BY <2>6, <2>7, <3>1 DEF IsNewestFirst
      <3>2. CASE j = p
        BY <2>1, <2>2, <2>6, <2>8, <2>9, <3>2
      <3>3. CASE i = p
        BY <2>1, <2>2, <2>6, <2>8, <2>9, <3>3
      <3> QED
        BY <3>1, <3>2, <3>3
    <2>12. HasUniqueIds(list)
      <3> SUFFICES ASSUME NEW i \in 1..(Len(events) + 1), NEW j \in 1..(Len(events) + 1),
                          i < j, list[i].id = list[j].id
                   PROVE  FALSE
        <4>1. \A i, j \in 1..(Len(events) + 1) : i < j \/ i = j \/ j < i
          OBVIOUS
        <4> QED
          BY <2>3, <4>1 DEF HasUniqueIds
      <3>1. CASE i # p /\ j # p
        <4>1. at(i) = at(j)
          BY <2>6, <3>1 DEF HasUniqueIds
        <4>2. at(i) < at(j) /\ at(i) \in 1..Len(events)
          BY <2>6, <2>7, <3>1
        <4> QED
          BY <4>1, <4>2
      <3>2. CASE i = p \/ j = p
        BY <2>5, <2>6, <2>8, <3>2
      <3> QED
        BY <3>1, <3>2
    <2>13. ToSet(events) \subseteq ToSet(list)
      BY <2>3, <2>10 DEF ToSet
    <2>14. ToSet(list) \subseteq ToSet(events) \cup {e}
      BY <2>3, <2>6, <2>8 DEF ToSet
    <2> QED
      BY <2>3, <2>4, <2>11, <2>12, <2>13, <2>14
  <1> QED
    BY <1>1, <1>2

LEMMA IntervalSize ==
  ASSUME NEW n \in Nat
  PROVE  IsFiniteSet(1..n) /\ Cardinality(1..n) = n
  <1>1. 1 \in Int /\ n \in Int
    OBVIOUS
  <1> QED
    BY <1>1, FS_Interval

LEMMA SuffixSet ==
  ASSUME NEW T, NEW s \in Seq(T), NEW n \in 0..Len(s)
  PROVE  ToSet(SubSeq(s, n + 1, Len(s))) = {s[i] : i \in (n + 1)..Len(s)}
  <1> DEFINE rest == SubSeq(s, n + 1, Len(s))
  <1>1. /\ rest \in Seq(T) /\ Len(rest) = Len(s) - n
        /\ \A i \in 1..(Len(s) - n) : rest[i] = s[n + i]
    OBVIOUS
  <1>2. DOMAIN rest = 1..(Len(s) - n)
    BY <1>1
  <1> HIDE DEF rest
  <1>3. ASSUME NEW i \in 1..(Len(s) - n)
        PROVE  rest[i] \in {s[k] : k \in (n + 1)..Len(s)}
    <2>1. n + i \in (n + 1)..Len(s)
      OBVIOUS
    <2> QED
      BY <1>1, <2>1
  <1>4. ASSUME NEW i \in (n + 1)..Len(s)
        PROVE  s[i] \in {rest[k] : k \in 1..(Len(s) - n)}
    <2>1. i - n \in 1..(Len(s) - n) /\ n + (i - n) = i
      OBVIOUS
    <2> QED
      BY <1>1, <2>1
  <1>5. ToSet(rest) = {rest[k] : k \in 1..(Len(s) - n)}
    BY <1>2 DEF ToSet
  <1>6. ToSet(rest) = {s[i] : i \in (n + 1)..Len(s)}
    BY <1>3, <1>4, <1>5
  <1> QED
    BY <1>6 DEF rest

-----------------------------------------------------------------------------
(* Retention *)

LEMMA InOrderAlready ==
  ASSUME NEW s \in Seq(Event), IsNewestFirst(s)
  PROVE  NewestFirstOrder(s) = s
  <1>1. \A i \in DOMAIN s : s[i].ts \in Nat
    <2>1. \A i \in 1..Len(s) : s[i] \in Event
      OBVIOUS
    <2> QED
      BY <2>1, BoundsAreNatural DEF Event, Times
  <1>2. ASSUME NEW i \in DOMAIN s PROVE Rank(s, i) = i
    <2>1. {j \in DOMAIN s : ~Before(s, i, j)} = 1..i
      <3>1. i \in 1..Len(s) /\ DOMAIN s = 1..Len(s)
        OBVIOUS
      <3>2. ASSUME NEW j \in 1..Len(s), j <= i PROVE ~Before(s, i, j)
        BY <1>1, <3>1, <3>2 DEF Before, IsNewestFirst
      <3>3. ASSUME NEW j \in 1..Len(s), j > i PROVE Before(s, i, j)
        BY <1>1, <3>1, <3>3 DEF Before, IsNewestFirst
      <3> QED
        BY <3>1, <3>2, <3>3
    <2>2. Cardinality(1..i) = i
      <3>1. 1 \in Int /\ i \in Int /\ ~(1 > i) /\ i - 1 + 1 = i
        OBVIOUS
      <3> QED
        BY <3>1, FS_Interval
    <2> QED
      BY <2>1, <2>2 DEF Rank
  <1> DEFINE place(n) == CHOOSE i \in DOMAIN s : Rank(s, i) = n
  <1>3. \A n \in DOMAIN s : place(n) = n
    BY <1>2
  <1>4. s = [n \in DOMAIN s |-> s[n]]
    <2>1. s \in [1..Len(s) -> Event] /\ DOMAIN s = 1..Len(s)
      OBVIOUS
    <2> QED
      BY <2>1
  <1>5. NewestFirstOrder(s) = [n \in DOMAIN s |-> s[place(n)]]
    BY DEF NewestFirstOrder
  <1> HIDE DEF place
  <1> QED
    BY <1>3, <1>4, <1>5

\* A list in order is cut in two: no event is kept that is dropped, and the
\* more time has passed the more is dropped.
LEMMA RetentionCuts ==
  ASSUME NEW s \in Seq(Event), IsNewestFirst(s), HasUniqueIds(s), now \in Nat
  PROVE  /\ Kept(s) \in Seq(Event) /\ Dropped(s) \in Seq(Event)
         /\ IsNewestFirst(Kept(s)) /\ HasUniqueIds(Kept(s))
         /\ ToSet(s) = ToSet(Kept(s)) \cup ToSet(Dropped(s))
         /\ IdsOf(Kept(s)) \cap IdsOf(Dropped(s)) = {}
  <1> DEFINE n == KeptCount(s)
             recent == {i \in DOMAIN s : s[i].ts + Retention >= now}
  <1>1. n \in 0..Len(s)
    <2>1. DOMAIN s = 1..Len(s) /\ IsFiniteSet(1..Len(s)) /\ Cardinality(1..Len(s)) = Len(s)
      <3>1. 1 \in Int /\ Len(s) \in Nat /\ Len(s) \in Int
        OBVIOUS
      <3> QED
        BY <3>1, FS_Interval
    <2>2. recent \in SUBSET (1..Len(s))
      BY <2>1
    <2>3. IsFiniteSet(recent) /\ Cardinality(recent) <= Len(s)
      BY <2>1, <2>2, FS_Subset
    <2>4. Cardinality(recent) \in Nat
      BY <2>3, FS_CardinalityType
    <2> QED
      BY <2>3, <2>4, BoundsAreNatural DEF KeptCount
  <1>2. Kept(s) = SubSeq(s, 1, n) /\ Dropped(s) = SubSeq(s, n + 1, Len(s))
    BY InOrderAlready DEF Kept, Dropped
  <1> HIDE DEF n
  <1>3. /\ Kept(s) \in Seq(Event) /\ Len(Kept(s)) = n
        /\ \A i \in 1..n : Kept(s)[i] = s[i]
    BY <1>1, <1>2
  <1>4. /\ Dropped(s) \in Seq(Event) /\ Len(Dropped(s)) = Len(s) - n
        /\ \A i \in 1..(Len(s) - n) : Dropped(s)[i] = s[n + i]
    BY <1>1, <1>2
  <1>5. IsNewestFirst(Kept(s)) /\ HasUniqueIds(Kept(s))
    BY <1>1, <1>3 DEF IsNewestFirst, HasUniqueIds
  <1>6. ToSet(Kept(s)) = {s[i] : i \in 1..n}
    BY <1>1, <1>3 DEF ToSet
  <1>7. ToSet(Dropped(s)) = {s[i] : i \in (n + 1)..Len(s)}
    BY <1>1, <1>2, SuffixSet
  <1>8. ToSet(s) = {s[i] : i \in 1..Len(s)}
    BY DEF ToSet
  <1>9. ToSet(s) = ToSet(Kept(s)) \cup ToSet(Dropped(s))
    <2>1. \A i : i \in 1..Len(s) <=> i \in 1..n \/ i \in (n + 1)..Len(s)
      BY <1>1
    <2> QED
      BY <1>6, <1>7, <1>8, <2>1
  <1>10. IdsOf(Kept(s)) \cap IdsOf(Dropped(s)) = {}
    <2> SUFFICES ASSUME NEW i \in 1..n, NEW j \in (n + 1)..Len(s), s[i].id = s[j].id
                 PROVE  FALSE
      BY <1>6, <1>7 DEF IdsOf
    <2>1. i \in DOMAIN s /\ j \in DOMAIN s /\ i # j
      BY <1>1
    <2> QED
      BY <2>1 DEF HasUniqueIds
  <1> QED
    BY <1>3, <1>4, <1>5, <1>9, <1>10

LEMMA TimeDropsMore ==
  ASSUME NEW s \in Seq(Event), IsNewestFirst(s), now \in Nat, now' = now + 1
  PROVE  ToSet(Dropped(s)) \subseteq ToSet(Dropped(s)')
  <1> DEFINE recent == {i \in DOMAIN s : s[i].ts + Retention >= now}
             later == {i \in DOMAIN s : s[i].ts + Retention >= now + 1}
             n == IF Cardinality(recent) < MaxEvents THEN Cardinality(recent) ELSE MaxEvents
             m == IF Cardinality(later) < MaxEvents THEN Cardinality(later) ELSE MaxEvents
  <1>1. \A i \in DOMAIN s : s[i].ts \in Nat
    <2>1. \A i \in 1..Len(s) : s[i] \in Event
      OBVIOUS
    <2> QED
      BY <2>1, BoundsAreNatural DEF Event, Times
  <1>2. DOMAIN s = 1..Len(s) /\ IsFiniteSet(1..Len(s)) /\ Cardinality(1..Len(s)) = Len(s)
    <2>1. Len(s) \in Nat /\ DOMAIN s = 1..Len(s)
      OBVIOUS
    <2> QED
      BY <2>1, IntervalSize
  <1>3. later \in SUBSET recent /\ recent \in SUBSET (1..Len(s))
    BY <1>1, <1>2, BoundsAreNatural
  <1>4. IsFiniteSet(recent) /\ Cardinality(recent) <= Len(s)
    BY <1>2, <1>3, FS_Subset
  <1>5. IsFiniteSet(later) /\ Cardinality(later) <= Cardinality(recent)
    BY <1>3, <1>4, FS_Subset
  <1>6. Cardinality(recent) \in Nat /\ Cardinality(later) \in Nat
    BY <1>4, <1>5, FS_CardinalityType
  <1>7. n \in 0..Len(s) /\ m \in 0..n
    BY <1>4, <1>5, <1>6, BoundsAreNatural
  <1>8. KeptCount(s) = n /\ KeptCount(s)' = m
    BY DEF KeptCount
  <1> HIDE DEF n, m
  <1>9. NewestFirstOrder(s) = s
    BY InOrderAlready
  <1>10. Dropped(s) = SubSeq(s, n + 1, Len(s)) /\ Dropped(s)' = SubSeq(s, m + 1, Len(s))
    BY <1>8, <1>9 DEF Dropped
  <1>11. m \in 0..Len(s)
    BY <1>7
  <1>12. /\ ToSet(Dropped(s)) = {s[i] : i \in (n + 1)..Len(s)}
         /\ ToSet(Dropped(s)') = {s[i] : i \in (m + 1)..Len(s)}
    BY <1>7, <1>10, <1>11, SuffixSet
  <1>13. (n + 1)..Len(s) \subseteq (m + 1)..Len(s)
    BY <1>7
  <1> QED
    BY <1>12, <1>13

-----------------------------------------------------------------------------
(* The lock *)

LEMMA RoomForAll ==
  ASSUME NEW q \in Seq(Tasks), NoRepeats(q)
  PROVE  Len(q) <= Cardinality(Tasks)
  <1>1. IsFiniteSet(Tasks)
    BY TasksAreFinite, FS_AddElement DEF Tasks
  <1>2. q \in [1..Len(q) -> Tasks] /\ DOMAIN q = 1..Len(q) /\ Len(q) \in Nat
    OBVIOUS
  <1>3. q \in Injection(1..Len(q), Tasks)
    BY <1>2, Zenon DEF Injection, IsInjective, NoRepeats
  <1>4. Cardinality(1..Len(q)) <= Cardinality(Tasks)
    BY <1>1, <1>3, FS_Injection
  <1> QED
    BY <1>2, <1>4, IntervalSize

LEMMA Queueing ==
  ASSUME NEW q \in Seq(Tasks), NoRepeats(q), NEW t \in Tasks, t \notin ToSet(q)
  PROVE  /\ Append(q, t) \in Seq(Tasks) /\ NoRepeats(Append(q, t))
         /\ ToSet(Append(q, t)) \subseteq ToSet(q) \cup {t}
  <1> DEFINE r == Append(q, t)
  <1>1. /\ r \in Seq(Tasks) /\ Len(r) = Len(q) + 1 /\ Len(q) \in Nat
        /\ \A i \in 1..Len(q) : r[i] = q[i]
        /\ r[Len(q) + 1] = t
    OBVIOUS
  <1>2. DOMAIN r = 1..(Len(q) + 1) /\ DOMAIN q = 1..Len(q)
    BY <1>1
  <1> HIDE DEF r
  <1>3. \A i \in 1..(Len(q) + 1) : i \in 1..Len(q) \/ i = Len(q) + 1
    BY <1>1
  <1>4. \A i \in 1..Len(q) : q[i] # t
    BY <1>2 DEF ToSet
  <1>5. NoRepeats(r)
    BY <1>1, <1>2, <1>3, <1>4 DEF NoRepeats
  <1>6. ToSet(r) \subseteq ToSet(q) \cup {t}
    BY <1>1, <1>2, <1>3 DEF ToSet
  <1> QED
    BY <1>1, <1>5, <1>6 DEF r

LEMMA Leaving ==
  ASSUME NEW q \in Seq(Tasks), NoRepeats(q), q # <<>>
  PROVE  /\ Tail(q) \in Seq(Tasks) /\ NoRepeats(Tail(q))
         /\ Head(q) \in ToSet(q)
         /\ ToSet(Tail(q)) \subseteq ToSet(q) \ {Head(q)}
  <1> DEFINE r == Tail(q)
  <1>1. /\ r \in Seq(Tasks) /\ Len(r) = Len(q) - 1 /\ Len(q) \in Nat \ {0}
        /\ \A i \in 1..(Len(q) - 1) : r[i] = q[i + 1]
        /\ Head(q) = q[1]
    OBVIOUS
  <1>2. DOMAIN r = 1..(Len(q) - 1) /\ DOMAIN q = 1..Len(q)
    BY <1>1
  <1> HIDE DEF r
  <1>3. \A i \in 1..(Len(q) - 1) : i + 1 \in 1..Len(q) /\ i + 1 # 1
    BY <1>1
  <1>4. 1 \in 1..Len(q)
    BY <1>1
  <1>5. NoRepeats(r)
    BY <1>1, <1>2, <1>3 DEF NoRepeats
  <1>6. ToSet(r) \subseteq ToSet(q) \ {Head(q)} /\ Head(q) \in ToSet(q)
    BY <1>1, <1>2, <1>3, <1>4 DEF NoRepeats, ToSet
  <1> QED
    BY <1>1, <1>5, <1>6 DEF r

LEMMA Removal ==
  ASSUME NEW q \in Seq(Tasks), NoRepeats(q), NEW t
  PROVE  /\ RemoveFirst(q, t) \in Seq(Tasks) /\ NoRepeats(RemoveFirst(q, t))
         /\ ToSet(RemoveFirst(q, t)) \subseteq ToSet(q) \ {t}
  <1> DEFINE I == {i \in 1..Len(q) : q[i] = t}
             k == Min(I)
             before == SubSeq(q, 1, k - 1)
             after == SubSeq(q, k + 1, Len(q))
  <1>1. CASE I = {}
    <2>1. \A i \in 1..Len(q) : q[i] # t
      BY <1>1
    <2>2. RemoveFirst(q, t) = q
      BY <2>1 DEF RemoveFirst
    <2>3. DOMAIN q = 1..Len(q)
      OBVIOUS
    <2> QED
      BY <2>1, <2>2, <2>3 DEF ToSet
  <1>2. CASE I # {}
    <2>1. RemoveFirst(q, t) = before \o after
      BY <1>2 DEF RemoveFirst, RemoveAt, SelectInSeq
    <2>2. k \in 1..Len(q) /\ q[k] = t
      <3>1. I \in SUBSET Nat
        OBVIOUS
      <3> QED
        BY <1>2, <3>1, MinIsLeast
    <2> HIDE DEF k
    <2>3. /\ before \in Seq(Tasks) /\ Len(before) = k - 1
          /\ \A i \in 1..(k - 1) : before[i] = q[i]
      BY <2>2
    <2>4. /\ after \in Seq(Tasks) /\ Len(after) = Len(q) - k
          /\ \A i \in 1..(Len(q) - k) : after[i] = q[k + i]
      BY <2>2
    <2> HIDE DEF before, after
    <2> DEFINE r == before \o after
               at(i) == IF i < k THEN i ELSE i + 1
    <2>5. /\ r \in Seq(Tasks) /\ Len(r) = Len(q) - 1
          /\ \A i \in 1..(Len(q) - 1) :
               r[i] = IF i < k THEN before[i] ELSE after[i - (k - 1)]
      <3>1. (k - 1) + (Len(q) - k) = Len(q) - 1
        BY <2>2
      <3>2. r \in Seq(Tasks) /\ Len(r) = Len(q) - 1
        BY <2>2, <2>3, <2>4, <3>1
      <3>3. \A i \in 1..(Len(q) - 1) : r[i] = IF i <= k - 1 THEN before[i] ELSE after[i - (k - 1)]
        BY <2>2, <2>3, <2>4, <3>1
      <3>4. \A i \in 1..(Len(q) - 1) : i <= k - 1 <=> i < k
        BY <2>2
      <3> QED
        BY <3>2, <3>3, <3>4
    <2>6. DOMAIN r = 1..(Len(q) - 1) /\ DOMAIN q = 1..Len(q)
      BY <2>5
    <2> HIDE DEF r
    <2>7. \A i \in 1..(Len(q) - 1) :
            i >= k => i - (k - 1) \in 1..(Len(q) - k) /\ k + (i - (k - 1)) = i + 1
      BY <2>2
    <2>8. \A i \in 1..(Len(q) - 1) : r[i] = q[at(i)] /\ at(i) \in 1..Len(q) /\ at(i) # k
      BY <2>2, <2>3, <2>4, <2>5, <2>7
    <2>9. \A i, j \in 1..(Len(q) - 1) : at(i) = at(j) => i = j
      BY <2>2
    <2> HIDE DEF at
    <2>10. NoRepeats(r)
      BY <2>6, <2>8, <2>9 DEF NoRepeats
    <2>11. ToSet(r) \subseteq ToSet(q) \ {t}
      BY <2>2, <2>6, <2>8 DEF NoRepeats, ToSet
    <2> QED
      BY <2>1, <2>5, <2>10, <2>11 DEF r
  <1> QED
    BY <1>1, <1>2

-----------------------------------------------------------------------------
(* Set-up *)

LEMMA TheImageIsWanted ==
  ASSUME NEW t \in Tasks, TypeOK, op[t] # NoOp, op[t].todo # {}
  PROVE  op[t] \in Op /\ NextImage(t) \in op[t].todo /\ NextImage(t) \in FileKinds
  <1>1. op[t] \in Op
    BY DEF TypeOK
  <1>2. op[t].todo \subseteq FileKinds
    BY <1>1 DEF Op
  <1>3. NextImage(t) \in op[t].todo
    BY Zenon DEF NextImage
  <1> QED
    BY <1>1, <1>2, <1>3

\* What is loaded is what was saved, less what is dropped.
LEMMA LoadKeepsIInv ==
  ASSUME IInv, Load
  PROVE  IInv'
  <1>1. now \in Nat /\ now' = now /\ disk' = disk /\ files' = files /\ lock' = lock /\ op' = op
    BY BoundsAreNatural DEF IInv, TypeOK, Times, Load
  <1>2. /\ Kept(disk) \in Seq(Event) /\ Dropped(disk) \in Seq(Event)
        /\ IsNewestFirst(Kept(disk)) /\ HasUniqueIds(Kept(disk))
        /\ ToSet(disk) = ToSet(Kept(disk)) \cup ToSet(Dropped(disk))
        /\ IdsOf(Kept(disk)) \cap IdsOf(Dropped(disk)) = {}
    BY <1>1, RetentionCuts DEF IInv, TypeOK, ListsOK
  <1>3. Dropped(disk)' = Dropped(disk)
    BY <1>1 DEF Dropped, KeptCount, NewestFirstOrder, Rank, Before
  <1>4. \A e \in ToSet(disk) : HasImages(e) \/ e.id \in IdsOf(Dropped(disk))
    BY DEF IInv, SetUpOK, Load
  <1>5. lock = <<>>
    BY DEF IInv, SetUpOK, Load
  <1>6. TypeOK' /\ LockOK' /\ CloseOK'
    BY <1>1, <1>2 DEF IInv, TypeOK, LockOK, NoRepeats, CloseOK, Load
  <1>7. ListsOK'
    BY <1>1, <1>2 DEF IInv, ListsOK, IsNewestFirst, HasUniqueIds, Load
  <1>8. \A e : HasImages(e)' <=> HasImages(e)
    BY <1>1 DEF HasImages
  <1>9. CASE Dropped(disk) = <<>>
    <2>1. events' = disk /\ phase' = "running"
      BY <1>9 DEF Load
    <2>2. \A e \in ToSet(disk) : HasImages(e)
      <3>1. ToSet(Dropped(disk)) = {}
        BY <1>9 DEF ToSet
      <3>2. IdsOf(Dropped(disk)) = {}
        BY <3>1 DEF IdsOf
      <3> QED
        BY <1>4, <3>2
    <2>3. RunningOK'
      BY <1>1, <2>1, <2>2 DEF RunningOK, HasImages
    <2>4. SetUpOK' /\ PurgingOK'
      BY <2>1 DEF SetUpOK, PurgingOK
    <2> QED
      BY <1>6, <1>7, <2>3, <2>4 DEF IInv
  <1>10. CASE Dropped(disk) # <<>>
    <2>1. events' = Kept(disk) /\ phase' = "purging" /\ dropping' = Dropped(disk)
      BY <1>10 DEF Load
    <2>2. \A e \in ToSet(Kept(disk)) : HasImages(e)
      <3>1. \A e \in ToSet(Kept(disk)) : e \in ToSet(disk) /\ e.id \notin IdsOf(Dropped(disk))
        BY <1>2 DEF IdsOf
      <3> QED
        BY <1>4, <3>1
    <2>3. RunningOK'
      BY <2>1 DEF RunningOK
    <2>4. SetUpOK'
      BY <1>1, <1>3, <1>4, <1>5 DEF SetUpOK, HasImages
    <2>5. PurgingOK'
      BY <1>1, <1>2, <1>3, <2>1, <2>2 DEF PurgingOK, HasImages
    <2> QED
      BY <1>6, <1>7, <2>3, <2>4, <2>5 DEF IInv
  <1> QED
    BY <1>9, <1>10

\* The files that go are those of an event that was not kept.
LEMMA DeleteKeepsIInv ==
  ASSUME IInv, DeleteEventFiles
  PROVE  IInv'
  <1>1. /\ phase = "purging" /\ phase' = "purging" /\ dropping # <<>>
        /\ events' = events /\ disk' = disk /\ lock' = lock /\ op' = op /\ now' = now
        /\ dropping' = Tail(dropping)
        /\ files' = {f \in files :
                       ~(f[1] = Head(dropping).id /\ f[2] \in Head(dropping).files)}
    BY DEF DeleteEventFiles
  <1>2. dropping \in Seq(Event)
    BY DEF IInv, TypeOK
  <1>3. /\ Tail(dropping) \in Seq(Event) /\ Head(dropping) \in ToSet(dropping)
        /\ ToSet(Tail(dropping)) \subseteq ToSet(dropping)
    <2>1. /\ Tail(dropping) \in Seq(Event) /\ Len(Tail(dropping)) = Len(dropping) - 1
          /\ \A i \in 1..(Len(dropping) - 1) : Tail(dropping)[i] = dropping[i + 1]
          /\ Head(dropping) = dropping[1] /\ Len(dropping) \in Nat \ {0}
      BY <1>1, <1>2
    <2>2. DOMAIN Tail(dropping) = 1..(Len(dropping) - 1) /\ DOMAIN dropping = 1..Len(dropping)
      BY <1>2, <2>1
    <2>3. \A i \in 1..(Len(dropping) - 1) : i + 1 \in 1..Len(dropping)
      BY <2>1
    <2>4. 1 \in 1..Len(dropping)
      BY <2>1
    <2> QED
      BY <2>1, <2>2, <2>3, <2>4 DEF ToSet
  <1>4. Head(dropping).id \in IdsOf(dropping) /\ IdsOf(Tail(dropping)) \subseteq IdsOf(dropping)
    BY <1>3 DEF IdsOf
  <1>5. \A e : e.id # Head(dropping).id /\ HasImages(e) => HasImages(e)'
    BY <1>1 DEF HasImages
  <1>6. Dropped(disk)' = Dropped(disk)
    BY <1>1 DEF Dropped, KeptCount, NewestFirstOrder, Rank, Before
  <1>7. /\ lock = <<>>
        /\ \A e \in ToSet(disk) : HasImages(e) \/ e.id \in IdsOf(Dropped(disk))
    BY <1>1 DEF IInv, SetUpOK
  <1>8. /\ \A e \in ToSet(events) : HasImages(e)
        /\ IdsOf(events) \cap IdsOf(dropping) = {}
        /\ IdsOf(dropping) \subseteq IdsOf(Dropped(disk))
    BY <1>1 DEF IInv, PurgingOK
  <1>9. TypeOK' /\ LockOK' /\ CloseOK' /\ ListsOK' /\ RunningOK'
    BY <1>1, <1>3 DEF IInv, TypeOK, LockOK, NoRepeats, CloseOK, ListsOK, IsNewestFirst,
                      HasUniqueIds, RunningOK
  <1>10. SetUpOK'
    <2>1. \A e \in ToSet(disk) : HasImages(e)' \/ e.id \in IdsOf(Dropped(disk))
      BY <1>4, <1>5, <1>7, <1>8
    <2> QED
      BY <1>1, <1>6, <1>7, <2>1 DEF SetUpOK, HasImages
  <1>11. PurgingOK'
    <2>1. \A e \in ToSet(events) : e.id \in IdsOf(events)
      BY DEF IdsOf
    <2>2. \A e \in ToSet(events) : HasImages(e)'
      BY <1>4, <1>5, <1>8, <2>1
    <2>3. IdsOf(events)' = IdsOf(events) /\ IdsOf(dropping)' = IdsOf(Tail(dropping))
      BY <1>1
    <2>4. \A e \in ToSet(events') : HasImages(e)'
      BY <1>1, <2>2
    <2> QED
      BY <1>1, <1>4, <1>6, <1>8, <2>3, <2>4 DEF PurgingOK, HasImages
  <1> QED
    BY <1>9, <1>10, <1>11 DEF IInv

LEMMA PersistKeepsIInv ==
  ASSUME IInv, PersistRetention
  PROVE  IInv'
  <1>1. /\ phase = "purging" /\ phase' = "running" /\ disk' = events /\ events' = events
        /\ files' = files /\ lock' = lock /\ op' = op /\ dropping' = dropping /\ now' = now
    BY DEF PersistRetention
  <1>2. TypeOK' /\ ListsOK' /\ LockOK' /\ CloseOK'
    BY <1>1 DEF IInv, TypeOK, LockOK, NoRepeats, CloseOK, ListsOK, IsNewestFirst, HasUniqueIds
  <1>3. RunningOK' /\ SetUpOK' /\ PurgingOK'
    BY <1>1 DEF IInv, RunningOK, SetUpOK, PurgingOK, HasImages
  <1> QED
    BY <1>2, <1>3 DEF IInv

-----------------------------------------------------------------------------
(* Faults and time *)

LEMMA RestartKeepsIInv ==
  ASSUME IInv, Restart
  PROVE  IInv'
  <1>1. /\ phase' = "starting" /\ events' = <<>> /\ disk' = disk /\ files' = files
        /\ lock' = <<>> /\ op' = [t \in Tasks |-> NoOp] /\ dropping' = <<>> /\ now' = now
    BY DEF Restart
  <1>2. Cardinality(Tasks) \in Nat
    BY TasksAreFinite, FS_AddElement, FS_CardinalityType DEF Tasks
  <1>3. TypeOK'
    BY <1>1, <1>2 DEF IInv, TypeOK
  <1>4. ListsOK' /\ CloseOK'
    BY <1>1 DEF IInv, ListsOK, IsNewestFirst, HasUniqueIds, CloseOK
  <1>5. LockOK'
    BY <1>1 DEF LockOK, NoRepeats, ToSet
  <1>6. \A e \in ToSet(disk) : HasImages(e) \/ e.id \in IdsOf(Dropped(disk))
    BY DEF IInv, RunningOK, SetUpOK
  <1>7. Dropped(disk)' = Dropped(disk)
    BY <1>1 DEF Dropped, KeptCount, NewestFirstOrder, Rank, Before
  <1>8. SetUpOK'
    BY <1>1, <1>6, <1>7 DEF SetUpOK, HasImages
  <1>9. RunningOK' /\ PurgingOK'
    BY <1>1 DEF RunningOK, PurgingOK
  <1> QED
    BY <1>3, <1>4, <1>5, <1>8, <1>9 DEF IInv

LEMMA TickKeepsIInv ==
  ASSUME IInv, Tick
  PROVE  IInv'
  <1>1. /\ phase' = phase /\ events' = events /\ disk' = disk /\ files' = files
        /\ lock' = lock /\ op' = op /\ dropping' = dropping /\ now < MaxTime /\ now' = now + 1
    BY DEF Tick
  <1>2. now \in Nat /\ now' \in Times
    BY <1>1, BoundsAreNatural DEF IInv, TypeOK, Times
  <1>3. TypeOK' /\ ListsOK' /\ LockOK' /\ CloseOK' /\ RunningOK'
    BY <1>1, <1>2 DEF IInv, TypeOK, ListsOK, LockOK, NoRepeats, CloseOK, RunningOK,
                      IsNewestFirst, HasUniqueIds, HasImages
  <1>4. IdsOf(Dropped(disk)) \subseteq IdsOf(Dropped(disk)')
    <2>1. \A s \in Seq(Event) : IsNewestFirst(s) => ToSet(Dropped(s)) \subseteq ToSet(Dropped(s)')
      BY <1>1, <1>2, TimeDropsMore
    <2>2. ToSet(Dropped(disk)) \subseteq ToSet(Dropped(disk)')
      <3>1. disk' \in Seq(Event) /\ IsNewestFirst(disk')
        BY <1>1 DEF IInv, TypeOK, ListsOK
      <3> QED
        BY <1>1, <2>1, <3>1
    <2> QED
      BY <2>2 DEF IdsOf
  <1>5. SetUpOK'
    BY <1>1, <1>4 DEF IInv, SetUpOK, HasImages
  <1>6. PurgingOK'
    BY <1>1, <1>4 DEF IInv, PurgingOK, HasImages
  <1> QED
    BY <1>3, <1>5, <1>6 DEF IInv

-----------------------------------------------------------------------------
(* The tasks *)

\* The owner of the lock works on a store that is set up.
LEMMA OwnerWorks ==
  ASSUME IInv, NEW t \in Tasks, Owns(t)
  PROVE  /\ phase = "running" /\ op[t] \in Op
         /\ lock \in Seq(Tasks) /\ NoRepeats(lock) /\ lock # <<>> /\ Head(lock) = t
         /\ op[t].does = "close" => op[t].closeAs # "none"
  BY DEF IInv, TypeOK, LockOK, CloseOK, SetUpOK, Owns

\* What a task at work may do to the lists and the files: nothing is lost, and
\* a record names an image only when it is there.
LEMMA WorkKeepsLists ==
  ASSUME IInv, phase = "running", phase' = phase, dropping' = dropping, now' = now,
         events' \in Seq(Event), IsNewestFirst(events'), HasUniqueIds(events'),
         IdsOf(events) \subseteq IdsOf(events'),
         files \subseteq files', files' \subseteq Ids \X FileKinds,
         \A e \in ToSet(events') : HasImages(e)',
         disk' \in {disk, events'},
         lock' \in Seq(Tasks), op' \in [Tasks -> Op \cup {NoOp}], LockOK', CloseOK'
  PROVE  IInv'
  <1>1. Len(lock') <= Cardinality(Tasks)
    BY RoomForAll DEF LockOK
  <1>2. TypeOK'
    BY <1>1 DEF IInv, TypeOK
  <1>3. ListsOK'
    <2>1. CASE disk' = disk
      BY <2>1 DEF IInv, ListsOK, IsNewestFirst, HasUniqueIds
    <2>2. CASE disk' = events'
      BY <2>2 DEF ListsOK, IsNewestFirst, HasUniqueIds
    <2> QED
      BY <2>1, <2>2
  <1>4. RunningOK'
    <2>1. \A e \in ToSet(disk) : HasImages(e)'
      BY DEF IInv, RunningOK, HasImages
    <2>2. IdsOf(disk') \subseteq IdsOf(events')
      BY DEF IInv, RunningOK
    <2>3. \A e \in ToSet(disk') : HasImages(e)'
      BY <2>1
    <2> QED
      BY <2>2, <2>3 DEF RunningOK, HasImages
  <1>5. SetUpOK' /\ PurgingOK'
    BY DEF SetUpOK, PurgingOK
  <1> QED
    BY <1>2, <1>3, <1>4, <1>5 DEF IInv

LEMMA RequestKeepsIInv ==
  ASSUME IInv, NEW t \in Tasks, NEW o \in Op, o.does = "close" => o.closeAs # "none",
         Request(t, o)
  PROVE  IInv'
  <1>1. /\ phase = "running" /\ phase' = phase /\ op[t] = NoOp
        /\ op' = [op EXCEPT ![t] = o] /\ lock' = Append(lock, t)
        /\ events' = events /\ disk' = disk /\ files' = files /\ dropping' = dropping /\ now' = now
    BY DEF Request
  <1>2. /\ lock \in Seq(Tasks) /\ NoRepeats(lock) /\ t \notin ToSet(lock)
        /\ op \in [Tasks -> Op \cup {NoOp}]
    BY <1>1 DEF IInv, TypeOK, LockOK
  <1>3. /\ lock' \in Seq(Tasks) /\ NoRepeats(lock') /\ ToSet(lock') \subseteq ToSet(lock) \cup {t}
    BY <1>1, <1>2, Queueing
  <1>4. op' \in [Tasks -> Op \cup {NoOp}] /\ op'[t] = o /\ \A u \in Tasks : u # t => op'[u] = op[u]
    BY <1>1, <1>2
  <1>5. LockOK'
    <2>1. \A u \in ToSet(lock) : u \in Tasks /\ op[u] # NoOp
      BY <1>2 DEF IInv, LockOK, ToSet
    <2>2. \A u \in ToSet(lock') : op'[u] # NoOp
      BY <1>3, <1>4, <2>1, NoOpIsNoOp
    <2> QED
      BY <1>3, <2>2 DEF LockOK
  <1>6. CloseOK'
    BY <1>4 DEF IInv, CloseOK
  <1>7. /\ events \in Seq(Event) /\ IsNewestFirst(events) /\ HasUniqueIds(events)
        /\ files \subseteq Ids \X FileKinds
        /\ \A e \in ToSet(events) : HasImages(e)
    BY <1>1 DEF IInv, TypeOK, ListsOK, RunningOK
  <1>8. \A e \in ToSet(events') : HasImages(e)'
    BY <1>1, <1>7 DEF HasImages
  <1> QED
    BY <1>1, <1>3, <1>4, <1>5, <1>6, <1>7, <1>8, WorkKeepsLists

\* A list that differs in types and images only is as well ordered.
LEMMA SameCalls ==
  ASSUME NEW s \in Seq(Event), NEW r \in Seq(Event), Len(r) = Len(s),
         \A i \in 1..Len(s) : r[i].id = s[i].id /\ r[i].ts = s[i].ts
  PROVE  /\ IsNewestFirst(s) => IsNewestFirst(r)
         /\ HasUniqueIds(s) => HasUniqueIds(r)
         /\ IdsOf(r) = IdsOf(s)
  <1>1. DOMAIN s = 1..Len(s) /\ DOMAIN r = 1..Len(s)
    OBVIOUS
  <1>2. (IsNewestFirst(s) => IsNewestFirst(r)) /\ (HasUniqueIds(s) => HasUniqueIds(r))
    BY <1>1 DEF IsNewestFirst, HasUniqueIds
  <1>3. IdsOf(r) = IdsOf(s)
    <2>1. \A i \in 1..Len(s) : r[i].id \in IdsOf(s) /\ s[i].id \in IdsOf(r)
      <3>1. \A i \in 1..Len(s) : r[i] \in ToSet(r) /\ s[i] \in ToSet(s)
        BY <1>1 DEF ToSet
      <3> QED
        BY <3>1 DEF IdsOf
    <2> QED
      BY <1>1, <2>1 DEF IdsOf, ToSet
  <1> QED
    BY <1>2, <1>3

LEMMA EnterRecordKeepsIInv ==
  ASSUME IInv, NEW t \in Tasks, EnterRecord(t)
  PROVE  IInv'
  <1> DEFINE o == op[t]
             new == [id |-> o.id, ts |-> o.ts, type |-> "incoming_call", files |-> {}]
             e == Recorded(new)[SelectInSeq(Recorded(new), LAMBDA x : x.id = o.id)]
             wanted == {k \in o.todo : k \notin e.files /\ (k = "snapshot" => ~HasSnapshot(e))}
  <1>1. /\ phase = "running" /\ o \in Op /\ o.does = "record" /\ o.at = "waiting" /\ o # NoOp
    BY OwnerWorks, NoOpIsNoOp DEF EnterRecord
  <1>2. /\ events' = Recorded(new)
        /\ op' = [op EXCEPT ![t] = [o EXCEPT !.at = "locked", !.todo = wanted]]
        /\ disk' = disk /\ files' = files /\ lock' = lock /\ phase' = phase
        /\ dropping' = dropping /\ now' = now
    <2>1. op \in [Tasks -> Op \cup {NoOp}]
      BY DEF IInv, TypeOK
    <2> QED
      BY <1>1, <2>1 DEF EnterRecord, Op
  <1> HIDE DEF e
  <1>3. new \in Event
    BY <1>1 DEF Op, Event, EventTypes
  <1>4. /\ events' \in Seq(Event) /\ IsNewestFirst(events') /\ HasUniqueIds(events')
        /\ ToSet(events) \subseteq ToSet(events')
        /\ ToSet(events') \subseteq ToSet(events) \cup {new}
    <2> HIDE DEF new
    <2> QED
      BY <1>2, <1>3, RecordedIsSound DEF IInv, TypeOK, ListsOK
  <1>5. \A x \in ToSet(events') : HasImages(x)'
    <2>1. new.files = {}
      OBVIOUS
    <2>2. \A x \in ToSet(events) : HasImages(x)'
      BY <1>1, <1>2 DEF IInv, RunningOK, HasImages
    <2> HIDE DEF new
    <2> QED
      BY <1>4, <2>1, <2>2 DEF HasImages
  <1>6. IdsOf(events) \subseteq IdsOf(events')
    BY <1>4 DEF IdsOf
  <1> DEFINE o2 == [o EXCEPT !.at = "locked", !.todo = wanted]
  <1>7. o2 \in Op /\ o2 # NoOp /\ o2.does = "record"
    BY <1>1, NoOpIsNoOp DEF Op
  <1> HIDE DEF o2, wanted, new
  <1>8. op' = [op EXCEPT ![t] = o2] /\ op \in [Tasks -> Op \cup {NoOp}]
    BY <1>2 DEF o2, IInv, TypeOK
  <1>9. op' \in [Tasks -> Op \cup {NoOp}] /\ op'[t] = o2 /\ \A u \in Tasks : u # t => op'[u] = op[u]
    BY <1>7, <1>8
  <1>10. LockOK' /\ CloseOK'
    <2>1. lock \in Seq(Tasks) /\ NoRepeats(lock) /\ \A u \in ToSet(lock) : u \in Tasks /\ op[u] # NoOp
      BY DEF IInv, TypeOK, LockOK, ToSet
    <2>2. LockOK'
      BY <1>2, <1>7, <1>9, <2>1 DEF LockOK
    <2>3. CloseOK'
      BY <1>7, <1>9 DEF IInv, CloseOK
    <2> QED
      BY <2>2, <2>3
  <1>11. lock' \in Seq(Tasks) /\ files' \subseteq Ids \X FileKinds
    BY <1>2 DEF IInv, TypeOK
  <1> QED
    BY <1>1, <1>2, <1>4, <1>5, <1>6, <1>9, <1>10, <1>11, WorkKeepsLists

\* A record whose images are stored already has one more, or is closed.
LEMMA UpdateIsSound ==
  ASSUME IInv, NEW i \in DOMAIN events, NEW r \in Event,
         r.id = events[i].id, r.ts = events[i].ts
  PROVE  /\ [events EXCEPT ![i] = r] \in Seq(Event)
         /\ IsNewestFirst([events EXCEPT ![i] = r]) /\ HasUniqueIds([events EXCEPT ![i] = r])
         /\ IdsOf([events EXCEPT ![i] = r]) = IdsOf(events)
         /\ ToSet([events EXCEPT ![i] = r]) \subseteq ToSet(events) \cup {r}
  <1> DEFINE s == [events EXCEPT ![i] = r]
  <1>1. events \in Seq(Event) /\ DOMAIN events = 1..Len(events) /\ Len(events) \in Nat
    BY DEF IInv, TypeOK
  <1>2. s \in Seq(Event) /\ Len(s) = Len(events) /\ DOMAIN s = DOMAIN events
    BY <1>1
  <1>3. \A j \in 1..Len(events) : s[j] = IF j = i THEN r ELSE events[j]
    BY <1>1
  <1> HIDE DEF s
  <1>4. \A j \in 1..Len(events) : s[j].id = events[j].id /\ s[j].ts = events[j].ts
    BY <1>3
  <1>5. IsNewestFirst(s) /\ HasUniqueIds(s) /\ IdsOf(s) = IdsOf(events)
    BY <1>1, <1>2, <1>4, SameCalls DEF IInv, ListsOK
  <1>6. ToSet(s) \subseteq ToSet(events) \cup {r}
    BY <1>1, <1>2, <1>3 DEF ToSet
  <1> QED
    BY <1>2, <1>5, <1>6 DEF s

\* The owner goes on with its operation.
LEMMA OwnerGoesOn ==
  ASSUME IInv, NEW t \in Tasks, NEW o \in Op, o.does = "close" => o.closeAs # "none",
         op' = [op EXCEPT ![t] = o], lock' = lock
  PROVE  lock' \in Seq(Tasks) /\ op' \in [Tasks -> Op \cup {NoOp}] /\ LockOK' /\ CloseOK'
  <1>1. op \in [Tasks -> Op \cup {NoOp}] /\ lock \in Seq(Tasks) /\ NoRepeats(lock)
    BY DEF IInv, TypeOK, LockOK
  <1>2. \A u \in ToSet(lock) : u \in Tasks /\ op[u] # NoOp
    BY <1>1 DEF IInv, LockOK, ToSet
  <1>3. op' \in [Tasks -> Op \cup {NoOp}] /\ op'[t] = o /\ \A u \in Tasks : u # t => op'[u] = op[u]
    BY <1>1
  <1>4. LockOK'
    BY <1>1, <1>2, <1>3, NoOpIsNoOp DEF LockOK
  <1>5. CloseOK'
    BY <1>3 DEF IInv, CloseOK
  <1> QED
    BY <1>1, <1>3, <1>4, <1>5

\* A task that is done, or cancelled, leaves the lock.
LEMMA TaskLeaves ==
  ASSUME IInv, NEW t \in Tasks, op' = [op EXCEPT ![t] = NoOp],
         lock' \in Seq(Tasks), NoRepeats(lock'), ToSet(lock') \subseteq ToSet(lock) \ {t}
  PROVE  op' \in [Tasks -> Op \cup {NoOp}] /\ LockOK' /\ CloseOK'
  <1>1. op \in [Tasks -> Op \cup {NoOp}] /\ lock \in Seq(Tasks)
    BY DEF IInv, TypeOK
  <1>2. \A u \in ToSet(lock) : u \in Tasks /\ op[u] # NoOp
    BY <1>1 DEF IInv, LockOK, ToSet
  <1>3. op' \in [Tasks -> Op \cup {NoOp}] /\ op'[t] = NoOp /\ \A u \in Tasks : u # t => op'[u] = op[u]
    BY <1>1
  <1>4. LockOK'
    BY <1>2, <1>3 DEF LockOK
  <1>5. CloseOK'
    BY <1>3 DEF IInv, CloseOK
  <1> QED
    BY <1>3, <1>4, <1>5

LEMMA UnchangedLists ==
  ASSUME IInv, phase = "running", events' = events, files \subseteq files'
  PROVE  /\ events' \in Seq(Event) /\ IsNewestFirst(events') /\ HasUniqueIds(events')
         /\ IdsOf(events) \subseteq IdsOf(events')
         /\ \A e \in ToSet(events') : HasImages(e)'
  BY DEF IInv, TypeOK, ListsOK, RunningOK, HasImages

LEMMA EnterCloseKeepsIInv ==
  ASSUME IInv, NEW t \in Tasks, EnterClose(t)
  PROVE  IInv'
  <1> DEFINE o == op[t]
             i == IndexOf(o.id)
  <1>1. /\ phase = "running" /\ o \in Op /\ o.does = "close" /\ o.closeAs # "none"
        /\ lock \in Seq(Tasks) /\ NoRepeats(lock) /\ lock # <<>> /\ Head(lock) = t
    BY OwnerWorks DEF EnterClose
  <1>2. /\ disk' = disk /\ files' = files /\ phase' = phase /\ dropping' = dropping /\ now' = now
        /\ files \subseteq Ids \X FileKinds /\ events \in Seq(Event) /\ op \in [Tasks -> Op \cup {NoOp}]
    BY DEF EnterClose, IInv, TypeOK
  <1>3. i \in 0..Len(events) /\ (i # 0 => events[i].id = o.id)
    BY <1>2, IndexOfFinds
  <1> HIDE DEF i
  <1>4. CASE i = 0
    <2>1. op' = [op EXCEPT ![t] = NoOp] /\ lock' = Tail(lock) /\ events' = events
      BY <1>4 DEF EnterClose, i
    <2>2. lock' \in Seq(Tasks) /\ NoRepeats(lock') /\ ToSet(lock') \subseteq ToSet(lock) \ {t}
      BY <1>1, <2>1, Leaving
    <2>3. op' \in [Tasks -> Op \cup {NoOp}] /\ LockOK' /\ CloseOK'
      BY <2>1, <2>2, TaskLeaves
    <2> QED
      BY <1>1, <1>2, <2>1, <2>2, <2>3, UnchangedLists, WorkKeepsLists
  <1>5. CASE i # 0
    <2> DEFINE r == [events[i] EXCEPT !.type = o.closeAs]
               todo == IF HasSnapshot(events[i]) THEN {} ELSE {"placeholder"}
               o2 == [o EXCEPT !.at = "locked", !.todo = todo]
    <2>1. i \in DOMAIN events /\ events[i] \in Event
      BY <1>2, <1>3, <1>5
    <2>2. events' = [events EXCEPT ![i] = r] /\ op' = [op EXCEPT ![t] = o2] /\ lock' = lock
      BY <1>1, <1>2, <1>5, <2>1 DEF EnterClose, i, Op, Event
    <2>3. r \in Event /\ r.id = events[i].id /\ r.ts = events[i].ts /\ r.files = events[i].files
      BY <1>1, <2>1 DEF Event, Op, EventTypes
    <2>4. o2 \in Op /\ o2.does = "close" /\ o2.closeAs # "none"
      BY <1>1 DEF Op, FileKinds
    <2> HIDE DEF r, o2
    <2>5. /\ events' \in Seq(Event) /\ IsNewestFirst(events') /\ HasUniqueIds(events')
          /\ IdsOf(events') = IdsOf(events)
          /\ ToSet(events') \subseteq ToSet(events) \cup {r}
      BY <2>1, <2>2, <2>3, UpdateIsSound
    <2>6. \A e \in ToSet(events') : HasImages(e)'
      <3>1. \A e \in ToSet(events) : HasImages(e)
        BY <1>1 DEF IInv, RunningOK
      <3>2. events[i] \in ToSet(events)
        BY <2>1 DEF ToSet
      <3> QED
        BY <1>2, <2>3, <2>5, <3>1, <3>2 DEF HasImages
    <2>7. lock' \in Seq(Tasks) /\ op' \in [Tasks -> Op \cup {NoOp}] /\ LockOK' /\ CloseOK'
      BY <2>2, <2>4, OwnerGoesOn
    <2> QED
      BY <1>1, <1>2, <2>5, <2>6, <2>7, WorkKeepsLists
  <1> QED
    BY <1>4, <1>5

LEMMA ImageStoredKeepsIInv ==
  ASSUME IInv, NEW t \in Tasks, ImageStored(t)
  PROVE  IInv'
  <1> DEFINE o == op[t]
             kind == NextImage(t)
             i == IndexOf(o.id)
             o2 == [o EXCEPT !.todo = @ \ {kind}]
  <1>1. /\ phase = "running" /\ o \in Op /\ (o.does = "close" => o.closeAs # "none")
        /\ o # NoOp /\ o.todo # {}
    BY OwnerWorks, NoOpIsNoOp DEF ImageStored
  <1>2. /\ disk' = disk /\ phase' = phase /\ dropping' = dropping /\ now' = now /\ lock' = lock
        /\ files' = files \cup {<<o.id, kind>>}
        /\ files \subseteq Ids \X FileKinds /\ events \in Seq(Event) /\ op \in [Tasks -> Op \cup {NoOp}]
    BY DEF ImageStored, IInv, TypeOK
  <1>3. kind \in FileKinds /\ o.id \in Ids
    BY <1>1, TheImageIsWanted DEF IInv, Op
  <1>4. i \in 0..Len(events) /\ (i # 0 => events[i].id = o.id)
    BY <1>2, IndexOfFinds
  <1>5. op' = [op EXCEPT ![t] = o2] /\ events' = [events EXCEPT ![i].files = @ \cup {kind}]
    BY <1>1, <1>2 DEF ImageStored, Op
  <1> HIDE DEF i, kind
  <1>6. o2 \in Op /\ o2.does = o.does /\ o2.closeAs = o.closeAs
    BY <1>1 DEF Op
  <1> HIDE DEF o2
  <1>7. lock' \in Seq(Tasks) /\ op' \in [Tasks -> Op \cup {NoOp}] /\ LockOK' /\ CloseOK'
    BY <1>1, <1>2, <1>5, <1>6, OwnerGoesOn
  <1>8. files \subseteq files' /\ files' \subseteq Ids \X FileKinds
    BY <1>2, <1>3
  <1>9. CASE i = 0
    <2>1. i \notin DOMAIN events
      BY <1>2, <1>9
    <2>2. events' = events
      BY <1>2, <1>5, <2>1
    <2> QED
      BY <1>1, <1>2, <1>7, <1>8, <2>2, UnchangedLists, WorkKeepsLists
  <1>10. CASE i # 0
    <2> DEFINE r == [events[i] EXCEPT !.files = @ \cup {kind}]
    <2>1. i \in DOMAIN events /\ events[i] \in Event
      BY <1>2, <1>4, <1>10
    <2>2. events' = [events EXCEPT ![i] = r]
      BY <1>2, <1>5, <2>1
    <2>3. /\ r \in Event /\ r.id = events[i].id /\ r.ts = events[i].ts
          /\ r.files = events[i].files \cup {kind}
      BY <1>3, <2>1 DEF Event
    <2> HIDE DEF r
    <2>4. /\ events' \in Seq(Event) /\ IsNewestFirst(events') /\ HasUniqueIds(events')
          /\ IdsOf(events') = IdsOf(events)
          /\ ToSet(events') \subseteq ToSet(events) \cup {r}
      BY <2>1, <2>2, <2>3, UpdateIsSound
    <2>5. \A e \in ToSet(events') : HasImages(e)'
      <3>1. \A e \in ToSet(events) : HasImages(e)
        BY <1>1 DEF IInv, RunningOK
      <3>2. events[i] \in ToSet(events) /\ r.id = o.id
        BY <1>4, <1>10, <2>1, <2>3 DEF ToSet
      <3>3. \A k \in FileKinds : k \in r.files => <<r.id, k>> \in files'
        BY <1>2, <2>3, <3>1, <3>2 DEF HasImages
      <3>4. \A e \in ToSet(events), k \in FileKinds : k \in e.files => <<e.id, k>> \in files'
        BY <1>2, <3>1 DEF HasImages
      <3> QED
        BY <2>4, <3>3, <3>4 DEF HasImages
    <2> QED
      BY <1>1, <1>2, <1>7, <1>8, <2>4, <2>5, WorkKeepsLists
  <1> QED
    BY <1>9, <1>10

LEMMA ImageFailedKeepsIInv ==
  ASSUME IInv, NEW t \in Tasks, ImageFailed(t)
  PROVE  IInv'
  <1> DEFINE o2 == [op[t] EXCEPT !.todo = @ \ {NextImage(t)}]
  <1>1. phase = "running" /\ op[t] \in Op /\ (op[t].does = "close" => op[t].closeAs # "none")
    BY OwnerWorks DEF ImageFailed
  <1>2. /\ disk' = disk /\ files' = files /\ phase' = phase /\ dropping' = dropping /\ now' = now
        /\ lock' = lock /\ events' = events
        /\ files \subseteq Ids \X FileKinds /\ op \in [Tasks -> Op \cup {NoOp}]
    BY DEF ImageFailed, IInv, TypeOK
  <1>3. op' = [op EXCEPT ![t] = o2]
    BY <1>1, <1>2 DEF ImageFailed, Op
  <1>4. o2 \in Op /\ o2.does = op[t].does /\ o2.closeAs = op[t].closeAs
    BY <1>1 DEF Op
  <1> HIDE DEF o2
  <1>5. lock' \in Seq(Tasks) /\ op' \in [Tasks -> Op \cup {NoOp}] /\ LockOK' /\ CloseOK'
    BY <1>1, <1>2, <1>3, <1>4, OwnerGoesOn
  <1> QED
    BY <1>1, <1>2, <1>5, UnchangedLists, WorkKeepsLists

LEMMA SaveKeepsIInv ==
  ASSUME IInv, NEW t \in Tasks, Save(t)
  PROVE  IInv'
  <1> DEFINE o == op[t]
             closes == o.does = "record" /\ o.closeAs # "none"
             o2 == [o EXCEPT !.does = "close", !.at = "waiting"]
  <1>1. /\ phase = "running" /\ o \in Op
        /\ lock \in Seq(Tasks) /\ NoRepeats(lock) /\ lock # <<>> /\ Head(lock) = t
    BY OwnerWorks DEF Save
  <1>2. /\ disk' = events /\ files' = files /\ phase' = phase /\ dropping' = dropping /\ now' = now
        /\ events' = events
        /\ files \subseteq Ids \X FileKinds /\ op \in [Tasks -> Op \cup {NoOp}]
    BY DEF Save, IInv, TypeOK
  <1>3. /\ Tail(lock) \in Seq(Tasks) /\ NoRepeats(Tail(lock)) /\ t \in ToSet(lock)
        /\ ToSet(Tail(lock)) \subseteq ToSet(lock) \ {t}
    BY <1>1, Leaving
  <1>4. lock' \in Seq(Tasks) /\ op' \in [Tasks -> Op \cup {NoOp}] /\ LockOK' /\ CloseOK'
    <2>1. CASE ~closes
      <3>1. op' = [op EXCEPT ![t] = NoOp] /\ lock' = Tail(lock)
        BY <2>1 DEF Save
      <3> QED
        BY <1>3, <3>1, TaskLeaves
    <2>2. CASE closes
      <3>1. op' = [op EXCEPT ![t] = o2] /\ lock' = Append(Tail(lock), t)
        BY <2>2 DEF Save, Requeued
      <3>2. o2 \in Op /\ o2.does = "close" /\ o2.closeAs # "none" /\ o2 # NoOp
        BY <1>1, <2>2, NoOpIsNoOp DEF Op
      <3> HIDE DEF o2
      <3>3. /\ lock' \in Seq(Tasks) /\ NoRepeats(lock')
            /\ ToSet(lock') \subseteq ToSet(Tail(lock)) \cup {t}
        BY <1>3, <3>1, Queueing
      <3>4. /\ op' \in [Tasks -> Op \cup {NoOp}] /\ op'[t] = o2
            /\ \A u \in Tasks : u # t => op'[u] = op[u]
        BY <1>2, <3>1, <3>2
      <3>5. \A u \in ToSet(lock) : u \in Tasks /\ op[u] # NoOp
        BY <1>1 DEF IInv, LockOK, ToSet
      <3>6. LockOK'
        BY <1>3, <3>2, <3>3, <3>4, <3>5 DEF LockOK
      <3>7. CloseOK'
        BY <3>2, <3>4 DEF IInv, CloseOK
      <3> QED
        BY <3>3, <3>4, <3>6, <3>7
    <2> QED
      BY <2>1, <2>2
  <1> QED
    BY <1>1, <1>2, <1>4, UnchangedLists, WorkKeepsLists

\* What a cancelled task leaves behind: a write that its executor job finishes.
LEMMA CancelledLeaves ==
  ASSUME IInv, NEW t \in Tasks, Cancelled(t)
  PROVE  /\ files \subseteq files' /\ files' \subseteq Ids \X FileKinds
         /\ \/ disk' = disk
            \/ phase = "running" /\ disk' = events
         /\ phase # "running" => files' = files
  <1>1. files \subseteq Ids \X FileKinds
    BY DEF IInv, TypeOK
  <1>2. op[t] \in Op /\ (Owns(t) => phase = "running")
    BY OwnerWorks DEF Cancelled, IInv, TypeOK
  <1>3. CASE UNCHANGED <<disk, files>>
    BY <1>1, <1>3
  <1>4. CASE Owns(t) /\ disk' = events /\ UNCHANGED files
    BY <1>1, <1>2, <1>4
  <1>5. CASE /\ Owns(t) /\ op[t].todo # {}
             /\ files' = files \cup {<<op[t].id, NextImage(t)>>} /\ UNCHANGED disk
    <2>1. NextImage(t) \in FileKinds /\ op[t].id \in Ids
      BY <1>2, <1>5, TheImageIsWanted DEF IInv, Cancelled, Op
    <2> QED
      BY <1>1, <1>2, <1>5, <2>1
  <1> QED
    BY <1>3, <1>4, <1>5 DEF Cancelled

LEMMA CancelledKeepsIInv ==
  ASSUME IInv, NEW t \in Tasks, Cancelled(t)
  PROVE  IInv'
  <1>1. /\ files \subseteq files' /\ files' \subseteq Ids \X FileKinds
        /\ disk' = disk \/ (phase = "running" /\ disk' = events)
        /\ phase # "running" => files' = files
    BY CancelledLeaves
  <1>2. /\ events' = events /\ phase' = phase /\ dropping' = dropping /\ now' = now
        /\ op' = [op EXCEPT ![t] = NoOp] /\ lock' = RemoveFirst(lock, t)
    BY DEF Cancelled
  <1>3. lock \in Seq(Tasks) /\ NoRepeats(lock)
    BY DEF IInv, TypeOK, LockOK
  <1>4. lock' \in Seq(Tasks) /\ NoRepeats(lock') /\ ToSet(lock') \subseteq ToSet(lock) \ {t}
    BY <1>2, <1>3, Removal
  <1>5. op' \in [Tasks -> Op \cup {NoOp}] /\ LockOK' /\ CloseOK'
    BY <1>2, <1>4, TaskLeaves
  <1>6. CASE phase = "running"
    BY <1>1, <1>2, <1>4, <1>5, <1>6, UnchangedLists, WorkKeepsLists
  <1>7. CASE phase # "running"
    <2>1. disk' = disk /\ files' = files
      BY <1>1, <1>7
    <2>2. lock = <<>>
      BY <1>7 DEF IInv, SetUpOK
    <2>3. lock' = <<>>
      BY <1>2, <2>2 DEF RemoveFirst
    <2>4. TypeOK' /\ ListsOK' /\ RunningOK'
      BY <1>2, <1>5, <2>1, <2>2, <2>3 DEF IInv, TypeOK, ListsOK, IsNewestFirst, HasUniqueIds,
                                          RunningOK, HasImages
    <2>5. Dropped(disk)' = Dropped(disk)
      BY <1>2, <2>1 DEF Dropped, KeptCount, NewestFirstOrder, Rank, Before
    <2>6. SetUpOK' /\ PurgingOK'
      BY <1>2, <2>1, <2>3, <2>5 DEF IInv, SetUpOK, PurgingOK, HasImages
    <2> QED
      BY <1>5, <2>4, <2>6 DEF IInv
  <1> QED
    BY <1>6, <1>7

-----------------------------------------------------------------------------
(* The invariant *)

LEMMA InitInv == Init => IInv
  <1> SUFFICES ASSUME Init PROVE IInv
    OBVIOUS
  <1>1. Cardinality(Tasks) \in Nat
    BY TasksAreFinite, FS_AddElement, FS_CardinalityType DEF Tasks
  <1>2. TypeOK
    BY <1>1, BoundsAreNatural DEF Init, TypeOK, Times
  <1>3. ListsOK /\ LockOK /\ CloseOK
    BY DEF Init, ListsOK, IsNewestFirst, HasUniqueIds, LockOK, NoRepeats, ToSet, CloseOK
  <1>4. RunningOK /\ SetUpOK /\ PurgingOK
    BY DEF Init, RunningOK, SetUpOK, PurgingOK, ToSet
  <1> QED
    BY <1>2, <1>3, <1>4 DEF IInv

LEMMA CallersKeepIInv ==
  ASSUME IInv, Environment
  PROVE  IInv'
  <1>1. now \in Times
    BY DEF IInv, TypeOK
  <1>2. ASSUME NEW t \in PushTasks, NEW id \in Ids, NEW urls \in SUBSET ImageKinds,
               RecordCall(t, id, urls)
        PROVE  IInv'
    <2> DEFINE o == [does |-> "record", at |-> "waiting", id |-> id, ts |-> now,
                     todo |-> urls, closeAs |-> "none"]
    <2>1. o \in Op /\ o.does = "record" /\ t \in Tasks
      BY <1>1 DEF Op, FileKinds, Tasks
    <2>2. Request(t, o)
      BY <1>2 DEF RecordCall
    <2> HIDE DEF o
    <2> QED
      BY <2>1, <2>2, RequestKeepsIInv
  <1>3. ASSUME NEW t \in PushTasks, NEW id \in Ids, NEW type \in ClosedTypes,
               CloseCall(t, id, type)
        PROVE  IInv'
    <2> DEFINE o == [does |-> "close", at |-> "waiting", id |-> id, ts |-> now,
                     todo |-> {}, closeAs |-> type]
    <2>1. o \in Op /\ o.closeAs # "none" /\ t \in Tasks
      BY <1>1 DEF Op, ClosedTypes, Tasks
    <2>2. Request(t, o)
      BY <1>3 DEF CloseCall
    <2> HIDE DEF o
    <2> QED
      BY <2>1, <2>2, RequestKeepsIInv
  <1>4. ASSUME NEW id \in Ids, NEW urls \in SUBSET ImageKinds, NEW ts \in 0..now,
               NEW type \in ClosedTypes, BackfillHistory(id, urls, ts, type)
        PROVE  IInv'
    <2> DEFINE o == [does |-> "record", at |-> "waiting", id |-> id, ts |-> ts,
                     todo |-> urls, closeAs |-> type]
    <2>1. ts \in Times
      BY <1>1, BoundsAreNatural DEF Times
    <2>2. o \in Op /\ o.does = "record" /\ Poller \in Tasks
      BY <2>1 DEF Op, FileKinds, Tasks
    <2>3. Request(Poller, o)
      BY <1>4 DEF BackfillHistory
    <2> HIDE DEF o
    <2> QED
      BY <2>2, <2>3, RequestKeepsIInv
  <1> QED
    BY <1>2, <1>3, <1>4 DEF Environment, Push, Poll

LEMMA Inductive == IInv /\ [Next]_vars => IInv'
  <1> SUFFICES ASSUME IInv, [Next]_vars PROVE IInv'
    OBVIOUS
  <1>1. CASE Environment
    BY <1>1, CallersKeepIInv
  <1>2. CASE SetUp
    BY <1>2, LoadKeepsIInv, DeleteKeepsIInv, PersistKeepsIInv DEF SetUp
  <1>3. ASSUME NEW t \in Tasks, Step(t) PROVE IInv'
    BY <1>3, EnterRecordKeepsIInv, EnterCloseKeepsIInv, ImageStoredKeepsIInv,
       ImageFailedKeepsIInv, SaveKeepsIInv DEF Step
  <1>4. CASE Tick
    BY <1>4, TickKeepsIInv
  <1>5. CASE Restart
    BY <1>5, RestartKeepsIInv
  <1>6. ASSUME NEW t \in PushTasks, Cancelled(t) PROVE IInv'
    BY <1>6, CancelledKeepsIInv DEF Tasks
  <1>7. CASE UNCHANGED vars
    <2>1. /\ events' = events /\ disk' = disk /\ files' = files /\ lock' = lock /\ op' = op
          /\ phase' = phase /\ dropping' = dropping /\ now' = now
      BY <1>7 DEF vars
    <2>2. Dropped(disk)' = Dropped(disk)
      BY <2>1 DEF Dropped, KeptCount, NewestFirstOrder, Rank, Before
    <2>3. TypeOK' /\ ListsOK' /\ LockOK' /\ CloseOK' /\ RunningOK'
      BY <2>1 DEF IInv, TypeOK, ListsOK, IsNewestFirst, HasUniqueIds, LockOK, NoRepeats,
                  CloseOK, RunningOK, HasImages
    <2>4. SetUpOK' /\ PurgingOK'
      BY <2>1, <2>2 DEF IInv, SetUpOK, PurgingOK, HasImages
    <2> QED
      BY <2>3, <2>4 DEF IInv
  <1> QED
    BY <1>1, <1>2, <1>3, <1>4, <1>5, <1>6, <1>7 DEF Next, System, Faults

THEOREM InvariantHolds == Spec => []IInv
  BY InitInv, Inductive, PTL DEF Spec

-----------------------------------------------------------------------------
(* The theorems *)

\* Whatever the calls, the polls, the cancellations and the restarts do, the
\* lists hold records, and no task waits twice for the lock (EventHistoryStore).
THEOREM TypeCorrectness == Spec => []TypeOK
  <1>1. IInv => TypeOK
    BY DEF IInv
  <1> QED
    BY <1>1, InvariantHolds, PTL

\* However the push and the backfill of one call meet, it is recorded once
\* (async_record_call looks the call up under the lock).
THEOREM CallsAreUnique == Spec => []UniqueIds
  <1>1. IInv => UniqueIds
    BY DEF IInv, ListsOK, HasUniqueIds, UniqueIds
  <1> QED
    BY <1>1, InvariantHolds, PTL

\* The list is newest first however late a call is recorded (async_record_call
\* inserts it by its timestamp) and after every restart (async_load).
THEOREM TheNewestComesFirst == Spec => []NewestFirst
  <1>1. IInv => NewestFirst
    BY DEF IInv, ListsOK, IsNewestFirst, NewestFirst
  <1> QED
    BY <1>1, InvariantHolds, PTL

\* In operation a record names only images that are there, whenever the process
\* died during an earlier set-up (async_apply_retention).
THEOREM NoImageIsMissing == Spec => []ImagesExist
  <1>1. IInv => ImagesExist
    BY DEF IInv, RunningOK, HasImages, ImagesExist
  <1> QED
    BY <1>1, InvariantHolds, PTL

\* Nothing but the retention takes a saved call off the disk: what is saved is
\* always the whole list, and that list only grows.
THEOREM SavedCallsStay == Spec => NoCallIsLost
  <1>1. IInv /\ [Next]_vars => [phase # "purging" => IdsOf(disk) \subseteq IdsOf(disk')]_vars
    <2> SUFFICES ASSUME IInv, Next, phase # "purging"
                 PROVE  IdsOf(disk) \subseteq IdsOf(disk')
      OBVIOUS
    <2>1. disk' = disk \/ (phase = "running" /\ disk' = events)
      <3>1. CASE Environment
        BY <3>1 DEF Environment, Push, Poll, RecordCall, CloseCall, BackfillHistory, Request
      <3>2. CASE SetUp
        BY <3>2 DEF SetUp, Load, DeleteEventFiles, PersistRetention
      <3>3. ASSUME NEW t \in Tasks, Step(t)
            PROVE  disk' = disk \/ (phase = "running" /\ disk' = events)
        BY <3>3, OwnerWorks DEF Step, EnterRecord, EnterClose, ImageStored, ImageFailed, Save
      <3>4. CASE Tick
        BY <3>4 DEF Tick
      <3>5. CASE Restart
        BY <3>5 DEF Restart
      <3>6. ASSUME NEW t \in PushTasks, Cancelled(t)
            PROVE  disk' = disk \/ (phase = "running" /\ disk' = events)
        BY <3>6, CancelledLeaves DEF Tasks
      <3> QED
        BY <3>1, <3>2, <3>3, <3>4, <3>5, <3>6 DEF Next, System, Faults
    <2> QED
      BY <2>1 DEF IInv, RunningOK
  <1> QED
    BY <1>1, InvariantHolds, PTL DEF Spec, NoCallIsLost
=============================================================================
