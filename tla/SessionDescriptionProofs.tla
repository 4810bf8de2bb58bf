---------------------- MODULE SessionDescriptionProofs ----------------------
(***************************************************************************)
(* Proofs about SessionDescription, for any codecs and any number of       *)
(* sections: what the browser gets lines up with what it has offered.      *)
(***************************************************************************)
EXTENDS SessionDescription, FiniteSetTheorems, SequenceTheorems, TLAPS

-----------------------------------------------------------------------------
(* The inductive invariant *)

\* What a browser offers: the mids are the positions, nothing is rejected.
IsOffer(sdp) ==
  /\ IsDescription(sdp)
  /\ \A i \in DOMAIN sdp : sdp[i].mid = i /\ sdp[i].open = TRUE /\ sdp[i].last = (i = Len(sdp))

\* The device answers what was made of the offer that is kept for its answer.
OfferIsKept ==
  stage = "offered" => IsOffer(browserOffer) /\ sent = Prepared(browserOffer)

IInv ==
  /\ TypeOK
  /\ OfferIsKept
  /\ AnswersLineUp
  /\ AcceptedMediaSurvive
  /\ AnswersAreCompatible

-----------------------------------------------------------------------------
(* Sequences *)

LEMMA FunctionIsSeq ==
  ASSUME NEW S, NEW n \in Nat, NEW f \in [1..n -> S]
  PROVE  f \in Seq(S) /\ Len(f) = n /\ DOMAIN f = 1..n
  OBVIOUS

LEMMA MinIsLeast ==
  ASSUME NEW S \in SUBSET Nat, S # {}
  PROVE  Min(S) \in S /\ \A m \in S : Min(S) <= m
  <1> DEFINE less == {ss \in Nat \X Nat : ss[1] < ss[2]}
  <1>1. less = OpToRel(<, Nat)
    BY Zenon DEF OpToRel
  <1>2. PICK n \in S : \A m \in S : ~(<<m, n>> \in less)
    BY <1>1, NatLessThanWellFounded, WFMin, Zenon
  <1>3. \A m \in S : n <= m
    <2> SUFFICES ASSUME NEW m \in S, m < n PROVE FALSE
      OBVIOUS
    <2>1. <<m, n>> \in less
      OBVIOUS
    <2> QED
      BY <1>2, <2>1
  <1> QED
    BY <1>3 DEF Min

LEMMA IntervalSize ==
  ASSUME NEW n \in Nat
  PROVE  IsFiniteSet(1..n) /\ Cardinality(1..n) = n
  <1>1. 1 \in Int /\ n \in Int
    OBVIOUS
  <1> QED
    BY <1>1, FS_Interval

-----------------------------------------------------------------------------
(* The browser's offer *)

LEMMA OfferingIsOffer ==
  ASSUME NEW n \in 1..MaxSections, NEW kinds \in [1..n -> OfferedSections]
  PROVE  IsOffer(Offering(kinds))
  <1> DEFINE sdp == Offering(kinds)
  <1>1. n \in Nat /\ n <= MaxSections /\ Len(kinds) = n /\ DOMAIN kinds = 1..n
    BY FunctionIsSeq, SectionsAreBounded
  <1>2. ASSUME NEW i \in 1..n
        PROVE  /\ Placed(kinds[i], i, n) \in Section
               /\ Placed(kinds[i], i, n).media = "video" => Placed(kinds[i], i, n).codecs # {}
    <2>1. kinds[i] \in OfferedSections
      OBVIOUS
    <2>2. /\ kinds[i].media \in {"audio", "video", "application"}
          /\ kinds[i].dir \in Directions /\ kinds[i].ssrc \in {"none", "own"}
          /\ kinds[i].codecs \subseteq VideoCodecs
          /\ kinds[i].media = "video" => kinds[i].codecs # {}
      BY <2>1 DEF OfferedSections, Directions
    <2>3. i \in 0..MaxSections /\ (i = n) \in BOOLEAN
      BY <1>1, SectionsAreBounded
    <2> QED
      BY <2>2, <2>3 DEF Placed, Section
  <1>3. sdp = [i \in 1..n |-> Placed(kinds[i], i, n)]
    BY <1>1 DEF Offering
  <1>4. sdp \in [1..n -> Section]
    BY <1>2, <1>3
  <1>5. sdp \in Seq(Section) /\ Len(sdp) = n /\ DOMAIN sdp = 1..n
    BY <1>1, <1>4, FunctionIsSeq
  <1>6. \A i \in 1..n : sdp[i] = Placed(kinds[i], i, n)
    BY <1>3
  <1> HIDE DEF sdp
  <1>7. IsDescription(sdp)
    BY <1>2, <1>5, <1>6 DEF IsDescription
  <1>8. \A i \in 1..n : sdp[i].mid = i /\ sdp[i].open /\ sdp[i].last = (i = n)
    <2> SUFFICES ASSUME NEW i \in 1..n
                 PROVE  sdp[i].mid = i /\ sdp[i].open /\ sdp[i].last = (i = n)
      OBVIOUS
    <2> DEFINE section == Placed(kinds[i], i, n)
    <2>1. section.mid = i
      BY DEF Placed
    <2>2. section.open = TRUE
      BY DEF Placed
    <2>3. section.last = (i = n)
      BY DEF Placed
    <2> QED
      BY <1>6, <2>1, <2>2, <2>3
  <1>9. IsOffer(sdp)
    BY <1>5, <1>7, <1>8 DEF IsOffer
  <1> QED
    BY <1>9 DEF sdp

\* What the rewrites leave of a section.
Keeps(section, old) ==
  /\ section \in Section
  /\ section.media = old.media /\ section.mid = old.mid
  /\ section.open = old.open /\ section.last = old.last

\* What the device is sent in place of the offer: the same sections, the audio
\* in both directions, the codecs fewer.
Resembles(sdp, offer) ==
  /\ IsDescription(sdp) /\ Len(sdp) = Len(offer)
  /\ \A i \in DOMAIN offer :
       /\ Keeps(sdp[i], offer[i])
       /\ sdp[i].codecs \subseteq offer[i].codecs
       /\ sdp[i].dir = IF IsAudio(offer[i]) /\ offer[i].dir = "recvonly"
                       THEN "sendrecv" ELSE offer[i].dir

LEMMA EnableResembles ==
  ASSUME NEW s, IsDescription(s)
  PROVE  Resembles(EnableAudioSendrecv(s), s)
  <1> DEFINE r == EnableAudioSendrecv(s)
  <1>1. s \in Seq(Section) /\ DOMAIN s = 1..Len(s) /\ Len(s) \in Nat
    BY DEF IsDescription
  <1>2. \A i \in 1..Len(s) : r[i] = IF IsAudio(s[i]) /\ s[i].dir = "recvonly"
                                    THEN [s[i] EXCEPT !.dir = "sendrecv"] ELSE s[i]
    BY <1>1 DEF EnableAudioSendrecv
  <1>3. DOMAIN r = 1..Len(s) /\ r = [i \in 1..Len(s) |-> r[i]]
    BY <1>1 DEF EnableAudioSendrecv
  <1> HIDE DEF r
  <1>4. ASSUME NEW i \in 1..Len(s)
        PROVE  /\ Keeps(r[i], s[i]) /\ r[i].codecs = s[i].codecs
               /\ r[i].dir = IF IsAudio(s[i]) /\ s[i].dir = "recvonly"
                             THEN "sendrecv" ELSE s[i].dir
    <2>1. s[i] \in Section
      BY <1>1
    <2> QED
      BY <1>2, <2>1 DEF Section, Directions, Keeps
  <1>5. r \in [1..Len(s) -> Section]
    BY <1>3, <1>4 DEF Keeps
  <1>6. r \in Seq(Section) /\ Len(r) = Len(s)
    BY <1>1, <1>5, FunctionIsSeq
  <1>7. IsDescription(r)
    BY <1>1, <1>3, <1>4, <1>6 DEF IsDescription, Keeps
  <1>8. Resembles(r, s)
    BY <1>1, <1>4, <1>6, <1>7 DEF Resembles
  <1> QED
    BY <1>8 DEF r

\* The two other rewrites touch neither media nor direction.
Weakens(sdp, offer) ==
  /\ IsDescription(sdp) /\ Len(sdp) = Len(offer)
  /\ \A i \in DOMAIN offer :
       /\ Keeps(sdp[i], offer[i])
       /\ sdp[i].codecs \subseteq offer[i].codecs
       /\ sdp[i].dir = offer[i].dir

LEMMA InjectWeakens ==
  ASSUME NEW s, IsDescription(s)
  PROVE  Weakens(InjectAudioSsrc(s), s)
  <1> DEFINE ends(i) == IsAudio(s[i]) /\ (i = Len(s) \/ ~IsAudio(s[i + 1]))
             r == [i \in DOMAIN s |->
                     IF ends(i) THEN [s[i] EXCEPT !.ssrc = "synthetic"] ELSE s[i]]
  <1>1. s \in Seq(Section) /\ DOMAIN s = 1..Len(s) /\ Len(s) \in Nat
    BY DEF IsDescription
  <1>2. InjectAudioSsrc(s) = s \/ InjectAudioSsrc(s) = r
    BY DEF InjectAudioSsrc
  <1>3. Weakens(s, s)
    BY <1>1 DEF Weakens, Keeps
  <1> HIDE DEF ends
  <1>4. \A i \in 1..Len(s) : r[i] = IF ends(i) THEN [s[i] EXCEPT !.ssrc = "synthetic"] ELSE s[i]
    BY <1>1
  <1>5. DOMAIN r = 1..Len(s) /\ r = [i \in 1..Len(s) |-> r[i]]
    BY <1>1
  <1> HIDE DEF r
  <1>6. ASSUME NEW i \in 1..Len(s)
        PROVE  Keeps(r[i], s[i]) /\ r[i].codecs = s[i].codecs /\ r[i].dir = s[i].dir
    <2>1. s[i] \in Section
      BY <1>1
    <2> QED
      BY <1>4, <2>1 DEF Section, Keeps
  <1>7. r \in [1..Len(s) -> Section]
    BY <1>5, <1>6 DEF Keeps
  <1>8. r \in Seq(Section) /\ Len(r) = Len(s)
    BY <1>1, <1>7, FunctionIsSeq
  <1>9. IsDescription(r)
    BY <1>1, <1>5, <1>6, <1>8 DEF IsDescription, Keeps
  <1>10. Weakens(r, s)
    BY <1>1, <1>6, <1>8, <1>9 DEF Weakens
  <1> QED
    BY <1>2, <1>3, <1>10

LEMMA FilterWeakens ==
  ASSUME NEW s, IsDescription(s)
  PROVE  Weakens(FilterVideoCodecs(s), s)
  <1> DEFINE v == FirstVideo(s)
             I == {i \in 1..Len(s) : s[i].media = "video"}
             r == [s EXCEPT ![v].codecs = {KeptCodec}]
  <1>1. s \in Seq(Section) /\ DOMAIN s = 1..Len(s) /\ Len(s) \in Nat
    BY DEF IsDescription
  <1>2. Weakens(s, s)
    BY <1>1 DEF Weakens, Keeps
  <1>3. CASE v = 0 \/ KeptCodec \notin s[v].codecs
    BY <1>2, <1>3 DEF FilterVideoCodecs
  <1>4. CASE v # 0 /\ KeptCodec \in s[v].codecs
    <2>1. FilterVideoCodecs(s) = r
      BY <1>4 DEF FilterVideoCodecs
    <2>2. v = IF I # {} THEN Min(I) ELSE 0
      BY DEF FirstVideo, SelectInSeq
    <2>3. v \in 1..Len(s)
      <3>1. I \in SUBSET Nat /\ I # {} /\ v = Min(I)
        BY <1>4, <2>2
      <3> HIDE DEF v
      <3>2. v \in I
        BY <3>1, MinIsLeast
      <3> QED
        BY <3>2
    <2> HIDE DEF v
    <2>4. \A i \in 1..Len(s) : r[i] = IF i = v THEN [s[i] EXCEPT !.codecs = {KeptCodec}] ELSE s[i]
      BY <1>1, <2>3
    <2>5. DOMAIN r = 1..Len(s) /\ r = [i \in 1..Len(s) |-> r[i]]
      BY <1>1
    <2> HIDE DEF r
    <2>6. ASSUME NEW i \in 1..Len(s)
          PROVE  /\ Keeps(r[i], s[i]) /\ r[i].codecs \subseteq s[i].codecs /\ r[i].dir = s[i].dir
                 /\ s[i].codecs # {} => r[i].codecs # {}
      <3>1. s[i] \in Section
        BY <1>1
      <3>2. CASE i # v
        BY <2>4, <3>1, <3>2 DEF Keeps
      <3>3. CASE i = v
        <4>1. r[i] = [s[i] EXCEPT !.codecs = {KeptCodec}]
          BY <2>4, <3>3
        <4>2. r[i].codecs = {KeptCodec} /\ r[i].dir = s[i].dir
          BY <3>1, <4>1 DEF Section
        <4>3. Keeps(r[i], s[i])
          BY <3>1, <4>1, KeptCodecMayBeOffered DEF Section, Keeps
        <4>4. KeptCodec \in s[i].codecs
          BY <1>4, <3>3
        <4> QED
          BY <4>2, <4>3, <4>4
      <3> QED
        BY <3>2, <3>3
    <2>7. r \in [1..Len(s) -> Section]
      BY <2>5, <2>6 DEF Keeps
    <2>8. r \in Seq(Section) /\ Len(r) = Len(s)
      BY <1>1, <2>7, FunctionIsSeq
    <2>9. IsDescription(r)
      BY <1>1, <2>5, <2>6, <2>8 DEF IsDescription, Keeps
    <2>10. Weakens(r, s)
      BY <1>1, <2>6, <2>8, <2>9 DEF Weakens
    <2> QED
      BY <2>1, <2>10
  <1> QED
    BY <1>3, <1>4

LEMMA PreparedResembles ==
  ASSUME NEW s, IsDescription(s)
  PROVE  Resembles(Prepared(s), s)
  <1> DEFINE enabled == EnableAudioSendrecv(s)
             injected == InjectAudioSsrc(enabled)
             prepared == FilterVideoCodecs(injected)
  <1>1. Resembles(enabled, s)
    BY EnableResembles
  <1>2. Weakens(injected, enabled)
    BY <1>1, InjectWeakens DEF Resembles
  <1>3. Weakens(prepared, injected)
    BY <1>2, FilterWeakens DEF Weakens
  <1> HIDE DEF enabled, injected, prepared
  <1>4. DOMAIN s = 1..Len(s) /\ DOMAIN enabled = 1..Len(s) /\ DOMAIN injected = 1..Len(s)
    <2>1. s \in Seq(Section) /\ enabled \in Seq(Section) /\ injected \in Seq(Section)
      BY <1>1, <1>2 DEF Resembles, Weakens, IsDescription
    <2>2. Len(enabled) = Len(s) /\ Len(injected) = Len(s)
      BY <1>1, <1>2 DEF Resembles, Weakens
    <2> QED
      BY <2>1, <2>2
  <1>5. ASSUME NEW i \in 1..Len(s)
        PROVE  /\ Keeps(prepared[i], s[i])
               /\ prepared[i].codecs \subseteq s[i].codecs
               /\ prepared[i].dir = IF IsAudio(s[i]) /\ s[i].dir = "recvonly"
                                    THEN "sendrecv" ELSE s[i].dir
    BY <1>1, <1>2, <1>3, <1>4 DEF Resembles, Weakens, Keeps
  <1>6. IsDescription(prepared) /\ Len(prepared) = Len(s)
    BY <1>1, <1>2, <1>3 DEF Resembles, Weakens
  <1>7. Resembles(prepared, s)
    BY <1>4, <1>5, <1>6 DEF Resembles
  <1> QED
    BY <1>7 DEF Prepared, prepared, injected, enabled

-----------------------------------------------------------------------------
(* The device's answer *)

\* Each section of an answer answers a section of the offer of its own.
Covers(answer, offer, place) ==
  /\ IsDescription(answer)
  /\ place \in [1..Len(answer) -> 1..Len(offer)] /\ IsInjective(place)
  /\ \A i \in 1..Len(answer) :
       /\ answer[i].media = offer[place[i]].media
       /\ answer[i].codecs \subseteq offer[place[i]].codecs
       /\ answer[i].mid \in {NoMid, place[i]}
       /\ answer[i].open = TRUE
       /\ answer[i].last = (i = Len(answer))

LEMMA AnsweringCovers ==
  ASSUME NEW offer, IsOffer(offer), NEW place \in Places(Len(offer)),
         NEW dir \in [DOMAIN place -> Directions], NEW withMid \in BOOLEAN,
         NEW offered, offered = [i \in DOMAIN place |-> Prepared(offer)[place[i]]]
  PROVE  /\ Covers(Answering(offered, dir, withMid), offer, place)
         /\ DOMAIN place = 1..Len(Answering(offered, dir, withMid))
         /\ \A i \in DOMAIN place : Answering(offered, dir, withMid)[i].dir = dir[i]
  <1> DEFINE answer == Answering(offered, dir, withMid)
             n == Len(offer)
  <1>1. offer \in Seq(Section) /\ DOMAIN offer = 1..n /\ n \in Nat
    BY DEF IsOffer, IsDescription
  <1>2. PICK k \in 0..n : place \in {f \in [1..k -> 1..n] : IsInjective(f)}
    BY Zenon DEF Places
  <1>3. k \in Nat /\ place \in [1..k -> 1..n] /\ IsInjective(place) /\ DOMAIN place = 1..k
    BY <1>1, <1>2
  <1>4. Resembles(Prepared(offer), offer)
    BY PreparedResembles DEF IsOffer
  <1>5. ASSUME NEW i \in 1..k
        PROVE  /\ offered[i] \in Section
               /\ offered[i].media = offer[place[i]].media
               /\ offered[i].codecs \subseteq offer[place[i]].codecs
               /\ offered[i].mid = place[i] /\ offered[i].open = TRUE
               /\ offered[i].media = "video" => offered[i].codecs # {}
    <2>1. place[i] \in 1..n /\ offered[i] = Prepared(offer)[place[i]]
      BY <1>3
    <2>2. DOMAIN Prepared(offer) = 1..n
      BY <1>1, <1>4 DEF Resembles, IsDescription
    <2>3. offer[place[i]].mid = place[i] /\ offer[place[i]].open = TRUE
      BY <1>1, <2>1 DEF IsOffer
    <2>4. /\ Keeps(offered[i], offer[place[i]])
          /\ offered[i].codecs \subseteq offer[place[i]].codecs
      BY <1>1, <1>4, <2>1 DEF Resembles
    <2>5. offered[i].media = "video" => offered[i].codecs # {}
      BY <1>4, <2>1, <2>2 DEF Resembles, IsDescription
    <2> QED
      BY <2>3, <2>4, <2>5 DEF Keeps
  <1>6. offered \in [1..k -> Section] /\ DOMAIN offered = 1..k /\ Len(offered) = k
    <2>1. offered \in [1..k -> Section]
      BY <1>3, <1>5
    <2> QED
      BY <2>1, FunctionIsSeq
  <1>7. ASSUME NEW i \in 1..k
        PROVE  /\ answer[i] \in Section
               /\ answer[i].media = offered[i].media /\ answer[i].codecs = offered[i].codecs
               /\ answer[i].open = offered[i].open /\ answer[i].dir = dir[i]
               /\ answer[i].mid \in {NoMid, offered[i].mid}
               /\ answer[i].last = (i = k)
    <2>1. answer[i] = [offered[i] EXCEPT !.dir = dir[i], !.ssrc = "own", !.setup = "active",
                                         !.mid = IF withMid THEN @ ELSE NoMid,
                                         !.last = (i = k)]
      BY <1>6 DEF Answering
    <2>2. dir[i] \in Directions /\ NoMid \in 0..MaxSections
      BY <1>3, SectionsAreBounded DEF NoMid
    <2>3. offered[i] \in Section
      BY <1>5
    <2>4. /\ answer[i] \in Section
          /\ answer[i].media = offered[i].media /\ answer[i].codecs = offered[i].codecs
          /\ answer[i].dir = dir[i] /\ answer[i].mid \in {NoMid, offered[i].mid}
      BY <2>1, <2>2, <2>3 DEF Section
    <2>5. answer[i].open = offered[i].open
      BY <2>1, <2>3 DEF Section
    <2>6. answer[i].last = (i = k)
      BY <2>1, <2>3 DEF Section
    <2> QED
      BY <2>4, <2>5, <2>6
  <1>8. answer = [i \in 1..k |-> answer[i]]
    BY <1>6 DEF Answering
  <1> HIDE DEF answer
  <1>9. answer \in [1..k -> Section]
    BY <1>7, <1>8
  <1>10. answer \in Seq(Section) /\ Len(answer) = k /\ DOMAIN answer = 1..k
    BY <1>9, FunctionIsSeq
  <1>11. IsDescription(answer)
    <2>1. ASSUME NEW i \in 1..k PROVE answer[i].media = "video" => answer[i].codecs # {}
      <3>1. answer[i].media = offered[i].media /\ answer[i].codecs = offered[i].codecs
        BY <1>7
      <3>2. offered[i].media = "video" => offered[i].codecs # {}
        BY <1>5
      <3> QED
        BY <3>1, <3>2
    <2> QED
      BY <1>10, <2>1 DEF IsDescription
  <1>12. \A i \in 1..k : answer[i].open = TRUE
    BY <1>5, <1>7
  <1>13. Covers(answer, offer, place)
    <2>1. ASSUME NEW i \in 1..k
          PROVE  /\ answer[i].media = offer[place[i]].media
                 /\ answer[i].codecs \subseteq offer[place[i]].codecs
                 /\ answer[i].mid \in {NoMid, place[i]}
      <3>1. /\ answer[i].media = offered[i].media /\ answer[i].codecs = offered[i].codecs
            /\ answer[i].mid \in {NoMid, offered[i].mid}
        BY <1>7
      <3>2. /\ offered[i].media = offer[place[i]].media
            /\ offered[i].codecs \subseteq offer[place[i]].codecs
            /\ offered[i].mid = place[i]
        BY <1>5
      <3> QED
        BY <3>1, <3>2
    <2>2. \A i \in 1..Len(answer) : answer[i].last = (i = Len(answer))
      BY <1>7, <1>10
    <2> QED
      BY <1>3, <1>10, <1>11, <1>12, <2>1, <2>2 DEF Covers
  <1>14. /\ Covers(answer, offer, place) /\ DOMAIN place = 1..Len(answer)
         /\ \A i \in DOMAIN place : answer[i].dir = dir[i]
    BY <1>3, <1>7, <1>10, <1>13
  <1> QED
    BY <1>14 DEF answer

\* The direction of an audio section is all that is corrected.
LEMMA FixedCovers ==
  ASSUME NEW answer, NEW offer, NEW place, Covers(answer, offer, place)
  PROVE  /\ Covers(FixAnswerAudioDirection(answer), offer, place)
         /\ Len(FixAnswerAudioDirection(answer)) = Len(answer)
         /\ \A i \in 1..Len(answer) :
              /\ FixAnswerAudioDirection(answer)[i].media = answer[i].media
              /\ FixAnswerAudioDirection(answer)[i].mid = answer[i].mid
              /\ FixAnswerAudioDirection(answer)[i].open = answer[i].open
              /\ FixAnswerAudioDirection(answer)[i].dir =
                   IF IsAudio(answer[i]) /\ answer[i].dir \in {"sendrecv", "recvonly"}
                   THEN "sendonly" ELSE answer[i].dir
  <1> DEFINE r == FixAnswerAudioDirection(answer)
             n == Len(answer)
  <1>1. answer \in Seq(Section) /\ DOMAIN answer = 1..n /\ n \in Nat
    BY DEF Covers, IsDescription
  <1>2. \A i \in 1..n : r[i] =
          IF IsAudio(answer[i]) /\ answer[i].dir \in {"sendrecv", "recvonly"}
          THEN [answer[i] EXCEPT !.dir = "sendonly"] ELSE answer[i]
    BY <1>1 DEF FixAnswerAudioDirection
  <1>3. r = [i \in 1..n |-> r[i]]
    BY <1>1 DEF FixAnswerAudioDirection
  <1> HIDE DEF r
  <1>4. ASSUME NEW i \in 1..n
        PROVE  /\ r[i] \in Section
               /\ r[i].media = answer[i].media /\ r[i].codecs = answer[i].codecs
               /\ r[i].mid = answer[i].mid /\ r[i].open = answer[i].open
               /\ r[i].last = answer[i].last
               /\ r[i].dir = IF IsAudio(answer[i]) /\ answer[i].dir \in {"sendrecv", "recvonly"}
                             THEN "sendonly" ELSE answer[i].dir
    <2>1. answer[i] \in Section
      BY <1>1
    <2>2. CASE IsAudio(answer[i]) /\ answer[i].dir \in {"sendrecv", "recvonly"}
      <3>1. r[i] = [answer[i] EXCEPT !.dir = "sendonly"]
        BY <1>2, <2>2
      <3>2. /\ r[i] \in Section /\ r[i].dir = "sendonly"
            /\ r[i].media = answer[i].media /\ r[i].codecs = answer[i].codecs
            /\ r[i].mid = answer[i].mid
        BY <2>1, <3>1 DEF Section, Directions
      <3>3. r[i].open = answer[i].open
        BY <2>1, <3>1 DEF Section
      <3>4. r[i].last = answer[i].last
        BY <2>1, <3>1 DEF Section
      <3> QED
        BY <2>2, <3>2, <3>3, <3>4
    <2>3. CASE ~(IsAudio(answer[i]) /\ answer[i].dir \in {"sendrecv", "recvonly"})
      <3>1. r[i] = answer[i]
        BY <1>2, <2>3
      <3> QED
        BY <2>1, <2>3, <3>1
    <2> QED
      BY <2>2, <2>3
  <1>5. r \in [1..n -> Section]
    BY <1>3, <1>4
  <1>6. r \in Seq(Section) /\ Len(r) = n /\ DOMAIN r = 1..n
    BY <1>1, <1>5, FunctionIsSeq
  <1>7. IsDescription(r)
    <2>1. \A i \in 1..n : answer[i].media = "video" => answer[i].codecs # {}
      BY <1>1 DEF Covers, IsDescription
    <2>2. \A i \in 1..n : r[i].media = "video" => r[i].codecs # {}
      BY <1>4, <2>1
    <2> QED
      BY <1>6, <2>2 DEF IsDescription
  <1>8. Covers(r, offer, place)
    BY <1>4, <1>6, <1>7 DEF Covers
  <1>9. /\ Covers(r, offer, place) /\ Len(r) = n
        /\ \A i \in 1..n :
             /\ r[i].media = answer[i].media /\ r[i].mid = answer[i].mid
             /\ r[i].open = answer[i].open
             /\ r[i].dir = IF IsAudio(answer[i]) /\ answer[i].dir \in {"sendrecv", "recvonly"}
                           THEN "sendonly" ELSE answer[i].dir
    BY <1>4, <1>6, <1>8
  <1> QED
    BY <1>9 DEF r

-----------------------------------------------------------------------------
(* The alignment, section by section *)

\* The recursion is over 0..Len(offer): the function it defines exists.
LEMMA TakenUnfolds ==
  ASSUME NEW answer, NEW offer, Len(offer) \in Nat
  PROVE  /\ Taken(answer, offer)[0] = [remaining |-> answer, rebuilt |-> <<>>]
         /\ \A k \in 1..Len(offer) :
              Taken(answer, offer)[k] = Take(Taken(answer, offer)[k - 1], offer[k])
  <1> DEFINE N == Len(offer)
             start == [remaining |-> answer, rebuilt |-> <<>>]
             next(f, k) == IF k = 0 THEN start ELSE Take(f[k - 1], offer[k])
             Defines(f, n) == f = [k \in 0..n |-> next(f, k)]
             failing == {n \in 0..N : ~\E f : Defines(f, n)}
  <1>1. failing = {}
    <2> SUFFICES ASSUME failing # {} PROVE FALSE
      OBVIOUS
    <2> DEFINE m == Min(failing)
    <2>1. failing \in SUBSET Nat
      OBVIOUS
    <2> HIDE DEF failing
    <2>2. m \in failing /\ \A n \in failing : m <= n
      BY <2>1, MinIsLeast
    <2> HIDE DEF m
    <2>3. m \in 0..N /\ ~\E f : Defines(f, m)
      BY <2>2 DEF failing
    <2>4. CASE m = 0
      <3> DEFINE f == [k \in 0..0 |-> start]
      <3>1. f = [k \in 0..0 |-> next(f, k)]
        OBVIOUS
      <3> QED
        BY <2>3, <2>4, <3>1
    <2>5. CASE m # 0
      <3>1. m - 1 \in 0..N /\ ~(m <= m - 1) /\ m \in Nat
        BY <2>3, <2>5
      <3>2. m - 1 \notin failing
        BY <2>2, <3>1
      <3>3. PICK g : Defines(g, m - 1)
        BY <3>1, <3>2 DEF failing
      <3> DEFINE h == [k \in 0..m |-> IF k < m THEN g[k] ELSE Take(g[m - 1], offer[m])]
      <3>4. ASSUME NEW k \in 0..m PROVE h[k] = next(h, k)
        <4>1. CASE k = 0
          BY <2>5, <3>1, <3>3, <4>1
        <4>2. CASE k # 0 /\ k < m
          <5>1. k \in 0..(m - 1) /\ k - 1 \in 0..m /\ k - 1 < m
            BY <3>1, <4>2
          <5>2. g[k] = Take(g[k - 1], offer[k])
            BY <3>3, <4>2, <5>1
          <5> QED
            BY <4>2, <5>1, <5>2
        <4>3. CASE k = m
          <5>1. m - 1 \in 0..m /\ m - 1 < m /\ ~(m < m)
            BY <3>1
          <5> QED
            BY <2>5, <4>3, <5>1
        <4> QED
          BY <3>1, <4>1, <4>2, <4>3
      <3>5. h = [k \in 0..m |-> h[k]]
        OBVIOUS
      <3> HIDE DEF h, next
      <3>6. Defines(h, m)
        BY <3>4, <3>5
      <3> QED
        BY <2>3, <3>6
    <2> QED
      BY <2>4, <2>5
  <1>2. PICK f : Defines(f, N)
    <2>1. N \in 0..N
      OBVIOUS
    <2> QED
      BY <1>1, <2>1
  <1>3. Taken(answer, offer) = CHOOSE g : Defines(g, N)
    BY DEF Taken
  <1> HIDE DEF Defines
  <1>4. Defines(Taken(answer, offer), N)
    BY <1>2, <1>3
  <1>5. Taken(answer, offer) = [k \in 0..N |-> next(Taken(answer, offer), k)]
    BY <1>4 DEF Defines
  <1>6. 0 \in 0..N /\ \A k \in 1..N : k \in 0..N /\ k # 0
    OBVIOUS
  <1> QED
    BY <1>5, <1>6

-----------------------------------------------------------------------------
(* How many sections a description has of a media type *)

Many(sdp, media) == Cardinality(Indices(sdp, media))

LEMMA ManyIsFinite ==
  ASSUME NEW s \in Seq(Section), NEW media
  PROVE  IsFiniteSet(Indices(s, media)) /\ Many(s, media) \in Nat
  <1>1. DOMAIN s = 1..Len(s) /\ Len(s) \in Nat
    OBVIOUS
  <1>2. Indices(s, media) \in SUBSET (1..Len(s))
    BY <1>1 DEF Indices
  <1>3. IsFiniteSet(Indices(s, media))
    BY <1>1, <1>2, IntervalSize, FS_Subset
  <1> QED
    BY <1>3, FS_CardinalityType DEF Many

LEMMA SectionRemoved ==
  ASSUME NEW s \in Seq(Section), NEW p \in 1..Len(s)
  PROVE  /\ RemoveAt(s, p) \in Seq(Section) /\ Len(RemoveAt(s, p)) = Len(s) - 1
         /\ \A i \in 1..(Len(s) - 1) :
              RemoveAt(s, p)[i] = s[IF i < p THEN i ELSE i + 1]
  <1> DEFINE before == SubSeq(s, 1, p - 1)
             after == SubSeq(s, p + 1, Len(s))
             r == before \o after
  <1>1. /\ before \in Seq(Section) /\ Len(before) = p - 1
        /\ \A i \in 1..(p - 1) : before[i] = s[i]
    OBVIOUS
  <1>2. /\ after \in Seq(Section) /\ Len(after) = Len(s) - p
        /\ \A i \in 1..(Len(s) - p) : after[i] = s[p + i]
    OBVIOUS
  <1> HIDE DEF before, after
  <1>3. (p - 1) + (Len(s) - p) = Len(s) - 1
    OBVIOUS
  <1>4. r \in Seq(Section) /\ Len(r) = Len(s) - 1
    BY <1>1, <1>2, <1>3
  <1>5. \A i \in 1..(Len(s) - 1) : r[i] = IF i <= p - 1 THEN before[i] ELSE after[i - (p - 1)]
    BY <1>1, <1>2, <1>3
  <1>6. \A i \in 1..(Len(s) - 1) :
          IF i < p THEN i <= p - 1
          ELSE ~(i <= p - 1) /\ i - (p - 1) \in 1..(Len(s) - p) /\ p + (i - (p - 1)) = i + 1
    OBVIOUS
  <1> HIDE DEF r
  <1>7. \A i \in 1..(Len(s) - 1) : r[i] = s[IF i < p THEN i ELSE i + 1]
    BY <1>1, <1>2, <1>5, <1>6
  <1>8. RemoveAt(s, p) = r
    BY DEF RemoveAt, r, before, after
  <1> QED
    BY <1>4, <1>7, <1>8

LEMMA ManyAfterRemoval ==
  ASSUME NEW s \in Seq(Section), NEW p \in 1..Len(s), NEW media
  PROVE  Many(RemoveAt(s, p), media) =
           IF p \in Indices(s, media) THEN Many(s, media) - 1 ELSE Many(s, media)
  <1> DEFINE r == RemoveAt(s, p)
             S == Indices(r, media)
             T == Indices(s, media) \ {p}
             at(i) == IF i < p THEN i ELSE i + 1
             f == [i \in S |-> at(i)]
  <1>1. /\ r \in Seq(Section) /\ Len(r) = Len(s) - 1
        /\ \A i \in 1..(Len(s) - 1) : r[i] = s[at(i)]
    BY SectionRemoved
  <1> HIDE DEF r
  <1>2. DOMAIN r = 1..(Len(s) - 1) /\ DOMAIN s = 1..Len(s) /\ Len(s) \in Nat
    BY <1>1
  <1>3. \A i \in 1..(Len(s) - 1) : at(i) \in 1..Len(s) /\ at(i) # p
    BY <1>2
  <1>4. \A i, j \in 1..(Len(s) - 1) : at(i) = at(j) => i = j
    BY <1>2
  <1>5. \A n \in 1..Len(s) : n # p => \E i \in 1..(Len(s) - 1) : at(i) = n
    <2> SUFFICES ASSUME NEW n \in 1..Len(s), n # p
                 PROVE  \E i \in 1..(Len(s) - 1) : at(i) = n
      OBVIOUS
    <2>1. CASE n < p
      BY <2>1
    <2>2. CASE n > p
      <3>1. n - 1 \in 1..(Len(s) - 1) /\ at(n - 1) = n
        BY <2>2
      <3> QED
        BY <3>1
    <2> QED
      BY <2>1, <2>2
  <1> HIDE DEF at
  <1>6. \A i \in 1..(Len(s) - 1) : i \in S <=> at(i) \in T
    BY <1>1, <1>2, <1>3 DEF Indices
  <1>7. S \subseteq 1..(Len(s) - 1) /\ T \subseteq 1..Len(s)
    BY <1>2 DEF Indices
  <1> HIDE DEF S
  <1>8. f \in [S -> T]
    BY <1>6, <1>7
  <1>9. f \in Injection(S, T)
    BY <1>4, <1>7, <1>8 DEF Injection, IsInjective
  <1>10. f \in Surjection(S, T)
    BY <1>5, <1>6, <1>7, <1>8 DEF Surjection
  <1>11. ExistsBijection(S, T)
    BY <1>9, <1>10 DEF ExistsBijection, Bijection
  <1>12. IsFiniteSet(S)
    BY <1>1, ManyIsFinite DEF S
  <1>13. Cardinality(S) = Cardinality(T)
    BY <1>11, <1>12, FS_Bijection
  <1>14. Cardinality(T) = IF p \in Indices(s, media) THEN Many(s, media) - 1 ELSE Many(s, media)
    BY ManyIsFinite, FS_RemoveElement DEF Many
  <1> QED
    BY <1>13, <1>14 DEF Many, S, r

LEMMA ManyAfterAppend ==
  ASSUME NEW s \in Seq(Section), NEW x \in Section, NEW media
  PROVE  Many(Append(s, x), media) =
           IF x.media = media /\ x.open THEN Many(s, media) + 1 ELSE Many(s, media)
  <1> DEFINE r == Append(s, x)
             n == Len(s) + 1
  <1>1. /\ r \in Seq(Section) /\ Len(r) = n /\ Len(s) \in Nat
        /\ \A i \in 1..Len(s) : r[i] = s[i]
        /\ r[n] = x
    OBVIOUS
  <1>2. DOMAIN r = 1..n /\ DOMAIN s = 1..Len(s)
    BY <1>1
  <1> HIDE DEF r
  <1>3. n \notin Indices(s, media)
    BY <1>1, <1>2 DEF Indices
  <1>4. \A i : i \in 1..n <=> i \in 1..Len(s) \/ i = n
    BY <1>1
  <1>5. CASE x.media = media /\ x.open
    <2>1. Indices(r, media) = Indices(s, media) \cup {n}
      BY <1>1, <1>2, <1>4, <1>5 DEF Indices
    <2>2. Cardinality(Indices(r, media)) = Cardinality(Indices(s, media)) + 1
      BY <1>3, <2>1, ManyIsFinite, FS_AddElement
    <2> QED
      BY <1>5, <2>2 DEF Many, r
  <1>6. CASE ~(x.media = media /\ x.open)
    <2>1. Indices(r, media) = Indices(s, media)
      BY <1>1, <1>2, <1>4, <1>6 DEF Indices
    <2> QED
      BY <1>6, <2>1 DEF Many, r
  <1> QED
    BY <1>5, <1>6

LEMMA SearchFinds ==
  ASSUME NEW I \in SUBSET Nat, NEW i, i = IF I # {} THEN Min(I) ELSE 0, 0 \notin I
  PROVE  (i = 0 <=> I = {}) /\ (i # 0 => i \in I)
  BY MinIsLeast

\* A match has the media type of the offered section, and is found if any has.
LEMMA MatchFinds ==
  ASSUME NEW remaining \in Seq(Section), NEW offered
  PROVE  LET i == Match(remaining, offered) IN
         /\ i \in 0..Len(remaining)
         /\ i # 0 => remaining[i].media = offered.media
         /\ i = 0 => \A j \in 1..Len(remaining) : remaining[j].media # offered.media
  <1> DEFINE I == {j \in 1..Len(remaining) : SectionKey(remaining[j]) = SectionKey(offered)}
             J == {j \in 1..Len(remaining) : remaining[j].media = offered.media}
             exact == IF I # {} THEN Min(I) ELSE 0
             similar == IF J # {} THEN Min(J) ELSE 0
  <1>1. Match(remaining, offered) = IF exact # 0 THEN exact ELSE similar
    BY DEF Match, SelectInSeq
  <1>2. I \in SUBSET Nat /\ J \in SUBSET Nat /\ 0 \notin I /\ 0 \notin J /\ I \subseteq J
    BY DEF SectionKey
  <1>3. (exact = 0 <=> I = {}) /\ (exact # 0 => exact \in I)
    <2> HIDE DEF I
    <2> QED
      BY <1>2, SearchFinds
  <1>4. (similar = 0 <=> J = {}) /\ (similar # 0 => similar \in J)
    <2> HIDE DEF J
    <2> QED
      BY <1>2, SearchFinds
  <1> HIDE DEF exact, similar
  <1> QED
    BY <1>1, <1>2, <1>3, <1>4

\* If a section has the key of the offered one, the match has it.
LEMMA MatchHasKey ==
  ASSUME NEW remaining \in Seq(Section), NEW offered,
         \E j \in 1..Len(remaining) : SectionKey(remaining[j]) = SectionKey(offered)
  PROVE  /\ Match(remaining, offered) # 0
         /\ SectionKey(remaining[Match(remaining, offered)]) = SectionKey(offered)
  <1> DEFINE I == {j \in 1..Len(remaining) : SectionKey(remaining[j]) = SectionKey(offered)}
             exact == IF I # {} THEN Min(I) ELSE 0
  <1>1. exact # 0 => Match(remaining, offered) = exact
    BY DEF Match, SelectInSeq
  <1>2. I \in SUBSET Nat /\ 0 \notin I /\ I # {}
    OBVIOUS
  <1>3. exact # 0 /\ exact \in I
    <2> HIDE DEF I
    <2> QED
      BY <1>2, SearchFinds
  <1> HIDE DEF exact
  <1> QED
    BY <1>1, <1>3

\* The places the offer still has for a media type after its first k sections.
Later(offer, k, media) == Cardinality({j \in (k + 1)..Len(offer) : offer[j].media = media})

LEMMA LaterIsLess ==
  ASSUME NEW offer \in Seq(Section), NEW k \in 1..Len(offer), NEW media
  PROVE  /\ Later(offer, k, media) \in Nat
         /\ Later(offer, k - 1, media) =
              IF offer[k].media = media THEN Later(offer, k, media) + 1
              ELSE Later(offer, k, media)
  <1> DEFINE J == {j \in (k + 1)..Len(offer) : offer[j].media = media}
             K == {j \in ((k - 1) + 1)..Len(offer) : offer[j].media = media}
  <1>1. J \in SUBSET (1..Len(offer)) /\ Len(offer) \in Nat
    OBVIOUS
  <1>2. IsFiniteSet(J) /\ Cardinality(J) \in Nat
    BY <1>1, IntervalSize, FS_Subset, FS_CardinalityType
  <1>3. k \notin J
    OBVIOUS
  <1>4. K = IF offer[k].media = media THEN J \cup {k} ELSE J
    <2>1. \A j : j \in ((k - 1) + 1)..Len(offer) <=> j \in (k + 1)..Len(offer) \/ j = k
      OBVIOUS
    <2> QED
      BY <2>1
  <1> HIDE DEF J, K
  <1>5. Cardinality(K) = IF offer[k].media = media THEN Cardinality(J) + 1 ELSE Cardinality(J)
    BY <1>2, <1>3, <1>4, FS_AddElement
  <1> QED
    BY <1>2, <1>5 DEF Later, J, K

LEMMA RejectedIsSound ==
  ASSUME NEW x \in Section
  PROVE  /\ Rejected(x) \in Section /\ Rejected(x).open = FALSE /\ Rejected(x).dir = "inactive"
         /\ Rejected(x).media = x.media /\ Rejected(x).codecs = x.codecs
         /\ Rejected(x).mid = x.mid
  <1>1. /\ Rejected(x) \in Section /\ Rejected(x).dir = "inactive"
        /\ Rejected(x).media = x.media /\ Rejected(x).codecs = x.codecs
        /\ Rejected(x).mid = x.mid
    BY DEF Rejected, Section, Directions
  <1>2. Rejected(x).open = FALSE
    BY DEF Rejected, Section
  <1> QED
    BY <1>1, <1>2

\* What has been done when the first k sections of the offer are served.
Progress(acc, answer, offer, k) ==
  /\ acc.remaining \in Seq(Section)
  /\ acc.rebuilt \in Seq(Section) /\ Len(acc.rebuilt) = k
  /\ \A i \in 1..Len(acc.remaining) : \E j \in 1..Len(answer) : acc.remaining[i] = answer[j]
  /\ \A i \in 1..k :
       \/ acc.rebuilt[i] = Rejected(offer[i])
       \/ \E j \in 1..Len(answer) :
            acc.rebuilt[i] = answer[j] /\ answer[j].media = offer[i].media
  /\ \A media : Many(acc.remaining, media) + Many(acc.rebuilt, media) = Many(answer, media)
  /\ \A media : Many(acc.remaining, media) <= Later(offer, k, media)

LEMMA TakeProgresses ==
  ASSUME NEW answer \in Seq(Section), \A j \in 1..Len(answer) : answer[j].open = TRUE,
         NEW offer \in Seq(Section), NEW k \in 1..Len(offer),
         NEW acc, Progress(acc, answer, offer, k - 1)
  PROVE  Progress(Take(acc, offer[k]), answer, offer, k)
  <1> DEFINE R == acc.remaining
             B == acc.rebuilt
             x == offer[k]
             m == Match(R, x)
             next == Take(acc, x)
  <1>1. /\ R \in Seq(Section) /\ B \in Seq(Section) /\ Len(B) = k - 1
        /\ \A i \in 1..Len(R) : \E j \in 1..Len(answer) : R[i] = answer[j]
        /\ \A i \in 1..(k - 1) :
             \/ B[i] = Rejected(offer[i])
             \/ \E j \in 1..Len(answer) : B[i] = answer[j] /\ answer[j].media = offer[i].media
        /\ \A media : Many(R, media) + Many(B, media) = Many(answer, media)
        /\ \A media : Many(R, media) <= Later(offer, k - 1, media)
    BY DEF Progress
  <1>2. x \in Section
    OBVIOUS
  <1>3. /\ m \in 0..Len(R)
        /\ m # 0 => R[m].media = x.media
        /\ m = 0 => \A j \in 1..Len(R) : R[j].media # x.media
    BY <1>1, MatchFinds
  <1> HIDE DEF R, B, m, x
  <1>4. \A media : Many(R, media) \in Nat /\ Many(B, media) \in Nat /\ Many(answer, media) \in Nat
    BY <1>1, ManyIsFinite
  <1>5. \A media : /\ Later(offer, k, media) \in Nat
                   /\ Later(offer, k - 1, media) =
                        IF x.media = media THEN Later(offer, k, media) + 1
                        ELSE Later(offer, k, media)
    BY LaterIsLess DEF x
  <1>6. CASE m = 0
    <2>1. next = [remaining |-> R, rebuilt |-> Append(B, Rejected(x))]
      BY <1>6 DEF Take, R, B, m, x
    <2>2. Rejected(x) \in Section /\ Rejected(x).open = FALSE
      BY <1>2, RejectedIsSound
    <2> DEFINE C == Append(B, Rejected(x))
    <2>3. /\ C \in Seq(Section) /\ Len(C) = k
          /\ \A i \in 1..(k - 1) : C[i] = B[i]
          /\ C[k] = Rejected(x)
      BY <1>1, <2>2
    <2>4. \A media : Many(C, media) = Many(B, media)
      BY <1>1, <2>2, ManyAfterAppend
    <2>5. Many(R, x.media) = 0
      <3>1. DOMAIN R = 1..Len(R)
        BY <1>1
      <3>2. Indices(R, x.media) = {}
        BY <1>3, <1>6, <3>1 DEF Indices
      <3> QED
        BY <3>2, FS_EmptySet DEF Many
    <2>6. ASSUME NEW media PROVE Many(R, media) <= Later(offer, k, media)
      <3>1. Later(offer, k, media) \in Nat
        BY <1>5
      <3>2. CASE x.media = media
        BY <2>5, <3>1, <3>2
      <3>3. CASE x.media # media
        <4>1. Later(offer, k - 1, media) = Later(offer, k, media)
          BY <1>5, <3>3
        <4> QED
          BY <1>1, <4>1
      <3> QED
        BY <3>2, <3>3
    <2> HIDE DEF C
    <2>7. \A i \in 1..k :
            \/ C[i] = Rejected(offer[i])
            \/ \E j \in 1..Len(answer) : C[i] = answer[j] /\ answer[j].media = offer[i].media
      <3>1. C[k] = Rejected(offer[k])
        BY <2>3 DEF x
      <3>2. \A i \in 1..k : i = k \/ i \in 1..(k - 1)
        OBVIOUS
      <3>3. ASSUME NEW i \in 1..(k - 1)
            PROVE  \/ C[i] = Rejected(offer[i])
                   \/ \E j \in 1..Len(answer) : C[i] = answer[j] /\ answer[j].media = offer[i].media
        BY <1>1, <2>3
      <3> QED
        BY <3>1, <3>2, <3>3
    <2>8. next.remaining = R /\ next.rebuilt = C
      BY <2>1 DEF C
    <2> HIDE DEF next
    <2>9. Progress(next, answer, offer, k)
      BY <1>1, <2>3, <2>4, <2>6, <2>7, <2>8 DEF Progress
    <2> QED
      BY <2>9 DEF next, x
  <1>7. CASE m # 0
    <2> DEFINE rest == RemoveAt(R, m)
               C == Append(B, R[m])
    <2>1. next.remaining = rest /\ next.rebuilt = C
      BY <1>7 DEF Take, Unused, R, B, m, x
    <2>2. m \in 1..Len(R) /\ R[m] \in Section /\ R[m].media = x.media
      BY <1>1, <1>3, <1>7
    <2>3. PICK a \in 1..Len(answer) : R[m] = answer[a]
      BY <1>1, <2>2
    <2>4. R[m].open = TRUE
      BY <2>3
    <2>5. /\ C \in Seq(Section) /\ Len(C) = k
          /\ \A i \in 1..(k - 1) : C[i] = B[i]
          /\ C[k] = R[m]
      BY <1>1, <2>2
    <2>6. \A media : Many(C, media) = IF x.media = media THEN Many(B, media) + 1 ELSE Many(B, media)
      BY <1>1, <2>2, <2>4, ManyAfterAppend
    <2>7. \A media : Many(rest, media) = IF x.media = media THEN Many(R, media) - 1 ELSE Many(R, media)
      <3>1. DOMAIN R = 1..Len(R)
        BY <1>1
      <3>2. \A media : m \in Indices(R, media) <=> x.media = media
        BY <2>2, <2>4, <3>1 DEF Indices
      <3> QED
        BY <1>1, <2>2, <3>2, ManyAfterRemoval
    <2>8. /\ rest \in Seq(Section) /\ Len(rest) = Len(R) - 1
          /\ \A i \in 1..(Len(R) - 1) : rest[i] = R[IF i < m THEN i ELSE i + 1]
      BY <1>1, <2>2, SectionRemoved
    <2> HIDE DEF rest, C, next
    <2>9. \A i \in 1..Len(rest) : \E j \in 1..Len(answer) : rest[i] = answer[j]
      <3> SUFFICES ASSUME NEW i \in 1..(Len(R) - 1)
                   PROVE  \E j \in 1..Len(answer) : rest[i] = answer[j]
        BY <2>8
      <3> DEFINE n == IF i < m THEN i ELSE i + 1
      <3>1. n \in 1..Len(R) /\ rest[i] = R[n]
        BY <1>1, <2>2, <2>8
      <3> QED
        BY <1>1, <3>1
    <2>10. \A i \in 1..k :
             \/ C[i] = Rejected(offer[i])
             \/ \E j \in 1..Len(answer) : C[i] = answer[j] /\ answer[j].media = offer[i].media
      <3>1. C[k] = answer[a] /\ answer[a].media = offer[k].media
        BY <2>2, <2>3, <2>5 DEF x
      <3>2. \A i \in 1..k : i = k \/ i \in 1..(k - 1)
        OBVIOUS
      <3>3. ASSUME NEW i \in 1..(k - 1)
            PROVE  \/ C[i] = Rejected(offer[i])
                   \/ \E j \in 1..Len(answer) : C[i] = answer[j] /\ answer[j].media = offer[i].media
        BY <1>1, <2>5
      <3> QED
        BY <3>1, <3>2, <3>3
    <2>11. \A media : Many(rest, media) + Many(C, media) = Many(answer, media)
      BY <1>1, <1>4, <2>6, <2>7
    <2>12. ASSUME NEW media PROVE Many(rest, media) <= Later(offer, k, media)
      <3>1. /\ Later(offer, k, media) \in Nat /\ Many(R, media) \in Nat
            /\ Many(R, media) <= Later(offer, k - 1, media)
        BY <1>1, <1>4, <1>5
      <3>2. CASE x.media = media
        <4>1. /\ Later(offer, k - 1, media) = Later(offer, k, media) + 1
              /\ Many(rest, media) = Many(R, media) - 1
          BY <1>5, <2>7, <3>2
        <4> QED
          BY <3>1, <4>1
      <3>3. CASE x.media # media
        <4>1. /\ Later(offer, k - 1, media) = Later(offer, k, media)
              /\ Many(rest, media) = Many(R, media)
          BY <1>5, <2>7, <3>3
        <4> QED
          BY <3>1, <4>1
      <3> QED
        BY <3>2, <3>3
    <2>13. Progress(next, answer, offer, k)
      BY <2>1, <2>5, <2>8, <2>9, <2>10, <2>11, <2>12 DEF Progress
    <2> QED
      BY <2>13 DEF next, x
  <1> QED
    BY <1>6, <1>7

\* The answer has no more sections of a type than the offer has places for it.
LEMMA AnswerFits ==
  ASSUME NEW answer, NEW offer \in Seq(Section), NEW place, Covers(answer, offer, place),
         NEW media
  PROVE  Many(answer, media) <= Later(offer, 0, media)
  <1> DEFINE S == Indices(answer, media)
             T == {j \in (0 + 1)..Len(offer) : offer[j].media = media}
             f == [i \in S |-> place[i]]
  <1>1. /\ DOMAIN answer = 1..Len(answer) /\ place \in [1..Len(answer) -> 1..Len(offer)]
        /\ IsInjective(place)
        /\ \A i \in 1..Len(answer) : answer[i].media = offer[place[i]].media
    BY DEF Covers, IsDescription
  <1>2. \A i \in S : i \in 1..Len(answer) /\ place[i] \in T
    BY <1>1 DEF Indices
  <1>3. IsFiniteSet(T)
    <2>1. T \in SUBSET (1..Len(offer)) /\ Len(offer) \in Nat
      OBVIOUS
    <2> QED
      BY <2>1, IntervalSize, FS_Subset
  <1> HIDE DEF S, T
  <1>4. f \in Injection(S, T)
    BY <1>1, <1>2 DEF Injection, IsInjective
  <1>5. Cardinality(S) <= Cardinality(T)
    BY <1>3, <1>4, FS_Injection
  <1> QED
    BY <1>5 DEF Many, Later, S, T

LEMMA AllIsServed ==
  ASSUME NEW answer, NEW offer \in Seq(Section), NEW place, Covers(answer, offer, place)
  PROVE  \A k \in 0..Len(offer) : Progress(Taken(answer, offer)[k], answer, offer, k)
  <1> DEFINE N == Len(offer)
             taken == Taken(answer, offer)
             Served(k) == Progress(taken[k], answer, offer, k)
             failing == {k \in 0..N : ~Served(k)}
  <1>1. N \in Nat
    OBVIOUS
  <1>2. /\ taken[0] = [remaining |-> answer, rebuilt |-> <<>>]
        /\ \A k \in 1..N : taken[k] = Take(taken[k - 1], offer[k])
    BY <1>1, TakenUnfolds
  <1>3. answer \in Seq(Section) /\ \A j \in 1..Len(answer) : answer[j].open = TRUE
    BY DEF Covers, IsDescription
  <1> HIDE DEF taken
  <1>4. Served(0)
    <2>1. taken[0].remaining = answer /\ taken[0].rebuilt = <<>>
      BY <1>2
    <2>2. \A media : Many(<<>>, media) = 0
      <3>1. \A media : Indices(<<>>, media) = {}
        BY DEF Indices
      <3> QED
        BY <3>1, FS_EmptySet DEF Many
    <2>3. \A media : Many(answer, media) + Many(<<>>, media) = Many(answer, media)
      BY <1>3, <2>2, ManyIsFinite
    <2>4. \A media : Many(answer, media) <= Later(offer, 0, media)
      BY AnswerFits
    <2> QED
      BY <1>3, <2>1, <2>3, <2>4 DEF Progress
  <1>5. ASSUME NEW k \in 1..N, Served(k - 1) PROVE Served(k)
    <2>1. Progress(Take(taken[k - 1], offer[k]), answer, offer, k)
      BY <1>3, <1>5, TakeProgresses
    <2> QED
      BY <1>2, <2>1
  <1> HIDE DEF Served
  <1>6. failing = {}
    <2> SUFFICES ASSUME failing # {} PROVE FALSE
      OBVIOUS
    <2> DEFINE m == Min(failing)
    <2>1. failing \in SUBSET Nat
      OBVIOUS
    <2> HIDE DEF failing
    <2>2. m \in failing /\ \A n \in failing : m <= n
      BY <2>1, MinIsLeast
    <2> HIDE DEF m
    <2>3. m \in 0..N /\ ~Served(m)
      BY <2>2 DEF failing
    <2>4. m # 0
      BY <1>4, <2>3
    <2>5. m \in 1..N /\ m - 1 \in 0..N /\ ~(m <= m - 1)
      BY <1>1, <2>3, <2>4
    <2>6. Served(m - 1)
      BY <2>2, <2>5 DEF failing
    <2> QED
      BY <1>5, <2>3, <2>5, <2>6
  <1>7. \A k \in 0..N : Served(k)
    BY <1>6
  <1> QED
    BY <1>7 DEF Served, taken

LEMMA OthersStay ==
  ASSUME NEW s \in Seq(Section), NEW p \in 1..Len(s), NEW j \in 1..Len(s), j # p
  PROVE  \E i \in 1..Len(RemoveAt(s, p)) : RemoveAt(s, p)[i] = s[j]
  <1> DEFINE r == RemoveAt(s, p)
             i == IF j < p THEN j ELSE j - 1
  <1>1. /\ Len(r) = Len(s) - 1
        /\ \A n \in 1..(Len(s) - 1) : r[n] = s[IF n < p THEN n ELSE n + 1]
    BY SectionRemoved
  <1> HIDE DEF r
  <1>2. i \in 1..(Len(s) - 1) /\ (IF i < p THEN i ELSE i + 1) = j
    OBVIOUS
  <1> HIDE DEF i
  <1>3. r[i] = s[j]
    BY <1>1, <1>2
  <1> QED
    BY <1>1, <1>2, <1>3 DEF r

\* Of a media type answered in full: the first k sections of the offer have got
\* their answers, those of the others have not been used.
KeysLeft(acc, offer, k, media) ==
  \A i \in 1..Len(offer) : offer[i].media = media =>
    IF i <= k THEN SectionKey(acc.rebuilt[i]) = SectionKey(offer[i])
    ELSE \E j \in 1..Len(acc.remaining) :
           SectionKey(acc.remaining[j]) = SectionKey(offer[i])

LEMMA TakeKeepsKeys ==
  ASSUME NEW answer, NEW offer \in Seq(Section),
         \A i \in 1..Len(offer) : offer[i].mid = i,
         NEW k \in 1..Len(offer), NEW acc, NEW media,
         Progress(acc, answer, offer, k - 1), KeysLeft(acc, offer, k - 1, media)
  PROVE  KeysLeft(Take(acc, offer[k]), offer, k, media)
  <1> DEFINE R == acc.remaining
             B == acc.rebuilt
             x == offer[k]
             m == Match(R, x)
             next == Take(acc, x)
  <1>1. R \in Seq(Section) /\ B \in Seq(Section) /\ Len(B) = k - 1
    BY DEF Progress
  <1>2. \A i \in 1..Len(offer) : offer[i].media = media =>
          IF i <= k - 1 THEN SectionKey(B[i]) = SectionKey(offer[i])
          ELSE \E j \in 1..Len(R) : SectionKey(R[j]) = SectionKey(offer[i])
    BY DEF KeysLeft
  <1>3. x \in Section /\ x.mid = k
    OBVIOUS
  <1>4. /\ m \in 0..Len(R)
        /\ m # 0 => R[m].media = x.media
    BY <1>1, MatchFinds
  <1>5. ASSUME x.media = media PROVE m # 0 /\ SectionKey(R[m]) = SectionKey(x)
    <2>1. ~(k <= k - 1)
      OBVIOUS
    <2>2. \E j \in 1..Len(R) : SectionKey(R[j]) = SectionKey(x)
      BY <1>2, <1>5, <2>1
    <2> HIDE DEF R, x
    <2> QED
      BY <1>1, <2>2, MatchHasKey
  <1> HIDE DEF m, R, B, x
  <1> DEFINE last == IF m = 0 THEN Rejected(x) ELSE R[m]
             rest == IF m = 0 THEN R ELSE RemoveAt(R, m)
  <1>6. next.rebuilt = Append(B, last) /\ next.remaining = rest
    BY DEF Take, Unused, R, B, m, x
  <1>7. last \in Section
    <2>1. Rejected(x) \in Section
      BY <1>3, RejectedIsSound
    <2>2. m # 0 => R[m] \in Section
      BY <1>1, <1>4
    <2> QED
      BY <2>1, <2>2
  <1> HIDE DEF next, last
  <1>8. next.rebuilt[k] = last /\ \A i \in 1..(k - 1) : next.rebuilt[i] = B[i]
    BY <1>1, <1>6, <1>7
  <1>9. ASSUME NEW i \in 1..Len(offer), offer[i].media = media, i <= k
        PROVE  SectionKey(next.rebuilt[i]) = SectionKey(offer[i])
    <2>1. CASE i = k
      BY <1>5, <1>8, <1>9, <2>1 DEF last, x
    <2>2. CASE i # k
      BY <1>2, <1>8, <1>9, <2>2
    <2> QED
      BY <2>1, <2>2
  <1>10. ASSUME NEW i \in 1..Len(offer), offer[i].media = media, ~(i <= k)
         PROVE  \E j \in 1..Len(next.remaining) :
                  SectionKey(next.remaining[j]) = SectionKey(offer[i])
    <2>1. PICK j \in 1..Len(R) : SectionKey(R[j]) = SectionKey(offer[i])
      BY <1>2, <1>10
    <2>2. CASE m = 0
      BY <1>6, <2>1, <2>2
    <2>3. CASE m # 0
      <3>1. j # m
        <4>1. CASE x.media = media
          BY <1>3, <1>5, <1>10, <2>1, <4>1 DEF SectionKey
        <4>2. CASE x.media # media
          BY <1>4, <1>10, <2>1, <2>3, <4>2 DEF SectionKey
        <4> QED
          BY <4>1, <4>2
      <3>2. m \in 1..Len(R)
        BY <1>1, <1>4, <2>3
      <3>3. \E n \in 1..Len(rest) : rest[n] = R[j]
        BY <1>1, <2>3, <3>1, <3>2, OthersStay
      <3> QED
        BY <1>6, <2>1, <3>3
    <2> QED
      BY <2>2, <2>3
  <1>11. KeysLeft(next, offer, k, media)
    BY <1>9, <1>10 DEF KeysLeft
  <1> QED
    BY <1>11 DEF next, x

\* The device answers every section of that media type, each with its mid.
FullyAnswered(answer, offer, media) ==
  \A i \in 1..Len(offer) : offer[i].media = media =>
    \E j \in 1..Len(answer) : SectionKey(answer[j]) = SectionKey(offer[i])

LEMMA KeysAreTaken ==
  ASSUME NEW answer, NEW offer, NEW place, IsOffer(offer), Covers(answer, offer, place),
         NEW media, FullyAnswered(answer, offer, media)
  PROVE  KeysLeft(Taken(answer, offer)[Len(offer)], offer, Len(offer), media)
  <1> DEFINE N == Len(offer)
             taken == Taken(answer, offer)
             Served(k) == KeysLeft(taken[k], offer, k, media)
             failing == {k \in 0..N : ~Served(k)}
  <1>1. /\ offer \in Seq(Section) /\ N \in Nat
        /\ \A i \in 1..N : offer[i].mid = i
    BY DEF IsOffer, IsDescription
  <1>2. /\ taken[0] = [remaining |-> answer, rebuilt |-> <<>>]
        /\ \A k \in 1..N : taken[k] = Take(taken[k - 1], offer[k])
    BY <1>1, TakenUnfolds
  <1>3. \A k \in 0..N : Progress(taken[k], answer, offer, k)
    BY <1>1, AllIsServed
  <1> HIDE DEF taken
  <1>4. Served(0)
    BY <1>1, <1>2 DEF KeysLeft, FullyAnswered
  <1>5. ASSUME NEW k \in 1..N, Served(k - 1) PROVE Served(k)
    <2>1. Progress(taken[k - 1], answer, offer, k - 1)
      BY <1>1, <1>3
    <2>2. KeysLeft(Take(taken[k - 1], offer[k]), offer, k, media)
      BY <1>1, <1>5, <2>1, TakeKeepsKeys
    <2> QED
      BY <1>2, <2>2
  <1> HIDE DEF Served
  <1>6. failing = {}
    <2> SUFFICES ASSUME failing # {} PROVE FALSE
      OBVIOUS
    <2> DEFINE n == Min(failing)
    <2>1. failing \in SUBSET Nat
      OBVIOUS
    <2> HIDE DEF failing
    <2>2. n \in failing /\ \A k \in failing : n <= k
      BY <2>1, MinIsLeast
    <2> HIDE DEF n
    <2>3. n \in 0..N /\ ~Served(n)
      BY <2>2 DEF failing
    <2>4. n # 0
      BY <1>4, <2>3
    <2>5. n \in 1..N /\ n - 1 \in 0..N /\ ~(n <= n - 1)
      BY <1>1, <2>3, <2>4
    <2>6. Served(n - 1)
      BY <2>2, <2>5 DEF failing
    <2> QED
      BY <1>5, <2>3, <2>5, <2>6
  <1>7. Served(N)
    BY <1>1, <1>6
  <1> QED
    BY <1>7 DEF Served, taken

LEMMA RejoinedIsSound ==
  ASSUME NEW s \in Seq(Section)
  PROVE  /\ Rejoined(s) \in Seq(Section) /\ Len(Rejoined(s)) = Len(s)
         /\ \A i \in 1..Len(s) :
              /\ Rejoined(s)[i].media = s[i].media /\ Rejoined(s)[i].dir = s[i].dir
              /\ Rejoined(s)[i].codecs = s[i].codecs /\ Rejoined(s)[i].mid = s[i].mid
              /\ Rejoined(s)[i].open = s[i].open
              /\ Rejoined(s)[i].last = (i = Len(s))
         /\ \A media : Many(Rejoined(s), media) = Many(s, media)
  <1> DEFINE r == Rejoined(s)
             n == Len(s)
  <1>1. DOMAIN s = 1..n /\ n \in Nat
    OBVIOUS
  <1>2. r = [i \in 1..n |-> [s[i] EXCEPT !.last = (i = n)]]
    BY <1>1 DEF Rejoined
  <1> HIDE DEF r
  <1>3. ASSUME NEW i \in 1..n
        PROVE  /\ r[i] \in Section
               /\ r[i].media = s[i].media /\ r[i].dir = s[i].dir
               /\ r[i].codecs = s[i].codecs /\ r[i].mid = s[i].mid
               /\ r[i].open = s[i].open /\ r[i].last = (i = n)
    <2>1. s[i] \in Section /\ r[i] = [s[i] EXCEPT !.last = (i = n)]
      BY <1>2
    <2>2. /\ r[i] \in Section
          /\ r[i].media = s[i].media /\ r[i].dir = s[i].dir
          /\ r[i].codecs = s[i].codecs /\ r[i].mid = s[i].mid
      BY <2>1 DEF Section
    <2>3. r[i].open = s[i].open
      BY <2>1 DEF Section
    <2>4. r[i].last = (i = n)
      BY <2>1 DEF Section
    <2> QED
      BY <2>2, <2>3, <2>4
  <1>4. r \in [1..n -> Section]
    BY <1>2, <1>3
  <1>5. r \in Seq(Section) /\ Len(r) = n /\ DOMAIN r = 1..n
    BY <1>1, <1>4, FunctionIsSeq
  <1>6. \A media : Indices(r, media) = Indices(s, media)
    BY <1>1, <1>3, <1>5 DEF Indices
  <1>7. \A media : Many(r, media) = Many(s, media)
    BY <1>6 DEF Many
  <1> QED
    BY <1>3, <1>5, <1>7 DEF r

\* A section the browser gets: one of the device's for its media type, or a
\* rejection of the one it has offered.
Serves(section, answer, offered) ==
  \/ /\ section.open = FALSE /\ section.dir = "inactive"
     /\ section.codecs = offered.codecs /\ section.mid = offered.mid
  \/ \E j \in 1..Len(answer) :
       /\ answer[j].media = offered.media
       /\ section.dir = answer[j].dir
       /\ section.codecs = answer[j].codecs /\ section.mid = answer[j].mid

IsAligned(sdp, answer, offer) ==
  /\ IsDescription(sdp) /\ Len(sdp) = Len(offer)
  /\ \A k \in 1..Len(offer) :
       /\ sdp[k].media = offer[k].media
       /\ sdp[k].last = (k = Len(offer))
       /\ Serves(sdp[k], answer, offer[k])
  /\ \A media : Many(sdp, media) = Many(answer, media)

LEMMA Alignment ==
  ASSUME NEW answer, NEW offer, NEW place, IsOffer(offer), Covers(answer, offer, place)
  PROVE  IsAligned(AlignAnswerWithOffer(answer, offer), answer, offer)
  <1> DEFINE N == Len(offer)
  <1>1. /\ offer \in Seq(Section) /\ DOMAIN offer = 1..N /\ N \in Nat
        /\ answer \in Seq(Section) /\ DOMAIN answer = 1..Len(answer)
    BY DEF IsOffer, Covers, IsDescription
  <1>2. CASE LinesUp(answer, offer)
    <2>1. Len(answer) = N /\ \A k \in 1..N : answer[k].media = offer[k].media
      BY <1>1, <1>2 DEF LinesUp, SameKeys, SectionKey
    <2>2. IsDescription(answer) /\ \A k \in 1..N : answer[k].last = (k = N)
      BY <2>1 DEF Covers
    <2>3. \A k \in 1..N : Serves(answer[k], answer, offer[k])
      BY <2>1 DEF Serves
    <2>4. IsAligned(answer, answer, offer)
      BY <2>1, <2>2, <2>3 DEF IsAligned
    <2> QED
      BY <1>2, <2>4 DEF AlignAnswerWithOffer
  <1>3. CASE ~LinesUp(answer, offer)
    <2> DEFINE acc == Taken(answer, offer)[N]
               B == acc.rebuilt
               D == Rejoined(B)
    <2>1. AlignAnswerWithOffer(answer, offer) = D
      BY <1>3 DEF AlignAnswerWithOffer
    <2>2. Progress(acc, answer, offer, N)
      <3>1. N \in 0..N
        BY <1>1
      <3> QED
        BY <1>1, <3>1, AllIsServed
    <2>3. /\ B \in Seq(Section) /\ Len(B) = N
          /\ \A k \in 1..N :
               \/ B[k] = Rejected(offer[k])
               \/ \E j \in 1..Len(answer) : B[k] = answer[j] /\ answer[j].media = offer[k].media
      BY <2>2 DEF Progress
    <2>4. \A media : Many(B, media) = Many(answer, media)
      <3> SUFFICES ASSUME NEW media PROVE Many(B, media) = Many(answer, media)
        OBVIOUS
      <3>1. Later(offer, N, media) = 0
        <4>1. (N + 1)..Len(offer) = {}
          BY <1>1
        <4> QED
          BY <4>1, FS_EmptySet DEF Later
      <3>2. /\ acc.remaining \in Seq(Section)
            /\ Many(acc.remaining, media) + Many(B, media) = Many(answer, media)
            /\ Many(acc.remaining, media) <= Later(offer, N, media)
        BY <2>2 DEF Progress
      <3>3. Many(acc.remaining, media) \in Nat /\ Many(B, media) \in Nat
        BY <2>3, <3>2, ManyIsFinite
      <3> QED
        BY <3>1, <3>2, <3>3
    <2> HIDE DEF B, acc
    <2>5. /\ D \in Seq(Section) /\ Len(D) = N
          /\ \A i \in 1..N :
               /\ D[i].media = B[i].media /\ D[i].dir = B[i].dir
               /\ D[i].codecs = B[i].codecs /\ D[i].mid = B[i].mid
               /\ D[i].open = B[i].open
               /\ D[i].last = (i = N)
          /\ \A media : Many(D, media) = Many(B, media)
      BY <2>3, RejoinedIsSound
    <2> HIDE DEF D
    <2>6. ASSUME NEW k \in 1..N
          PROVE  /\ D[k].media = offer[k].media
                 /\ Serves(D[k], answer, offer[k])
                 /\ D[k].media = "video" => D[k].codecs # {}
      <3>1. offer[k] \in Section /\ (offer[k].media = "video" => offer[k].codecs # {})
        BY <1>1 DEF IsOffer, IsDescription
      <3>2. /\ D[k].media = B[k].media /\ D[k].dir = B[k].dir
            /\ D[k].codecs = B[k].codecs /\ D[k].mid = B[k].mid
        BY <2>5
      <3>3. CASE B[k] = Rejected(offer[k])
        <4>1. /\ Rejected(offer[k]).dir = "inactive"
              /\ Rejected(offer[k]).media = offer[k].media
              /\ Rejected(offer[k]).codecs = offer[k].codecs
              /\ Rejected(offer[k]).mid = offer[k].mid
          BY <3>1, RejectedIsSound
        <4>2. D[k].open = FALSE
          <5>1. D[k].open = B[k].open
            BY <2>5
          <5>2. B[k].open = FALSE
            BY <3>1, <3>3, RejectedIsSound
          <5> QED
            BY <5>1, <5>2
        <4>3. Serves(D[k], answer, offer[k])
          BY <3>2, <3>3, <4>1, <4>2 DEF Serves
        <4> QED
          BY <3>1, <3>2, <3>3, <4>1, <4>3
      <3>4. CASE \E j \in 1..Len(answer) : B[k] = answer[j] /\ answer[j].media = offer[k].media
        <4>1. PICK j \in 1..Len(answer) : B[k] = answer[j] /\ answer[j].media = offer[k].media
          BY <3>4
        <4>2. answer[j].media = "video" => answer[j].codecs # {}
          BY <1>1 DEF Covers, IsDescription
        <4>3. Serves(D[k], answer, offer[k])
          BY <3>2, <4>1 DEF Serves
        <4> QED
          BY <3>2, <4>1, <4>2, <4>3
      <3> QED
        BY <2>3, <3>3, <3>4
    <2>7. DOMAIN D = 1..N
      BY <2>5
    <2>8. IsDescription(D)
      BY <2>5, <2>6, <2>7 DEF IsDescription
    <2>9. \A media : Many(D, media) = Many(answer, media)
      BY <2>4, <2>5
    <2>10. \A k \in 1..N : D[k].last = (k = N)
      BY <2>5
    <2>11. IsAligned(D, answer, offer)
      BY <2>5, <2>6, <2>8, <2>9, <2>10 DEF IsAligned
    <2> QED
      BY <2>1, <2>11
  <1> QED
    BY <1>2, <1>3

LEMMA KeysKept ==
  ASSUME NEW answer, NEW offer, NEW place, IsOffer(offer), Covers(answer, offer, place),
         NEW k \in 1..Len(offer), FullyAnswered(answer, offer, offer[k].media)
  PROVE  SectionKey(AlignAnswerWithOffer(answer, offer)[k]) = SectionKey(offer[k])
  <1>1. offer \in Seq(Section) /\ DOMAIN offer = 1..Len(offer) /\ Len(offer) \in Nat
    BY DEF IsOffer, IsDescription
  <1>2. CASE LinesUp(answer, offer)
    BY <1>1, <1>2 DEF AlignAnswerWithOffer, LinesUp, SameKeys
  <1>3. CASE ~LinesUp(answer, offer)
    <2> DEFINE acc == Taken(answer, offer)[Len(offer)]
               B == acc.rebuilt
    <2>1. AlignAnswerWithOffer(answer, offer) = Rejoined(B)
      BY <1>3 DEF AlignAnswerWithOffer
    <2>2. KeysLeft(acc, offer, Len(offer), offer[k].media)
      BY KeysAreTaken
    <2>3. SectionKey(B[k]) = SectionKey(offer[k])
      <3>1. k <= Len(offer)
        BY <1>1
      <3> QED
        BY <2>2, <3>1 DEF KeysLeft
    <2>4. B \in Seq(Section) /\ Len(B) = Len(offer)
      <3>1. Len(offer) \in 0..Len(offer)
        BY <1>1
      <3> QED
        BY <1>1, <3>1, AllIsServed DEF Progress
    <2> HIDE DEF B
    <2>5. SectionKey(Rejoined(B)[k]) = SectionKey(B[k])
      BY <2>4, RejoinedIsSound DEF SectionKey
    <2> QED
      BY <2>1, <2>3, <2>5
  <1> QED
    BY <1>2, <1>3

-----------------------------------------------------------------------------
(* Answer mode: the ringing device's sections in the offer's order *)

LEMMA RanksGrow ==
  ASSUME NEW moves \in SUBSET (Nat \X Nat), IsFiniteSet(moves)
  PROVE  /\ \A p \in moves : MoveRank(moves, p) \in 1..Cardinality(moves)
         /\ \A p, q \in moves :
              p # q => /\ MoveRank(moves, p) # MoveRank(moves, q)
                       /\ MoveRank(moves, p) < MoveRank(moves, q) => NotAfter(p, q)
  <1> DEFINE upTo(p) == {q \in moves : NotAfter(q, p)}
  <1>1. \A p \in moves : IsFiniteSet(upTo(p)) /\ Cardinality(upTo(p)) \in Nat
                         /\ Cardinality(upTo(p)) <= Cardinality(moves)
    BY FS_Subset, FS_CardinalityType
  <1>2. \A p \in moves : p[1] \in Nat /\ p[2] \in Nat /\ p = <<p[1], p[2]>>
    OBVIOUS
  <1>3. \A p \in moves : p \in upTo(p)
    BY <1>2 DEF NotAfter
  <1>4. \A p \in moves : Cardinality(upTo(p)) \in 1..Cardinality(moves)
    <2> SUFFICES ASSUME NEW p \in moves PROVE Cardinality(upTo(p)) # 0
      BY <1>1, FS_CardinalityType
    <2>1. upTo(p) # {}
      BY <1>3
    <2> HIDE DEF upTo
    <2> QED
      BY <1>1, <2>1, FS_EmptySet
  <1>5. \A p, q \in moves : NotAfter(p, q) \/ NotAfter(q, p)
    BY <1>2 DEF NotAfter
  <1>6. ASSUME NEW p \in moves, NEW q \in moves, p # q, NotAfter(p, q)
        PROVE  Cardinality(upTo(p)) < Cardinality(upTo(q))
    <2>1. q \notin upTo(p)
      BY <1>2, <1>6 DEF NotAfter
    <2>2. upTo(p) \subseteq upTo(q)
      BY <1>2, <1>6 DEF NotAfter
    <2>3. q \in upTo(q)
      BY <1>3
    <2> HIDE DEF upTo
    <2>4. upTo(p) # upTo(q)
      BY <2>1, <2>3
    <2>5. Cardinality(upTo(p)) <= Cardinality(upTo(q)) /\ Cardinality(upTo(p)) # Cardinality(upTo(q))
      BY <1>1, <2>2, <2>4, FS_Subset
    <2> QED
      BY <1>1, <2>5
  <1>7. \A p : MoveRank(moves, p) = Cardinality(upTo(p))
    BY DEF MoveRank
  <1> HIDE DEF upTo
  <1>8. ASSUME NEW p \in moves, NEW q \in moves, p # q
        PROVE  /\ MoveRank(moves, p) # MoveRank(moves, q)
               /\ MoveRank(moves, p) < MoveRank(moves, q) => NotAfter(p, q)
    <2>1. CASE NotAfter(p, q)
      BY <1>1, <1>6, <1>7, <1>8, <2>1
    <2>2. CASE NotAfter(q, p)
      <3>1. MoveRank(moves, q) < MoveRank(moves, p)
        BY <1>6, <1>7, <1>8, <2>2
      <3>2. MoveRank(moves, q) \in Nat /\ MoveRank(moves, p) \in Nat
        BY <1>1, <1>7
      <3> QED
        BY <3>1, <3>2
    <2> QED
      BY <1>5, <2>1, <2>2
  <1> QED
    BY <1>4, <1>7, <1>8

\* Every rank is that of a move.
LEMMA RanksAreAll ==
  ASSUME NEW moves \in SUBSET (Nat \X Nat), IsFiniteSet(moves)
  PROVE  \A n \in 1..Cardinality(moves) : \E p \in moves : MoveRank(moves, p) = n
  <1> DEFINE T == 1..Cardinality(moves)
             f == [p \in moves |-> MoveRank(moves, p)]
  <1>1. Cardinality(moves) \in Nat
    BY FS_CardinalityType
  <1>2. IsFiniteSet(T) /\ Cardinality(T) = Cardinality(moves)
    BY <1>1, IntervalSize
  <1>3. /\ \A p \in moves : MoveRank(moves, p) \in T
        /\ \A p, q \in moves : p # q => MoveRank(moves, p) # MoveRank(moves, q)
    BY RanksGrow
  <1> HIDE DEF T
  <1>4. f \in [moves -> T] /\ \A p \in moves : f[p] = MoveRank(moves, p)
    BY <1>3
  <1>5. f \in Injection(moves, T)
    BY <1>3, <1>4 DEF Injection, IsInjective
  <1>6. f \in Surjection(moves, T)
    BY <1>2, <1>5, FS_Injection
  <1> QED
    BY <1>4, <1>6 DEF Surjection, T

\* The sections of sdp come in the order in which the offer has their types.
InOfferOrder(sdp, offer) ==
  \A m, n \in DOMAIN sdp, i, j \in DOMAIN offer :
    m < n /\ sdp[m].media = offer[i].media /\ sdp[n].media = offer[j].media => i < j

LEMMA ReorderIsSound ==
  ASSUME NEW s, IsDescription(s), NEW offer, IsDescription(offer)
  PROVE  /\ IsDescription(ReorderMlines(s, offer))
         /\ MediaTypes(ReorderMlines(s, offer)) = MediaTypes(s) \cap MediaTypes(offer)
         /\ OneOfEachMedia(s) /\ OneOfEachMedia(offer) => InOfferOrder(ReorderMlines(s, offer), offer)
  <1> DEFINE moves == Moves(s, offer)
             Move(n) == CHOOSE p \in moves : MoveRank(moves, p) = n
             N == Cardinality(moves)
             r == [n \in 1..N |-> s[Move(n)[2]]]
  <1>1. /\ s \in Seq(Section) /\ DOMAIN s = 1..Len(s) /\ Len(s) \in Nat
        /\ offer \in Seq(Section) /\ DOMAIN offer = 1..Len(offer) /\ Len(offer) \in Nat
    BY DEF IsDescription
  <1>2. CASE Medias(s) = Medias(offer)
    <2>1. ReorderMlines(s, offer) = s
      BY <1>2 DEF ReorderMlines
    <2>2. DOMAIN s = DOMAIN offer /\ \A i \in DOMAIN s : s[i].media = offer[i].media
      <3>1. DOMAIN Medias(s) = DOMAIN s /\ DOMAIN Medias(offer) = DOMAIN offer
        BY DEF Medias
      <3>2. \A i \in DOMAIN s : Medias(s)[i] = s[i].media
        BY DEF Medias
      <3>3. \A i \in DOMAIN offer : Medias(offer)[i] = offer[i].media
        BY DEF Medias
      <3> QED
        BY <1>2, <3>1, <3>2, <3>3
    <2>3. MediaTypes(s) = MediaTypes(offer)
      BY <2>2 DEF MediaTypes
    <2>4. OneOfEachMedia(offer) => InOfferOrder(s, offer)
      <3> SUFFICES ASSUME OneOfEachMedia(offer), NEW m \in DOMAIN s, NEW n \in DOMAIN s,
                          NEW i \in DOMAIN offer, NEW j \in DOMAIN offer, m < n,
                          s[m].media = offer[i].media, s[n].media = offer[j].media
                   PROVE  i < j
        BY DEF InOfferOrder
      <3>1. m = i /\ n = j
        BY <2>2 DEF OneOfEachMedia
      <3> QED
        BY <3>1
    <2> QED
      BY <2>1, <2>3, <2>4
  <1>3. CASE Medias(s) # Medias(offer)
    <2>1. ReorderMlines(s, offer) = r
      BY <1>3 DEF ReorderMlines
    <2>2. moves \in SUBSET ((1..Len(offer)) \X (1..Len(s)))
      BY <1>1 DEF Moves
    <2>3. IsFiniteSet(moves) /\ N \in Nat /\ moves \in SUBSET (Nat \X Nat)
      <3>1. IsFiniteSet(1..Len(offer)) /\ IsFiniteSet(1..Len(s))
        BY <1>1, IntervalSize
      <3>2. IsFiniteSet((1..Len(offer)) \X (1..Len(s)))
        BY <3>1, FS_Product
      <3> HIDE DEF moves
      <3>3. IsFiniteSet(moves)
        BY <2>2, <3>2, FS_Subset
      <3>4. moves \in SUBSET (Nat \X Nat)
        BY <2>2
      <3> QED
        BY <3>3, <3>4, FS_CardinalityType
    <2>4. \A p \in moves : /\ p[1] \in 1..Len(offer) /\ p[2] \in 1..Len(s)
                           /\ p = <<p[1], p[2]>> /\ s[p[2]].media = offer[p[1]].media
      BY <1>1 DEF Moves
    <2>5. \A i \in 1..Len(offer), j \in 1..Len(s) :
            s[j].media = offer[i].media => <<i, j>> \in moves
      BY <1>1 DEF Moves
    <2> HIDE DEF moves
    <2>6. \A n \in 1..N : Move(n) \in moves /\ MoveRank(moves, Move(n)) = n
      BY <2>3, RanksAreAll
    <2>7. \A p \in moves : MoveRank(moves, p) \in 1..N
      BY <2>3, RanksGrow
    <2>8. \A p, q \in moves : p # q => /\ MoveRank(moves, p) # MoveRank(moves, q)
                                       /\ MoveRank(moves, p) < MoveRank(moves, q) => NotAfter(p, q)
      BY <2>3, RanksGrow
    <2> HIDE DEF Move, N
    <2>9. ASSUME NEW n \in 1..N
          PROVE  /\ Move(n) \in moves /\ r[n] = s[Move(n)[2]] /\ r[n] \in Section
                 /\ Move(n)[1] \in 1..Len(offer) /\ Move(n)[2] \in 1..Len(s)
                 /\ r[n].media = offer[Move(n)[1]].media
                 /\ r[n].media = "video" => r[n].codecs # {}
      <3>1. /\ Move(n) \in moves /\ Move(n)[1] \in 1..Len(offer) /\ Move(n)[2] \in 1..Len(s)
            /\ s[Move(n)[2]].media = offer[Move(n)[1]].media
        BY <2>4, <2>6
      <3>2. r[n] = s[Move(n)[2]]
        OBVIOUS
      <3>3. s[Move(n)[2]].media = "video" => s[Move(n)[2]].codecs # {}
        BY <1>1, <3>1 DEF IsDescription
      <3> QED
        BY <1>1, <3>1, <3>2, <3>3
    <2>10. r = [n \in 1..N |-> r[n]] /\ DOMAIN r = 1..N
      OBVIOUS
    <2> HIDE DEF r
    <2>11. r \in Seq(Section)
      <3>1. r \in [1..N -> Section]
        BY <2>9, <2>10
      <3> QED
        BY <2>3, <3>1, FunctionIsSeq
    <2>12. IsDescription(r)
      BY <2>9, <2>10, <2>11 DEF IsDescription
    <2>13. MediaTypes(r) = MediaTypes(s) \cap MediaTypes(offer)
      <3>1. \A n \in 1..N : /\ r[n].media \in MediaTypes(s)
                            /\ r[n].media \in MediaTypes(offer)
        BY <1>1, <2>9 DEF MediaTypes
      <3>2. ASSUME NEW j \in 1..Len(s), NEW i \in 1..Len(offer), s[j].media = offer[i].media
            PROVE  s[j].media \in MediaTypes(r)
        <4>1. <<i, j>> \in moves
          BY <2>5, <3>2
        <4> DEFINE n == MoveRank(moves, <<i, j>>)
        <4>2. n \in 1..N
          BY <2>7, <4>1
        <4>3. Move(n) = <<i, j>>
          BY <2>6, <2>8, <4>1, <4>2
        <4> HIDE DEF n
        <4>4. r[n] = s[j]
          BY <2>9, <4>2, <4>3
        <4> QED
          BY <2>10, <4>2, <4>4 DEF MediaTypes
      <3>3. MediaTypes(r) \subseteq MediaTypes(s) \cap MediaTypes(offer)
        BY <2>10, <3>1 DEF MediaTypes
      <3>4. MediaTypes(s) \cap MediaTypes(offer) \subseteq MediaTypes(r)
        <4> SUFFICES ASSUME NEW j \in 1..Len(s), NEW i \in 1..Len(offer),
                            s[j].media = offer[i].media
                     PROVE  s[j].media \in MediaTypes(r)
          BY <1>1 DEF MediaTypes
        <4> QED
          BY <3>2
      <3> QED
        BY <3>3, <3>4
    <2>14. ASSUME OneOfEachMedia(s), OneOfEachMedia(offer) PROVE InOfferOrder(r, offer)
      <3> SUFFICES ASSUME NEW m \in 1..N, NEW n \in 1..N,
                          NEW i \in 1..Len(offer), NEW j \in 1..Len(offer), m < n,
                          r[m].media = offer[i].media, r[n].media = offer[j].media
                   PROVE  i < j
        BY <1>1, <2>10 DEF InOfferOrder
      <3> DEFINE p == Move(m)
                 q == Move(n)
      <3>1. /\ p \in moves /\ q \in moves
            /\ MoveRank(moves, p) = m /\ MoveRank(moves, q) = n
        BY <2>6
      <3>2. p[1] = i /\ q[1] = j
        BY <1>1, <2>9, <2>14 DEF OneOfEachMedia
      <3>3. r[m] = s[p[2]] /\ r[n] = s[q[2]] /\ p[2] \in 1..Len(s) /\ q[2] \in 1..Len(s)
        BY <2>9
      <3> HIDE DEF p, q
      <3>4. p # q /\ NotAfter(p, q)
        BY <2>8, <3>1
      <3>5. i # j
        <4> SUFFICES ASSUME i = j PROVE FALSE
          OBVIOUS
        <4>1. p[2] = q[2]
          BY <1>1, <2>14, <3>3 DEF OneOfEachMedia
        <4>2. p = q
          BY <2>4, <3>1, <3>2, <4>1
        <4> QED
          BY <3>4, <4>2
      <3> QED
        BY <3>2, <3>4, <3>5 DEF NotAfter
    <2> QED
      BY <2>1, <2>12, <2>13, <2>14
  <1> QED
    BY <1>2, <1>3

-----------------------------------------------------------------------------
(* Directions *)

LEMMA Replies ==
  /\ Compatible("sendrecv") = Directions
  /\ Compatible("sendonly") = {"recvonly", "inactive"}
  /\ Compatible("recvonly") = {"sendonly", "inactive"}
  /\ Compatible("inactive") = {"inactive"}
  /\ \A dir \in Directions : "inactive" \in Compatible(dir)
  BY DEF Compatible, Directions

LEMMA RewrittenIff ==
  ASSUME NEW s, IsDescription(s)
  PROVE  AudioWasRewritten(s) <=> \E i \in 1..Len(s) : IsAudio(s[i]) /\ s[i].dir = "recvonly"
  <1> DEFINE r == EnableAudioSendrecv(s)
  <1>1. s \in Seq(Section) /\ DOMAIN s = 1..Len(s)
    BY DEF IsDescription
  <1>2. ASSUME NEW i \in 1..Len(s), IsAudio(s[i]), s[i].dir = "recvonly"
        PROVE  r # s
    <2>1. r[i].dir = "sendrecv"
      BY <1>1, <1>2, EnableResembles DEF Resembles
    <2> QED
      BY <1>2, <2>1
  <1>3. ASSUME ~\E i \in 1..Len(s) : IsAudio(s[i]) /\ s[i].dir = "recvonly"
        PROVE  r = s
    <2>1. r = [i \in 1..Len(s) |-> s[i]]
      BY <1>1, <1>3 DEF EnableAudioSendrecv
    <2>2. s = [i \in 1..Len(s) |-> s[i]]
      BY <1>1
    <2> QED
      BY <2>1, <2>2
  <1> QED
    BY <1>2, <1>3 DEF AudioWasRewritten

\* What was rewritten in the offer is undone in the answer, and only that.
LEMMA DirectionsReply ==
  ASSUME NEW offer, IsOffer(offer), OneOfEachMedia(offer),
         NEW answer, NEW place, Covers(answer, offer, place),
         \A i \in 1..Len(answer) : answer[i].dir \in Compatible(Prepared(offer)[place[i]].dir),
         NEW fixed,
         fixed = IF AudioWasRewritten(offer) THEN FixAnswerAudioDirection(answer) ELSE answer
  PROVE  \A i \in 1..Len(answer) :
           /\ fixed[i].dir \in Compatible(offer[place[i]].dir)
           /\ IsAudio(offer[place[i]]) /\ offer[place[i]].dir = "sendrecv"
                => fixed[i].dir = answer[i].dir
  <1> SUFFICES ASSUME NEW i \in 1..Len(answer)
               PROVE  /\ fixed[i].dir \in Compatible(offer[place[i]].dir)
                      /\ IsAudio(offer[place[i]]) /\ offer[place[i]].dir = "sendrecv"
                           => fixed[i].dir = answer[i].dir
    OBVIOUS
  <1> DEFINE k == place[i]
  <1>1. /\ IsDescription(offer) /\ offer \in Seq(Section) /\ DOMAIN offer = 1..Len(offer)
        /\ IsDescription(answer) /\ answer \in Seq(Section)
        /\ k \in 1..Len(offer) /\ answer[i].media = offer[k].media
    <2>1. IsDescription(offer)
      BY DEF IsOffer
    <2>2. /\ IsDescription(answer)
          /\ place \in [1..Len(answer) -> 1..Len(offer)]
          /\ \A n \in 1..Len(answer) : answer[n].media = offer[place[n]].media
      BY DEF Covers
    <2>3. offer \in Seq(Section) /\ DOMAIN offer = 1..Len(offer) /\ answer \in Seq(Section)
      BY <2>1, <2>2 DEF IsDescription
    <2> QED
      BY <2>1, <2>2, <2>3
  <1>2. answer[i].dir \in Directions /\ offer[k].dir \in Directions
    <2>1. answer[i] \in Section /\ offer[k] \in Section
      BY <1>1
    <2> QED
      BY <2>1 DEF Section
  <1>3. Prepared(offer)[k].dir =
          IF IsAudio(offer[k]) /\ offer[k].dir = "recvonly" THEN "sendrecv" ELSE offer[k].dir
    BY <1>1, PreparedResembles DEF Resembles
  <1>4. AudioWasRewritten(offer) =>
          fixed[i].dir = IF IsAudio(answer[i]) /\ answer[i].dir \in {"sendrecv", "recvonly"}
                         THEN "sendonly" ELSE answer[i].dir
    BY FixedCovers
  <1>5. ~AudioWasRewritten(offer) => fixed[i].dir = answer[i].dir
    OBVIOUS
  <1>6. answer[i].dir \in Compatible(Prepared(offer)[k].dir)
    OBVIOUS
  <1> HIDE DEF k
  <1>7. CASE IsAudio(offer[k]) /\ offer[k].dir = "recvonly"
    <2>1. AudioWasRewritten(offer)
      BY <1>1, <1>7, RewrittenIff
    <2>2. IsAudio(answer[i])
      BY <1>1, <1>7 DEF IsAudio
    <2>3. fixed[i].dir \in {"sendonly", "inactive"}
      BY <1>2, <1>4, <2>1, <2>2 DEF Directions
    <2> QED
      BY <1>7, <2>3, Replies DEF k
  <1>8. CASE IsAudio(offer[k]) /\ offer[k].dir # "recvonly"
    <2>1. ~AudioWasRewritten(offer)
      <3> SUFFICES ASSUME AudioWasRewritten(offer) PROVE FALSE
        OBVIOUS
      <3>1. PICK j \in 1..Len(offer) : IsAudio(offer[j]) /\ offer[j].dir = "recvonly"
        BY <1>1, RewrittenIff
      <3>2. j = k
        BY <1>1, <1>8, <3>1 DEF OneOfEachMedia, IsAudio
      <3> QED
        BY <1>8, <3>1, <3>2
    <2> QED
      BY <1>3, <1>5, <1>6, <1>8, <2>1 DEF k
  <1>9. CASE ~IsAudio(offer[k])
    <2>1. ~IsAudio(answer[i])
      BY <1>1, <1>9 DEF IsAudio
    <2>2. fixed[i].dir = answer[i].dir
      BY <1>4, <1>5, <2>1
    <2> QED
      BY <1>3, <1>6, <1>9, <2>2 DEF k
  <1> QED
    BY <1>7, <1>8, <1>9

-----------------------------------------------------------------------------
(* The steps *)

LEMMA InitInv == Init => IInv
  <1> SUFFICES ASSUME Init PROVE IInv
    OBVIOUS
  <1>1. IsDescription(<<>>)
    BY DEF IsDescription
  <1> QED
    BY <1>1 DEF Init, IInv, TypeOK, OfferIsKept, AnswersLineUp, AcceptedMediaSurvive,
                AnswersAreCompatible

LEMMA CloseKeepsIInv ==
  ASSUME IInv, Close
  PROVE  IInv'
  <1>1. IsDescription(<<>>)
    BY DEF IsDescription
  <1>2. /\ stage' = "idle" /\ browserOffer' = <<>> /\ sent' = <<>>
        /\ received' = <<>> /\ delivered' = <<>>
    BY DEF Close
  <1>3. TypeOK'
    BY <1>1, <1>2 DEF TypeOK, IsDescription
  <1> QED
    BY <1>2, <1>3 DEF IInv, OfferIsKept, AnswersLineUp, AcceptedMediaSurvive, AnswersAreCompatible

LEMMA SendOfferKeepsIInv ==
  ASSUME IInv, NEW sdp, IsOffer(sdp), SendOffer(sdp)
  PROVE  IInv'
  <1>1. /\ stage' = "offered" /\ browserOffer' = sdp /\ sent' = Prepared(sdp)
        /\ received' = <<>> /\ delivered' = <<>>
    BY DEF SendOffer
  <1>2. IsDescription(<<>>) /\ IsDescription(sdp) /\ IsDescription(Prepared(sdp))
    BY PreparedResembles DEF IsOffer, Resembles, IsDescription
  <1>3. TypeOK'
    BY <1>1, <1>2 DEF TypeOK, IsDescription
  <1>4. OfferIsKept'
    BY <1>1 DEF OfferIsKept, IsOffer, IsDescription
  <1> QED
    BY <1>1, <1>3, <1>4 DEF IInv, AnswersLineUp, AcceptedMediaSurvive, AnswersAreCompatible

LEMMA ConvertedIsDescription ==
  ASSUME NEW s, IsDescription(s)
  PROVE  IsDescription(ConvertOfferToAnswer(s))
  <1> DEFINE r == ConvertOfferToAnswer(s)
  <1>1. s \in Seq(Section) /\ DOMAIN s = 1..Len(s) /\ Len(s) \in Nat
    BY DEF IsDescription
  <1>2. r = [i \in 1..Len(s) |-> [s[i] EXCEPT !.setup = "active"]]
    BY <1>1 DEF ConvertOfferToAnswer
  <1> HIDE DEF r
  <1>3. ASSUME NEW i \in 1..Len(s)
        PROVE  r[i] \in Section /\ r[i].media = s[i].media /\ r[i].codecs = s[i].codecs
    <2>1. s[i] \in Section /\ r[i] = [s[i] EXCEPT !.setup = "active"]
      BY <1>1, <1>2
    <2> QED
      BY <2>1 DEF Section
  <1>4. r \in [1..Len(s) -> Section]
    BY <1>2, <1>3
  <1>5. r \in Seq(Section) /\ DOMAIN r = 1..Len(s)
    BY <1>1, <1>4, FunctionIsSeq
  <1>6. IsDescription(r)
    BY <1>1, <1>3, <1>5 DEF IsDescription
  <1> QED
    BY <1>6 DEF r

LEMMA RingingIsDescription ==
  ASSUME NEW device \in RingingDevices
  PROVE  IsDescription(device) /\ OneOfEachMedia(device)
  <1> DEFINE audio == [media |-> "audio", dir |-> "sendrecv", ssrc |-> "own", codecs |-> {}]
             video == [media |-> "video", dir |-> "sendrecv", ssrc |-> "own",
                       codecs |-> {KeptCodec}]
  <1>1. ASSUME NEW i \in 1..2, NEW n \in 1..2
        PROVE  /\ Placed(audio, i, n) \in Section /\ Placed(audio, i, n).media = "audio"
               /\ Placed(video, i, n) \in Section /\ Placed(video, i, n).media = "video"
               /\ Placed(video, i, n).codecs # {}
    <2>1. i \in 0..MaxSections /\ (i = n) \in BOOLEAN
      BY SectionsAreBounded
    <2> QED
      BY <2>1, KeptCodecMayBeOffered DEF Placed, Section, Directions
  <1>2. 1 \in 1..2 /\ 2 \in 1..2
    OBVIOUS
  <1>3. \/ device = <<Placed(audio, 1, 1)>> \/ device = <<Placed(video, 1, 1)>>
        \/ device = <<Placed(audio, 1, 2), Placed(video, 2, 2)>>
        \/ device = <<Placed(video, 1, 2), Placed(audio, 2, 2)>>
    BY DEF RingingDevices
  <1> HIDE DEF audio, video
  <1>4. ASSUME NEW x \in Section, x.media = "video" => x.codecs # {}
        PROVE  IsDescription(<<x>>) /\ OneOfEachMedia(<<x>>)
    BY <1>4 DEF IsDescription, OneOfEachMedia
  <1>5. ASSUME NEW x \in Section, x.media = "video" => x.codecs # {},
               NEW y \in Section, y.media = "video" => y.codecs # {}, x.media # y.media
        PROVE  IsDescription(<<x, y>>) /\ OneOfEachMedia(<<x, y>>)
    <2> DEFINE s == <<x, y>>
    <2>1. s \in Seq(Section) /\ DOMAIN s = {1, 2} /\ s[1] = x /\ s[2] = y
      OBVIOUS
    <2> HIDE DEF s
    <2>2. IsDescription(s) /\ OneOfEachMedia(s)
      BY <1>5, <2>1 DEF IsDescription, OneOfEachMedia
    <2> QED
      BY <2>2 DEF s
  <1> QED
    BY <1>1, <1>2, <1>3, <1>4, <1>5

LEMMA SendAnswerKeepsIInv ==
  ASSUME IInv, NEW sdp, IsOffer(sdp), NEW device \in RingingDevices, SendAnswer(sdp, device)
  PROVE  IInv'
  <1> DEFINE prepared == Prepared(sdp)
             ordered == ReorderMlines(device, prepared)
  <1>1. /\ stage' = "called" /\ browserOffer' = sdp
        /\ sent' = ConvertOfferToAnswer(prepared)
        /\ received' = device /\ delivered' = ordered
    BY DEF SendAnswer
  <1>2. IsDescription(sdp) /\ Resembles(prepared, sdp) /\ IsDescription(prepared)
    BY PreparedResembles DEF IsOffer, Resembles
  <1>3. IsDescription(device) /\ OneOfEachMedia(device)
    BY RingingIsDescription
  <1> HIDE DEF prepared
  <1>4. /\ IsDescription(ordered)
        /\ MediaTypes(ordered) = MediaTypes(device) \cap MediaTypes(prepared)
        /\ OneOfEachMedia(prepared) => InOfferOrder(ordered, prepared)
    BY <1>2, <1>3, ReorderIsSound
  <1>5. IsDescription(sent')
    BY <1>1, <1>2, ConvertedIsDescription
  <1> HIDE DEF ordered
  <1>6. TypeOK'
    BY <1>1, <1>2, <1>3, <1>4, <1>5 DEF TypeOK, IsDescription
  <1>7. /\ DOMAIN sdp = 1..Len(sdp) /\ DOMAIN prepared = 1..Len(sdp)
        /\ \A i \in 1..Len(sdp) : prepared[i].media = sdp[i].media
    BY <1>2 DEF IsDescription, Resembles, Keeps
  <1>8. MediaTypes(prepared) = MediaTypes(sdp)
    BY <1>7 DEF MediaTypes
  <1>9. OneOfEachMedia(sdp) => InOfferOrder(ordered, sdp)
    BY <1>4, <1>7 DEF OneOfEachMedia, InOfferOrder
  <1>10. AnswersLineUp'
    <2>1. stage' # "answered"
      BY <1>1
    <2>2. MediaTypes(browserOffer)' = MediaTypes(received)'
            => MediaTypes(delivered)' = MediaTypes(browserOffer)'
      <3>1. MediaTypes(delivered)' = MediaTypes(ordered)
        BY <1>1 DEF MediaTypes
      <3>2. MediaTypes(received)' = MediaTypes(device)
        BY <1>1 DEF MediaTypes
      <3>3. MediaTypes(browserOffer)' = MediaTypes(sdp)
        BY <1>1 DEF MediaTypes
      <3> QED
        BY <1>4, <1>8, <3>1, <3>2, <3>3
    <2>3. OneOfEachMedia(browserOffer)' => InOfferOrder(delivered, browserOffer)'
      BY <1>1, <1>9 DEF OneOfEachMedia, InOfferOrder
    <2>4. OneOfEachMedia(browserOffer)' =>
            (\A m, n \in DOMAIN delivered, i, j \in DOMAIN browserOffer :
               /\ m < n
               /\ delivered[m].media = browserOffer[i].media
               /\ delivered[n].media = browserOffer[j].media
               => i < j)'
      BY <2>3 DEF InOfferOrder
    <2> QED
      BY <2>1, <2>2, <2>4 DEF AnswersLineUp
  <1> QED
    BY <1>1, <1>6, <1>10 DEF IInv, OfferIsKept, AcceptedMediaSurvive, AnswersAreCompatible

\* Sections that agree on the media and on being accepted are counted alike.
LEMMA ManyAlike ==
  ASSUME NEW s, NEW r, DOMAIN s = DOMAIN r, NEW media,
         \A i \in DOMAIN s : r[i].media = s[i].media /\ r[i].open = s[i].open
  PROVE  Many(r, media) = Many(s, media)
  <1>1. Indices(r, media) = Indices(s, media)
    BY DEF Indices
  <1> QED
    BY <1>1 DEF Many

\* What was delivered is aligned with the offer; where it takes a section of the
\* answer, it is the one the device has given for that section.
LEMMA AlignedAnswerIsCompatible ==
  ASSUME NEW offer, IsOffer(offer), OneOfEachMedia(offer),
         NEW answer, NEW place, Covers(answer, offer, place),
         \A i \in 1..Len(answer) : answer[i].dir \in Compatible(Prepared(offer)[place[i]].dir),
         NEW fixed, Covers(fixed, offer, place), Len(fixed) = Len(answer),
         fixed = IF AudioWasRewritten(offer) THEN FixAnswerAudioDirection(answer) ELSE answer,
         NEW sdp, IsAligned(sdp, fixed, offer)
  PROVE  \A i \in 1..Len(offer) :
           /\ sdp[i].dir \in Compatible(offer[i].dir)
           /\ sdp[i].codecs \subseteq offer[i].codecs
           /\ sdp[i].mid \in {NoMid, offer[i].mid}
           /\ IsAudio(offer[i]) /\ offer[i].dir = "sendrecv" /\ sdp[i].open
                => \E j \in 1..Len(answer) : IsAudio(answer[j]) /\ answer[j].dir = sdp[i].dir
  <1>1. /\ offer \in Seq(Section) /\ DOMAIN offer = 1..Len(offer)
        /\ \A i \in 1..Len(offer) : offer[i].mid = i
    BY DEF IsOffer, IsDescription
  <1> SUFFICES ASSUME NEW i \in 1..Len(offer)
               PROVE  /\ sdp[i].dir \in Compatible(offer[i].dir)
                      /\ sdp[i].codecs \subseteq offer[i].codecs
                      /\ sdp[i].mid \in {NoMid, offer[i].mid}
                      /\ IsAudio(offer[i]) /\ offer[i].dir = "sendrecv" /\ sdp[i].open
                           => \E j \in 1..Len(answer) :
                                IsAudio(answer[j]) /\ answer[j].dir = sdp[i].dir
    OBVIOUS
  <1>2. Serves(sdp[i], fixed, offer[i])
    BY DEF IsAligned
  <1>3. offer[i].dir \in Directions
    <2>1. offer[i] \in Section
      BY <1>1
    <2> QED
      BY <2>1 DEF Section
  <1>4. CASE /\ sdp[i].open = FALSE /\ sdp[i].dir = "inactive"
             /\ sdp[i].codecs = offer[i].codecs /\ sdp[i].mid = offer[i].mid
    <2>1. "inactive" \in Compatible(offer[i].dir)
      BY <1>3, Replies
    <2> QED
      BY <1>4, <2>1
  <1>5. CASE \E j \in 1..Len(fixed) :
               /\ fixed[j].media = offer[i].media
               /\ sdp[i].dir = fixed[j].dir
               /\ sdp[i].codecs = fixed[j].codecs /\ sdp[i].mid = fixed[j].mid
    <2>1. PICK j \in 1..Len(fixed) :
            /\ fixed[j].media = offer[i].media
            /\ sdp[i].dir = fixed[j].dir
            /\ sdp[i].codecs = fixed[j].codecs /\ sdp[i].mid = fixed[j].mid
      BY <1>5
    <2>2. /\ place[j] \in 1..Len(offer)
          /\ fixed[j].media = offer[place[j]].media
          /\ fixed[j].codecs \subseteq offer[place[j]].codecs
          /\ fixed[j].mid \in {NoMid, place[j]}
      BY DEF Covers
    <2>3. place[j] = i
      BY <1>1, <2>1, <2>2 DEF OneOfEachMedia
    <2>4. j \in 1..Len(answer)
      OBVIOUS
    <2>5. /\ fixed[j].dir \in Compatible(offer[i].dir)
          /\ IsAudio(offer[i]) /\ offer[i].dir = "sendrecv" => fixed[j].dir = answer[j].dir
      BY <2>3, <2>4, DirectionsReply
    <2>6. answer[j].media = offer[i].media
      BY <2>3, <2>4 DEF Covers
    <2>7. IsAudio(offer[i]) => IsAudio(answer[j])
      BY <2>6 DEF IsAudio
    <2>8. sdp[i].mid \in {NoMid, offer[i].mid}
      BY <1>1, <2>1, <2>2, <2>3
    <2>9. sdp[i].codecs \subseteq offer[i].codecs
      BY <2>1, <2>2, <2>3
    <2> QED
      BY <2>1, <2>4, <2>5, <2>7, <2>8, <2>9
  <1> QED
    BY <1>2, <1>4, <1>5 DEF Serves

LEMMA DeviceKeepsIInv ==
  ASSUME IInv, Device
  PROVE  IInv'
  <1> DEFINE offer == browserOffer
  <1>1. stage = "offered" /\ IsOffer(offer) /\ sent = Prepared(offer)
    BY DEF IInv, OfferIsKept, Device
  <1>2. IsDescription(offer) /\ IsDescription(sent)
    BY DEF IInv, TypeOK
  <1>3. /\ offer \in Seq(Section) /\ DOMAIN offer = 1..Len(offer) /\ Len(offer) \in Nat
        /\ Len(sent) = Len(offer)
    <2>1. Len(Prepared(offer)) = Len(offer)
      BY <1>2, PreparedResembles DEF Resembles
    <2> QED
      BY <1>1, <1>2, <2>1 DEF IsDescription
  <1>4. PICK place \in Places(Len(sent)), withMid \in BOOLEAN :
          LET offered == [i \in DOMAIN place |-> sent[place[i]]] IN
          \E dir \in [DOMAIN place -> Directions] :
            /\ \A i \in DOMAIN place : dir[i] \in Compatible(offered[i].dir)
            /\ OnAnswer(Answering(offered, dir, withMid))
    BY DEF Device
  <1> DEFINE offered == [i \in DOMAIN place |-> sent[place[i]]]
  <1>5. PICK dir \in [DOMAIN place -> Directions] :
          /\ \A i \in DOMAIN place : dir[i] \in Compatible(offered[i].dir)
          /\ OnAnswer(Answering(offered, dir, withMid))
    BY <1>4
  <1> DEFINE answer == Answering(offered, dir, withMid)
             fixed == IF AudioWasRewritten(offer)
                      THEN FixAnswerAudioDirection(answer) ELSE answer
             sdp == AlignAnswerWithOffer(fixed, offer)
  <1>6. /\ stage' = "answered" /\ received' = answer /\ delivered' = sdp
        /\ browserOffer' = offer /\ sent' = sent
    BY <1>5 DEF OnAnswer
  <1>7. place \in Places(Len(offer))
    BY <1>3
  <1>8. offered = [i \in DOMAIN place |-> Prepared(offer)[place[i]]]
    BY <1>1
  <1>9. \A i \in DOMAIN place : dir[i] \in Compatible(Prepared(offer)[place[i]].dir)
    BY <1>5, <1>8
  <1> HIDE DEF offered
  <1>10. /\ Covers(answer, offer, place)
         /\ DOMAIN place = 1..Len(answer)
         /\ \A i \in DOMAIN place : answer[i].dir = dir[i]
    BY <1>1, <1>7, <1>8, AnsweringCovers
  <1> HIDE DEF answer, offer
  <1>11. \A i \in 1..Len(answer) : answer[i].dir \in Compatible(Prepared(offer)[place[i]].dir)
    BY <1>9, <1>10
  <1>12. IsDescription(answer) /\ answer \in Seq(Section) /\ DOMAIN answer = 1..Len(answer)
    BY <1>10 DEF Covers, IsDescription
  <1>13. /\ Covers(fixed, offer, place) /\ Len(fixed) = Len(answer)
         /\ \A i \in 1..Len(answer) :
              /\ fixed[i].media = answer[i].media /\ fixed[i].mid = answer[i].mid
              /\ fixed[i].open = answer[i].open
    BY <1>10, FixedCovers
  <1>14. fixed = IF AudioWasRewritten(offer) THEN FixAnswerAudioDirection(answer) ELSE answer
    OBVIOUS
  <1> HIDE DEF fixed
  <1>15. /\ IsAligned(sdp, fixed, offer)
         /\ \A k \in 1..Len(offer) : FullyAnswered(fixed, offer, offer[k].media)
              => SectionKey(sdp[k]) = SectionKey(offer[k])
    BY <1>1, <1>13, Alignment, KeysKept
  <1> HIDE DEF sdp
  <1>16. /\ IsDescription(sdp) /\ DOMAIN sdp = 1..Len(offer) /\ Len(sdp) = Len(offer)
         /\ \A k \in 1..Len(offer) :
              sdp[k].media = offer[k].media /\ sdp[k].last = (k = Len(offer))
    BY <1>15 DEF IsAligned, IsDescription
  <1>17. TypeOK'
    BY <1>2, <1>6, <1>12, <1>16 DEF TypeOK, IsDescription, offer
  <1>18. AnswersLineUp'
    <2>1. Medias(sdp) = Medias(offer)
      BY <1>3, <1>16 DEF Medias, offer
    <2>2. \A i \in DOMAIN sdp : sdp[i].last = (i = Len(sdp))
      BY <1>16
    <2>3. Medias(delivered)' = Medias(browserOffer)'
      BY <1>6, <2>1 DEF Medias
    <2>4. (\A i \in DOMAIN delivered : delivered[i].last = (i = Len(delivered)))'
      BY <1>6, <2>2
    <2>5. ASSUME NEW i \in 1..Len(offer), AnsweredInFull(browserOffer[i].media)'
          PROVE  SectionKey(sdp[i]) = SectionKey(offer[i])
      <3>1. \A n \in 1..Len(offer) : offer[n].media = offer[i].media =>
              \E j \in 1..Len(answer) : SectionKey(answer[j]) = SectionKey(offer[n])
        BY <1>3, <1>6, <1>12, <2>5 DEF AnsweredInFull, offer
      <3>2. \A j \in 1..Len(answer) : SectionKey(fixed[j]) = SectionKey(answer[j])
        BY <1>13 DEF SectionKey
      <3>3. FullyAnswered(fixed, offer, offer[i].media)
        BY <1>13, <3>1, <3>2 DEF FullyAnswered
      <3> QED
        BY <1>15, <3>3
    <2>6. (\A i \in DOMAIN delivered :
             AnsweredInFull(browserOffer[i].media) =>
               SectionKey(delivered[i]) = SectionKey(browserOffer[i]))'
      BY <1>6, <1>16, <2>5 DEF SectionKey
    <2> QED
      BY <1>6, <2>3, <2>4, <2>6 DEF AnswersLineUp
  <1>19. AcceptedMediaSurvive'
    <2>1. ASSUME NEW media
          PROVE  Cardinality(Indices(delivered, media))' = Cardinality(Indices(received, media))'
      <3>1. Many(sdp, media) = Many(fixed, media)
        BY <1>15 DEF IsAligned
      <3>2. DOMAIN fixed = 1..Len(answer)
        BY <1>13 DEF Covers, IsDescription
      <3>3. Many(fixed, media) = Many(answer, media)
        BY <1>12, <1>13, <3>2, ManyAlike
      <3>4. Cardinality(Indices(sdp, media)) = Cardinality(Indices(answer, media))
        BY <3>1, <3>3 DEF Many
      <3> QED
        BY <1>6, <3>4 DEF Indices
    <2> QED
      BY <2>1 DEF AcceptedMediaSurvive
  <1>20. AnswersAreCompatible'
    <2> SUFFICES ASSUME OneOfEachMedia(browserOffer)', NEW i \in (DOMAIN delivered)'
                 PROVE  /\ delivered'[i].dir \in Compatible(browserOffer'[i].dir)
                        /\ delivered'[i].codecs \subseteq browserOffer'[i].codecs
                        /\ delivered'[i].mid \in {NoMid, browserOffer'[i].mid}
                        /\ IsAudio(browserOffer'[i]) /\ browserOffer'[i].dir = "sendrecv"
                             /\ delivered'[i].open => DeviceSends(delivered[i].dir)'
      BY DEF AnswersAreCompatible
    <2>1. OneOfEachMedia(offer) /\ i \in 1..Len(offer)
      BY <1>6, <1>16 DEF OneOfEachMedia
    <2>2. /\ sdp[i].dir \in Compatible(offer[i].dir)
          /\ sdp[i].codecs \subseteq offer[i].codecs
          /\ sdp[i].mid \in {NoMid, offer[i].mid}
          /\ IsAudio(offer[i]) /\ offer[i].dir = "sendrecv" /\ sdp[i].open
               => \E j \in 1..Len(answer) : IsAudio(answer[j]) /\ answer[j].dir = sdp[i].dir
      BY <1>1, <1>10, <1>11, <1>13, <1>14, <1>15, <2>1, AlignedAnswerIsCompatible
    <2>3. DeviceSends(delivered[i].dir)' <=>
            \E j \in 1..Len(answer) : IsAudio(answer[j]) /\ answer[j].dir = sdp[i].dir
      BY <1>6, <1>12 DEF DeviceSends, IsAudio
    <2> QED
      BY <1>6, <2>2, <2>3
  <1> QED
    BY <1>6, <1>17, <1>18, <1>19, <1>20 DEF IInv, OfferIsKept

-----------------------------------------------------------------------------
(* The theorems *)

LEMMA Inductive == IInv /\ [Next]_vars => IInv'
  <1> SUFFICES ASSUME IInv, [Next]_vars PROVE IInv'
    OBVIOUS
  <1>1. CASE Browser
    <2> PICK n \in 1..MaxSections : \E kinds \in [1..n -> OfferedSections] :
               \/ SendOffer(Offering(kinds))
               \/ \E d \in RingingDevices : SendAnswer(Offering(kinds), d)
      BY <1>1 DEF Browser
    <2>1. PICK kinds \in [1..n -> OfferedSections] :
            \/ SendOffer(Offering(kinds))
            \/ \E d \in RingingDevices : SendAnswer(Offering(kinds), d)
      OBVIOUS
    <2>2. IsOffer(Offering(kinds))
      BY OfferingIsOffer
    <2>3. CASE SendOffer(Offering(kinds))
      BY <2>2, <2>3, SendOfferKeepsIInv
    <2>4. CASE \E d \in RingingDevices : SendAnswer(Offering(kinds), d)
      BY <2>2, <2>4, SendAnswerKeepsIInv
    <2> QED
      BY <2>1, <2>3, <2>4
  <1>2. CASE Device
    BY <1>2, DeviceKeepsIInv
  <1>3. CASE Close
    BY <1>3, CloseKeepsIInv
  <1>4. CASE UNCHANGED vars
    <2>1. /\ stage' = stage /\ browserOffer' = browserOffer /\ sent' = sent
          /\ received' = received /\ delivered' = delivered
      BY <1>4 DEF vars
    <2>2. TypeOK'
      BY <2>1 DEF IInv, TypeOK, IsDescription
    <2>3. OfferIsKept'
      BY <2>1 DEF IInv, OfferIsKept, IsOffer, IsDescription
    <2>4. AnswersLineUp'
      <3>1. Medias(delivered)' = Medias(delivered) /\ Medias(browserOffer)' = Medias(browserOffer)
        BY <2>1 DEF Medias
      <3>2. /\ MediaTypes(delivered)' = MediaTypes(delivered)
            /\ MediaTypes(received)' = MediaTypes(received)
            /\ MediaTypes(browserOffer)' = MediaTypes(browserOffer)
        BY <2>1 DEF MediaTypes
      <3>3. OneOfEachMedia(browserOffer)' <=> OneOfEachMedia(browserOffer)
        BY <2>1 DEF OneOfEachMedia
      <3>4. ASSUME NEW i \in DOMAIN delivered
            PROVE  AnsweredInFull(browserOffer[i].media)' <=> AnsweredInFull(browserOffer[i].media)
        BY <2>1 DEF AnsweredInFull, SectionKey
      <3> QED
        BY <2>1, <3>1, <3>2, <3>3, <3>4 DEF IInv, AnswersLineUp, SectionKey
    <2>5. AcceptedMediaSurvive'
      <3>1. ASSUME NEW media
            PROVE  /\ Indices(delivered, media)' = Indices(delivered, media)
                   /\ Indices(received, media)' = Indices(received, media)
        BY <2>1 DEF Indices
      <3> QED
        BY <2>1, <3>1 DEF IInv, AcceptedMediaSurvive
    <2>6. AnswersAreCompatible'
      BY <2>1 DEF IInv, AnswersAreCompatible, DeviceSends, OneOfEachMedia
    <2> QED
      BY <2>2, <2>3, <2>4, <2>5, <2>6 DEF IInv
  <1> QED
    BY <1>1, <1>2, <1>3, <1>4 DEF Next

\* Everything below follows from it: after an offer the kept browser_offer_sdp is
\* the one the device was sent a rewritten copy of.
THEOREM InvariantHolds == Spec => []IInv
  BY InitInv, Inductive, PTL DEF Spec

\* No rewrite makes of a description anything else, or leaves a video section
\* without a codec (_filter_video_codecs, _prepare_offer_for_device).
THEOREM TypeCorrectness == Spec => []TypeOK
  <1>1. IInv => TypeOK
    BY DEF IInv
  <1> QED
    BY <1>1, InvariantHolds, PTL

\* Whatever the device answers, in whatever order, the browser gets a section for
\* each it has offered, of its media type, and the answer to that very section
\* wherever the device has answered all of the type with their mids
\* (_align_answer_with_offer).  A browser that offers the ringing device's media
\* types, each once, gets the device's own sections in its order (_reorder_mlines).
THEOREM AnswersAlwaysLineUp == Spec => []AnswersLineUp
  <1>1. IInv => AnswersLineUp
    BY DEF IInv
  <1> QED
    BY <1>1, InvariantHolds, PTL

\* Of each media type the alignment passes on as many sections as the device has
\* accepted (_align_answer_with_offer); in which place is not said.
THEOREM NothingAcceptedIsLost == Spec => []AcceptedMediaSurvive
  <1>1. IInv => AcceptedMediaSurvive
    BY DEF IInv
  <1> QED
    BY <1>1, InvariantHolds, PTL

\* What was rewritten in the offer is undone in the answer: a browser that offers
\* each media once can apply it (on_answer, _fix_answer_audio_direction).
THEOREM AnswersCanBeApplied == Spec => []AnswersAreCompatible
  <1>1. IInv => AnswersAreCompatible
    BY DEF IInv
  <1> QED
    BY <1>1, InvariantHolds, PTL
=============================================================================
