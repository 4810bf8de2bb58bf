------------------------- MODULE SessionDescription -------------------------
(***************************************************************************)
(* What camera.py does to the session descriptions it passes between the   *)
(* browser and the device: three rewrites of the browser's offer, two of   *)
(* the device's answer, and in answer mode the reordering of the device's  *)
(* own offer.                                                              *)
(*                                                                         *)
(* A description is the sequence of its m-sections; the lines before the   *)
(* first one are passed on unchanged.  A section is what the rewrites read *)
(* or change of it.  A codec stands for all payload types mapped to it;    *)
(* the last section holds the empty line after the final line break.       *)
(***************************************************************************)
EXTENDS Naturals, Sequences, FiniteSets, SequencesExt

CONSTANTS
  VideoCodecs,  \* codecs a browser may offer
  KeptCodec,    \* H264, the codec the devices decode
  MaxSections   \* bound on the sections of an offer

ASSUME KeptCodecMayBeOffered == KeptCodec \in VideoCodecs

\* A ringing device offers two sections.
ASSUME SectionsAreBounded == MaxSections \in Nat /\ MaxSections >= 2

VARIABLES
  stage,         \* what the last exchange has come to
  browserOffer,  \* browser_offer_sdp
  sent,          \* what went to the device
  received,      \* the device's answer, or its offer in answer mode
  delivered      \* the WebRTCAnswer the browser got

vars == <<stage, browserOffer, sent, received, delivered>>

-----------------------------------------------------------------------------
NoMid == 0
Directions == {"sendrecv", "sendonly", "recvonly", "inactive"}

Section == [media : {"audio", "video", "application"}, mid : 0..MaxSections,
            dir : Directions, ssrc : {"none", "own", "synthetic"},
            codecs : SUBSET VideoCodecs, open : BOOLEAN,
            setup : {"actpass", "active"}, last : BOOLEAN]

IsAudio(section) == section.media = "audio"

\* The directions RFC 3264 allows in the answer to an offered one.
Compatible(dir) ==
  CASE dir = "sendrecv" -> Directions
    [] dir = "sendonly" -> {"recvonly", "inactive"}
    [] dir = "recvonly" -> {"sendonly", "inactive"}
    [] OTHER -> {"inactive"}

Medias(sdp) == [i \in DOMAIN sdp |-> sdp[i].media]

-----------------------------------------------------------------------------
(* The rewrites of the browser's offer *)

EnableAudioSendrecv(sdp) ==
  [i \in DOMAIN sdp |->
     IF IsAudio(sdp[i]) /\ sdp[i].dir = "recvonly"
     THEN [sdp[i] EXCEPT !.dir = "sendrecv"] ELSE sdp[i]]

\* The synthetic source goes to the end of each run of audio sections, unless
\* one of them has a source.
InjectAudioSsrc(sdp) ==
  LET EndsAudio(i) == IsAudio(sdp[i]) /\ (i = Len(sdp) \/ ~IsAudio(sdp[i + 1]))
  IN
  IF \E i \in DOMAIN sdp : IsAudio(sdp[i]) /\ sdp[i].ssrc # "none" THEN sdp
  ELSE [i \in DOMAIN sdp |->
          IF EndsAudio(i) THEN [sdp[i] EXCEPT !.ssrc = "synthetic"] ELSE sdp[i]]

FirstVideo(sdp) == SelectInSeq(sdp, LAMBDA s : s.media = "video")

\* A mistake: the filter does not look whether the codec is offered at all.
FilterUnchecked(sdp) ==
  LET v == FirstVideo(sdp) IN
  IF v = 0 THEN sdp ELSE [sdp EXCEPT ![v].codecs = @ \cap {KeptCodec}]

\* Only the first video section is filtered.
FilterVideoCodecs(sdp) ==
  LET v == FirstVideo(sdp) IN
  IF v = 0 \/ KeptCodec \notin sdp[v].codecs THEN sdp
  ELSE [sdp EXCEPT ![v].codecs = {KeptCodec}]

Prepared(sdp) ==
  FilterVideoCodecs(InjectAudioSsrc(EnableAudioSendrecv(sdp)))

AudioWasRewritten(sdp) == EnableAudioSendrecv(sdp) # sdp

ConvertOfferToAnswer(sdp) ==
  [i \in DOMAIN sdp |-> [sdp[i] EXCEPT !.setup = "active"]]

-----------------------------------------------------------------------------
(* The rewrites of the device's descriptions *)

\* A mistake: a device that only listens is passed on as it is.
FixSendrecvOnly(sdp) ==
  [i \in DOMAIN sdp |->
     IF IsAudio(sdp[i]) /\ sdp[i].dir = "sendrecv"
     THEN [sdp[i] EXCEPT !.dir = "sendonly"] ELSE sdp[i]]

FixAnswerAudioDirection(sdp) ==
  [i \in DOMAIN sdp |->
     IF IsAudio(sdp[i]) /\ sdp[i].dir \in {"sendrecv", "recvonly"}
     THEN [sdp[i] EXCEPT !.dir = "sendonly"] ELSE sdp[i]]

SectionKey(section) == <<section.media, section.mid>>

SameKeys(sdp, other) ==
  /\ Len(sdp) = Len(other)
  /\ \A i \in DOMAIN sdp : SectionKey(sdp[i]) = SectionKey(other[i])

\* The first unused section of the offered section's key, else of its media
\* type; 0 if there is none.
Match(remaining, offered) ==
  LET exact == SelectInSeq(remaining, LAMBDA s : SectionKey(s) = SectionKey(offered))
  IN  IF exact # 0 THEN exact
      ELSE SelectInSeq(remaining, LAMBDA s : s.media = offered.media)

Rejected(offered) ==
  [offered EXCEPT !.dir = "inactive", !.open = FALSE, !.ssrc = "none"]

\* The empty line at the end is taken out before and added again after.
Rejoined(sdp) == [i \in DOMAIN sdp |-> [sdp[i] EXCEPT !.last = (i = Len(sdp))]]

\* A mistake: a section that was used is not taken out.
Kept(remaining, i) == remaining

Unused(remaining, i) == RemoveAt(remaining, i)

\* A mistake: only the number of sections is compared.
SameLength(answer, offer) == Len(answer) = Len(offer)

LinesUp(answer, offer) == SameKeys(offer, answer)

\* The next section of the offer takes its match out of the answer.
Take(acc, offered) ==
  LET i == Match(acc.remaining, offered) IN
  IF i = 0
  THEN [remaining |-> acc.remaining, rebuilt |-> Append(acc.rebuilt, Rejected(offered))]
  ELSE [remaining |-> Unused(acc.remaining, i),
        rebuilt |-> Append(acc.rebuilt, acc.remaining[i])]

Taken(answer, offer) ==
  LET taken[k \in 0..Len(offer)] ==
        IF k = 0 THEN [remaining |-> answer, rebuilt |-> <<>>]
        ELSE Take(taken[k - 1], offer[k])
  IN taken

AlignAnswerWithOffer(answer, offer) ==
  IF LinesUp(answer, offer) THEN answer
  ELSE Rejoined(Taken(answer, offer)[Len(offer)].rebuilt)

\* The sections of one media type move together, to every place <<i, _>> where
\* the offer has that type; the others are dropped.
Moves(sdp, offer) ==
  {p \in (DOMAIN offer) \X (DOMAIN sdp) : sdp[p[2]].media = offer[p[1]].media}

NotAfter(p, q) == p[1] < q[1] \/ (p[1] = q[1] /\ p[2] <= q[2])

MoveRank(moves, p) == Cardinality({q \in moves : NotAfter(q, p)})

ReorderMlines(sdp, offer) ==
  LET moves == Moves(sdp, offer)
      Move(n) == CHOOSE p \in moves : MoveRank(moves, p) = n
  IN IF Medias(sdp) = Medias(offer) THEN sdp
     ELSE [n \in 1..Cardinality(moves) |-> sdp[Move(n)[2]]]

-----------------------------------------------------------------------------
(* The browser and the device *)

\* An m-section of a browser: its audio may have a microphone, its video any
\* codecs.
OfferedSections ==
  [media : {"audio"}, dir : {"sendrecv", "sendonly", "recvonly"},
   ssrc : {"none", "own"}, codecs : {{}}]
  \cup
  [media : {"video"}, dir : {"recvonly"}, ssrc : {"none"},
   codecs : (SUBSET VideoCodecs) \ {{}}]
  \cup
  [media : {"application"}, dir : {"sendrecv"}, ssrc : {"none"}, codecs : {{}}]

\* The section of that kind at position i of n.
Placed(kind, i, n) ==
  [media |-> kind.media, mid |-> i, dir |-> kind.dir, ssrc |-> kind.ssrc,
   codecs |-> kind.codecs, open |-> TRUE, setup |-> "actpass",
   last |-> (i = n)]

Offering(kinds) == [i \in DOMAIN kinds |-> Placed(kinds[i], i, Len(kinds))]

\* A device answers some of the sections, in an order of its own, with or
\* without their mid.
Places(n) == UNION {{f \in [1..k -> 1..n] : IsInjective(f)} : k \in 0..n}

Answering(offered, dir, withMid) ==
  [i \in DOMAIN offered |->
     [offered[i] EXCEPT !.dir = dir[i], !.ssrc = "own", !.setup = "active",
                        !.mid = IF withMid THEN @ ELSE NoMid,
                        !.last = (i = Len(offered))]]

\* What a ringing device offers: its media in any order.
RingingDevices ==
  LET audio == [media |-> "audio", dir |-> "sendrecv", ssrc |-> "own",
                codecs |-> {}]
      video == [media |-> "video", dir |-> "sendrecv", ssrc |-> "own",
                codecs |-> {KeptCodec}]
  IN {<<Placed(audio, 1, 1)>>, <<Placed(video, 1, 1)>>,
      <<Placed(audio, 1, 2), Placed(video, 2, 2)>>,
      <<Placed(video, 1, 2), Placed(audio, 2, 2)>>}

-----------------------------------------------------------------------------
Init ==
  /\ stage = "idle"
  /\ browserOffer = <<>>
  /\ sent = <<>>
  /\ received = <<>>
  /\ delivered = <<>>

\* A stream opens a live view.
SendOffer(sdp) ==
  /\ stage' = "offered"
  /\ browserOffer' = sdp
  /\ sent' = Prepared(sdp)
  /\ received' = <<>>
  /\ delivered' = <<>>

\* A stream answers a call: the device gets the browser's offer as an answer,
\* the browser the device's offer.
SendAnswer(sdp, deviceSdp) ==
  /\ stage' = "called"
  /\ browserOffer' = sdp
  /\ sent' = ConvertOfferToAnswer(Prepared(sdp))
  /\ received' = deviceSdp
  /\ delivered' = ReorderMlines(deviceSdp, Prepared(sdp))

OnAnswer(sdp) ==
  LET fixed == IF AudioWasRewritten(browserOffer)
               THEN FixAnswerAudioDirection(sdp) ELSE sdp
  IN
  /\ stage' = "answered"
  /\ received' = sdp
  /\ delivered' = AlignAnswerWithOffer(fixed, browserOffer)
  /\ UNCHANGED <<browserOffer, sent>>

\* The stream is closed, answered or not; the next one starts afresh.
Close ==
  /\ stage # "idle"
  /\ stage' = "idle"
  /\ browserOffer' = <<>>
  /\ sent' = <<>>
  /\ received' = <<>>
  /\ delivered' = <<>>

Browser ==
  /\ stage = "idle"
  /\ \E n \in 1..MaxSections : \E kinds \in [1..n -> OfferedSections] :
       \/ SendOffer(Offering(kinds))
       \/ \E d \in RingingDevices : SendAnswer(Offering(kinds), d)

Device ==
  /\ stage = "offered"
  /\ \E place \in Places(Len(sent)), withMid \in BOOLEAN :
       LET offered == [i \in DOMAIN place |-> sent[place[i]]] IN
       \E dir \in [DOMAIN place -> Directions] :
         /\ \A i \in DOMAIN place : dir[i] \in Compatible(offered[i].dir)
         /\ OnAnswer(Answering(offered, dir, withMid))

Next == Browser \/ Device \/ Close

Spec == Init /\ [][Next]_vars

-----------------------------------------------------------------------------
(* Properties *)

OneOfEachMedia(sdp) ==
  \A i, j \in DOMAIN sdp : sdp[i].media = sdp[j].media => i = j

MediaTypes(sdp) == {sdp[i].media : i \in DOMAIN sdp}

Indices(sdp, media) == {i \in DOMAIN sdp : sdp[i].media = media /\ sdp[i].open}

\* A video section is never sent or delivered without a codec.
IsDescription(sdp) ==
  /\ sdp \in Seq(Section)
  /\ \A i \in DOMAIN sdp : sdp[i].media = "video" => sdp[i].codecs # {}

TypeOK ==
  /\ stage \in {"idle", "offered", "answered", "called"}
  /\ IsDescription(browserOffer)
  /\ IsDescription(sent)
  /\ IsDescription(received)
  /\ IsDescription(delivered)

\* The device has answered every section of that media type, each with its mid.
AnsweredInFull(media) ==
  \A i \in DOMAIN browserOffer :
    browserOffer[i].media = media =>
      \E j \in DOMAIN received : SectionKey(received[j]) = SectionKey(browserOffer[i])

\* "Make the answer's m-sections match the offer's, one for one, in order", says
\* _align_answer_with_offer: whatever the device answers, the browser gets a
\* section for each it has offered, of its media type, and no empty line between
\* them.  Each is the answer to that very section if the device has answered all
\* of the media type with their mids; of a doubled type answered in part, the
\* fallback may put one section in the place of another.  In answer mode the
\* ringing device's sections get the browser's order (_reorder_mlines) if the
\* browser offers the same media types, each once; otherwise that drops or
\* repeats sections.
AnswersLineUp ==
  /\ stage = "answered" =>
       /\ Medias(delivered) = Medias(browserOffer)
       /\ \A i \in DOMAIN delivered : delivered[i].last = (i = Len(delivered))
       /\ \A i \in DOMAIN delivered :
            AnsweredInFull(browserOffer[i].media) =>
              SectionKey(delivered[i]) = SectionKey(browserOffer[i])
  /\ /\ stage = "called"
     /\ OneOfEachMedia(browserOffer)
     /\ MediaTypes(browserOffer) = MediaTypes(received)
     => /\ MediaTypes(delivered) = MediaTypes(browserOffer)
        /\ \A m, n \in DOMAIN delivered, i, j \in DOMAIN browserOffer :
             /\ m < n
             /\ delivered[m].media = browserOffer[i].media
             /\ delivered[n].media = browserOffer[j].media
             => i < j

\* The alignment passes on as many sections of each media type as the device has
\* accepted: none is lost, none is used twice.
AcceptedMediaSurvive ==
  stage = "answered" =>
    \A media \in {"audio", "video", "application"} :
      Cardinality(Indices(delivered, media))
        = Cardinality(Indices(received, media))

\* The direction the device has answered for the audio.
DeviceSends(dir) ==
  \E j \in DOMAIN received : IsAudio(received[j]) /\ received[j].dir = dir

\* A browser that offers each media type once can apply the answer: direction,
\* codecs and mid of every section answer what it has offered, not what was
\* sent to the device in its place.  If it has a microphone, two way audio is
\* not taken down to one way (on_answer, audio_was_rewritten).
AnswersAreCompatible ==
  stage = "answered" /\ OneOfEachMedia(browserOffer) =>
    \A i \in DOMAIN delivered :
      /\ delivered[i].dir \in Compatible(browserOffer[i].dir)
      /\ delivered[i].codecs \subseteq browserOffer[i].codecs
      /\ delivered[i].mid \in {NoMid, browserOffer[i].mid}
      /\ IsAudio(browserOffer[i]) /\ browserOffer[i].dir = "sendrecv"
           /\ delivered[i].open => DeviceSends(delivered[i].dir)
=============================================================================
