------------------------- MODULE PreparationProofs --------------------------
(***************************************************************************)
(* The preparation of paid jobs, for any number of requests, edits,        *)
(* bundles and quotes: what a worker sends to a provider is what the       *)
(* request that issued the quote had read, and a job that was accepted     *)
(* finds everything it needs.                                              *)
(*                                                                         *)
(* A request finds the rows another request wrote by their hash alone, and *)
(* a hash names all that matters of a bundle; a bundle a plan refers to is *)
(* not swept, and neither bundles nor plans are changed.                   *)
(***************************************************************************)
EXTENDS Preparation, TLAPS

FrozenKinds == {"concept_generation", "foundation_generation", "outline_generation",
                "beat_write_judge", "safe_repair", "publish_package", "chat_intake_reply"}

Kinds == FrozenKinds \cup {"none", "scene_generation"}
Texts == {"a", "b", "none"}
PacketKinds == {"planner", "writer", "validator", "extraction", "repair"}
Classes == {"author_private", "writer_safe", "review_safe"}

AnyPacket == [kind : PacketKinds, class : Classes, deps : Int, text : Texts]
AnyStage == [packet : PacketKinds, class : Classes]
Bundle == [kind : FrozenKinds, deps : Nat, packets : SUBSET AnyPacket, live : BOOLEAN]
Hash == (SUBSET AnyStage) \X FrozenKinds \X (FrozenKinds \X Nat \X SUBSET AnyPacket)
Plan == [kind : FrozenKinds, bundle : Nat, hash : Hash]
Quote == [kind : Kinds, plan : Nat, deps : Nat, text : Texts, consumed : BOOLEAN]
Job == [kind : Kinds, plan : Nat, bundle : Nat, deps : Nat, text : Texts, quote : Nat,
        payload : SUBSET (Hashes \cup {"chapterId", "intakeSessionId", "requestId", "beatId",
                                       "proseVersionId"}),
        ended : BOOLEAN]
Ask == [at : {"idle", "asked", "read", "freezing", "frozen", "planned", "bound"},
        door : Frozen \cup {"none", "scene"}, kind : Kinds, deps : Nat, text : Texts,
        bundle : Nat, plan : Nat, quote : Nat]

PrepTypeOK ==
  /\ story \in [deps : Nat, text : Texts]
  /\ bundles \in Seq(Bundle) /\ plans \in Seq(Plan) /\ offers \in Seq(Quote)
  /\ jobs \in Seq(Job)
  /\ asks \in [Askers -> Ask]

\* A door freezes jobs of the kinds it starts.
KindFits(door, kind) ==
  door \in Frozen /\ IF door = "vertical" THEN kind \in VerticalKinds ELSE kind = KindOf(door)

\* A bundle holds what a request read.
Fits(b, kind, deps, text) ==
  /\ b \in DOMAIN bundles
  /\ bundles[b].kind = kind /\ bundles[b].deps = deps
  /\ \A p \in bundles[b].packets : p.text \in {text, "none"}

\* And a plan is the plan of that bundle.
Backed(plan, bundle, kind, deps, text) ==
  /\ plan \in DOMAIN plans /\ plans[plan].bundle = bundle /\ plans[plan].kind = kind
  /\ Fits(bundle, kind, deps, text)
  /\ kind \in FrozenKinds

\* A bundle has the packet of every stage of its kind.
BundlesServe ==
  \A b \in DOMAIN bundles : \A s \in Stages(bundles[b].kind) : \E p \in bundles[b].packets :
    p.kind = s.packet /\ p.class = s.class /\ p.deps = bundles[b].deps

\* A plan keeps its bundle.
PlansStand ==
  \A p \in DOMAIN plans :
    /\ plans[p].bundle \in DOMAIN bundles /\ bundles[plans[p].bundle].live
    /\ plans[p].hash = PlanHash(plans[p].kind, plans[p].bundle)

OffersStand ==
  \A q \in DOMAIN offers : offers[q].plan # None =>
    Backed(offers[q].plan, plans[offers[q].plan].bundle, offers[q].kind, offers[q].deps,
           offers[q].text)
JobsStand ==
  \A j \in DOMAIN jobs : jobs[j].plan # None =>
    /\ Backed(jobs[j].plan, jobs[j].bundle, jobs[j].kind, jobs[j].deps, jobs[j].text)
    /\ Hashes \subseteq jobs[j].payload

\* What a request holds so far is of what it read itself.
AskStands(r) ==
  /\ r.at \notin {"idle", "bound"} /\ r.door # "scene" => KindFits(r.door, r.kind)
  /\ r.at \notin {"planned", "bound"} \/ r.door = "scene" => r.plan = None
  /\ r.at = "freezing" => \A p \in PacketsOf(r) : p.deps = r.deps
  /\ r.at \in {"frozen", "planned"} => Fits(r.bundle, r.kind, r.deps, r.text)
  /\ r.at = "planned" => r.plan \in DOMAIN plans /\ plans[r.plan].kind = r.kind
  /\ r.at = "bound" => r.quote \in DOMAIN offers
  /\ r.at = "bound" /\ r.plan # None => Backed(r.plan, r.bundle, r.kind, r.deps, r.text)
AsksStand == \A a \in Askers : AskStands(asks[a])

PrepInv ==
  PrepTypeOK /\ BundlesServe /\ PlansStand /\ OffersStand /\ JobsStand /\ AsksStand

-----------------------------------------------------------------------------
\* The kinds of the doors, and the stages of the kinds.
LEMMA DoorKinds ==
  /\ KindOf("concept") = "concept_generation" /\ KindOf("beat") = "beat_write_judge"
  /\ KindOf("repair") = "safe_repair" /\ KindOf("publish") = "publish_package"
  /\ KindOf("scene") = "scene_generation" /\ KindOf("chat") = "chat_intake_reply"
<1>1. KindOf("concept") = "concept_generation"
  BY DEF KindOf
<1>2. KindOf("beat") = "beat_write_judge"
  BY DEF KindOf
<1>3. KindOf("repair") = "safe_repair"
  BY DEF KindOf
<1>4. KindOf("publish") = "publish_package"
  BY DEF KindOf
<1>5. KindOf("scene") = "scene_generation"
  BY DEF KindOf
<1>6. KindOf("chat") = "chat_intake_reply"
  BY DEF KindOf
<1> QED BY <1>1, <1>2, <1>3, <1>4, <1>5, <1>6

PlannedKinds == {"concept_generation", "foundation_generation", "outline_generation"}
ExtractedKinds == {"publish_package", "chat_intake_reply"}

LEMMA KindStages ==
  ASSUME NEW kind \in FrozenKinds
  PROVE  /\ kind \in PlannedKinds => Stages(kind) = {RecoveryStage} \cup
              {[packet |-> "planner", class |-> "author_private"]}
         /\ kind = "beat_write_judge" => Stages(kind) = {RecoveryStage} \cup
              {[packet |-> "writer", class |-> "writer_safe"],
               [packet |-> "validator", class |-> "author_private"]}
         /\ kind = "safe_repair" => Stages(kind) = {RecoveryStage}
         /\ kind \in ExtractedKinds => Stages(kind) = {RecoveryStage} \cup
              {[packet |-> "extraction", class |-> "review_safe"]}
         /\ kind \in PlannedKinds \cup ExtractedKinds \cup {"beat_write_judge", "safe_repair"}
<1>1. ASSUME kind \in PlannedKinds
      PROVE  Stages(kind) = {RecoveryStage} \cup
              {[packet |-> "planner", class |-> "author_private"]}
  BY <1>1 DEF Stages, PlannedKinds
<1>2. ASSUME kind = "beat_write_judge"
      PROVE  Stages(kind) = {RecoveryStage} \cup
              {[packet |-> "writer", class |-> "writer_safe"],
               [packet |-> "validator", class |-> "author_private"]}
  BY <1>2 DEF Stages
<1>3. ASSUME kind = "safe_repair" PROVE Stages(kind) = {RecoveryStage} \cup {}
  BY <1>3 DEF Stages
<1>4. ASSUME kind = "publish_package"
      PROVE  Stages(kind) = {RecoveryStage} \cup
              {[packet |-> "extraction", class |-> "review_safe"]}
  BY <1>4 DEF Stages
<1>5. ASSUME kind = "chat_intake_reply"
      PROVE  Stages(kind) = {RecoveryStage} \cup
              {[packet |-> "extraction", class |-> "review_safe"]}
  BY <1>5 DEF Stages
<1> QED BY <1>1, <1>2, <1>3, <1>4, <1>5 DEF FrozenKinds, PlannedKinds, ExtractedKinds

LEMMA KindIsFrozen ==
  ASSUME PreparationAssumption, NEW door, NEW kind, KindFits(door, kind)
  PROVE  kind \in FrozenKinds
  BY DoorKinds DEF PreparationAssumption, KindFits, Frozen, PaidDoors, FrozenKinds

LEMMA StagesTyped ==
  ASSUME NEW kind \in FrozenKinds
  PROVE  Stages(kind) \subseteq AnyStage
  BY KindStages DEF RecoveryStage, AnyStage, PacketKinds, Classes

\* Packets under one manifest are those of a kind, and serve its stages.
LEMMA PacketsServe ==
  ASSUME PreparationAssumption, NEW r \in Ask, KindFits(r.door, r.kind),
         \A p \in PacketsOf(r) : p.deps = r.deps
  PROVE  /\ PacketsOf(r) \subseteq AnyPacket
         /\ \A p \in PacketsOf(r) : p.text \in {r.text, "none"}
         /\ \A s \in Stages(r.kind) : \E p \in PacketsOf(r) :
              p.kind = s.packet /\ p.class = s.class /\ p.deps = r.deps
<1> DEFINE Serves(packets, kind, deps, text) ==
             /\ packets \subseteq AnyPacket
             /\ \A p \in packets : p.text \in {text, "none"}
             /\ \A s \in Stages(kind) : \E p \in packets :
                  p.kind = s.packet /\ p.class = s.class /\ p.deps = deps
<1>0. r.kind \in FrozenKinds
  BY KindIsFrozen
<1>1. PICK deps \in Nat, text \in Texts, kind \in FrozenKinds :
        deps = r.deps /\ text = r.text /\ kind = r.kind
  BY <1>0 DEF Ask
<1>2. ASSUME kind \in PlannedKinds
      PROVE  Serves(ConceptPackets(deps, text), kind, deps, text)
  BY <1>2, KindStages DEF ConceptPackets, Packet, Recovery, AnyPacket, PacketKinds, Classes, Texts, RecoveryStage
<1>3. ASSUME kind = "beat_write_judge"
      PROVE  Serves(BeatPackets(deps, text), kind, deps, text)
  BY <1>3, KindStages DEF BeatPackets, Packet, Recovery, AnyPacket, PacketKinds, Classes, Texts, RecoveryStage
<1>4. ASSUME kind \in ExtractedKinds
      PROVE  Serves(PublishPackets(deps, text), kind, deps, text)
  BY <1>4, KindStages DEF PublishPackets, Packet, Recovery, AnyPacket, PacketKinds, Classes, Texts, RecoveryStage
<1>5. ASSUME kind = "safe_repair"
      PROVE  Serves({Packet("repair", "writer_safe", deps, text)}, kind, deps, text)
  BY <1>5, KindStages DEF Packet, AnyPacket, PacketKinds, Classes, Texts, RecoveryStage
<1>6. r.door # "repair"
  <2> SUFFICES ASSUME r.door = "repair" PROVE FALSE
    OBVIOUS
  <2>1. Packet("repair", "writer_safe", NoManifest, r.text) \in PacketsOf(r)
    BY DEF PacketsOf, RepairPackets
  <2>2. Packet("repair", "writer_safe", NoManifest, r.text).deps = -1
    BY DEF Packet, NoManifest
  <2> QED BY <2>1, <2>2, <1>1
<1>7. r.door \in {"concept", "beat", "publish", "vertical", "chat"}
  BY <1>6 DEF KindFits, Frozen, PaidDoors
<1>8. Serves(PacketsOf(r), kind, deps, text)
  <2>1. CASE r.door = "concept"
    BY <1>1, <1>2, <2>1, DoorKinds DEF PacketsOf, KindFits, PlannedKinds, ExtractedKinds
  <2>2. CASE r.door = "beat"
    BY <1>1, <1>3, <2>2, DoorKinds DEF PacketsOf, KindFits, PlannedKinds, ExtractedKinds
  <2>3. CASE r.door = "publish"
    BY <1>1, <1>4, <2>3, DoorKinds DEF PacketsOf, KindFits, PlannedKinds, ExtractedKinds
  <2>4. CASE r.door = "chat"
    <3>1. PacketsOf(r) = PublishPackets(deps, text)
      BY <1>1, <2>4 DEF PacketsOf, IntakePackets, PublishPackets
    <3> QED BY <1>1, <1>4, <2>4, <3>1, DoorKinds DEF KindFits, ExtractedKinds
  <2>5. CASE r.door = "vertical"
    <3>1. PacketsOf(r) = VerticalPackets(kind, deps, text)
      BY <1>1, <2>5 DEF PacketsOf
    <3>2. kind \in VerticalKinds
      BY <1>1, <2>5 DEF KindFits
    <3>3. kind \in PlannedKinds \cup {"beat_write_judge", "safe_repair", "publish_package"}
      BY <3>2 DEF PreparationAssumption, PlannedKinds
    <3>4. CASE kind \in PlannedKinds
      <4>1. PacketsOf(r) = ConceptPackets(deps, text)
        BY <3>1, <3>4 DEF VerticalPackets, PlannedKinds
      <4> QED BY <1>2, <3>4, <4>1
    <3>5. CASE kind = "beat_write_judge"
      <4>1. PacketsOf(r) = BeatPackets(deps, text)
        BY <3>1, <3>5 DEF VerticalPackets
      <4> QED BY <1>3, <3>5, <4>1
    <3>6. CASE kind = "safe_repair"
      <4>1. PacketsOf(r) = {Packet("repair", "writer_safe", deps, text)}
        BY <3>1, <3>6 DEF VerticalPackets
      <4> QED BY <1>5, <3>6, <4>1
    <3>7. CASE kind = "publish_package"
      <4>1. PacketsOf(r) = PublishPackets(deps, text)
        BY <3>1, <3>7 DEF VerticalPackets
      <4> QED BY <1>4, <3>7, <4>1 DEF ExtractedKinds
    <3> QED BY <3>3, <3>4, <3>5, <3>6, <3>7
  <2> QED BY <1>7, <2>1, <2>2, <2>3, <2>4, <2>5
<1> QED BY <1>1, <1>8

LEMMA HashTyped ==
  ASSUME bundles \in Seq(Bundle), NEW kind \in FrozenKinds, NEW b \in DOMAIN bundles
  PROVE  PlanHash(kind, b) \in Hash
<1>1. bundles[b] \in Bundle
  OBVIOUS
<1>2. HashOf(b) \in FrozenKinds \X Nat \X SUBSET AnyPacket
  BY <1>1 DEF HashOf, BundleHash, Bundle
<1>3. Stages(kind) \in SUBSET AnyStage
  BY StagesTyped
<1> QED BY <1>2, <1>3 DEF PlanHash, Hash

\* What a hash names.
LEMMA HashNames ==
  ASSUME NEW kind, NEW b, NEW other, NEW c, PlanHash(kind, b) = PlanHash(other, c)
  PROVE  kind = other
  BY DEF PlanHash

-----------------------------------------------------------------------------
\* Rows are added and marked, and otherwise left alone.
Grows ==
  /\ \A b \in DOMAIN bundles :
       /\ b \in DOMAIN bundles' /\ bundles'[b].kind = bundles[b].kind
       /\ bundles'[b].deps = bundles[b].deps /\ bundles'[b].packets = bundles[b].packets
  /\ \A p \in DOMAIN plans : p \in DOMAIN plans' /\ plans'[p] = plans[p]
  /\ \A q \in DOMAIN offers :
       /\ q \in DOMAIN offers' /\ offers'[q].kind = offers[q].kind
       /\ offers'[q].plan = offers[q].plan /\ offers'[q].deps = offers[q].deps
       /\ offers'[q].text = offers[q].text

LEMMA BackedLasts ==
  ASSUME Grows, NEW plan, NEW b, NEW kind, NEW deps, NEW text
  PROVE  /\ Fits(b, kind, deps, text) => Fits(b, kind, deps, text)'
         /\ Backed(plan, b, kind, deps, text) => Backed(plan, b, kind, deps, text)'
  BY DEF Grows, Fits, Backed

LEMMA AskLasts ==
  ASSUME Grows, NEW r, AskStands(r)
  PROVE  AskStands(r)'
<1>1. Fits(r.bundle, r.kind, r.deps, r.text) => Fits(r.bundle, r.kind, r.deps, r.text)'
  BY BackedLasts
<1>2. Backed(r.plan, r.bundle, r.kind, r.deps, r.text)
        => Backed(r.plan, r.bundle, r.kind, r.deps, r.text)'
  BY BackedLasts
<1> QED BY <1>1, <1>2 DEF AskStands, Grows

\* Nothing a request holds, an offer or a job rests on, is taken away.
LEMMA AsksLast ==
  ASSUME PrepInv, Grows, NEW a \in Askers, NEW r, AskStands(r)', asks' = [asks EXCEPT ![a] = r]
  PROVE  AsksStand'
<1> SUFFICES ASSUME NEW x \in Askers PROVE AskStands(asks[x])'
  BY DEF AsksStand
<1>1. PICK s : s = asks[x]
  OBVIOUS
<1>2. CASE x = a
  BY <1>2 DEF PrepInv, PrepTypeOK
<1>3. CASE x # a
  <2>1. AskStands(s)'
    BY <1>1, AskLasts DEF PrepInv, AsksStand
  <2>2. asks'[x] = s
    BY <1>1, <1>3 DEF PrepInv, PrepTypeOK
  <2> QED BY <2>1, <2>2
<1> QED BY <1>2, <1>3

LEMMA AsksRest ==
  ASSUME PrepInv, Grows, asks' = asks
  PROVE  AsksStand'
<1> SUFFICES ASSUME NEW x \in Askers PROVE AskStands(asks[x])'
  BY DEF AsksStand
<1>1. PICK s : s = asks[x]
  OBVIOUS
<1>2. AskStands(s)'
  BY <1>1, AskLasts DEF PrepInv, AsksStand
<1> QED BY <1>1, <1>2

LEMMA OffersLast ==
  ASSUME PrepInv, Grows, NEW q \in DOMAIN offers, offers'[q].plan # None
  PROVE  Backed(offers[q].plan, plans[offers[q].plan].bundle, offers[q].kind, offers[q].deps,
                offers[q].text)'
<1>1. PICK o : o = offers[q]
  OBVIOUS
<1>2. PICK b : b = plans[o.plan].bundle
  OBVIOUS
<1>3. Backed(o.plan, b, o.kind, o.deps, o.text)
  BY <1>1, <1>2 DEF Grows, PrepInv, OffersStand
<1>4. Backed(o.plan, b, o.kind, o.deps, o.text)'
  BY <1>3, BackedLasts
<1>5. plans'[o.plan] = plans[o.plan]
  BY <1>3 DEF Backed, Grows
<1> QED BY <1>1, <1>2, <1>4, <1>5 DEF Grows

LEMMA JobsLast ==
  ASSUME PrepInv, Grows, NEW j \in DOMAIN jobs, jobs[j].plan # None
  PROVE  /\ Backed(jobs[j].plan, jobs[j].bundle, jobs[j].kind, jobs[j].deps, jobs[j].text)
         /\ \A r : r = jobs[j] => Backed(r.plan, r.bundle, r.kind, r.deps, r.text)'
         /\ Hashes \subseteq jobs[j].payload
<1>1. PICK r : r = jobs[j]
  OBVIOUS
<1>2. Backed(r.plan, r.bundle, r.kind, r.deps, r.text) /\ Hashes \subseteq r.payload
  BY <1>1 DEF PrepInv, JobsStand
<1>3. Backed(r.plan, r.bundle, r.kind, r.deps, r.text)'
  BY <1>2, BackedLasts
<1> QED BY <1>1, <1>2, <1>3

\* Plans keep their bundles and hashes as long as none of their bundles is swept.
LEMMA PlansLast ==
  ASSUME PrepInv, Grows, NEW p \in DOMAIN plans,
         bundles'[plans[p].bundle].live = bundles[plans[p].bundle].live
  PROVE  /\ plans'[p].bundle \in DOMAIN bundles' /\ bundles'[plans'[p].bundle].live
         /\ plans'[p].hash = PlanHash(plans[p].kind, plans[p].bundle)'
  BY DEF PrepInv, PlansStand, Grows, PlanHash, HashOf, BundleHash

LEMMA BundlesLast ==
  ASSUME PrepInv, Grows, NEW b \in DOMAIN bundles
  PROVE  \A s \in Stages(bundles'[b].kind) : \E p \in bundles'[b].packets :
           p.kind = s.packet /\ p.class = s.class /\ p.deps = bundles'[b].deps
  BY DEF PrepInv, BundlesServe, Grows

-----------------------------------------------------------------------------
\* Steps of a request that write no row.
LEMMA RequestSteps ==
  ASSUME PrepInv, NEW a \in Askers, NEW r \in Ask, AskStands(r),
         asks' = [asks EXCEPT ![a] = r], story' \in [deps : Nat, text : Texts],
         UNCHANGED <<bundles, plans, offers, jobs>>
  PROVE  PrepInv'
<1>1. Grows
  BY DEF Grows
<1>2. AsksStand'
  BY <1>1, AskLasts, AsksLast
<1>3. PrepTypeOK'
  BY DEF PrepInv, PrepTypeOK
<1>4. BundlesServe' /\ PlansStand' /\ OffersStand' /\ JobsStand'
  BY DEF PrepInv, BundlesServe, PlansStand, OffersStand, JobsStand, Backed, Fits, PlanHash,
         HashOf, BundleHash
<1> QED BY <1>2, <1>3, <1>4 DEF PrepInv

LEMMA UnaskedStands == Unasked \in Ask /\ AskStands(Unasked)
<1>1. Unasked \in Ask
  BY DEF Unasked, Ask, Kinds, Texts, None
<1>2. AskStands(Unasked)
  BY DEF Unasked, AskStands, None
<1> QED BY <1>1, <1>2

LEMMA Answers ==
  ASSUME PrepInv, NEW a \in Askers, Answer(a), UNCHANGED <<story, bundles, plans, offers, jobs>>
  PROVE  PrepInv'
<1>1. story' \in [deps : Nat, text : Texts]
  BY DEF PrepInv, PrepTypeOK
<1> QED BY <1>1, UnaskedStands, RequestSteps DEF Answer

\* A request begins.
LEMMA AskedStands ==
  ASSUME NEW door, NEW kind, \/ kind \in FrozenKinds /\ KindFits(door, kind)
                             \/ door = "scene" /\ kind = "scene_generation"
  PROVE  LET r == [Unasked EXCEPT !.at = "asked", !.door = door, !.kind = kind]
         IN  r \in Ask /\ AskStands(r)
<1>1. PICK s \in Ask : s = Unasked
  BY UnaskedStands
<1>2. s.plan = None
  BY <1>1 DEF Unasked
<1>3. PICK r : r = [s EXCEPT !.at = "asked", !.door = door, !.kind = kind]
  OBVIOUS
<1>4. r \in Ask /\ r.at = "asked" /\ r.door = door /\ r.kind = kind /\ r.plan = None
  BY <1>2, <1>3 DEF Ask, Kinds, KindFits
<1>5. AskStands(r)
  BY <1>4 DEF AskStands, None
<1> QED BY <1>1, <1>3, <1>4, <1>5

LEMMA AsksSteps ==
  ASSUME PreparationAssumption, PrepInv, NEW a \in Askers,
         \/ \E door \in {"concept", "beat", "repair", "publish", "scene"} : Asks(a, door)
         \/ VerticalAsks(a) \/ ChatAsks(a)
  PROVE  PrepInv'
<1>1. \E door, kind :
        /\ \/ kind \in FrozenKinds /\ KindFits(door, kind)
           \/ door = "scene" /\ kind = "scene_generation"
        /\ asks' = [asks EXCEPT ![a] = [Unasked EXCEPT !.at = "asked", !.door = door,
                                                      !.kind = kind]]
  <2>1. ASSUME NEW door \in {"concept", "beat", "repair", "publish", "chat"}
        PROVE  KindFits(door, KindOf(door)) /\ KindOf(door) \in FrozenKinds
    BY DoorKinds DEF KindFits, Frozen, PaidDoors, FrozenKinds
  <2>2. CASE \E door \in {"concept", "beat", "repair", "publish", "scene"} : Asks(a, door)
    <3>1. PICK door \in {"concept", "beat", "repair", "publish", "scene"} : Asks(a, door)
      BY <2>2
    <3>2. PICK kind : kind = KindOf(door)
      OBVIOUS
    <3>3. asks' = [asks EXCEPT ![a] = [Unasked EXCEPT !.at = "asked", !.door = door,
                                                     !.kind = kind]]
      BY <3>1, <3>2 DEF Asks, Continue
    <3>4. \/ kind \in FrozenKinds /\ KindFits(door, kind)
          \/ door = "scene" /\ kind = "scene_generation"
      BY <2>1, <3>2, DoorKinds
    <3> QED BY <3>3, <3>4
  <2>3. CASE VerticalAsks(a)
    <3>1. PICK kind \in VerticalKinds :
            asks' = [asks EXCEPT ![a] = [Unasked EXCEPT !.at = "asked", !.door = "vertical",
                                                       !.kind = kind]]
      BY <2>3 DEF VerticalAsks, Continue
    <3>2. KindFits("vertical", kind)
      BY DEF KindFits, Frozen
    <3> QED BY <3>1, <3>2, KindIsFrozen
  <2>4. CASE ChatAsks(a)
    <3>1. PICK kind : kind = KindOf("chat")
      OBVIOUS
    <3>2. asks' = [asks EXCEPT ![a] = [Unasked EXCEPT !.at = "asked", !.door = "chat",
                                                     !.kind = kind]]
      BY <2>4, <3>1 DEF ChatAsks, Continue
    <3>3. kind \in FrozenKinds /\ KindFits("chat", kind)
      BY <2>1, <3>1
    <3> QED BY <3>2, <3>3
  <2> QED BY <2>2, <2>3, <2>4
<1>2. story' \in [deps : Nat, text : Texts] /\ UNCHANGED <<bundles, plans, offers, jobs>>
  BY DEF Asks, VerticalAsks, ChatAsks, PrepInv, PrepTypeOK, Texts
<1>3. PICK door, kind :
        /\ \/ kind \in FrozenKinds /\ KindFits(door, kind)
           \/ door = "scene" /\ kind = "scene_generation"
        /\ asks' = [asks EXCEPT ![a] = [Unasked EXCEPT !.at = "asked", !.door = door,
                                                      !.kind = kind]]
  BY <1>1
<1>4. PICK r : r = [Unasked EXCEPT !.at = "asked", !.door = door, !.kind = kind]
  OBVIOUS
<1>5. r \in Ask /\ AskStands(r)
  BY <1>3, <1>4, AskedStands
<1> QED BY <1>2, <1>3, <1>4, <1>5, RequestSteps

LEMMA ReadsSteps ==
  ASSUME PrepInv, NEW a \in Askers, Reads(a)
  PROVE  PrepInv'
<1>1. CASE Answer(a)
  BY <1>1, Answers DEF Reads
<1>2. CASE asks' = [asks EXCEPT ![a] = [asks[a] EXCEPT !.at = "read", !.deps = story.deps,
                                                      !.text = story.text]]
  <2>1. PICK s \in Ask : s = asks[a]
    BY DEF PrepInv, PrepTypeOK
  <2>2. PICK r : r = [s EXCEPT !.at = "read", !.deps = story.deps, !.text = story.text]
    OBVIOUS
  <2>3. story.deps \in Nat /\ story.text \in Texts /\ s.bundle \in Nat /\ s.plan \in Nat
        /\ story' \in [deps : Nat, text : Texts]
    BY <2>1 DEF PrepInv, PrepTypeOK, Ask, Reads
  <2>5. /\ r \in Ask /\ r.at = "read" /\ r.door = s.door /\ r.kind = s.kind /\ r.plan = s.plan
    BY <2>2, <2>3 DEF Ask
  <2>6. s.at = "asked" /\ s.door \in Frozen /\ AskStands(s)
    BY <2>1 DEF Reads, AskAt, PrepInv, AsksStand
  <2>7. AskStands(r)
    BY <2>5, <2>6 DEF AskStands, Frozen, PaidDoors
  <2>8. asks' = [asks EXCEPT ![a] = r]
    BY <1>2, <2>1, <2>2
  <2> QED BY <2>3, <2>5, <2>7, <2>8, RequestSteps DEF Reads
<1> QED BY <1>1, <1>2 DEF Reads, Continue

LEMMA FreezeLookSteps ==
  ASSUME PreparationAssumption, PrepInv, NEW a \in Askers, FreezeLook(a)
  PROVE  PrepInv'
<1>0. story' \in [deps : Nat, text : Texts] /\ UNCHANGED <<bundles, plans, offers, jobs>>
  BY DEF FreezeLook, PrepInv, PrepTypeOK
<1>1. PICK s \in Ask : s = asks[a]
  BY DEF PrepInv, PrepTypeOK
<1>2. /\ s.at = "read" /\ s.door \in Frozen /\ AskStands(s)
      /\ s.deps \in Nat /\ s.text \in Texts /\ s.bundle \in Nat /\ s.plan \in Nat
  BY <1>1 DEF FreezeLook, AskAt, PrepInv, AsksStand, Ask
<1>3. KindFits(s.door, s.kind) /\ s.plan = None
  BY <1>2 DEF AskStands, Frozen, PaidDoors
<1>4. CASE Answer(a)
  BY <1>4, Answers DEF FreezeLook
<1>5. CASE /\ PacketsValid(s)
           /\ asks' = [asks EXCEPT ![a] = [s EXCEPT !.at = "freezing"]]
  <2>1. PICK r : r = [s EXCEPT !.at = "freezing"]
    OBVIOUS
  <2>2. /\ r \in Ask /\ r.at = "freezing" /\ r.door = s.door /\ r.kind = s.kind
        /\ r.deps = s.deps /\ r.text = s.text /\ r.plan = s.plan
    BY <2>1 DEF Ask
  <2>3. PacketsOf(r) = PacketsOf(s)
    BY <2>2 DEF PacketsOf
  <2>4. AskStands(r)
    BY <1>3, <1>5, <2>2, <2>3 DEF AskStands, PacketsValid
  <2> QED BY <1>0, <1>5, <2>1, <2>2, <2>4, RequestSteps
<1>6. ASSUME NEW b \in FindBundle(s), PacketsValid(s),
             asks' = [asks EXCEPT ![a] = [s EXCEPT !.at = "frozen", !.bundle = b]]
      PROVE  PrepInv'
  <2>1. b \in DOMAIN bundles /\ b \in Nat
    BY DEF FindBundle, PrepInv, PrepTypeOK
  <2>2. bundles[b].kind = s.kind /\ bundles[b].deps = s.deps /\ bundles[b].packets = PacketsOf(s)
    BY DEF FindBundle, HashOf, BundleHash
  <2>3. \A p \in PacketsOf(s) : p.deps = s.deps
    BY <1>6 DEF PacketsValid
  <2>4. Fits(b, s.kind, s.deps, s.text)
    BY <1>3, <2>1, <2>2, <2>3, PacketsServe DEF Fits
  <2>5. PICK r : r = [s EXCEPT !.at = "frozen", !.bundle = b]
    OBVIOUS
  <2>7. /\ r \in Ask /\ r.at = "frozen" /\ r.door = s.door /\ r.kind = s.kind
        /\ r.deps = s.deps /\ r.text = s.text /\ r.bundle = b /\ r.plan = s.plan
    BY <2>1, <2>5 DEF Ask
  <2>8. AskStands(r)
    BY <1>3, <2>4, <2>7 DEF AskStands
  <2> QED BY <1>0, <1>6, <2>5, <2>7, <2>8, RequestSteps
<1> QED BY <1>1, <1>4, <1>5, <1>6 DEF FreezeLook, Continue

\* A plan that is found by its hash is of the kind asked for.
LEMMA FoundPlanStands ==
  ASSUME PrepInv, NEW a \in Askers, FreezePlan(a),
         NEW p \in FindPlan(PlanHash(asks[a].kind, asks[a].bundle)),
         Continue(a, [asks[a] EXCEPT !.at = "planned", !.plan = p]), plans' = plans
  PROVE  PrepInv'
<1>1. PICK s \in Ask : s = asks[a]
  BY DEF PrepInv, PrepTypeOK
<1>2. s.at = "frozen" /\ s.door \in Frozen /\ AskStands(s)
  BY <1>1 DEF FreezePlan, AskAt, PrepInv, AsksStand
<1>3. p \in DOMAIN plans /\ p \in Nat /\ plans[p].kind = s.kind
  <2>1. p \in DOMAIN plans /\ plans[p].hash = PlanHash(s.kind, s.bundle)
    BY <1>1 DEF FindPlan
  <2>2. plans[p].hash = PlanHash(plans[p].kind, plans[p].bundle)
    BY <2>1 DEF PrepInv, PlansStand
  <2>3. p \in Nat
    BY <2>1 DEF PrepInv, PrepTypeOK
  <2> QED BY <2>1, <2>2, <2>3, HashNames
<1>4. PICK r : r = [s EXCEPT !.at = "planned", !.plan = p]
  OBVIOUS
<1>5. /\ r \in Ask /\ r.at = "planned" /\ r.door = s.door /\ r.kind = s.kind
      /\ r.deps = s.deps /\ r.text = s.text /\ r.bundle = s.bundle /\ r.plan = p
  BY <1>3, <1>4 DEF Ask
<1>6. AskStands(r)
  BY <1>2, <1>3, <1>5 DEF AskStands, Frozen, PaidDoors
<1>7. story' \in [deps : Nat, text : Texts] /\ UNCHANGED <<bundles, plans, offers, jobs>>
  BY DEF FreezePlan, PrepInv, PrepTypeOK
<1>8. asks' = [asks EXCEPT ![a] = r]
  BY <1>1, <1>4 DEF Continue
<1> QED BY <1>5, <1>6, <1>7, <1>8, RequestSteps

\* A confirmation binds what the quote and its plan say.
LEMMA BindsSteps ==
  ASSUME PrepInv, NEW a \in Askers,
         NEW door \in {"concept", "beat", "repair", "publish", "scene"}, NEW stale,
         Binds(a, door, stale)
  PROVE  PrepInv'
<1>1. PICK q \in DOMAIN offers :
        /\ offers[q].kind = KindOf(door)
        /\ Continue(a, [Unasked EXCEPT !.at = "bound", !.door = door, !.kind = KindOf(door),
             !.deps = offers[q].deps, !.text = offers[q].text, !.plan = offers[q].plan,
             !.bundle = IF offers[q].plan = None THEN None ELSE plans[offers[q].plan].bundle,
             !.quote = q])
  BY DEF Binds
<1>2. PICK o \in Quote : o = offers[q]
  BY DEF PrepInv, PrepTypeOK
<1>3. PICK b : b = IF o.plan = None THEN None ELSE plans[o.plan].bundle
  OBVIOUS
<1>4. PICK kind : kind = KindOf(door)
  OBVIOUS
<1>5. o.plan # None => Backed(o.plan, b, kind, o.deps, o.text)
  BY <1>1, <1>2, <1>3, <1>4 DEF PrepInv, OffersStand
<1>6. b \in Nat /\ q \in Nat /\ o.plan \in Nat /\ o.deps \in Nat /\ o.text \in Texts
  <2>1. CASE o.plan = None
    BY <1>2, <1>3, <2>1 DEF Quote, None, PrepInv, PrepTypeOK
  <2>2. CASE o.plan # None
    <3>1. plans[o.plan] \in Plan
      BY <1>5, <2>2 DEF Backed, PrepInv, PrepTypeOK
    <3> QED BY <1>2, <1>3, <2>2, <3>1 DEF Quote, Plan, PrepInv, PrepTypeOK
  <2> QED BY <2>1, <2>2
<1>7. door = "scene" => o.plan = None
  BY <1>4, <1>5, DoorKinds DEF Backed, FrozenKinds
<1>8. kind \in Kinds /\ door \in Frozen \cup {"none", "scene"}
  BY <1>1, <1>2, <1>4 DEF Quote, Frozen, PaidDoors
<1>9. PICK s \in Ask : s = Unasked
  BY UnaskedStands
<1>10. PICK r : r = [s EXCEPT !.at = "bound", !.door = door, !.kind = kind, !.deps = o.deps,
                              !.text = o.text, !.plan = o.plan, !.bundle = b, !.quote = q]
  OBVIOUS
<1>11. /\ r \in Ask /\ r.at = "bound" /\ r.door = door /\ r.kind = kind /\ r.deps = o.deps
       /\ r.text = o.text /\ r.plan = o.plan /\ r.bundle = b /\ r.quote = q
  BY <1>6, <1>8, <1>10 DEF Ask
<1>12. AskStands(r)
  BY <1>5, <1>7, <1>11 DEF AskStands
<1>13. asks' = [asks EXCEPT ![a] = r]
  BY <1>1, <1>2, <1>3, <1>4, <1>9, <1>10 DEF Continue
<1>14. story' \in [deps : Nat, text : Texts] /\ UNCHANGED <<bundles, plans, offers, jobs>>
  BY DEF Binds, PrepInv, PrepTypeOK
<1> QED BY <1>11, <1>12, <1>13, <1>14, RequestSteps

-----------------------------------------------------------------------------
\* Steps that write rows.

LEMMA OffersRest == ASSUME PrepInv, Grows, DOMAIN offers' = DOMAIN offers PROVE OffersStand'
  BY OffersLast DEF OffersStand

LEMMA JobsRest ==
  ASSUME PrepInv, Grows, DOMAIN jobs' = DOMAIN jobs,
         \A j \in DOMAIN jobs :
           /\ jobs'[j].plan = jobs[j].plan /\ jobs'[j].bundle = jobs[j].bundle
           /\ jobs'[j].kind = jobs[j].kind /\ jobs'[j].deps = jobs[j].deps
           /\ jobs'[j].text = jobs[j].text /\ jobs'[j].payload = jobs[j].payload
  PROVE  JobsStand'
<1> SUFFICES ASSUME NEW j \in DOMAIN jobs, jobs'[j].plan # None
             PROVE  /\ Backed(jobs[j].plan, jobs[j].bundle, jobs[j].kind, jobs[j].deps,
                              jobs[j].text)'
                    /\ Hashes \subseteq jobs'[j].payload
  BY DEF JobsStand
<1>1. PICK r : r = jobs[j]
  OBVIOUS
<1>2. Backed(r.plan, r.bundle, r.kind, r.deps, r.text)' /\ Hashes \subseteq r.payload
  BY <1>1, JobsLast
<1> QED BY <1>1, <1>2

LEMMA FreezeWriteSteps ==
  ASSUME PreparationAssumption, PrepInv, NEW a \in Askers, FreezeWrite(a)
  PROVE  PrepInv'
<1>1. PICK s \in Ask : s = asks[a]
  BY DEF PrepInv, PrepTypeOK
<1>2. /\ s.at = "freezing" /\ s.door \in Frozen /\ AskStands(s)
      /\ s.deps \in Nat /\ s.text \in Texts /\ s.bundle \in Nat /\ s.plan \in Nat
  BY <1>1 DEF FreezeWrite, AskAt, PrepInv, AsksStand, Ask
<1>3. /\ KindFits(s.door, s.kind) /\ s.plan = None
      /\ \A p \in PacketsOf(s) : p.deps = s.deps
  BY <1>2 DEF AskStands, Frozen, PaidDoors
<1>4. CASE Answer(a) /\ UNCHANGED bundles
  BY <1>4, Answers DEF FreezeWrite
<1>5. CASE /\ bundles' = Append(bundles, [kind |-> s.kind, deps |-> s.deps,
                                          packets |-> PacketsOf(s), live |-> TRUE])
           /\ asks' = [asks EXCEPT ![a] = [s EXCEPT !.at = "frozen",
                                                    !.bundle = Len(bundles) + 1]]
  <2>1. PICK new : new = [kind |-> s.kind, deps |-> s.deps, packets |-> PacketsOf(s),
                          live |-> TRUE]
    OBVIOUS
  <2>2. PICK b : b = Len(bundles) + 1
    OBVIOUS
  <2>3. new \in Bundle
    BY <1>2, <1>3, <2>1, KindIsFrozen, PacketsServe DEF Bundle
  <2>4. /\ bundles' \in Seq(Bundle) /\ b \in DOMAIN bundles' /\ b \in Nat /\ bundles'[b] = new
        /\ \A c \in DOMAIN bundles : c \in DOMAIN bundles' /\ bundles'[c] = bundles[c]
        /\ \A c \in DOMAIN bundles' : c = b \/ c \in DOMAIN bundles
    BY <1>5, <2>1, <2>2, <2>3 DEF PrepInv, PrepTypeOK
  <2>5. UNCHANGED <<plans, offers, jobs, story>>
    BY DEF FreezeWrite
  <2>6. Grows
    BY <2>4, <2>5 DEF Grows
  <2>7. \A x \in Stages(new.kind) : \E p \in new.packets :
          p.kind = x.packet /\ p.class = x.class /\ p.deps = new.deps
    BY <1>3, <2>1, PacketsServe
  <2>8. BundlesServe'
    BY <2>4, <2>6, <2>7, BundlesLast DEF BundlesServe
  <2>9. PlansStand'
    BY <2>4, <2>5, <2>6, PlansLast DEF PlansStand, PrepInv
  <2>10. OffersStand' /\ JobsStand'
    BY <2>5, <2>6, OffersRest, JobsRest
  <2>11. PICK r : r = [s EXCEPT !.at = "frozen", !.bundle = b]
    OBVIOUS
  <2>12. /\ r \in Ask /\ r.at = "frozen" /\ r.door = s.door /\ r.kind = s.kind
         /\ r.deps = s.deps /\ r.text = s.text /\ r.bundle = b /\ r.plan = s.plan
    BY <2>4, <2>11 DEF Ask
  <2>13. Fits(b, s.kind, s.deps, s.text)'
    BY <1>3, <2>1, <2>4, PacketsServe DEF Fits
  <2>14. AskStands(r)'
    BY <1>3, <2>12, <2>13 DEF AskStands
  <2>15. asks' = [asks EXCEPT ![a] = r]
    BY <1>5, <2>2, <2>11
  <2>16. AsksStand'
    BY <2>6, <2>14, <2>15, AsksLast
  <2>17. PrepTypeOK'
    BY <2>4, <2>5, <2>12, <2>15 DEF PrepInv, PrepTypeOK
  <2> QED BY <2>8, <2>9, <2>10, <2>16, <2>17 DEF PrepInv
<1> QED BY <1>1, <1>4, <1>5 DEF FreezeWrite, Continue

LEMMA SweepSteps ==
  ASSUME PrepInv, SweepBundle
  PROVE  PrepInv'
<1>1. PICK b \in DOMAIN bundles : /\ ~ReferredTo(b)
                                  /\ bundles' = [bundles EXCEPT ![b].live = FALSE]
  BY DEF SweepBundle
<1>2. UNCHANGED <<plans, offers, jobs, story, asks>>
  BY DEF SweepBundle
<1>3. PICK swept : swept = [bundles[b] EXCEPT !.live = FALSE]
  OBVIOUS
<1>4. /\ swept \in Bundle /\ swept.kind = bundles[b].kind /\ swept.deps = bundles[b].deps
      /\ swept.packets = bundles[b].packets
  <2>1. PICK row \in Bundle : row = bundles[b]
    BY DEF PrepInv, PrepTypeOK
  <2> QED BY <1>3, <2>1 DEF Bundle
<1>5. /\ bundles' \in Seq(Bundle) /\ DOMAIN bundles' = DOMAIN bundles /\ bundles'[b] = swept
      /\ \A c \in DOMAIN bundles \ {b} : bundles'[c] = bundles[c]
  BY <1>1, <1>3, <1>4 DEF PrepInv, PrepTypeOK
<1>6. Grows
  BY <1>2, <1>4, <1>5 DEF Grows
<1>7. BundlesServe'
  BY <1>5, <1>6, BundlesLast DEF BundlesServe
<1>8. \A p \in DOMAIN plans : plans[p].bundle # b /\ plans[p].bundle \in DOMAIN bundles
  BY <1>1 DEF ReferredTo, PrepInv, PlansStand
<1>9. PlansStand'
  BY <1>2, <1>5, <1>6, <1>8, PlansLast DEF PlansStand
<1>10. OffersStand' /\ JobsStand' /\ AsksStand'
  BY <1>2, <1>6, OffersRest, JobsRest, AsksRest
<1>11. PrepTypeOK'
  BY <1>2, <1>5 DEF PrepInv, PrepTypeOK
<1> QED BY <1>7, <1>9, <1>10, <1>11 DEF PrepInv

\* A new plan keeps the bundle it was made over, which is there.
LEMMA NewPlanStands ==
  ASSUME PreparationAssumption, PrepInv, NEW a \in Askers, FreezePlan(a),
         bundles[asks[a].bundle].live,
         plans' = Append(plans, [kind |-> asks[a].kind, bundle |-> asks[a].bundle,
                                 hash |-> PlanHash(asks[a].kind, asks[a].bundle)]),
         Continue(a, [asks[a] EXCEPT !.at = "planned", !.plan = Len(plans) + 1])
  PROVE  PrepInv'
<1>1. PICK s \in Ask : s = asks[a]
  BY DEF PrepInv, PrepTypeOK
<1>2. s.at = "frozen" /\ s.door \in Frozen /\ AskStands(s)
  BY <1>1 DEF FreezePlan, AskAt, PrepInv, AsksStand
<1>3. KindFits(s.door, s.kind) /\ Fits(s.bundle, s.kind, s.deps, s.text)
  BY <1>2 DEF AskStands, Frozen, PaidDoors
<1>4. PICK hash : hash = PlanHash(s.kind, s.bundle)
  OBVIOUS
<1>5. PICK new : new = [kind |-> s.kind, bundle |-> s.bundle, hash |-> hash]
  OBVIOUS
<1>6. PICK p : p = Len(plans) + 1
  OBVIOUS
<1>7. s.kind \in FrozenKinds /\ s.bundle \in DOMAIN bundles
  BY <1>3, KindIsFrozen DEF Fits
<1>8. hash \in Hash
  BY <1>4, <1>7, HashTyped DEF PrepInv, PrepTypeOK
<1>9. new \in Plan
  BY <1>5, <1>7, <1>8 DEF Plan, Ask
<1>10. /\ plans' \in Seq(Plan) /\ p \in DOMAIN plans' /\ p \in Nat /\ plans'[p] = new
       /\ \A c \in DOMAIN plans : c \in DOMAIN plans' /\ plans'[c] = plans[c]
       /\ \A c \in DOMAIN plans' : c = p \/ c \in DOMAIN plans
  BY <1>1, <1>4, <1>5, <1>6, <1>9 DEF PrepInv, PrepTypeOK
<1>11. UNCHANGED <<bundles, offers, jobs, story>>
  BY DEF FreezePlan
<1>12. Grows
  BY <1>10, <1>11 DEF Grows
<1>13. BundlesServe'
  BY <1>11 DEF PrepInv, BundlesServe
<1>14. PlansStand'
  <2>1. new.bundle \in DOMAIN bundles' /\ bundles'[new.bundle].live
    BY <1>1, <1>5, <1>7, <1>11
  <2>2. new.hash = PlanHash(new.kind, new.bundle)'
    <3>1. PlanHash(s.kind, s.bundle)' = PlanHash(s.kind, s.bundle)
      BY <1>11 DEF PlanHash, HashOf, BundleHash
    <3> QED BY <1>4, <1>5, <3>1
  <2>3. ASSUME NEW c \in DOMAIN plans
        PROVE  /\ plans'[c].bundle \in DOMAIN bundles' /\ bundles'[plans'[c].bundle].live
               /\ plans'[c].hash = PlanHash(plans[c].kind, plans[c].bundle)'
    BY <1>11, <1>12, PlansLast
  <2> QED BY <1>10, <2>1, <2>2, <2>3 DEF PlansStand
<1>15. OffersStand' /\ JobsStand'
  BY <1>11, <1>12, OffersRest, JobsRest
<1>16. PICK r : r = [s EXCEPT !.at = "planned", !.plan = p]
  OBVIOUS
<1>17. /\ r \in Ask /\ r.at = "planned" /\ r.door = s.door /\ r.kind = s.kind
       /\ r.deps = s.deps /\ r.text = s.text /\ r.bundle = s.bundle /\ r.plan = p
  BY <1>10, <1>16 DEF Ask
<1>18. Fits(s.bundle, s.kind, s.deps, s.text)'
  BY <1>3, <1>12, BackedLasts
<1>19. AskStands(r)'
  <2>1. s.door # "scene" /\ KindFits(r.door, r.kind)
    BY <1>2, <1>3, <1>17 DEF Frozen, PaidDoors
  <2>2. plans'[r.plan].kind = r.kind /\ r.plan \in DOMAIN plans'
    BY <1>5, <1>10, <1>17
  <2> QED BY <1>17, <1>18, <2>1, <2>2 DEF AskStands
<1>20. asks' = [asks EXCEPT ![a] = r]
  BY <1>1, <1>6, <1>16 DEF Continue
<1>21. AsksStand'
  BY <1>12, <1>19, <1>20, AsksLast
<1>22. PrepTypeOK'
  BY <1>10, <1>11, <1>17, <1>20 DEF PrepInv, PrepTypeOK
<1> QED BY <1>13, <1>14, <1>15, <1>21, <1>22 DEF PrepInv

LEMMA FreezePlanSteps ==
  ASSUME PreparationAssumption, PrepInv, NEW a \in Askers, FreezePlan(a)
  PROVE  PrepInv'
<1>1. \/ Answer(a) /\ plans' = plans
      \/ \E p \in FindPlan(PlanHash(asks[a].kind, asks[a].bundle)) :
           Continue(a, [asks[a] EXCEPT !.at = "planned", !.plan = p]) /\ plans' = plans
      \/ /\ bundles[asks[a].bundle].live
         /\ plans' = Append(plans, [kind |-> asks[a].kind, bundle |-> asks[a].bundle,
                                    hash |-> PlanHash(asks[a].kind, asks[a].bundle)])
         /\ Continue(a, [asks[a] EXCEPT !.at = "planned", !.plan = Len(plans) + 1])
  BY DEF FreezePlan
<1>2. UNCHANGED <<story, bundles, offers, jobs>>
  BY DEF FreezePlan
<1>3. ASSUME Answer(a), plans' = plans PROVE PrepInv'
  BY <1>2, <1>3, Answers
<1>4. ASSUME NEW p \in FindPlan(PlanHash(asks[a].kind, asks[a].bundle)),
             Continue(a, [asks[a] EXCEPT !.at = "planned", !.plan = p]), plans' = plans
      PROVE  PrepInv'
  BY <1>4, FoundPlanStands
<1>5. ASSUME bundles[asks[a].bundle].live,
             plans' = Append(plans, [kind |-> asks[a].kind, bundle |-> asks[a].bundle,
                                     hash |-> PlanHash(asks[a].kind, asks[a].bundle)]),
             Continue(a, [asks[a] EXCEPT !.at = "planned", !.plan = Len(plans) + 1])
      PROVE  PrepInv'
  BY <1>5, NewPlanStands
<1> QED BY <1>1, <1>3, <1>4, <1>5

-----------------------------------------------------------------------------
\* Quotes and jobs.

\* What a planned request has, when its plan is of its bundle.
LEMMA PlannedIsBacked ==
  ASSUME PreparationAssumption, NEW s, AskStands(s), s.at = "planned", s.door \in Frozen,
         plans[s.plan].bundle = s.bundle
  PROVE  Backed(s.plan, s.bundle, s.kind, s.deps, s.text)
<1>1. KindFits(s.door, s.kind) /\ Fits(s.bundle, s.kind, s.deps, s.text)
      /\ s.plan \in DOMAIN plans /\ plans[s.plan].kind = s.kind
  BY DEF AskStands, Frozen, PaidDoors
<1> QED BY <1>1, KindIsFrozen DEF Backed

\* A quote is added: what it says of its plan is so.
LEMMA QuoteAdded ==
  ASSUME PrepInv, NEW new \in Quote, offers' = Append(offers, new),
         UNCHANGED <<story, bundles, plans, jobs>>,
         new.plan # None =>
           Backed(new.plan, plans[new.plan].bundle, new.kind, new.deps, new.text)
  PROVE  /\ Grows /\ offers' \in Seq(Quote) /\ Len(offers) + 1 \in DOMAIN offers'
         /\ BundlesServe' /\ PlansStand' /\ OffersStand' /\ JobsStand'
<1>1. PICK q : q = Len(offers) + 1
  OBVIOUS
<1>2. /\ offers' \in Seq(Quote) /\ q \in DOMAIN offers' /\ offers'[q] = new
      /\ \A c \in DOMAIN offers : c \in DOMAIN offers' /\ offers'[c] = offers[c]
      /\ \A c \in DOMAIN offers' : c = q \/ c \in DOMAIN offers
  BY <1>1 DEF PrepInv, PrepTypeOK
<1>3. Grows
  BY <1>2 DEF Grows
<1>4. BundlesServe' /\ PlansStand'
  BY DEF PrepInv, BundlesServe, PlansStand, PlanHash, HashOf, BundleHash
<1>5. JobsStand'
  BY <1>3, JobsRest
<1>6. new.plan # None =>
        Backed(new.plan, plans[new.plan].bundle, new.kind, new.deps, new.text)'
  <2>1. PICK b : b = plans[new.plan].bundle
    OBVIOUS
  <2>2. ASSUME new.plan # None PROVE Backed(new.plan, b, new.kind, new.deps, new.text)'
    BY <1>3, <2>1, <2>2, BackedLasts
  <2> QED BY <2>1, <2>2
<1>7. OffersStand'
  <2> SUFFICES ASSUME NEW c \in DOMAIN offers', offers'[c].plan # None
               PROVE  Backed(offers[c].plan, plans[offers[c].plan].bundle, offers[c].kind,
                             offers[c].deps, offers[c].text)'
    BY DEF OffersStand
  <2>1. CASE c = q
    BY <1>2, <1>6, <2>1
  <2>2. CASE c \in DOMAIN offers
    BY <1>3, <2>2, OffersLast
  <2> QED BY <1>2, <2>1, <2>2
<1> QED BY <1>1, <1>2, <1>3, <1>4, <1>5, <1>7

LEMMA IssueSteps ==
  ASSUME PreparationAssumption, PrepInv, NEW a \in Askers, IssueQuote(a)
  PROVE  PrepInv'
<1>1. PICK s \in Ask : s = asks[a]
  BY DEF PrepInv, PrepTypeOK
<1>2. s.at = "planned" /\ s.door \in Frozen /\ AskStands(s)
  BY <1>1 DEF IssueQuote, AskAt, PrepInv, AsksStand
<1>3. CASE Answer(a) /\ UNCHANGED offers
  BY <1>3, Answers DEF IssueQuote
<1>4. CASE plans[s.plan].bundle = s.bundle /\ offers' = Append(offers, Offer(a))
  <2>1. Backed(s.plan, s.bundle, s.kind, s.deps, s.text)
    BY <1>2, <1>4, PlannedIsBacked
  <2>2. PICK new : new = [kind |-> s.kind, plan |-> s.plan, deps |-> s.deps, text |-> s.text,
                          consumed |-> FALSE]
    OBVIOUS
  <2>3. new \in Quote /\ new = Offer(a)
    BY <1>1, <2>2 DEF Quote, Ask, Offer
  <2>4. new.plan # None =>
          Backed(new.plan, plans[new.plan].bundle, new.kind, new.deps, new.text)
    BY <1>4, <2>1, <2>2
  <2>5. UNCHANGED <<story, bundles, plans, jobs>>
    BY DEF IssueQuote
  <2>6. /\ Grows /\ offers' \in Seq(Quote) /\ Len(offers) + 1 \in DOMAIN offers'
        /\ BundlesServe' /\ PlansStand' /\ OffersStand' /\ JobsStand'
    BY <1>4, <2>3, <2>4, <2>5, QuoteAdded
  <2>7. PICK q : q = Len(offers) + 1
    OBVIOUS
  <2>8. CASE asks' = [asks EXCEPT ![a] = [s EXCEPT !.at = "bound", !.quote = q]]
    <3>1. PICK r : r = [s EXCEPT !.at = "bound", !.quote = q]
      OBVIOUS
    <3>2. q \in Nat
      BY <2>7 DEF PrepInv, PrepTypeOK
    <3>3. /\ r \in Ask /\ r.at = "bound" /\ r.door = s.door /\ r.kind = s.kind
          /\ r.deps = s.deps /\ r.text = s.text /\ r.bundle = s.bundle /\ r.plan = s.plan
          /\ r.quote = q
      BY <3>1, <3>2 DEF Ask
    <3>4. Backed(s.plan, s.bundle, s.kind, s.deps, s.text)'
      BY <2>1, <2>6, BackedLasts
    <3>5. AskStands(r)'
      BY <1>2, <2>6, <2>7, <3>3, <3>4 DEF AskStands, Frozen, PaidDoors
    <3>6. AsksStand' /\ PrepTypeOK'
      BY <2>5, <2>6, <2>8, <3>1, <3>3, <3>5, AsksLast DEF PrepInv, PrepTypeOK
    <3> QED BY <2>6, <3>6 DEF PrepInv
  <2>9. CASE Answer(a)
    <3>1. PICK r : r = Unasked
      OBVIOUS
    <3>2. r \in Ask /\ AskStands(r)' /\ asks' = [asks EXCEPT ![a] = r]
      BY <2>6, <2>9, <3>1, UnaskedStands, AskLasts DEF Answer
    <3>3. AsksStand' /\ PrepTypeOK'
      BY <2>5, <2>6, <3>2, AsksLast DEF PrepInv, PrepTypeOK
    <3> QED BY <2>6, <3>3 DEF PrepInv
  <2> QED BY <1>1, <1>4, <2>7, <2>8, <2>9 DEF IssueQuote, Continue
<1> QED BY <1>1, <1>3, <1>4 DEF IssueQuote

\* The harness of a chapter quotes without a plan.
LEMMA SceneQuoteSteps ==
  ASSUME PrepInv, NEW a \in Askers, SceneQuote(a)
  PROVE  PrepInv'
<1>1. PICK s \in Ask : s = asks[a]
  BY DEF PrepInv, PrepTypeOK
<1>2. s.at = "asked" /\ AskStands(s)
  BY <1>1 DEF SceneQuote, AskAt, PrepInv, AsksStand
<1>3. PICK new : new = [kind |-> s.kind, plan |-> s.plan, deps |-> s.deps, text |-> s.text,
                        consumed |-> FALSE]
  OBVIOUS
<1>4. new \in Quote /\ new = Offer(a) /\ new.plan = None
  BY <1>1, <1>2, <1>3 DEF Quote, Ask, Offer, AskStands
<1>5. offers' = Append(offers, new) /\ UNCHANGED <<story, bundles, plans, jobs>>
  BY <1>4 DEF SceneQuote
<1>6. /\ Grows /\ offers' \in Seq(Quote)
      /\ BundlesServe' /\ PlansStand' /\ OffersStand' /\ JobsStand'
  BY <1>4, <1>5, QuoteAdded
<1>7. PICK r : r = Unasked
  OBVIOUS
<1>8. r \in Ask /\ AskStands(r)' /\ asks' = [asks EXCEPT ![a] = r]
  BY <1>6, <1>7, UnaskedStands, AskLasts DEF SceneQuote, Answer
<1>9. AsksStand' /\ PrepTypeOK'
  BY <1>5, <1>6, <1>8, AsksLast DEF PrepInv, PrepTypeOK
<1> QED BY <1>6, <1>9 DEF PrepInv

\* A job is made from a request that is backed.
LEMMA JobAdded ==
  ASSUME PrepInv, NEW a \in Askers, jobs' = Append(jobs, NewJob(a)),
         UNCHANGED <<story, bundles, plans>>, Grows, offers' \in Seq(Quote),
         DOMAIN offers' = DOMAIN offers, Answer(a),
         asks[a].plan # None =>
           /\ Backed(asks[a].plan, asks[a].bundle, asks[a].kind, asks[a].deps, asks[a].text)
           /\ asks[a].door # "scene"
  PROVE  PrepInv'
<1>1. PICK s \in Ask : s = asks[a]
  BY DEF PrepInv, PrepTypeOK
<1>2. PICK payload : payload = Payload(s.door, s.kind)
  OBVIOUS
<1>3. /\ payload \subseteq Hashes \cup {"chapterId", "intakeSessionId", "requestId", "beatId",
                                       "proseVersionId"}
      /\ s.door # "scene" => Hashes \subseteq payload
  <2>1. CASE s.door = "scene"
    <3>1. payload = {"chapterId"}
      BY <1>2, <2>1 DEF Payload
    <3> QED BY <2>1, <3>1
  <2>2. CASE s.door = "beat"
    <3>1. payload = Hashes \cup {"chapterId"}
      BY <1>2, <2>2 DEF Payload
    <3> QED BY <3>1
  <2>3. CASE s.door = "chat"
    <3>1. payload = Hashes \cup {"intakeSessionId", "requestId"}
      BY <1>2, <2>3 DEF Payload
    <3> QED BY <3>1
  <2>4. CASE s.door = "vertical"
    <3>1. payload = Hashes \cup
            (IF s.kind \in {"beat_write_judge", "safe_repair"} THEN {"beatId"}
             ELSE IF s.kind = "publish_package" THEN {"proseVersionId"} ELSE {})
      BY <1>2, <2>4 DEF Payload
    <3> QED BY <3>1
  <2>5. CASE s.door \notin {"scene", "beat", "chat", "vertical"}
    <3>1. payload = Hashes
      BY <1>2, <2>5 DEF Payload
    <3> QED BY <3>1
  <2> QED BY <2>1, <2>2, <2>3, <2>4, <2>5
<1>4. PICK new : new = [kind |-> s.kind, plan |-> s.plan, bundle |-> s.bundle, deps |-> s.deps,
                        text |-> s.text, quote |-> s.quote, payload |-> payload,
                        ended |-> FALSE]
  OBVIOUS
<1>5. new \in Job /\ new = NewJob(a)
  BY <1>1, <1>2, <1>3, <1>4 DEF Job, Ask, NewJob
<1>6. PICK n : n = Len(jobs) + 1
  OBVIOUS
<1>7. /\ jobs' \in Seq(Job) /\ jobs'[n] = new
      /\ \A c \in DOMAIN jobs : c \in DOMAIN jobs' /\ jobs'[c] = jobs[c]
      /\ \A c \in DOMAIN jobs' : c = n \/ c \in DOMAIN jobs
  BY <1>5, <1>6 DEF PrepInv, PrepTypeOK
<1>8. JobsStand'
  <2> SUFFICES ASSUME NEW j \in DOMAIN jobs', jobs'[j].plan # None
               PROVE  /\ Backed(jobs[j].plan, jobs[j].bundle, jobs[j].kind, jobs[j].deps,
                                jobs[j].text)'
                      /\ Hashes \subseteq jobs'[j].payload
    BY DEF JobsStand
  <2>1. CASE j = n
    <3>1. Backed(s.plan, s.bundle, s.kind, s.deps, s.text) /\ s.door # "scene"
      BY <1>1, <1>4, <1>7, <2>1
    <3>2. Backed(s.plan, s.bundle, s.kind, s.deps, s.text)'
      BY <3>1, BackedLasts
    <3> QED BY <1>3, <1>4, <1>7, <2>1, <3>1, <3>2
  <2>2. CASE j \in DOMAIN jobs
    <3>1. PICK r : r = jobs[j]
      OBVIOUS
    <3>2. jobs'[j] = r
      BY <1>7, <2>2, <3>1
    <3>3. Backed(r.plan, r.bundle, r.kind, r.deps, r.text)' /\ Hashes \subseteq r.payload
      BY <2>2, <3>1, <3>2, JobsLast
    <3> QED BY <3>2, <3>3
  <2> QED BY <1>7, <2>1, <2>2
<1>9. BundlesServe' /\ PlansStand'
  BY DEF PrepInv, BundlesServe, PlansStand, PlanHash, HashOf, BundleHash
<1>10. OffersStand'
  BY OffersRest
<1>11. PICK r : r = Unasked
  OBVIOUS
<1>12. r \in Ask /\ AskStands(r)' /\ asks' = [asks EXCEPT ![a] = r]
  BY <1>11, UnaskedStands, AskLasts DEF Answer
<1>13. AsksStand' /\ PrepTypeOK'
  BY <1>7, <1>12, AsksLast DEF PrepInv, PrepTypeOK
<1> QED BY <1>8, <1>9, <1>10, <1>13 DEF PrepInv

LEMMA ConfirmSteps ==
  ASSUME PrepInv, NEW a \in Askers, ConfirmQuote(a)
  PROVE  PrepInv'
<1>1. PICK s \in Ask : s = asks[a]
  BY DEF PrepInv, PrepTypeOK
<1>2. s.at = "bound" /\ AskStands(s)
  BY <1>1 DEF ConfirmQuote, PrepInv, AsksStand
<1>3. CASE UNCHANGED <<offers, jobs>>
  BY <1>3, Answers DEF ConfirmQuote
<1>4. CASE /\ offers' = [offers EXCEPT ![s.quote].consumed = TRUE]
           /\ jobs' = Append(jobs, NewJob(a))
  <2>1. s.quote \in DOMAIN offers
    BY <1>2 DEF AskStands
  <2>2. PICK o \in Quote : o = offers[s.quote]
    BY <2>1 DEF PrepInv, PrepTypeOK
  <2>3. PICK taken : taken = [o EXCEPT !.consumed = TRUE]
    OBVIOUS
  <2>4. /\ taken \in Quote /\ taken.kind = o.kind /\ taken.plan = o.plan /\ taken.deps = o.deps
        /\ taken.text = o.text
    BY <2>3 DEF Quote
  <2>5. /\ offers' \in Seq(Quote) /\ DOMAIN offers' = DOMAIN offers /\ offers'[s.quote] = taken
        /\ \A q \in DOMAIN offers \ {s.quote} : offers'[q] = offers[q]
    BY <1>4, <2>1, <2>2, <2>3, <2>4 DEF PrepInv, PrepTypeOK
  <2>6. UNCHANGED <<story, bundles, plans>> /\ Answer(a)
    BY DEF ConfirmQuote
  <2>7. Grows
    BY <2>2, <2>4, <2>5, <2>6 DEF Grows
  <2>8. asks[a].plan # None =>
          /\ Backed(asks[a].plan, asks[a].bundle, asks[a].kind, asks[a].deps, asks[a].text)
          /\ asks[a].door # "scene"
    BY <1>1, <1>2 DEF AskStands
  <2> QED BY <1>4, <2>5, <2>6, <2>7, <2>8, JobAdded
<1> QED BY <1>1, <1>3, <1>4 DEF ConfirmQuote

LEMMA AdmitSteps ==
  ASSUME PreparationAssumption, PrepInv, NEW a \in Askers, AdmitIntake(a)
  PROVE  PrepInv'
<1>1. PICK s \in Ask : s = asks[a]
  BY DEF PrepInv, PrepTypeOK
<1>2. s.at = "planned" /\ s.door = "chat" /\ AskStands(s)
  BY <1>1 DEF AdmitIntake, AskAt, PrepInv, AsksStand
<1>3. CASE UNCHANGED jobs
  BY <1>3, Answers DEF AdmitIntake
<1>4. CASE plans[s.plan].bundle = s.bundle /\ jobs' = Append(jobs, NewJob(a))
  <2>1. Backed(s.plan, s.bundle, s.kind, s.deps, s.text)
    BY <1>2, <1>4, PlannedIsBacked DEF Frozen
  <2>2. UNCHANGED <<story, bundles, plans, offers>> /\ Answer(a)
    BY DEF AdmitIntake
  <2>3. Grows /\ offers' \in Seq(Quote)
    BY <2>2 DEF Grows, PrepInv, PrepTypeOK
  <2> QED BY <1>1, <1>2, <1>4, <2>1, <2>2, <2>3, JobAdded
<1> QED BY <1>1, <1>3, <1>4 DEF AdmitIntake

\* A job ends, whoever ends it.
LEMMA EndSteps ==
  ASSUME PrepInv, NEW j \in DOMAIN jobs, jobs' = [jobs EXCEPT ![j].ended = TRUE],
         UNCHANGED <<story, bundles, plans, offers, asks>>
  PROVE  PrepInv'
<1>1. PICK row \in Job : row = jobs[j]
  BY DEF PrepInv, PrepTypeOK
<1>2. PICK ended : ended = [row EXCEPT !.ended = TRUE]
  OBVIOUS
<1>3. /\ ended \in Job /\ ended.plan = row.plan /\ ended.bundle = row.bundle
      /\ ended.kind = row.kind /\ ended.deps = row.deps /\ ended.text = row.text
      /\ ended.payload = row.payload
  BY <1>2 DEF Job
<1>4. /\ jobs' \in Seq(Job) /\ DOMAIN jobs' = DOMAIN jobs /\ jobs'[j] = ended
      /\ \A k \in DOMAIN jobs \ {j} : jobs'[k] = jobs[k]
  BY <1>1, <1>2, <1>3 DEF PrepInv, PrepTypeOK
<1>5. Grows
  BY DEF Grows
<1>6. JobsStand' /\ AsksStand'
  BY <1>1, <1>3, <1>4, <1>5, JobsRest, AsksRest
<1>7. BundlesServe' /\ PlansStand' /\ OffersStand'
  BY <1>5, OffersRest DEF PrepInv, BundlesServe, PlansStand, PlanHash, HashOf, BundleHash
<1>8. PrepTypeOK'
  BY <1>4 DEF PrepInv, PrepTypeOK
<1> QED BY <1>6, <1>7, <1>8 DEF PrepInv

-----------------------------------------------------------------------------
LEMMA PrepStart ==
  ASSUME PrepInit
  PROVE  PrepInv
<1>1. /\ story \in [deps : Nat, text : Texts]
      /\ bundles = <<>> /\ plans = <<>> /\ offers = <<>> /\ jobs = <<>>
  BY DEF PrepInit, Texts
<1>2. PICK r : r = Unasked
  OBVIOUS
<1>3. asks = [a \in Askers |-> r]
  BY <1>2 DEF PrepInit
<1>4. r \in Ask /\ AskStands(r)
  BY <1>2, UnaskedStands
<1>5. PrepTypeOK
  BY <1>1, <1>3, <1>4 DEF PrepTypeOK
<1>6. BundlesServe /\ PlansStand /\ OffersStand /\ JobsStand
  BY <1>1 DEF BundlesServe, PlansStand, OffersStand, JobsStand
<1>7. AsksStand
  BY <1>3, <1>4 DEF AsksStand
<1> QED BY <1>5, <1>6, <1>7 DEF PrepInv

\* The author goes on writing, whatever is being asked.
LEMMA EditSteps ==
  ASSUME PrepInv, EditOutline \/ EditText
  PROVE  PrepInv'
<1>1. UNCHANGED <<bundles, plans, offers, jobs, asks>>
  BY DEF EditOutline, EditText
<1>2. story' \in [deps : Nat, text : Texts]
  BY DEF EditOutline, EditText, PrepInv, PrepTypeOK, Texts
<1>3. Grows
  BY <1>1 DEF Grows
<1>4. AsksStand'
  BY <1>1, <1>3, AsksRest
<1>5. PrepTypeOK'
  BY <1>1, <1>2 DEF PrepInv, PrepTypeOK
<1>6. BundlesServe' /\ PlansStand' /\ OffersStand' /\ JobsStand'
  BY <1>1 DEF PrepInv, BundlesServe, PlansStand, OffersStand, JobsStand, Backed, Fits, PlanHash,
              HashOf, BundleHash
<1> QED BY <1>4, <1>5, <1>6 DEF PrepInv

LEMMA RestSteps ==
  ASSUME PrepInv, UNCHANGED prepVars
  PROVE  PrepInv'
  BY DEF PrepInv, prepVars, PrepTypeOK, BundlesServe, PlansStand, OffersStand, JobsStand,
         AsksStand, AskStands, Backed, Fits, PlanHash, HashOf, BundleHash

LEMMA AskNextSteps ==
  ASSUME PreparationAssumption, PrepInv, NEW a \in Askers, AskNext(a)
  PROVE  PrepInv'
<1>1. ASSUME ConceptAsks(a) \/ BeatAsks(a) \/ RepairAsks(a) \/ PublishAsks(a) \/ SceneAsks(a)
      PROVE  PrepInv'
  <2>1. \E door \in {"concept", "beat", "repair", "publish", "scene"} : Asks(a, door)
    BY <1>1 DEF ConceptAsks, BeatAsks, RepairAsks, PublishAsks, SceneAsks
  <2> QED BY <2>1, AsksSteps
<1>2. ASSUME VerticalAsks(a) \/ ChatAsks(a) PROVE PrepInv'
  BY <1>2, AsksSteps
<1>3. ASSUME Reads(a) PROVE PrepInv'
  BY <1>3, ReadsSteps
<1>4. ASSUME FreezeLook(a) PROVE PrepInv'
  BY <1>4, FreezeLookSteps
<1>5. ASSUME FreezeWrite(a) PROVE PrepInv'
  BY <1>5, FreezeWriteSteps
<1>6. ASSUME FreezePlan(a) PROVE PrepInv'
  BY <1>6, FreezePlanSteps
<1>7. ASSUME IssueQuote(a) PROVE PrepInv'
  BY <1>7, IssueSteps
<1>8. ASSUME SceneQuote(a) PROVE PrepInv'
  BY <1>8, SceneQuoteSteps
<1>9. ASSUME AdmitIntake(a) PROVE PrepInv'
  BY <1>9, AdmitSteps
<1> QED BY <1>1, <1>2, <1>3, <1>4, <1>5, <1>6, <1>7, <1>8, <1>9 DEF AskNext

LEMMA ConfirmNextSteps ==
  ASSUME PrepInv, NEW a \in Askers, ConfirmNext(a)
  PROVE  PrepInv'
<1>1. ASSUME NEW door \in {"concept", "beat", "repair", "publish", "scene"},
             NEW stale \in BOOLEAN, Binds(a, door, stale)
      PROVE  PrepInv'
  BY <1>1, BindsSteps
<1>2. ASSUME ConfirmQuote(a) PROVE PrepInv'
  BY <1>2, ConfirmSteps
<1>3. \/ \E door \in {"concept", "beat", "repair", "publish", "scene"}, stale \in BOOLEAN :
           Binds(a, door, stale)
      \/ ConfirmQuote(a)
  BY DEF ConfirmNext, ConceptBinds, BeatBinds, RepairBinds, PublishBinds, SceneBinds
<1> QED BY <1>1, <1>2, <1>3

LEMMA EndsSteps ==
  ASSUME PrepInv, CancelNext \/ \E j \in DOMAIN jobs : Publishes(j) \/ Fails(j)
  PROVE  PrepInv'
<1>1. ASSUME NEW door, Cancels(door) PROVE PrepInv'
  BY <1>1, EndSteps DEF Cancels
<1>2. ASSUME NEW j \in DOMAIN jobs, Publishes(j) \/ Fails(j) PROVE PrepInv'
  BY <1>2, EndSteps DEF Publishes, Fails
<1>3. CancelNext => \E door : Cancels(door)
  BY DEF CancelNext, ConceptCancels, BeatCancels, RepairCancels, PublishCancels, SceneCancels
<1> QED BY <1>1, <1>2, <1>3

LEMMA PrepSteps ==
  ASSUME PreparationAssumption, PrepInv, [PrepNext]_prepVars
  PROVE  PrepInv'
<1>1. ASSUME EditOutline \/ EditText PROVE PrepInv'
  BY <1>1, EditSteps
<1>2. ASSUME SweepBundle PROVE PrepInv'
  BY <1>2, SweepSteps
<1>3. ASSUME NEW a \in Askers, AskNext(a) PROVE PrepInv'
  BY <1>3, AskNextSteps
<1>4. ASSUME NEW a \in Askers, ConfirmNext(a) PROVE PrepInv'
  BY <1>4, ConfirmNextSteps
<1>5. ASSUME CancelNext \/ \E j \in DOMAIN jobs : Publishes(j) \/ Fails(j) PROVE PrepInv'
  BY <1>5, EndsSteps
<1>6. ASSUME UNCHANGED prepVars PROVE PrepInv'
  BY <1>6, RestSteps
<1> QED BY <1>1, <1>2, <1>3, <1>4, <1>5, <1>6 DEF PrepNext

\* Whatever a request holds, a quote names or a job was accepted with is what
\* the request read: its bundle has the packets of every stage, over the
\* manifest and the text of the request, the plan is the plan of that bundle,
\* and no bundle of a plan was swept.
THEOREM PrepInvariant == PrepSpec => []PrepInv
<1>1. PrepInit => PrepInv
  BY PrepStart
<1>2. PrepInv /\ [PrepNext]_prepVars => PrepInv'
  BY PreparationAssumption, PrepSteps
<1> QED BY <1>1, <1>2, PTL DEF PrepSpec

\* What a worker sends to a provider is what the request that issued the quote
\* had read, whoever's bundle or plan its hash found.
THEOREM JobsOnWhatWasRead == PrepSpec => []QuotedOnWhatWasRead
<1>1. PrepInv => QuotedOnWhatWasRead
  BY DEF PrepInv, JobsStand, Backed, Fits, QuotedOnWhatWasRead
<1> QED BY <1>1, PrepInvariant, PTL

\* A job that was accepted, and charged for, finds its plan, its bundle and the
\* packet of every stage, however much later a worker takes it.
THEOREM AcceptedJobsCanStart == PrepSpec => []JobsCanStart
<1>1. ASSUME PrepInv PROVE JobsCanStart
  <2> SUFFICES ASSUME NEW j \in DOMAIN jobs, jobs[j].plan # None PROVE Servable(j)
    BY DEF JobsCanStart
  <2>1. PICK job : job = jobs[j]
    OBVIOUS
  <2>2. /\ Backed(job.plan, job.bundle, job.kind, job.deps, job.text)
        /\ Hashes \subseteq job.payload
    BY <1>1, <2>1 DEF PrepInv, JobsStand
  <2>3. /\ job.plan \in DOMAIN plans /\ plans[job.plan].bundle = job.bundle
        /\ plans[job.plan].kind = job.kind
        /\ job.bundle \in DOMAIN bundles /\ bundles[job.bundle].kind = job.kind
        /\ bundles[job.bundle].deps = job.deps
    BY <2>2 DEF Backed, Fits
  <2>4. bundles[job.bundle].live
    BY <1>1, <2>3 DEF PrepInv, PlansStand
  <2>5. \A s \in Stages(job.kind) : \E p \in bundles[job.bundle].packets :
          p.kind = s.packet /\ p.class = s.class /\ p.deps = bundles[job.bundle].deps
    BY <1>1, <2>3 DEF PrepInv, BundlesServe
  <2> QED BY <2>1, <2>2, <2>3, <2>4, <2>5 DEF Servable
<1> QED BY <1>1, PrepInvariant, PTL
=============================================================================
