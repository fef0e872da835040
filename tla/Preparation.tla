---------------------------- MODULE Preparation ----------------------------
(***************************************************************************)
(* From "how much would it cost?" to a job a worker can run, for one       *)
(* project.  A request for a quote reads the story, freezes what it read   *)
(* into a content-addressed context bundle, freezes a workflow plan over   *)
(* the bundle and issues a quote on the plan; a second request, minutes    *)
(* later, binds the quote again and confirms it; the worker checks the     *)
(* frozen artifacts before its first provider call and publishes.          *)
(*                                                                         *)
(* Every service call is its own transaction, so that requests of several  *)
(* tabs, edits and the retention sweep go on between them.  A hash is      *)
(* modelled by the value it is computed from.  Confirmation, with its      *)
(* locks and balance, is QuoteConfirm; here it takes the quote or refuses. *)
(* The project has one chapter, the finest key a job is looked up by.      *)
(***************************************************************************)
EXTENDS Integers, Sequences, FiniteSets

CONSTANTS
  Askers,         \* requests being served
  Doors,          \* the surfaces a request can come from
  VerticalKinds,  \* the workflow kinds the vertical harness starts
  MaxEdits,       \* bound on the changes of the outline
  MaxBundles,     \* bound on the bundles ever frozen
  MaxOffers,      \* bound on the quotes issued
  DailyLimit      \* fair use: intake jobs of a day

ASSUME PreparationAssumption ==
  /\ {MaxEdits, MaxBundles, MaxOffers, DailyLimit} \subseteq Nat
  /\ Doors \subseteq {"concept", "beat", "repair", "publish", "scene", "vertical", "chat"}
  /\ VerticalKinds \subseteq {"concept_generation", "foundation_generation",
       "outline_generation", "beat_write_judge", "safe_repair", "publish_package"}

VARIABLES
  story,    \* deps: the manifest of the outline; text: what packets quote
  bundles,  \* generation_context_bundles in order of insertion; live: not swept
  plans,    \* ai_workflow_plans
  offers,   \* credit_quotes
  jobs,     \* generation_jobs
  asks      \* the request each asker serves, and what it holds so far

prepVars == <<story, bundles, plans, offers, jobs, asks>>

None == 0
NoManifest == -1        \* the dependency hash of a packet that hashed something else
Unasked == [at |-> "idle", door |-> "none", kind |-> "none", deps |-> None, text |-> "none",
            bundle |-> None, plan |-> None, quote |-> None]

PrepInit ==
  /\ story = [deps |-> 0, text |-> "a"]
  /\ bundles = <<>> /\ plans = <<>> /\ offers = <<>> /\ jobs = <<>>
  /\ asks = [a \in Askers |-> Unasked]

AskAt(a, at, doors) == asks[a].at = at /\ asks[a].door \in doors
Answer(a) == asks' = [asks EXCEPT ![a] = Unasked]
Continue(a, ask) == asks' = [asks EXCEPT ![a] = ask]

(* The author goes on writing: the outline gets another manifest, a draft  *)
(* or a message other words, perhaps words it had before.                  *)
EditOutline ==
  /\ story.deps < MaxEdits
  /\ story' = [story EXCEPT !.deps = @ + 1]
  /\ UNCHANGED <<bundles, plans, offers, jobs, asks>>

EditText ==
  /\ story' = [story EXCEPT !.text = IF @ = "a" THEN "b" ELSE "a"]
  /\ UNCHANGED <<bundles, plans, offers, jobs, asks>>

-----------------------------------------------------------------------------
(* The surfaces.                                                           *)

PaidDoors == {"concept", "beat", "repair", "publish"}
Frozen == PaidDoors \cup {"vertical", "chat"}

KindOf(door) == CASE door = "concept" -> "concept_generation"
                  [] door = "beat"    -> "beat_write_judge"
                  [] door = "repair"  -> "safe_repair"
                  [] door = "publish" -> "publish_package"
                  [] door = "scene"   -> "scene_generation"
                  [] door = "chat"    -> "chat_intake_reply"

Active(kind) == {j \in DOMAIN jobs : jobs[j].kind = kind /\ ~jobs[j].ended}

(* A paid surface looks for a running job of its kind before anything      *)
(* else: one is shown instead of a quote, several are ambiguous.           *)
Asks(a, door) ==
  /\ asks[a].at = "idle" /\ door \in Doors
  /\ Active(KindOf(door)) = {}
  /\ Continue(a, [Unasked EXCEPT !.at = "asked", !.door = door, !.kind = KindOf(door)])
  /\ UNCHANGED <<story, bundles, plans, offers, jobs>>

ConceptAsks(a) == Asks(a, "concept")
BeatAsks(a)    == Asks(a, "beat")
RepairAsks(a)  == Asks(a, "repair")
PublishAsks(a) == Asks(a, "publish")
SceneAsks(a)   == Asks(a, "scene")

(* The harness and the chat look for nothing.                              *)
VerticalAsks(a) ==
  /\ asks[a].at = "idle" /\ "vertical" \in Doors
  /\ \E kind \in VerticalKinds :
       Continue(a, [Unasked EXCEPT !.at = "asked", !.door = "vertical", !.kind = kind])
  /\ UNCHANGED <<story, bundles, plans, offers, jobs>>

ChatAsks(a) ==
  /\ asks[a].at = "idle" /\ "chat" \in Doors
  /\ story' = [story EXCEPT !.text = IF @ = "a" THEN "b" ELSE "a"]   \* the message
  /\ Continue(a, [Unasked EXCEPT !.at = "asked", !.door = "chat", !.kind = KindOf("chat")])
  /\ UNCHANGED <<bundles, plans, offers, jobs>>

-----------------------------------------------------------------------------
(* The packets each surface builds from the manifest and the text it read. *)

Packet(kind, class, deps, text) ==
  [kind |-> kind, class |-> class, deps |-> deps, text |-> text]

(* The parse-repair envelope quotes nothing of the story.                  *)
Recovery(deps) == Packet("repair", "writer_safe", deps, "none")

ConceptPackets(deps, text) ==
  {Packet("planner", "author_private", deps, text), Recovery(deps)}

BeatPackets(deps, text) ==
  {Packet("writer", "writer_safe", deps, "none"),
   Packet("validator", "author_private", deps, text), Recovery(deps)}

(* The repair packet is built by the use case, which gives it the content  *)
(* hash of the prose as dependency hash.                                   *)
RepairPackets(text) == {Packet("repair", "writer_safe", NoManifest, text)}

PublishPackets(deps, text) ==
  {Packet("extraction", "review_safe", deps, text), Recovery(deps)}

IntakePackets(deps, text) ==
  {Packet("extraction", "review_safe", deps, text), Recovery(deps)}

(* The harness builds its own, the repair packet with the manifest's hash. *)
VerticalPackets(kind, deps, text) ==
  CASE kind = "safe_repair"     -> {Packet("repair", "writer_safe", deps, text)}
    [] kind = "beat_write_judge" -> BeatPackets(deps, text)
    [] kind = "publish_package"  -> PublishPackets(deps, text)
    [] OTHER                     -> ConceptPackets(deps, text)

PacketsOf(ask) ==
  CASE ask.door = "concept"  -> ConceptPackets(ask.deps, ask.text)
    [] ask.door = "beat"     -> BeatPackets(ask.deps, ask.text)
    [] ask.door = "repair"   -> RepairPackets(ask.text)
    [] ask.door = "publish"  -> PublishPackets(ask.deps, ask.text)
    [] ask.door = "chat"     -> IntakePackets(ask.deps, ask.text)
    [] ask.door = "vertical" -> VerticalPackets(ask.kind, ask.deps, ask.text)

(* One transaction reads the outline and the text; a missing draft,        *)
(* message, accepted version or blocker ends the request.                  *)
Reads(a) ==
  /\ AskAt(a, "asked", Frozen)
  /\ \/ Continue(a, [asks[a] EXCEPT !.at = "read", !.deps = story.deps, !.text = story.text])
     \/ Answer(a)
  /\ UNCHANGED <<story, bundles, plans, offers, jobs>>

-----------------------------------------------------------------------------
(* freezeBundle.                                                           *)

(* WORKFLOW_PACKET_POLICY                                                  *)
PacketPolicy(kind) ==
  CASE kind \in {"concept_generation", "foundation_generation", "outline_generation"}
                                                              -> {"planner", "repair"}
    [] kind = "beat_write_judge"                              -> {"writer", "validator", "repair"}
    [] kind = "safe_repair"                                   -> {"repair"}
    [] kind \in {"publish_package", "chat_intake_reply"}      -> {"extraction", "repair"}

(* Each required kind once, nothing else, all under the bundle's manifest. *)
PacketsValid(ask) ==
  LET packets == PacketsOf(ask) IN
  /\ {p.kind : p \in packets} = PacketPolicy(ask.kind)
  /\ Cardinality(packets) = Cardinality(PacketPolicy(ask.kind))
  /\ \A p \in packets : p.deps = ask.deps

\* Mutant: the hash covers the kinds of the packets and not their content.
KindsHash(kind, deps, packets) == <<kind, deps, {p.kind : p \in packets}>>
BundleHash(kind, deps, packets) == <<kind, deps, packets>>

HashOf(b) == BundleHash(bundles[b].kind, bundles[b].deps, bundles[b].packets)
FindBundle(ask) ==
  {b \in DOMAIN bundles : bundles[b].live
     /\ HashOf(b) = BundleHash(ask.kind, ask.deps, PacketsOf(ask))}

FreezeLook(a) ==
  /\ AskAt(a, "read", Frozen)
  /\ IF ~PacketsValid(asks[a]) THEN Answer(a)
     ELSE IF FindBundle(asks[a]) = {} THEN Continue(a, [asks[a] EXCEPT !.at = "freezing"])
     ELSE \E b \in FindBundle(asks[a]) :
            Continue(a, [asks[a] EXCEPT !.at = "frozen", !.bundle = b])
  /\ UNCHANGED <<story, bundles, plans, offers, jobs>>

(* The insert of a hash that another request inserted since the look is a  *)
(* unique violation, which the request does not survive.                   *)
FreezeWrite(a) ==
  /\ AskAt(a, "freezing", Frozen)
  /\ IF FindBundle(asks[a]) # {} THEN Answer(a) /\ UNCHANGED bundles
     ELSE /\ Len(bundles) < MaxBundles
          /\ bundles' = Append(bundles, [kind |-> asks[a].kind, deps |-> asks[a].deps,
                                         packets |-> PacketsOf(asks[a]), live |-> TRUE])
          /\ Continue(a, [asks[a] EXCEPT !.at = "frozen", !.bundle = Len(bundles) + 1])
  /\ UNCHANGED <<story, plans, offers, jobs>>

(* The retention sweep deletes an old bundle that nothing refers to; how   *)
(* old a bundle is, is left open.                                          *)
\* Mutant: a plan does not keep its bundle.
OnlyJobsRefer(b) == \E j \in DOMAIN jobs : jobs[j].bundle = b
ReferredTo(b) ==
  \/ \E p \in DOMAIN plans : plans[p].bundle = b
  \/ \E j \in DOMAIN jobs : jobs[j].bundle = b

SweepBundle ==
  /\ \E b \in DOMAIN bundles :
       /\ bundles[b].live /\ ~ReferredTo(b)
       /\ bundles' = [bundles EXCEPT ![b].live = FALSE]
  /\ UNCHANGED <<story, plans, offers, jobs, asks>>

-----------------------------------------------------------------------------
(* freezePlan and issueQuote.                                              *)

(* The stages of the frozen catalogue: the packet each is bound to and the *)
(* data class it may carry to a provider.                                  *)
RecoveryStage == [packet |-> "repair", class |-> "writer_safe"]
Stages(kind) ==
  {RecoveryStage} \cup
  CASE kind \in {"concept_generation", "foundation_generation", "outline_generation"}
         -> {[packet |-> "planner", class |-> "author_private"]}
    [] kind = "beat_write_judge"
         -> {[packet |-> "writer", class |-> "writer_safe"],
             [packet |-> "validator", class |-> "author_private"]}
    [] kind = "safe_repair" -> {}
    [] kind \in {"publish_package", "chat_intake_reply"}
         -> {[packet |-> "extraction", class |-> "review_safe"]}

PlanHash(kind, b) == <<Stages(kind), kind, HashOf(b)>>
FindPlan(hash) == {p \in DOMAIN plans : plans[p].hash = hash}

(* A plan with the hash is found; a new one needs its bundle to be there.  *)
FreezePlan(a) ==
  /\ AskAt(a, "frozen", Frozen)
  /\ LET hash == PlanHash(asks[a].kind, asks[a].bundle) IN
     \/ \E p \in FindPlan(hash) :
          /\ Continue(a, [asks[a] EXCEPT !.at = "planned", !.plan = p])
          /\ UNCHANGED plans
     \/ /\ FindPlan(hash) = {} /\ bundles[asks[a].bundle].live
        /\ plans' = Append(plans, [kind |-> asks[a].kind, bundle |-> asks[a].bundle,
                                   hash |-> hash])
        /\ Continue(a, [asks[a] EXCEPT !.at = "planned", !.plan = Len(plans) + 1])
     \/ /\ FindPlan(hash) = {} /\ ~bundles[asks[a].bundle].live
        /\ Answer(a)
        /\ UNCHANGED plans
  /\ UNCHANGED <<story, bundles, offers, jobs>>

Offer(a) ==
  [kind |-> asks[a].kind, plan |-> asks[a].plan, deps |-> asks[a].deps,
   text |-> asks[a].text, consumed |-> FALSE]

(* The quote names the plan and the bundle of the plan, else it is refused;*)
(* the author decides later, the harness confirms at once.                 *)
IssueQuote(a) ==
  /\ AskAt(a, "planned", Frozen \ {"chat"})
  /\ IF plans[asks[a].plan].bundle # asks[a].bundle
     THEN Answer(a) /\ UNCHANGED offers
     ELSE /\ Len(offers) < MaxOffers
          /\ offers' = Append(offers, Offer(a))
          /\ IF asks[a].door = "vertical"
             THEN Continue(a, [asks[a] EXCEPT !.at = "bound", !.quote = Len(offers) + 1])
             ELSE Answer(a)
  /\ UNCHANGED <<story, bundles, plans, jobs>>

(* The M3 harness quotes a chapter: hashes of its key, no plan, no bundle. *)
SceneQuote(a) ==
  /\ AskAt(a, "asked", {"scene"})
  /\ Len(offers) < MaxOffers
  /\ offers' = Append(offers, Offer(a))
  /\ Answer(a)
  /\ UNCHANGED <<story, bundles, plans, jobs>>

-----------------------------------------------------------------------------
(* Confirmation.                                                           *)

(* The quote is read with the plan its hash names, and is stale when the   *)
(* outline has another manifest by now.                                    *)
Binds(a, door, stale) ==
  /\ asks[a].at = "idle" /\ door \in Doors
  /\ \E q \in DOMAIN offers :
       /\ offers[q].kind = KindOf(door)
       /\ stale = FALSE \/ offers[q].deps = story.deps
       /\ Continue(a, [Unasked EXCEPT !.at = "bound", !.door = door, !.kind = KindOf(door),
            !.deps = offers[q].deps, !.text = offers[q].text, !.plan = offers[q].plan,
            !.bundle = IF offers[q].plan = None THEN None ELSE plans[offers[q].plan].bundle,
            !.quote = q])
  /\ UNCHANGED <<story, bundles, plans, offers, jobs>>

(* Only the concept surface does not ask whether the outline moved.        *)
ConceptBinds(a) == Binds(a, "concept", FALSE)
BeatBinds(a)    == Binds(a, "beat", TRUE)
RepairBinds(a)  == Binds(a, "repair", TRUE)
PublishBinds(a) == Binds(a, "publish", TRUE)
SceneBinds(a)   == Binds(a, "scene", FALSE)

(* What the job's payload says, by the surface that confirmed it.          *)
Hashes == {"workflowPlanHash", "dependencyHash"}
Payload(door, kind) ==
  CASE door = "scene"    -> {"chapterId"}
    [] door = "beat"     -> Hashes \cup {"chapterId"}
    [] door = "chat"     -> Hashes \cup {"intakeSessionId", "requestId"}
    [] door = "vertical" -> Hashes \cup
         (IF kind \in {"beat_write_judge", "safe_repair"} THEN {"beatId"}
          ELSE IF kind = "publish_package" THEN {"proseVersionId"} ELSE {})
    [] OTHER             -> Hashes

NewJob(a) ==
  [kind |-> asks[a].kind, plan |-> asks[a].plan, bundle |-> asks[a].bundle,
   deps |-> asks[a].deps, text |-> asks[a].text, quote |-> asks[a].quote,
   payload |-> Payload(asks[a].door, asks[a].kind), ended |-> FALSE]

(* The job and request ids are derived from the quote: a quote confirmed   *)
(* before is an exact replay.  Expiry and the balance may refuse.          *)
ConfirmQuote(a) ==
  /\ asks[a].at = "bound"
  /\ \/ /\ ~offers[asks[a].quote].consumed
        /\ offers' = [offers EXCEPT ![asks[a].quote].consumed = TRUE]
        /\ jobs' = Append(jobs, NewJob(a))
     \/ UNCHANGED <<offers, jobs>>
  /\ Answer(a)
  /\ UNCHANGED <<story, bundles, plans>>

(* The intake reply is paid by the system: admitted while the day's quota  *)
(* lasts, once the plan, its bundle and the manifest are as they were      *)
(* frozen.                                                                 *)
AdmitIntake(a) ==
  /\ AskAt(a, "planned", {"chat"})
  /\ IF /\ plans[asks[a].plan].bundle = asks[a].bundle
        /\ bundles[asks[a].bundle].live /\ bundles[asks[a].bundle].deps = asks[a].deps
        /\ Cardinality({j \in DOMAIN jobs : jobs[j].kind = KindOf("chat")}) < DailyLimit
     THEN jobs' = Append(jobs, NewJob(a))
     ELSE UNCHANGED jobs
  /\ Answer(a)
  /\ UNCHANGED <<story, bundles, plans, offers>>

(* A job is cancelled from a surface that finds exactly one.               *)
Cancels(door) ==
  /\ door \in Doors
  /\ \E j \in DOMAIN jobs :
       /\ Active(KindOf(door)) = {j}
       /\ jobs' = [jobs EXCEPT ![j].ended = TRUE]
  /\ UNCHANGED <<story, bundles, plans, offers, asks>>

ConceptCancels == Cancels("concept")
BeatCancels    == Cancels("beat")
RepairCancels  == Cancels("repair")
PublishCancels == Cancels("publish")
SceneCancels   == Cancels("scene")

-----------------------------------------------------------------------------
(* The worker.                                                             *)

(* The processor pre-validates the plan, the bundle and the packet of      *)
(* every stage, and throws; the lease lapses, and the job is queued again. *)
Servable(j) ==
  LET job == jobs[j] IN
  /\ job.plan # None
  /\ LET plan == plans[job.plan]  bundle == bundles[job.bundle] IN
     /\ plan.bundle = job.bundle /\ plan.kind = job.kind
     /\ bundle.live /\ bundle.deps = job.deps /\ Hashes \subseteq job.payload
     /\ \A s \in Stages(job.kind) : \E p \in bundle.packets :
          p.kind = s.packet /\ p.class = s.class /\ p.deps = bundle.deps

(* What the product projection of the kind reads from the payload.         *)
ProjectionNeeds(kind) ==
  Hashes \cup CASE kind = "publish_package"   -> {"proseVersionId"}
                [] kind = "chat_intake_reply" -> {"intakeSessionId"}
                [] OTHER                      -> {}

(* Without what it needs the projection throws, and with it the whole      *)
(* publishing transaction is undone.                                       *)
Publishes(j) ==
  /\ ~jobs[j].ended /\ Servable(j)
  /\ ProjectionNeeds(jobs[j].kind) \subseteq jobs[j].payload
  /\ jobs' = [jobs EXCEPT ![j].ended = TRUE]
  /\ UNCHANGED <<story, bundles, plans, offers, asks>>

Fails(j) ==
  /\ ~jobs[j].ended /\ Servable(j)
  /\ jobs' = [jobs EXCEPT ![j].ended = TRUE]
  /\ UNCHANGED <<story, bundles, plans, offers, asks>>

-----------------------------------------------------------------------------
AskNext(a) ==
  \/ ConceptAsks(a) \/ BeatAsks(a) \/ RepairAsks(a) \/ PublishAsks(a) \/ SceneAsks(a)
  \/ VerticalAsks(a) \/ ChatAsks(a)
  \/ Reads(a) \/ FreezeLook(a) \/ FreezeWrite(a) \/ FreezePlan(a)
  \/ IssueQuote(a) \/ SceneQuote(a) \/ AdmitIntake(a)

ConfirmNext(a) ==
  \/ ConceptBinds(a) \/ BeatBinds(a) \/ RepairBinds(a) \/ PublishBinds(a) \/ SceneBinds(a)
  \/ ConfirmQuote(a)

CancelNext ==
  ConceptCancels \/ BeatCancels \/ RepairCancels \/ PublishCancels \/ SceneCancels

PrepNext ==
  \/ EditOutline \/ EditText \/ SweepBundle
  \/ \E a \in Askers : AskNext(a) \/ ConfirmNext(a)
  \/ CancelNext
  \/ \E j \in DOMAIN jobs : Publishes(j) \/ Fails(j)

PrepSpec == PrepInit /\ [][PrepNext]_prepVars

-----------------------------------------------------------------------------
(* What a worker sends to a provider is what the request that issued the   *)
(* quote had read: its manifest and its text, not what some other request  *)
(* froze before, whoever replays whose bundle or plan.                     *)
QuotedOnWhatWasRead ==
  \A j \in DOMAIN jobs : jobs[j].plan # None =>
    LET bundle == bundles[jobs[j].bundle] IN
    /\ bundle.deps = jobs[j].deps
    /\ \A p \in bundle.packets : p.text \in {jobs[j].text, "none"}

(* Every job with a plan that is accepted, and charged for, finds the plan,*)
(* the bundle and the packet of every stage when a worker takes it, however*)
(* much later that is.                                                     *)
JobsCanStart ==
  \A j \in DOMAIN jobs : (jobs[j].plan # None /\ ~jobs[j].ended) => Servable(j)

(* A job that is accepted carries what the projection of its kind will ask *)
(* for when its output is published.                                       *)
JobsServeProjection ==
  \A j \in DOMAIN jobs : jobs[j].plan # None =>
    ProjectionNeeds(jobs[j].kind) \subseteq jobs[j].payload
=============================================================================
