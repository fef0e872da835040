------------------------------ MODULE Packets -------------------------------
(***************************************************************************)
(* What a model gets to see: a caller puts together the raw content of a   *)
(* packet, a builder of packet-builders.ts takes it or refuses it, the     *)
(* packets of a workflow are frozen in a bundle with a plan, and a worker  *)
(* sends each stage of the plan the packet of its kind, to the provider it *)
(* is routed to (m4-job-processor.ts, model-policy.ts).  One packet passes *)
(* no builder, the envelope for parse repairs.  Freezing does not ask who  *)
(* made a packet: the callers of this code are those of the repository.    *)
(*                                                                         *)
(* An object is the set of its keys with what the checks look at; what the *)
(* values say is left out, except that they are strings and never objects. *)
(***************************************************************************)
EXTENDS Naturals, Sequences, FiniteSets, Functions

CONSTANTS
  Providers,   \* what plans are routed to and workers are configured with
  Trusted,     \* RESTRICTED_ALLOWED_PROVIDERS
  Material,    \* the objects callers have at hand
  Bases,       \* a project and a manifest, what a packet says it is of
  NoBase

VARIABLES bundle, plan, worker, sent
packetVars == <<bundle, plan, worker, sent>>

-----------------------------------------------------------------------------
(* The exact keys of every object of a packet, by the builder that asks    *)
(* for them, and those an object may have too.                             *)

PlannerKeys == [
  Foundation  |-> {"coreConcept", "conflict", "endingDirection", "readerPromise"},
  Character   |-> {"id", "name", "identity", "goal", "motivation", "privateNotes"},
  PrivateFact |-> {"dataClass", "id", "factKey", "truth", "visibility"},
  Reveal      |-> {"id", "factId", "targetPosition", "breadcrumbPositions"},
  OutlineItem |-> {"id", "position", "purpose"}]

WriterKeys == [
  Contract  |-> {"beatId", "purpose", "sceneGoal", "directives"},
  Directive |-> {"characterId", "directives"},
  SafeFact  |-> {"dataClass", "id", "factKey", "safeStatement"},
  Guidance  |-> {"revealId", "guidance"},
  Excerpt   |-> {"proseVersionId", "beatId", "excerpt"}]

ValidatorKeys == [
  Prose   |-> {"proseVersionId", "beatId", "content"},
  Demands |-> {"beatId", "purpose", "requiredCharacterIds", "requiredFactKeys",
               "requiredDirectives", "prohibitedActions"},
  Guard   |-> {"guardKey", "prohibitedExact", "prohibitedAliases", "coOccurrenceGroups",
               "proximityGroups", "semanticReviewRequired"},
  Rule    |-> {"ruleKey", "instruction", "restrictedEvidence"}]

RepairKeys == [Repair |-> {"findingKey", "publicMessageCode", "instruction"}]

ExtractionKeys == [
  Message     |-> {"id", "role", "content"},
  PublicProse |-> {"proseVersionId", "content"},
  Identity    |-> {"id", "identity"}]

Keys == [
  shape \in UNION {DOMAIN PlannerKeys, DOMAIN WriterKeys, DOMAIN ValidatorKeys,
                   DOMAIN RepairKeys, DOMAIN ExtractionKeys} |->
    CASE shape \in DOMAIN PlannerKeys   -> PlannerKeys[shape]
      [] shape \in DOMAIN WriterKeys    -> WriterKeys[shape]
      [] shape \in DOMAIN ValidatorKeys -> ValidatorKeys[shape]
      [] shape \in DOMAIN RepairKeys    -> RepairKeys[shape]
      [] OTHER                          -> ExtractionKeys[shape]]

OptionalKeys(shape) ==
  CASE shape = "Demands" -> {"endingRequirement", "lengthRange"}
    [] shape = "Repair"  -> {"location"}
    [] OTHER             -> {}

(* An extraction packet has a use case.                                    *)
Fields == [
  planner   |-> [foundation |-> "Foundation", characters |-> "Character",
                 facts |-> "PrivateFact", reveals |-> "Reveal", futureOutline |-> "OutlineItem"],
  writer    |-> [beatContract |-> "Contract", characterDirectives |-> "Directive",
                 establishedFacts |-> "SafeFact", revealGuidance |-> "Guidance",
                 acceptedProseContext |-> "Excerpt"],
  validator |-> [prose |-> "Prose", beatContract |-> "Demands",
                 restrictedGuardSets |-> "Guard", continuityRules |-> "Rule"],
  repair    |-> [repairableProse |-> "Prose", directives |-> "Repair",
                 beatContract |-> "Contract", revealGuidance |-> "Guidance"],
  intake_signals         |-> [messages |-> "Message"],
  prose_public_structure |-> [prose |-> "PublicProse"],
  canon_reconciliation   |-> [prose |-> "Prose", facts |-> "PrivateFact",
                              characters |-> "Identity"]]
UseCases == {"intake_signals", "prose_public_structure", "canon_reconciliation"}
Packings == DOMAIN Fields
KindOfPacking(packing) == IF packing \in UseCases THEN "extraction" ELSE packing

ClassOfPacking(packing) ==
  CASE packing \in {"planner", "validator", "canon_reconciliation"} -> "author_private"
    [] packing \in {"writer", "repair"}                             -> "writer_safe"
    [] OTHER                                                        -> "review_safe"

(* The lists whose objects have ids of their own.                          *)
Identified ==
  {"characters", "facts", "reveals", "futureOutline", "establishedFacts", "messages",
   "restrictedGuardSets"}

ExactObject(item, shape) ==
  Keys[shape] \subseteq item.keys /\ item.keys \subseteq Keys[shape] \cup OptionalKeys(shape)

Literal(item, shape) ==
  /\ shape = "PrivateFact" => item.class = "author_private"
  /\ shape = "SafeFact" => item.class = "writer_safe"

(* Only a reveal refers to anything that is looked up, the planner's facts.*)
Accepts(raw) ==
  LET fields == Fields[raw.packing]
      listed(f) == Range(raw.fields[f])
  IN /\ DOMAIN raw.fields = DOMAIN fields
     /\ raw.class = ClassOfPacking(raw.packing)
     /\ \A f \in DOMAIN fields : \A item \in listed(f) :
          ExactObject(item, fields[f]) /\ Literal(item, fields[f])
     /\ \A f \in Identified \cap DOMAIN fields : \A i, j \in DOMAIN raw.fields[f] :
          raw.fields[f][i].id = raw.fields[f][j].id => i = j
     /\ raw.packing = "planner" =>
          {r.ref : r \in listed("reveals")} \subseteq {i.id : i \in listed("facts")}

(* What only the author may know: the truth of a fact and when it comes    *)
(* out, private notes, the phrases of a guard, evidence, the ending.       *)
Private ==
  {"truth", "targetPosition", "privateNotes", "prohibitedExact", "prohibitedAliases",
   "restrictedEvidence", "endingDirection"}

Built(raw) ==
  [kind |-> KindOfPacking(raw.packing), class |-> raw.class, of |-> raw.of,
   secrets |-> Private \cap
     UNION {UNION {item.keys : item \in Range(raw.fields[f])} : f \in DOMAIN raw.fields}]

-----------------------------------------------------------------------------
(* The stages of a plan: the kind of packet and its class.                 *)

Stage(kind, class) == [kind |-> kind, class |-> class]
ParseRepair == Stage("repair", "writer_safe")
Templates == [
  chat_intake_reply  |-> <<Stage("extraction", "review_safe"), ParseRepair>>,
  concept_generation |-> <<Stage("planner", "author_private"), ParseRepair>>,
  beat_write_judge   |-> <<Stage("writer", "writer_safe"), ParseRepair,
                           Stage("validator", "author_private"), ParseRepair, ParseRepair>>,
  safe_repair        |-> <<ParseRepair, ParseRepair>>,
  publish_package    |-> <<Stage("extraction", "review_safe"), ParseRepair>>]

KindsOf(stages) == {s.kind : s \in Range(stages)}
ClassesOf(workflow) == {s.class : s \in Range(Templates[workflow])}

\* Mutant: what is private to the author may go anywhere.
RestrictedToService(class) == class = "service_restricted"
Restricted(class) == class \in {"author_private", "service_restricted"}
Permitted(provider, class) == Restricted(class) => provider \in Trusted

(* A worker does not start without a provider for what is restricted.      *)
Serviceable(providers) ==
  \A w \in DOMAIN Templates :
    (\E class \in ClassesOf(w) : Restricted(class)) => providers \cap Trusted # {}

PacketFor(stage) == {p \in bundle : p.kind = stage.kind}
PromptBound(stage) ==
  PacketFor(stage) # {} /\
    \A p \in PacketFor(stage) : p.class = stage.class /\ p.of = plan.of

-----------------------------------------------------------------------------
PacketsInit ==
  /\ bundle = {} /\ worker = {} /\ sent = {}
  /\ \E w \in DOMAIN Templates :
       plan = [at |-> "preparing", workflow |-> w, provider |-> "none", of |-> NoBase, stage |-> 1]

(* A well-formed packet, but for its class or one of its fields.           *)
Sample(shape) == CHOOSE item \in Material : item.keys = Keys[shape] /\ Literal(item, shape)
Raw(packing, fields, class, of) ==
  [packing |-> packing, fields |-> fields, class |-> class, of |-> of]
RawPackets ==
  UNION {
    LET sample(f) == Sample(Fields[packing][f])
        fields == [f \in DOMAIN Fields[packing] |-> <<sample(f)>>]
    IN {Raw(packing, fields, class, of) :
          class \in {"writer_safe", "review_safe", "author_private"}, of \in Bases} \cup
       {Raw(packing, [fields EXCEPT ![f] = list], ClassOfPacking(packing), of) :
          f \in DOMAIN fields, of \in Bases, list \in {<<>>} \cup {<<i>> : i \in Material}} \cup
       {Raw(packing, [fields EXCEPT ![f] = <<sample(f), i>>], ClassOfPacking(packing), of) :
          f \in DOMAIN fields, of \in Bases, i \in Material}
    : packing \in Packings}
Acceptable == {Built(raw) : raw \in {r \in RawPackets : Accepts(r)}}

Pack(p) ==
  /\ plan.at = "preparing"
  /\ p.kind \in KindsOf(Templates[plan.workflow]) \ {q.kind : q \in bundle}
  /\ bundle' = bundle \cup {p}
  /\ UNCHANGED <<plan, worker, sent>>

(* A caller has a packet built; what it gets wrong is refused, and nothing *)
(* changes.  Only the repair packet of a safe repair is built.             *)
BuildPacket(p) == (p.kind = "repair" => plan.workflow = "safe_repair") /\ Pack(p)

(* Every other workflow has an envelope put together by hand instead,      *)
(* which says no more than whose recovery it is for.                       *)
RecoveryPacket(of) == [kind |-> "repair", class |-> "writer_safe", of |-> of, secrets |-> {}]
AddRecovery(of) == plan.workflow # "safe_repair" /\ Pack(RecoveryPacket(of))

(* freezeBundle takes one packet of each kind the workflow needs, all of   *)
(* its project and manifest; the plan routes every stage to one provider.  *)
Freeze(provider, of) ==
  /\ plan.at = "preparing"
  /\ {p.kind : p \in bundle} = KindsOf(Templates[plan.workflow])
  /\ \A p \in bundle : p.of = of
  /\ plan' = [plan EXCEPT !.at = "queued", !.provider = provider, !.of = of]
  /\ UNCHANGED <<bundle, worker, sent>>

Boot(providers) ==
  /\ plan.at = "queued" /\ worker = {} /\ providers # {} /\ Serviceable(providers)
  /\ worker' = providers
  /\ UNCHANGED <<bundle, plan, sent>>

(* The processor looks at every stage of the plan before its first call.   *)
Process ==
  LET stages == Range(Templates[plan.workflow]) IN
  /\ plan.at = "queued" /\ worker # {}
  /\ plan' = [plan EXCEPT !.at =
       IF \A s \in stages : PromptBound(s) /\ Permitted(plan.provider, s.class)
       THEN "running" ELSE "failed"]
  /\ UNCHANGED <<bundle, worker, sent>>

NextStage ==
  IF plan.stage = Len(Templates[plan.workflow]) THEN [plan EXCEPT !.at = "done"]
  ELSE [plan EXCEPT !.stage = @ + 1]

(* The frozen packet is the prompt; a provider the worker lacks is an error*)
(* of the run, and a violated policy a failed call.                        *)
CallStage ==
  LET s == Templates[plan.workflow][plan.stage] IN
  /\ plan.at = "running"
  /\ IF PromptBound(s) /\ plan.provider \in worker /\ Permitted(plan.provider, s.class)
     THEN /\ sent' = sent \cup {[to |-> plan.provider, for |-> plan.of, packet |-> p] :
                                  p \in PacketFor(s)}
          /\ plan' = NextStage
     ELSE plan' = [plan EXCEPT !.at = "failed"] /\ UNCHANGED sent
  /\ UNCHANGED <<bundle, worker>>

(* A repair stage runs only on a failure of the stage before it.           *)
SkipStage ==
  /\ plan.at = "running" /\ plan.stage > 1
  /\ Templates[plan.workflow][plan.stage] = ParseRepair
  /\ plan' = NextStage
  /\ UNCHANGED <<bundle, worker, sent>>

PacketsNext ==
  \/ \E p \in Acceptable : BuildPacket(p)
  \/ \E of \in Bases : AddRecovery(of)
  \/ \E provider \in Providers, of \in Bases : Freeze(provider, of)
  \/ \E providers \in SUBSET Providers : Boot(providers)
  \/ Process \/ CallStage \/ SkipStage
PacketsSpec == PacketsInit /\ [][PacketsNext]_packetVars

-----------------------------------------------------------------------------
(* Whatever a caller asks a builder to put into a packet, whatever plan it *)
(* is frozen with, and whatever providers the worker has: what only the    *)
(* author may know reaches trusted providers only, and no prompt is of     *)
(* another story or of another state of it.                                *)
SecretsStayTrusted ==
  \A s \in sent :
    /\ s.packet.secrets # {} => s.to \in Trusted
    /\ s.packet.of = s.for
=============================================================================
