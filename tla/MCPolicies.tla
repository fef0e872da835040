----------------------------- MODULE MCPolicies -----------------------------
(* The policies, each on an instance of its own: the resolution of         *)
(* suggested operations, the judgement of a text, the readings of a story, *)
(* the readiness of its foundation, the dependencies of a proposal, and    *)
(* the packets for models; with them the page a paid generation is asked   *)
(* for on, and the confirmation of three quotes that the grant cannot pay  *)
(* together.  part names the instance; the variables of the others keep    *)
(* their initial values.                                                   *)
EXTENDS MCOperations, Judging, Narrative, Packets, GenerationPanel, QuoteConfirm

CONSTANTS q1, q2, q3

VARIABLE part

policyVars == <<operationVars, judgingVars, narrativeVars, packetVars>>
vars == <<policyVars, panelVars, creditVars, part>>

MCQuotes == {q1, q2, q3}
MCAmount == q1 :> 2 @@ q2 :> 2 @@ q3 :> 1

-----------------------------------------------------------------------------
(* Texts: A is a in capitals, w is a in full width.                        *)
MCLower == [x \in {"a", "A", "b", "c", "w", "."} |-> IF x = "A" THEN "a" ELSE x]
MCNormal == [x \in DOMAIN MCLower |-> IF x = "w" THEN "a" ELSE MCLower[x]]
MCProses ==
  UNION {[1 .. n -> {"a", "b"}] : n \in 0 .. 2} \cup
  {<<"a", ".">>, <<"a", "c", "b", "A">>, <<"c", "A", ".", "b">>, <<"b", "c", "w">>, <<"b", "b", "c", "a">>}

Wanted(kind, key, lexical) == [kind |-> kind, key |-> key, lexical |-> lexical]
Nothing == [demands |-> {}, min |-> 0, max |-> 9]
MCContracts ==
  {Nothing,
   [demands |-> {Wanted("character", "k1", << <<"a">>, <<"b", "b">> >>),
                 Wanted("fact", "k1", << <<"b">> >>), Wanted("action", "k1", << <<"a", "b">> >>),
                 Wanted("action", "k2", <<>>), Wanted("ending", "k1", << <<"b">> >>)},
    min |-> 1, max |-> 3],
   [Nothing EXCEPT !.demands = {Wanted("fact", "k1", <<>>), Wanted("fact", "k1", << <<"b">> >>)}]}

KeptOut(exact, alias, together, near) ==
  [key |-> "g", exact |-> exact, alias |-> alias, together |-> together, near |-> near,
   review |-> TRUE]
AB == {<<"a">>, <<"b">>}
MCGuardSets ==
  {{}, {KeptOut({<<"a">>, <<"A">>}, {}, {}, {})}, {KeptOut({<<"w", "b">>}, {}, {AB}, {AB})},
   {KeptOut({<<"a">>}, {<<"A">>}, {}, {})},
   {KeptOut({<<"w">>}, {}, {}, {{<<"a">>, <<"a", "b">>}})}}

Opinion(rule, severity, code) ==
  [source |-> "model", rule |-> rule, severity |-> severity, code |-> code, at |-> NoPlace,
   evidence |-> <<"fact", "k1">>, of |-> {}]
MCOpinions ==
  {Opinion("fact", "warning", 1), Opinion("style", "error", 1), Opinion("style", "error", 2),
   Opinion("style", "blocking", 3)}

-----------------------------------------------------------------------------
MCPositions == {<<0, 1, 0>>, <<0, 1, 1>>, <<1, 1, 2>>, <<1, 2, 1>>}

Relation(from, to) == [from |-> from, to |-> to, active |-> TRUE, described |-> TRUE]
Texts ==
  {"core_concept", "conflict", "ending_direction", "reader_promise", "identity", "goal",
   "motivation", "character_address", "speech_style"}
Decided(active, relationships) ==
  [written |-> Texts, active |-> active, main |-> 1, relationships |-> relationships]
Undecided == [Decided(TRUE, {}) EXCEPT !.written = {}]
MCFoundations ==
  {Undecided, Decided(TRUE, {Relation(1, 2)}), Decided(TRUE, {Relation(1, 1), Relation(2, 3)}),
   Decided(FALSE, {Relation(2, 1)})}

-----------------------------------------------------------------------------
(* One object of each shape, some twice, and some that are not well formed.*)
Item(shape, class, id) == [keys |-> Keys[shape], class |-> class, id |-> id, ref |-> id]
MCMaterial ==
  {Item(shape, IF shape = "PrivateFact" THEN "author_private" ELSE "writer_safe", 1) :
     shape \in DOMAIN Keys} \cup
  {Item("Reveal", "writer_safe", 2), Item("PrivateFact", "author_private", 2),
   Item("PrivateFact", "writer_safe", 2),
   [Item("SafeFact", "writer_safe", 2) EXCEPT !.keys = @ \cup {"truth"}],
   [Item("Repair", "writer_safe", 2) EXCEPT !.keys = @ \cup {"restrictedEvidence"}],
   [Item("Repair", "writer_safe", 2) EXCEPT !.keys = @ \cup {"location"}],
   [Item("Character", "writer_safe", 2) EXCEPT !.keys = @ \ {"privateNotes"}]}

-----------------------------------------------------------------------------
NothingSuggested ==
  /\ context = Context("outline", OutlineCanon, Unbound)
  /\ candidate = {} /\ outcome = Unresolved
NothingToJudge ==
  /\ prose = <<>> /\ contract = Nothing /\ guards = {} /\ opinions = <<>>
  /\ report = Unreported /\ chain = NoChain
NothingToSend ==
  /\ bundle = {} /\ worker = {} /\ sent = {}
  /\ plan = [at |-> "done", workflow |-> "safe_repair", provider |-> "none", of |-> NoBase,
             stage |-> 1]

Policies ==
  {"operations", "judging", "beliefs", "disclosures", "planning", "dependencies", "packets"}

MCInit ==
  /\ part \in Policies \cup {"panel", "credit"}
  /\ IF part = "operations" THEN OperationsInit ELSE NothingSuggested
  /\ IF part = "judging" THEN JudgingInit ELSE NothingToJudge
  /\ NarrativeInit /\ (part # "planning" => foundation = Undecided)
  /\ IF part = "packets" THEN PacketsInit ELSE NothingToSend
  /\ CreditInit
  /\ PanelInit /\ (part # "panel" => surface = "beat")

ReadingPart ==
  \/ part = "beliefs" /\ BeliefsNext
  \/ part = "disclosures" /\ DisclosuresNext
  \/ part = "planning" /\ PlansNext
  \/ part = "dependencies" /\ DependenciesNext

PolicyPart ==
  \/ part = "operations" /\ OperationsNext /\ UNCHANGED <<judgingVars, narrativeVars, packetVars>>
  \/ part = "judging" /\ JudgingNext /\ UNCHANGED <<operationVars, narrativeVars, packetVars>>
  \/ ReadingPart /\ UNCHANGED <<operationVars, judgingVars, packetVars>>
  \/ part = "packets" /\ PacketsNext /\ UNCHANGED <<operationVars, judgingVars, narrativeVars>>

MCNext ==
  \/ PolicyPart /\ UNCHANGED <<panelVars, creditVars, part>>
  \/ part = "panel" /\ PanelNext /\ UNCHANGED <<policyVars, creditVars, part>>
  \/ part = "credit" /\ CreditNext /\ UNCHANGED <<policyVars, panelVars, part>>

MCSpec == MCInit /\ [][MCNext]_vars
=============================================================================
