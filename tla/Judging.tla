------------------------------ MODULE Judging -------------------------------
(***************************************************************************)
(* The judgement of one text: what the contract of its beat demands        *)
(* (structural-validator.ts), what the author keeps secret                 *)
(* (restricted-matcher.ts), what a model says of it, how the findings are  *)
(* merged into a report, which of them can be overridden, and when the     *)
(* repair of a text goes on (repair-policy.ts).                            *)
(*                                                                         *)
(* A text is a sequence of spelled words and full stops, and a place in it *)
(* a pair of indexes where the code has UTF-16 offsets.  The application   *)
(* passes a contract without demands, no guard and no opinion; the rest is *)
(* the library's.  Ids and hashes of findings are the values they hash.    *)
(***************************************************************************)
EXTENDS Naturals, Sequences, FiniteSets, SequencesExt

CONSTANTS
  Stop,         \* a full stop
  Lower,        \* the lower case of a word
  Normal,       \* its compatibility form (NFKC) in lower case
  Proses,       \* the texts
  Contracts,    \* what beats demand: [demands, min, max]
  GuardSets,    \* sets of guards
  Opinions,     \* what a model may find
  MaxOpinions,  \* bound on the findings of a model
  Window,       \* tokens a proximity group may span; 20 in the code
  Overridable,  \* the rules of OVERRIDE_ALLOWLIST; none in the code
  MaxAttempts   \* DEFAULT_MAX_ATTEMPTS of a repair

VARIABLES prose, contract, guards, opinions, report, chain
judgingVars == <<prose, contract, guards, opinions, report, chain>>

SeverityRank == [info |-> 0, warning |-> 1, error |-> 2, blocking |-> 3]
Blocking == {"empty", "character", "fact", "action", "restricted.exact", "restricted.alias"}
Erroneous == {"directive", "ending", "length", "restricted.co_occurrence", "restricted.proximity"}
SeverityOf(rule) ==
  IF rule \in Blocking THEN "blocking" ELSE IF rule \in Erroneous THEN "error" ELSE "warning"

(* What the types of the code say of what is judged.                       *)
ASSUME JudgingAssumption ==
  /\ Window \in Nat /\ Proses \subseteq Seq(DOMAIN Normal)
  /\ \A c \in Contracts : \A d \in c.demands :
       d.kind \in {"character", "fact", "directive", "action", "ending"}
  /\ \A gs \in GuardSets : \A g \in gs : IsFiniteSet(g.exact \cup g.alias)
  /\ \A f \in Opinions :
       f.source = "model" /\ f.severity \in DOMAIN SeverityRank /\ f.code \in Nat

NoPlace == <<>>
(* of is the item the finding was made for, which its identity only knows  *)
(* in its normalized form.                                                 *)
Finding(rule, evidence, place, of) ==
  [source |-> "deterministic", rule |-> rule, severity |-> SeverityOf(rule), code |-> 0,
   at |-> place, evidence |-> evidence, of |-> of]
FindingKey(f) == <<f.rule, f.at, f.evidence>>

-----------------------------------------------------------------------------
(* What the contract demands.                                              *)

\* A demand without phrases is left to the judgement of a model.
Semantic == [character |-> "character.semantic", fact |-> "fact.semantic",
             directive |-> "directive.semantic", action |-> "action.semantic",
             ending |-> "ending.semantic"]

(* A demand has a kind, a key, and the phrases that would show it met; a   *)
(* range without effect stands for a contract without a length range.      *)
ContractValid(c) ==
  /\ \A d, e \in c.demands : d.kind = e.kind /\ (d.key = e.key \/ d.kind = "ending") => d = e
  /\ c.min =< c.max

Occurs(text, phrase, i) ==
  /\ i + Len(phrase) - 1 =< Len(text)
  /\ \A k \in DOMAIN phrase : Lower[text[i + k - 1]] = Lower[phrase[k]]

(* The first phrase that occurs, where it first occurs, in any case.       *)
FirstMatch(text, phrases) ==
  LET at(k) == {i \in DOMAIN text : Occurs(text, phrases[k], i)}
      k == SelectInSeq(phrases, LAMBDA p : \E i \in DOMAIN text : Occurs(text, p, i))
  IN IF k = 0 THEN NoPlace
     ELSE LET i == Min(at(k)) IN <<i, i + Len(phrases[k]) - 1>>

DemandFindings(text, d) ==
  LET place == FirstMatch(text, d.lexical)
  IN IF d.lexical = <<>> THEN {Finding(Semantic[d.kind], <<d.kind, d.key>>, NoPlace, {})}
     ELSE IF d.kind = "action"
       THEN IF place = NoPlace THEN {} ELSE {Finding("action", <<d.kind, d.key>>, place, {})}
       ELSE IF place = NoPlace THEN {Finding(d.kind, <<d.kind, d.key>>, NoPlace, {})} ELSE {}

StructuralFindings(text, c) ==
  IF text = <<>> THEN {Finding("empty", <<"prose", "empty">>, NoPlace, {})}
  ELSE (UNION {DemandFindings(text, d) : d \in c.demands}) \cup
       (IF Len(text) < c.min \/ Len(text) > c.max
        THEN {Finding("length", <<"length", <<c.min, c.max>>>>, NoPlace, {})} ELSE {})

-----------------------------------------------------------------------------
(* What a guard keeps out: phrases, their aliases, and groups of terms     *)
(* that must not meet in a sentence (together) or in Window tokens (near). *)

Tokens(text) ==
  LET words[n \in 0 .. Len(text)] ==
        IF n = 0 THEN <<>>
        ELSE IF text[n] = Stop THEN words[n - 1] ELSE Append(words[n - 1], n)
  IN words[Len(text)]
Normalized(phrase) == [k \in DOMAIN Tokens(phrase) |-> Normal[phrase[Tokens(phrase)[k]]]]

Phrases(g) == g.exact \cup g.alias
Groups(g) == g.together \cup g.near
Terms(group) == {Normalized(term) : term \in group}

\* Mutant: phrases are compared as they are spelled.
SpelledApart(phrases, aliases) == phrases \cap aliases = {}
NormalizedApart(phrases, aliases) ==
  Cardinality({Normalized(p) : p \in phrases \cup aliases})
    = Cardinality(phrases) + Cardinality(aliases)

GuardValid(g) ==
  /\ NormalizedApart(g.exact, g.alias)
  /\ \A group \in Groups(g) :
       Cardinality(group) > 1 /\ Cardinality(Terms(group)) = Cardinality(group)
  /\ \A groups \in {g.together, g.near} : \A a, b \in groups : Terms(a) = Terms(b) => a = b
  /\ \A phrase \in Phrases(g) \cup UNION Groups(g) : Normalized(phrase) # <<>>

GuardsValid(gs) ==
  /\ \A g \in gs : GuardValid(g)
  /\ \A g, h \in gs : g.key = h.key => g = h

(* The tokens of each sentence, in order.                                  *)
Sentences(text) ==
  LET stops(i) == Cardinality({j \in 1 .. i : text[j] = Stop})
  IN [s \in 1 .. stops(Len(text)) + 1 |->
        SelectSeq(Tokens(text), LAMBDA i : stops(i) = s - 1)]

PhraseMatch(text, phrase) ==
  LET tokens == Tokens(text)
      at == {k \in DOMAIN tokens :
              /\ k + Len(phrase) - 1 =< Len(tokens)
              /\ \A m \in DOMAIN phrase : Normal[text[tokens[k + m - 1]]] = phrase[m]}
  IN IF at = {} THEN NoPlace
     ELSE <<tokens[Min(at)], tokens[Min(at) + Len(phrase) - 1]>>

Covers(text, tokens, terms, left, right) ==
  \A term \in terms : \E k \in left .. right : term = <<Normal[text[tokens[k]]]>>

(* The window slides: it grows on the right until it holds every term, and *)
(* shrinks on the left while it does; one that spans too much loses a term *)
(* and goes on.  Each step moves one side, if none ends the search.        *)
Slid(text, tokens, terms, span, w) ==
  IF w.found \/ w.right > Len(tokens) THEN w
  ELSE IF ~Covers(text, tokens, terms, w.left, w.right) THEN [w EXCEPT !.right = @ + 1]
  ELSE IF Covers(text, tokens, terms, w.left + 1, w.right) THEN [w EXCEPT !.left = @ + 1]
  ELSE IF w.right - w.left + 1 =< span THEN [w EXCEPT !.found = TRUE]
  ELSE [w EXCEPT !.left = @ + 1]
GroupMatch(text, tokens, terms, span) ==
  LET window[n \in 0 .. 2 * Len(tokens)] ==
        IF n = 0 THEN [left |-> 1, right |-> 1, found |-> FALSE]
        ELSE Slid(text, tokens, terms, span, window[n - 1])
      last == window[2 * Len(tokens)]
  IN IF last.found THEN <<tokens[last.left], tokens[last.right]>> ELSE NoPlace

SentenceMatch(text, terms) ==
  LET places == [s \in DOMAIN Sentences(text) |->
                   GroupMatch(text, Sentences(text)[s], terms, Len(text))]
      s == SelectInSeq(places, LAMBDA p : p # NoPlace)
  IN IF s = 0 THEN NoPlace ELSE places[s]

Lexical(text, g, mode, phrases) ==
  {Finding(mode, <<g.key, mode, Normalized(p)>>, PhraseMatch(text, Normalized(p)), {p}) :
     p \in {q \in phrases : PhraseMatch(text, Normalized(q)) # NoPlace}}

ProximityMatch(text, group) == GroupMatch(text, Tokens(text), Terms(group), Window)

RestrictedFindings(text, g) ==
  Lexical(text, g, "restricted.exact", g.exact) \cup
  Lexical(text, g, "restricted.alias", g.alias) \cup
  {Finding("restricted.co_occurrence", <<g.key, Terms(group)>>,
           SentenceMatch(text, Terms(group)), group) :
     group \in {h \in g.together : SentenceMatch(text, Terms(h)) # NoPlace}} \cup
  {Finding("restricted.proximity", <<g.key, Terms(group)>>, ProximityMatch(text, group), group) :
     group \in {h \in g.near : ProximityMatch(text, h) # NoPlace}}

GuardFindings(text, g) ==
  IF RestrictedFindings(text, g) = {} /\ g.review
  THEN {Finding("restricted.semantic_gap", <<g.key>>, NoPlace, {})}
  ELSE RestrictedFindings(text, g)

-----------------------------------------------------------------------------
(* Merging.                                                                *)

Deterministic(text, c, gs) ==
  StructuralFindings(text, c) \cup UNION {GuardFindings(text, g) : g \in gs}

\* A second finding of one kind with the same key is an error.
Collides(found) == \E f, g \in found : f # g /\ FindingKey(f) = FindingKey(g)

(* Of two findings of a model with one key the graver stays, and of two    *)
(* equally grave ones the one that comes first in canonical form.          *)
Graver(f, g) ==
  \/ SeverityRank[f.severity] > SeverityRank[g.severity]
  \/ SeverityRank[f.severity] = SeverityRank[g.severity] /\ f.code < g.code

Absorb(merged, f) ==
  LET same == {g \in merged : FindingKey(g) = FindingKey(f)}
  IN IF same = {} THEN merged \cup {f}
     ELSE LET g == CHOOSE g \in same : TRUE
          IN IF g.source = "model" /\ Graver(f, g) THEN (merged \ same) \cup {f} ELSE merged

(* What a model says is taken in the order in which it says it.            *)
Merged(found, said) ==
  LET merge[n \in 0 .. Len(said)] == IF n = 0 THEN found ELSE Absorb(merge[n - 1], said[n])
  IN merge[Len(said)]

Refused == [state |-> "refused"]
Unreported == [state |-> "none"]

Passed(findings) == \A f \in findings : f.severity # "blocking"

Judged(text, c, gs, said) ==
  LET found == Deterministic(text, c, gs)
      merged == Merged(found, said)
  IN IF ~ContractValid(c) \/ ~GuardsValid(gs) \/ Collides(found) THEN Refused
     ELSE [state |-> "reported", findings |-> merged, passed |-> Passed(merged),
           overridden |-> {}]

-----------------------------------------------------------------------------
(* Repairs.                                                                *)

(* What is left to repair: the blocking findings nobody overrode.          *)
Blockers == {f \in report.findings \ report.overridden : f.severity = "blocking"}

\* A blocker is known by its rule alone: its place and its evidence are not passed on.
RulesOf(findings) == {f.rule : f \in findings}
Ambiguous(findings) == Cardinality(RulesOf(findings)) < Cardinality(findings)

NoChain == [open |-> FALSE, first |-> 0, completed |-> 0, previous |-> {}, clear |-> FALSE]

(* All blockers weigh the same, so their count stands for their total.     *)
\* Mutant: other findings of the same number count as progress.
StopsOnRegression(previous, current, completed) ==
  \/ Cardinality(current) > Cardinality(previous)
  \/ current = previous
  \/ completed >= MaxAttempts
StopsRepair(previous, current, completed) ==
  \/ current = {}
  \/ Cardinality(current) > Cardinality(previous)
  \/ current = previous
  \/ Cardinality(current) >= Cardinality(previous)
  \/ completed >= MaxAttempts

-----------------------------------------------------------------------------
JudgingInit ==
  /\ prose \in Proses /\ contract \in Contracts /\ guards \in GuardSets
  /\ opinions = <<>> /\ report = Unreported /\ chain = NoChain

(* A model adds a finding to what it says of the text.                     *)
Opine(f) ==
  /\ report = Unreported /\ Len(opinions) < MaxOpinions
  /\ opinions' = Append(opinions, f)
  /\ UNCHANGED <<prose, contract, guards, report, chain>>

(* A text that has its report keeps it.                                    *)
Validate ==
  /\ report = Unreported
  /\ report' = Judged(prose, contract, guards, opinions)
  /\ UNCHANGED <<prose, contract, guards, opinions, chain>>

Override(f) ==
  /\ report.state = "reported" /\ f \in report.findings \ report.overridden
  /\ f.rule \in Overridable
  /\ report' = [report EXCEPT !.overridden = @ \cup {f}]
  /\ UNCHANGED <<prose, contract, guards, opinions, chain>>

(* A repair is asked for.  The application never passes the blockers of    *)
(* the attempt before (known = FALSE), and then the repair always goes on. *)
RequestSafeRepair(known) ==
  /\ report.state = "reported" /\ Blockers # {} /\ ~chain.open
  /\ known => chain.clear /\ ~Ambiguous(Blockers)
  /\ IF known
     THEN /\ ~StopsRepair(chain.previous, RulesOf(Blockers), chain.completed)
          /\ chain' = [chain EXCEPT !.open = TRUE, !.previous = RulesOf(Blockers)]
     ELSE chain' = [open |-> TRUE, first |-> Cardinality(RulesOf(Blockers)), completed |-> 0,
                    previous |-> RulesOf(Blockers), clear |-> ~Ambiguous(Blockers)]
  /\ UNCHANGED <<prose, contract, guards, opinions, report>>

(* The repaired text comes back as a new version, still to be judged.      *)
Repaired(text) ==
  /\ chain.open
  /\ prose' = text /\ opinions' = <<>> /\ report' = Unreported
  /\ chain' = [chain EXCEPT !.open = FALSE, !.completed = @ + 1]
  /\ UNCHANGED <<contract, guards>>

JudgingNext ==
  \/ \E f \in Opinions : Opine(f)
  \/ Validate
  \/ report.state = "reported" /\ \E f \in report.findings : Override(f)
  \/ \E known \in BOOLEAN : RequestSafeRepair(known)
  \/ \E text \in Proses : Repaired(text)

JudgingSpec == JudgingInit /\ [][JudgingNext]_judgingVars

-----------------------------------------------------------------------------
(* What is asked of judging.                                               *)

Said == {opinions[k] : k \in DOMAIN opinions}

NearGroups(text, g) ==
  {group \in g.near :
     \E left, right \in DOMAIN Tokens(text) :
       right < left + Window /\ Covers(text, Tokens(text), Terms(group), left, right)}
ReportedGroups(findings, g) ==
  {group \in g.near :
     \E f \in findings :
       /\ f.source = "deterministic" /\ f.rule = "restricted.proximity"
       /\ f.evidence = <<g.key, Terms(group)>>}

(* A valid input is always judged, and the report is a function of the     *)
(* text, the demands, the guards and of what the model says, not of the    *)
(* order in which it says it or in which a window was searched: a group is *)
(* reported exactly if some Window tokens hold all its terms, every key    *)
(* has one finding, the deterministic one if there is one and else the     *)
(* gravest, and the text passes exactly if none is blocking.               *)
(* restricted-matcher.ts slides its window over the text once, and         *)
(* merge-findings.ts folds the findings in the order they come.            *)
JudgementIsOfTheText ==
  report # Unreported =>
    LET found == Deterministic(prose, contract, guards)
    IN /\ report.state = "refused" <=> ~(ContractValid(contract) /\ GuardsValid(guards))
       /\ report.state = "reported" =>
            /\ \A g \in guards : ReportedGroups(report.findings, g) = NearGroups(prose, g)
            /\ {FindingKey(f) : f \in report.findings} = {FindingKey(f) : f \in found \cup Said}
            /\ \A f, g \in report.findings : FindingKey(f) = FindingKey(g) => f = g
            /\ \A f \in report.findings :
                 \/ f \in found
                 \/ \A g \in Said : FindingKey(g) = FindingKey(f) =>
                      /\ SeverityRank[g.severity] =< SeverityRank[f.severity]
                      /\ g.severity = f.severity => f.code =< g.code
            /\ report.passed <=> ~\E f \in report.findings : f.severity = "blocking"

(* A chain of repairs that passes on what the last one left gets shorter   *)
(* by a blocker with every attempt: what decideRepairStop is for, whatever *)
(* the model makes of the text in between.  This is about the library: the *)
(* application passes nothing on, so each of its repairs begins a chain.   *)
RepairsConverge ==
  chain.open => Cardinality(chain.previous) + chain.completed =< chain.first
=============================================================================
