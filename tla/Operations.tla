----------------------------- MODULE Operations -----------------------------
(***************************************************************************)
(* What becomes of the operations a model suggests, or an author implies:  *)
(* a candidate is checked against its contract, its references are         *)
(* resolved against the canonical entities the caller supplies, new        *)
(* entities and outline positions are allotted, and the operations are put *)
(* into one order in which they can be applied.                            *)
(*                                                                         *)
(* Every stage sorts its input, so a candidate is a set of drafts.  Names  *)
(* are numbers, compared as the code compares code units; texts are left   *)
(* out.  A refusal has a code in the source and none here.                 *)
(***************************************************************************)
EXTENDS Integers, Sequences, FiniteSets

CONSTANTS
  Contexts,         \* what a caller may resolve against
  Drafts,           \* the drafts suggested under each contract
  MaxDrafts,        \* bound on the size of a candidate
  NewIds,           \* ids the allocator may hand out
  TotalLimit,       \* CONTRACT_LIMITS and GLOBAL_OPERATION_LIMIT
  CreationLimit,
  DependencyLimit

ASSUME OperationsAssumption ==
  /\ {MaxDrafts, CreationLimit, DependencyLimit} \subseteq Nat
  /\ \A c \in Contexts : c.contract \in DOMAIN Drafts \cap DOMAIN TotalLimit

VARIABLES
  context,    \* contract, canonical entities and repair binding
  candidate,  \* the drafts suggested so far
  outcome     \* the resolved operations in order, or why there are none

operationVars == <<context, candidate, outcome>>

-----------------------------------------------------------------------------
(* The catalogue, its names in code-unit order.                            *)
OpOrder == <<"belief.append", "breadcrumb.create", "character.create", "character.update",
  "disclosure.append", "fact.create", "fact.update", "foundation.update", "outline.create",
  "outline.update", "prose.accept", "prose.version.create", "reveal.create",
  "reveal.update", "state.append">>
TypeOrder == <<"arc", "beat", "chapter", "character", "fact", "fact_disclosure",
  "foundation", "prose_version", "reveal", "reveal_breadcrumb", "roadmap">>

Rank(order, x) == CHOOSE i \in DOMAIN order : order[i] = x

CreateOps == {"character.create", "fact.create", "reveal.create", "breadcrumb.create",
              "outline.create", "prose.version.create"}
FactOps == {"fact.create", "fact.update"}
ExtractionOps == {"state.append", "belief.append", "disclosure.append"}

WritingContracts == {"beat.write", "repair"}
AllowedOps(contract) ==
  CASE contract = "intake" -> {"foundation.update"}
    [] contract = "foundation" ->
         {"foundation.update", "character.create", "character.update", "reveal.create",
          "reveal.update"} \cup FactOps
    [] contract = "outline" ->
         {"reveal.create", "reveal.update", "breadcrumb.create", "outline.create",
          "outline.update"}
    [] contract \in WritingContracts ->
         FactOps \cup ExtractionOps \cup {"prose.version.create", "prose.accept"}

(* References: to a canonical entity by id, to a suggested one by the name *)
(* of its draft.                                                           *)
Existing(type, id) == [type |-> type, temp |-> FALSE, id |-> id]
Temporary(type, ref) == [type |-> type, temp |-> TRUE, id |-> ref]

(* normalizeSuggestion: every creation targets what it creates; of is what *)
(* the payload refers to (fact, reveal, parent, beat, prose or disclosure),*)
(* at the chapter and beat of a position, proof the evidence.              *)
Draft(ref, op, target, of, at, proof, deps) ==
  [ref |-> ref, op |-> op, target |-> target, of |-> of, at |-> at, proof |-> proof,
   deps |-> deps, hidden |-> FALSE]
Created(ref, op, type, of, at, proof, deps) ==
  Draft(ref, op, Temporary(type, ref), of, at, proof, deps)

Creates(d) == d.op \in CreateOps

Refs == [type : {TypeOrder[i] : i \in DOMAIN TypeOrder}, temp : BOOLEAN, id : Nat]
Named(d) == d.of \cup {d.at[i] : i \in DOMAIN d.at}

TypesMade(op) ==
  CASE op = "character.create"     -> {"character"}
    [] op = "fact.create"          -> {"fact"}
    [] op = "reveal.create"        -> {"reveal"}
    [] op = "breadcrumb.create"    -> {"reveal_breadcrumb"}
    [] op = "outline.create"       -> {"roadmap", "arc", "chapter", "beat"}
    [] op = "prose.version.create" -> {"prose_version"}
ParentType == [arc |-> {"roadmap"}, chapter |-> {"arc"}, beat |-> {"chapter"}, roadmap |-> {}]

(* What normalizeSuggestion makes, as far as the rest relies on it: which  *)
(* type a creation makes, and that it refers to things of other types; a   *)
(* version of prose to its beat alone, a position to its parent alone.     *)
WellFormed(d) ==
  /\ d.ref \in Nat /\ d.target \in Refs /\ Named(d) \subseteq Refs
  /\ d.op \in {OpOrder[i] : i \in DOMAIN OpOrder}
  /\ \A e \in d.proof : e.prose \in Refs /\ e.prose.type = "prose_version"
  /\ Creates(d) =>
       /\ d.target = Temporary(d.target.type, d.ref) /\ d.target.type \in TypesMade(d.op)
       /\ \A r \in Named(d) : r.type # d.target.type
  /\ d.op = "prose.version.create" => d.proof = {} /\ \A r \in Named(d) : r.type = "beat"
  /\ d.op = "outline.create" =>
       /\ d.proof = {} /\ d.at = <<>>
       /\ \A r \in d.of : r.type \in ParentType[d.target.type]
       /\ d.target.type = "roadmap" <=> d.of = {}
       /\ \A r, q \in d.of : r = q

ASSUME DraftsAssumption == \A c \in Contexts : \A d \in Drafts[c.contract] : WellFormed(d)

(* What a caller supplies: every entity once, none with an id that is yet  *)
(* to be handed out, and below every parent the next free numbers.         *)
ASSUME ContextsAssumption ==
  /\ NewIds \subseteq Nat
  /\ \A c \in Contexts :
       /\ c.contract \in WritingContracts \cup {"intake", "foundation", "outline"}
       /\ \A s, p \in c.canon : s.type = p.type /\ s.id = p.id => s = p
       /\ \A s \in c.canon :
            /\ {s.id, s.parent} \cap NewIds = {}
            /\ {s.ordinal, s.seq, s.nextOrdinal, s.nextSeq} \subseteq Nat
       /\ \A s, p \in c.canon :
            s.type \in DOMAIN ParentType /\ p.type \in ParentType[s.type] /\ s.parent = p.id =>
              s.ordinal < p.nextOrdinal
                /\ (s.type \in {"chapter", "beat"} => s.seq < p.nextSeq)

-----------------------------------------------------------------------------
(* validateCandidateContract                                               *)
Count(op) == Cardinality({d \in candidate : d.op = op})

CandidateValid ==
  LET contract == context.contract IN
  /\ Cardinality(candidate) <= TotalLimit[contract]
  /\ \A d, e \in candidate : d.ref = e.ref => d = e
  /\ \A d \in candidate :
       /\ d.op \in AllowedOps(contract)
       /\ Cardinality(d.deps) <= DependencyLimit
       /\ contract \in WritingContracts /\ d.op \in FactOps => ~d.hidden
  /\ Cardinality({d \in candidate : Creates(d)}) <= CreationLimit
  /\ contract \in WritingContracts =>
       Count("prose.version.create") = 1 /\ Count("prose.accept") = 1

-----------------------------------------------------------------------------
(* The values.  ids holds the ids allotted to the creations.               *)
Canonical(type, id) == {s \in context.canon : s.type = type /\ s.id = id}
Snapshot(r) == CHOOSE s \in context.canon : s.type = r.type /\ s.id = r.id
Producer(r) == {d \in candidate : Creates(d) /\ d.ref = r.id /\ d.target.type = r.type}

Resolvable(r) == IF r.temp THEN Producer(r) # {} ELSE Canonical(r.type, r.id) # {}
IdOf(r, ids) == IF r.temp THEN ids[r.id] ELSE r.id

(* The allocator hands out ids no canonical entity has, each once.         *)
Allocations ==
  LET refs == {d.ref : d \in {e \in candidate : Creates(e)}} IN
  {ids \in [refs -> NewIds] : \A p, q \in refs : ids[p] = ids[q] => p = q}

(* precomputeOutlineCreates: the children that a candidate gives a parent  *)
(* are numbered in the order of their names, from where the parent stands, *)
(* or from nought when the parent is new.                                  *)
Siblings(d) == {e \in candidate : e.op = "outline.create" /\ e.of = d.of}
Elder(d) == Cardinality({e \in Siblings(d) : e.ref < d.ref})
ParentOf(d) == CHOOSE r \in d.of : TRUE
Unnumbered == [ordinal |-> 0, seq |-> 0]
\* Mutant: the counters of an existing parent start from nought, too.
NumberFromNought(d) == [ordinal |-> Elder(d), seq |-> Elder(d)]
Number(d) ==
  IF d.of = {} \/ ParentOf(d).temp THEN [ordinal |-> Elder(d), seq |-> Elder(d)]
  ELSE [ordinal |-> Snapshot(ParentOf(d)).nextOrdinal + Elder(d),
        seq |-> Snapshot(ParentOf(d)).nextSeq + Elder(d)]

(* The place of a reveal or a breadcrumb is its beat's, else its chapter's.*)
SequenceOf(r) ==
  IF r.temp THEN Number(CHOOSE d \in Producer(r) : TRUE).seq ELSE Snapshot(r).seq
SequenceAt(d) == SequenceOf(d.at[Len(d.at)])
RevealSequence(r) ==
  IF r.temp THEN SequenceAt(CHOOSE d \in Producer(r) : TRUE) ELSE Snapshot(r).seq

BeatOf(prose, ids) ==
  IF prose.temp
  THEN LET p == CHOOSE d \in Producer(prose) : TRUE IN IdOf(CHOOSE b \in p.of : TRUE, ids)
  ELSE Snapshot(prose).parent

(* Evidence points into suggested prose, or into canonical prose of the    *)
(* same candidate and extraction run, within its text.                     *)
EvidenceValid(e) ==
  /\ Resolvable(e.prose) /\ e.fits
  /\ e.prose.temp \/ Snapshot(e.prose).own

ReferencesResolve(d) ==
  /\ \A r \in {d.target} \cup d.of \cup {d.at[i] : i \in DOMAIN d.at} : Resolvable(r)
  /\ \A e \in d.proof : EvidenceValid(e)

DraftValid(d, ids) ==
  /\ d.op = "disclosure.append" =>
       \A r \in d.of : Snapshot(r).parent = IdOf(d.target, ids)
  /\ d.op = "breadcrumb.create" => \A r \in d.of : SequenceAt(d) < RevealSequence(r)
  /\ d.op = "outline.update" =>
       \A r \in d.of : IdOf(r, ids) = Snapshot(d.target).parent
  /\ d.op \in ExtractionOps =>
       \A e \in d.proof : Canonical("beat", BeatOf(e.prose, ids)) # {}
  /\ d.op = "prose.accept" => \A r \in d.of :
       /\ context.contract \in WritingContracts => r.temp
       /\ d.target.id = BeatOf(r, ids)

(* A repair is bound to the version it repairs and the one it makes, and   *)
(* takes every fact from the latter anew.                                  *)
BindingValid ==
  LET b == context.binding IN
  /\ b.bound /\ b.source # b.repaired /\ b.extraction = b.repaired
  /\ \A s \in context.canon : s.type = "prose_version" => s.own

RepairValid(ids) ==
  LET repaired == context.binding.repaired IN
  /\ \A d \in candidate :
       /\ d.op = "prose.version.create" => ids[d.ref] = repaired
       /\ d.op = "prose.accept" => \A r \in d.of : IdOf(r, ids) = repaired
       /\ d.op \in FactOps => d.proof # {}
       /\ d.op \in FactOps \cup ExtractionOps =>
            \A e \in d.proof : IdOf(e.prose, ids) = repaired
  /\ \E d \in candidate : d.op \in FactOps

-----------------------------------------------------------------------------
(* The order.  An edge leads from what must come first: what a draft       *)
(* depends on, refers to or quotes, and everything before an acceptance.   *)
(* The beat of a prose version gives no edge.                              *)
Quoted(d) == {e.prose : e \in d.proof}
\* Mutant: evidence gives no edge either.
ReferencesUnquoted(d) ==
  {d.target} \cup (IF d.op = "prose.version.create" THEN {} ELSE d.of)
    \cup {d.at[i] : i \in DOMAIN d.at}
References(d) ==
  {d.target} \cup (IF d.op = "prose.version.create" THEN {} ELSE d.of)
    \cup {d.at[i] : i \in DOMAIN d.at} \cup Quoted(d)

Before(d) ==
  d.deps \cup {r.id : r \in {x \in References(d) : x.temp /\ x.id # d.ref}}
    \cup (IF d.op = "prose.accept" THEN {e.ref : e \in candidate} \ {d.ref} ELSE {})

EdgesValid ==
  \A d \in candidate : d.ref \notin Before(d) /\ Before(d) \subseteq {e.ref : e \in candidate}

Key(d, ids) ==
  <<Rank(OpOrder, d.op), Rank(TypeOrder, d.target.type), IdOf(d.target, ids), d.ref>>
Precedes(k, l) == \E i \in 1..4 : k[i] < l[i] /\ \A j \in 1..(i - 1) : k[j] = l[j]
FirstReady(ds, ids) ==
  CHOOSE d \in ds : \A e \in ds \ {d} : Precedes(Key(d, ids), Key(e, ids))

(* stableTopologicalSort: of the drafts whose predecessors are placed, the *)
(* least is next; on a cycle nothing is.                                   *)
Placed(order) == {order[i].ref : i \in DOMAIN order}
Ready(order) ==
  {d \in candidate : d.ref \notin Placed(order) /\ Before(d) \subseteq Placed(order)}
Sorted(ids) ==
  LET sort[n \in 0..Cardinality(candidate)] ==
        IF n = 0 THEN <<>>
        ELSE IF Ready(sort[n - 1]) = {} THEN sort[n - 1]
        ELSE Append(sort[n - 1], FirstReady(Ready(sort[n - 1]), ids))
  IN sort[Cardinality(candidate)]

Unresolvable == [kind |-> "refused", operations |-> <<>>]

Operation(d, ids) ==
  [op |-> d.op, type |-> d.target.type, id |-> IdOf(d.target, ids),
   needs |-> {[type |-> r.type, id |-> IdOf(r, ids)] :
                r \in d.of \cup Quoted(d) \cup {d.at[i] : i \in DOMAIN d.at}},
   number |-> IF d.op = "outline.create" THEN Number(d) ELSE Unnumbered]

Outcome(ids) ==
  LET order == Sorted(ids) IN
  IF /\ CandidateValid
     /\ context.contract = "repair" => BindingValid
     /\ \A d \in candidate : ReferencesResolve(d)
     /\ \A d \in candidate : DraftValid(d, ids)
     /\ context.contract = "repair" => RepairValid(ids)
     /\ EdgesValid
     /\ Len(order) = Cardinality(candidate)
     /\ context.contract \in WritingContracts => order[Len(order)].op = "prose.accept"
  THEN [kind |-> "resolved", operations |-> [i \in DOMAIN order |-> Operation(order[i], ids)]]
  ELSE Unresolvable

-----------------------------------------------------------------------------
Unresolved == [kind |-> "none", operations |-> <<>>]

OperationsInit ==
  /\ context \in Contexts
  /\ candidate = {} /\ outcome = Unresolved

Suggests ==
  /\ outcome = Unresolved /\ Cardinality(candidate) < MaxDrafts
  /\ \E d \in Drafts[context.contract] \ candidate : candidate' = candidate \cup {d}
  /\ UNCHANGED <<context, outcome>>

(* An empty allocation stands for the allocator that repeats an id.        *)
Resolves ==
  /\ outcome = Unresolved /\ candidate # {}
  /\ \/ \E ids \in Allocations : outcome' = Outcome(ids)
     \/ Allocations = {} /\ outcome' = Unresolvable
  /\ UNCHANGED <<context, candidate>>

OperationsNext == Suggests \/ Resolves

OperationsSpec == OperationsInit /\ [][OperationsNext]_operationVars

-----------------------------------------------------------------------------
(* Applied one by one in the resolved order, every operation finds what it *)
(* refers to, quotes or is placed in: among the canonical entities, or     *)
(* made by an operation before it; and an acceptance is the last.          *)
AppliesInOrder ==
  LET ops == outcome.operations
      made(i) == {[type |-> ops[j].type, id |-> ops[j].id] :
                    j \in {k \in 1..i : ops[k].op \in CreateOps}}
      canon == {[type |-> s.type, id |-> s.id] : s \in context.canon}
  IN \A i \in DOMAIN ops :
       /\ ops[i].needs \subseteq canon \cup made(i - 1)
       /\ [type |-> ops[i].type, id |-> ops[i].id] \in canon \cup made(i)
       /\ ops[i].op = "prose.accept" => i = Len(ops)

(* No two children of a parent, canonical or new, get the same ordinal,    *)
(* nor two chapters or beats the same place in the story under it.         *)
PlacesAreDistinct ==
  LET ops == outcome.operations
      placed == {i \in DOMAIN ops : ops[i].op = "outline.create" /\ ops[i].type # "roadmap"}
      sequenced(type) == type \in {"chapter", "beat"}
  IN \A i \in placed :
       /\ \A j \in placed \ {i} :
            ops[i].needs = ops[j].needs => ops[i].number.ordinal # ops[j].number.ordinal
       /\ \A s \in context.canon, parent \in ops[i].needs :
            s.type = ops[i].type /\ s.parent = parent.id
              => /\ s.ordinal # ops[i].number.ordinal
                 /\ sequenced(s.type) => s.seq # ops[i].number.seq

(* A repair that brings a new version, takes its facts from it and accepts *)
(* it can be proposed to the author who paid for it.                       *)
AnswersRepair ==
  \E p, f, a \in candidate :
    /\ candidate = {p, f, a}
    /\ p.op = "prose.version.create" /\ p.of \cap {a.target} # {}
    /\ f.op = "fact.create" /\ \E e \in f.proof : e.fits /\ e.prose = p.target
    /\ a.op = "prose.accept" /\ a.of = {p.target}
    /\ \A d \in candidate : d.deps = {} /\ ~d.hidden

RepairsCanBeProposed ==
  context.contract = "repair" /\ AnswersRepair => outcome.kind # "refused"
=============================================================================
