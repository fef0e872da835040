---------------------------- MODULE MCOperations ----------------------------
(* Operations on the contexts the application resolves against, one beat   *)
(* and nothing else, and on those of the library: a repair bound to its    *)
(* versions, and an outline with an arc, a chapter, a beat and a reveal.   *)
EXTENDS Operations

Entity(type, id, parent, ordinal, seq, nextOrdinal, nextSeq) ==
  [type |-> type, id |-> id, parent |-> parent, ordinal |-> ordinal, seq |-> seq,
   nextOrdinal |-> nextOrdinal, nextSeq |-> nextSeq, own |-> TRUE]

TheBeat == Entity("beat", 1, 9, 0, 0, 0, 0)
Hero == Entity("character", 2, 0, 0, 0, 0, 0)
Secret == Entity("fact", 3, 0, 0, 0, 0, 0)
OldProse == [Entity("prose_version", 4, 1, 0, 0, 0, 0) EXCEPT !.own = FALSE]
OutlineCanon ==
  {Entity("roadmap", 8, 0, 0, 0, 1, 0), Entity("arc", 7, 8, 0, 0, 1, 1),
   Entity("chapter", 9, 7, 0, 0, 1, 1), TheBeat, Secret, Entity("reveal", 5, 0, 0, 1, 0, 0)}

Unbound == [bound |-> FALSE, source |-> 0, repaired |-> 0, extraction |-> 0]
Bound == [bound |-> TRUE, source |-> 4, repaired |-> 11, extraction |-> 11]

Context(contract, canon, binding) ==
  [contract |-> contract, canon |-> canon, binding |-> binding]

\* resolveProseOps of proposal-prepare passes the beat alone, and no binding.
ProposalContexts ==
  {Context(contract, {TheBeat}, Unbound) : contract \in WritingContracts}
LibraryContexts ==
  {Context("beat.write", {TheBeat, Hero, Secret, OldProse}, Unbound),
   Context("repair", {TheBeat, Hero, Secret}, Bound),
   Context("repair", {TheBeat, OldProse}, Bound),
   Context("outline", OutlineCanon, Unbound)}
MCContexts == ProposalContexts \cup LibraryContexts

Proof(prose) == [prose |-> prose, fits |-> TRUE]
Beat1 == Existing("beat", 1)
NewProse == Temporary("prose_version", 1)
Quote == {Proof(NewProse)}
WritingDrafts ==
  {Created(1, "prose.version.create", "prose_version", {Beat1}, <<>>, {}, {}),
   Draft(2, "prose.accept", Beat1, {NewProse}, <<>>, {}, {}),
   Draft(2, "prose.accept", Beat1, {Existing("prose_version", 4)}, <<>>, {}, {}),
   Created(3, "fact.create", "fact", {}, <<>>, Quote, {}),
   Created(3, "fact.create", "fact", {}, <<>>, Quote, {4}),
   Draft(4, "belief.append", Existing("character", 2), {Temporary("fact", 3)}, <<>>, Quote, {}),
   Draft(5, "disclosure.append", Temporary("fact", 3), {}, <<>>, Quote, {4}),
   Draft(6, "fact.update", Existing("fact", 3), {}, <<>>,
         {Proof(Existing("prose_version", 4))}, {})}

Arc1 == Temporary("arc", 1)
Chapter9 == Existing("chapter", 9)
OutlineDrafts ==
  {Created(1, "outline.create", "arc", {Existing("roadmap", 8)}, <<>>, {}, {}),
   Created(2, "outline.create", "chapter", {Arc1}, <<>>, {}, {}),
   Created(3, "outline.create", "chapter", {Existing("arc", 7)}, <<>>, {}, {}),
   Created(4, "outline.create", "chapter", {Existing("arc", 7)}, <<>>, {}, {6}),
   Created(5, "outline.create", "beat", {Temporary("chapter", 2)}, <<>>, {}, {}),
   Draft(6, "outline.update", Chapter9, {Existing("arc", 7)}, <<>>, {}, {}),
   Created(7, "reveal.create", "reveal", {Existing("fact", 3)}, <<Temporary("chapter", 3)>>, {}, {}),
   Created(8, "breadcrumb.create", "reveal_breadcrumb", {Temporary("reveal", 7)}, <<Chapter9>>,
           {}, {}),
   Created(9, "breadcrumb.create", "reveal_breadcrumb", {Existing("reveal", 5)},
           <<Chapter9, Beat1>>, {}, {})}

MCDrafts == [c \in {"beat.write", "repair", "outline"} |->
  IF c = "outline" THEN OutlineDrafts ELSE WritingDrafts]
MCTotalLimit == [c \in {"beat.write", "repair", "outline"} |-> 4]
=============================================================================
