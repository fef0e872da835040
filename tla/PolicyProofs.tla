----------------------------- MODULE PolicyProofs -----------------------------
(***************************************************************************)
(* Proofs about the policies.  Of Operations: whatever is resolved can be  *)
(* applied in the order it is given in, and every new position in the      *)
(* outline gets a place of its own.  Of Packets: what only the author may  *)
(* know is in packets of the author's class only, and those go to trusted  *)
(* providers only.  Of Narrative: what has changed since a manifest was    *)
(* taken is what was touched, a reading is of the story up to its place,   *)
(* and a schedule that counts as ready can be followed.  Of Judging: a     *)
(* report says of a text what there is to say, and a chain of repairs gets *)
(* shorter.                                                                *)
(***************************************************************************)
EXTENDS Operations, Packets, Narrative, Judging, FiniteSetTheorems,
        WellFoundedInduction, TLAPS

-----------------------------------------------------------------------------
(* Operations.                                                             *)

\* Induction over the naturals, by a least counterexample.
LEMMA LeastNatural ==
  ASSUME NEW F \in SUBSET Nat, F # {}
  PROVE  \E n \in F : \A m \in F : n <= m
<1>1. \E n \in F : \A m \in F : ~(<<m, n>> \in OpToRel(<, Nat))
  BY NatLessThanWellFounded, WFMin
<1>2. \A m, n \in Nat : <<m, n>> \in OpToRel(<, Nat) <=> m < n
  BY DEF OpToRel
<1>3. PICK n \in F : \A m \in F : ~(<<m, n>> \in OpToRel(<, Nat))
  BY <1>1
<1>4. ASSUME NEW m \in F PROVE n <= m
  <2>1. ~(m < n)
    BY <1>2, <1>3
  <2> QED BY <2>1
<1> QED BY <1>4

-----------------------------------------------------------------------------
(* The keys of the drafts, and the least of them.                          *)

(* Of the elements whose i-th entry is least, there is one.                *)
LEMMA LeastEntry ==
  ASSUME NEW S, S # {}, NEW K, NEW i, \A d \in S : K[d][i] \in Nat
  PROVE  \E d \in S : \A e \in S : K[d][i] <= K[e][i]
<1>1. PICK F : F = {K[d][i] : d \in S}
  OBVIOUS
<1>2. F \in SUBSET Nat /\ F # {}
  BY <1>1
<1>3. PICK n \in F : \A m \in F : n <= m
  BY <1>2, LeastNatural
<1>q. QED
  BY <1>1, <1>3

LEMMA LeastKey ==
  ASSUME NEW S, S # {}, NEW K, \A d \in S : \A i \in 1..4 : K[d][i] \in Nat
  PROVE  \E d \in S : \A e \in S : K[d][4] = K[e][4] \/ Precedes(K[d], K[e])
<1> DEFINE Least(T, i) == {d \in T : \A e \in T : K[d][i] <= K[e][i]}
<1>1. ASSUME NEW T \in SUBSET S, T # {}, NEW i \in 1..4
      PROVE  Least(T, i) \in SUBSET S /\ Least(T, i) # {}
  BY <1>1, LeastEntry
<1> HIDE DEF Least
<1>2. PICK T1 : T1 = Least(S, 1) /\ T1 \in SUBSET S /\ T1 # {}
  BY <1>1
<1>3. PICK T2 : T2 = Least(T1, 2) /\ T2 \in SUBSET S /\ T2 # {}
  BY <1>1, <1>2
<1>4. PICK T3 : T3 = Least(T2, 3) /\ T3 \in SUBSET S /\ T3 # {}
  BY <1>1, <1>3
<1>5. PICK T4 : T4 = Least(T3, 4) /\ T4 \in SUBSET S /\ T4 # {}
  BY <1>1, <1>4
<1>6. /\ T1 = {d \in S : \A e \in S : K[d][1] <= K[e][1]}
      /\ T2 = {d \in T1 : \A e \in T1 : K[d][2] <= K[e][2]}
      /\ T3 = {d \in T2 : \A e \in T2 : K[d][3] <= K[e][3]}
      /\ T4 = {d \in T3 : \A e \in T3 : K[d][4] <= K[e][4]}
  BY <1>2, <1>3, <1>4, <1>5 DEF Least
<1>7. PICK d \in T4 : d \in T3 /\ d \in T2 /\ d \in T1 /\ d \in S
  BY <1>5, <1>6
<1>8. ASSUME NEW e \in S PROVE K[d][4] = K[e][4] \/ Precedes(K[d], K[e])
  <2>1. \A i \in 1..4 : K[d][i] \in Nat /\ K[e][i] \in Nat
    BY <1>7
  <2>2. CASE e \notin T1
    <3>1. PICK c \in S : ~(K[e][1] <= K[c][1])
      BY <1>6, <2>2
    <3>2. K[d][1] <= K[c][1] /\ K[c][1] \in Nat
      BY <1>6, <1>7
    <3>3. K[d][1] < K[e][1]
      BY <2>1, <3>1, <3>2
    <3>q. QED
      BY <3>3 DEF Precedes
  <2>3. CASE e \in T1 /\ e \notin T2
    <3>1. PICK c \in T1 : ~(K[e][2] <= K[c][2])
      BY <1>6, <2>3
    <3>2. K[d][2] <= K[c][2] /\ K[c][2] \in Nat
      BY <1>2, <1>6, <1>7
    <3>3. K[d][2] < K[e][2]
      BY <2>1, <3>1, <3>2
    <3>4. K[d][1] = K[e][1]
      BY <1>6, <1>7, <2>1, <2>3
    <3>q. QED
      BY <3>3, <3>4 DEF Precedes
  <2>4. CASE e \in T1 /\ e \in T2 /\ e \notin T3
    <3>1. PICK c \in T2 : ~(K[e][3] <= K[c][3])
      BY <1>6, <2>4
    <3>2. K[d][3] <= K[c][3] /\ K[c][3] \in Nat
      BY <1>3, <1>6, <1>7
    <3>3. K[d][3] < K[e][3]
      BY <2>1, <3>1, <3>2
    <3>4. K[d][1] <= K[e][1] /\ K[e][1] <= K[d][1] /\ K[d][2] <= K[e][2] /\ K[e][2] <= K[d][2]
      BY <1>6, <1>7, <2>4
    <3>5. K[d][1] = K[e][1] /\ K[d][2] = K[e][2]
      BY <2>1, <3>4
    <3>q. QED
      BY <3>3, <3>5 DEF Precedes
  <2>5. CASE e \in T1 /\ e \in T2 /\ e \in T3
    <3>1. K[d][4] <= K[e][4]
      BY <1>6, <1>7, <2>5
    <3>2. /\ K[d][1] <= K[e][1] /\ K[e][1] <= K[d][1] /\ K[d][2] <= K[e][2] /\ K[e][2] <= K[d][2]
          /\ K[d][3] <= K[e][3] /\ K[e][3] <= K[d][3]
      BY <1>6, <1>7, <2>5
    <3>3. K[d][4] = K[e][4] \/ K[d][4] < K[e][4]
      BY <2>1, <3>1
    <3>4. K[d][1] = K[e][1] /\ K[d][2] = K[e][2] /\ K[d][3] = K[e][3]
      BY <2>1, <3>2
    <3>q. QED
      BY <3>3, <3>4 DEF Precedes
  <2>q. QED
    BY <2>2, <2>3, <2>4, <2>5
<1>q. QED
  BY <1>7, <1>8

(* The candidate is of normalized drafts, with names of their own.         *)
CandidateTypes ==
  /\ context \in Contexts /\ candidate \subseteq Drafts[context.contract]
  /\ IsFiniteSet(candidate)

LEMMA DraftsAreNormalized == CandidateTypes => \A d \in candidate : WellFormed(d)
BY DraftsAssumption DEF CandidateTypes

LEMMA OrdersAreNumbered ==
  /\ \A x : x \in {OpOrder[i] : i \in DOMAIN OpOrder} => Rank(OpOrder, x) \in Nat
  /\ \A x : x \in {TypeOrder[i] : i \in DOMAIN TypeOrder} => Rank(TypeOrder, x) \in Nat
<1>1. DOMAIN OpOrder \subseteq Nat /\ DOMAIN TypeOrder \subseteq Nat
  BY DEF OpOrder, TypeOrder
<1>2. ASSUME NEW order, DOMAIN order \subseteq Nat, NEW x \in {order[i] : i \in DOMAIN order}
      PROVE  Rank(order, x) \in Nat
  <2>1. \E i \in DOMAIN order : order[i] = x
    OBVIOUS
  <2>q. QED
    BY <1>2, <2>1 DEF Rank
<1>q. QED
  BY <1>1, <1>2

LEMMA Allotted ==
  ASSUME NEW ids \in Allocations, NEW d \in candidate, Creates(d)
  PROVE  d.ref \in DOMAIN ids /\ ids[d.ref] \in NewIds
BY DEF Allocations

(* What a reference resolves to is a number.                               *)
LEMMA ResolvedIsNumber ==
  ASSUME NEW ids \in Allocations, NEW r \in Refs, Resolvable(r)
  PROVE  IdOf(r, ids) \in Nat
<1>1. CASE r.temp
  <2>1. PICK d \in candidate : Creates(d) /\ d.ref = r.id
    BY <1>1 DEF Resolvable, Producer
  <2>q. QED
    BY <1>1, <2>1, Allotted, ContextsAssumption DEF IdOf
<1>2. CASE ~r.temp
  BY <1>2 DEF IdOf, Refs
<1>q. QED
  BY <1>1, <1>2

LEMMA KeysAreNumbers ==
  ASSUME CandidateTypes, NEW ids \in Allocations, NEW d \in candidate, ReferencesResolve(d)
  PROVE  /\ \A i \in 1..4 : Key(d, ids)[i] \in Nat
         /\ Key(d, ids)[4] = d.ref
<1>1. WellFormed(d)
  BY DraftsAreNormalized
<1>2. Rank(OpOrder, d.op) \in Nat
  BY <1>1, OrdersAreNumbered DEF WellFormed
<1>3. Rank(TypeOrder, d.target.type) \in Nat
  BY <1>1, OrdersAreNumbered DEF WellFormed, Refs
<1>4. IdOf(d.target, ids) \in Nat
  BY <1>1, ResolvedIsNumber DEF WellFormed, ReferencesResolve
<1>5. PICK a, b, c : a = Rank(OpOrder, d.op) /\ b = Rank(TypeOrder, d.target.type) /\ c = IdOf(d.target, ids)
  OBVIOUS
<1>6. Key(d, ids) = <<a, b, c, d.ref>>
  BY <1>5 DEF Key
<1>7. d.ref \in Nat
  BY <1>1 DEF WellFormed
<1>q. QED
  BY <1>2, <1>3, <1>4, <1>5, <1>6, <1>7

(* The least of some drafts is one of them.                                *)
LEMMA FirstReadyIsOne ==
  ASSUME CandidateTypes, CandidateValid, NEW ids \in Allocations,
         \A d \in candidate : ReferencesResolve(d), NEW ds \in SUBSET candidate, ds # {}
  PROVE  FirstReady(ds, ids) \in ds
<1>1. PICK K : K = [d \in ds |-> Key(d, ids)]
  OBVIOUS
<1>2. \A d \in ds : K[d] = Key(d, ids) /\ K[d][4] = d.ref /\ \A i \in 1..4 : K[d][i] \in Nat
  BY <1>1, KeysAreNumbers
<1>3. PICK d \in ds : \A e \in ds : K[d][4] = K[e][4] \/ Precedes(K[d], K[e])
  BY <1>2, LeastKey
<1>4. \A e \in ds \ {d} : Precedes(Key(d, ids), Key(e, ids))
  <2>1. \A e \in ds \ {d} : d.ref # e.ref
    BY DEF CandidateValid
  <2>q. QED
    BY <1>2, <1>3, <2>1
<1>q. QED
  BY <1>4 DEF FirstReady
-----------------------------------------------------------------------------
(* The order.                                                              *)

(* Every draft once, and each after all that must come before it.          *)
WellOrdered(order) ==
  /\ order \in Seq(candidate)
  /\ \A i, j \in DOMAIN order : order[i].ref = order[j].ref => i = j
  /\ \A i \in DOMAIN order : \A b \in Before(order[i]) : \E j \in 1..(i - 1) : order[j].ref = b

LEMMA NextInOrder ==
  ASSUME NEW order, WellOrdered(order), NEW d \in Ready(order)
  PROVE  WellOrdered(Append(order, d))
<1>1. order \in Seq(candidate) /\ d \in candidate /\ Len(order) \in Nat
  BY DEF WellOrdered, Ready
<1>2. PICK longer : longer = Append(order, d)
  OBVIOUS
<1>3. /\ longer \in Seq(candidate) /\ DOMAIN longer = 1..(Len(order) + 1)
      /\ DOMAIN order = 1..Len(order)
      /\ longer[Len(order) + 1] = d /\ \A i \in DOMAIN order : longer[i] = order[i]
  BY <1>1, <1>2
<1>4. \A i \in DOMAIN order : order[i].ref # d.ref
  BY DEF Ready, Placed
<1>5. \A b \in Before(d) : \E j \in DOMAIN order : order[j].ref = b
  BY DEF Ready, Placed
<1>6. \A i, j \in DOMAIN longer : longer[i].ref = longer[j].ref => i = j
  BY <1>1, <1>3, <1>4 DEF WellOrdered
<1>7. ASSUME NEW i \in DOMAIN longer, NEW b \in Before(longer[i])
      PROVE  \E j \in 1..(i - 1) : longer[j].ref = b
  <2>1. CASE i \in DOMAIN order
    <3>1. PICK j \in 1..(i - 1) : order[j].ref = b
      BY <1>3, <1>7, <2>1 DEF WellOrdered
    <3>2. j \in DOMAIN order
      BY <1>1, <1>3, <2>1
    <3>q. QED
      BY <1>3, <3>1, <3>2
  <2>2. CASE i = Len(order) + 1
    <3>1. PICK j \in DOMAIN order : order[j].ref = b
      BY <1>3, <1>5, <1>7, <2>2
    <3>2. j \in 1..(i - 1)
      BY <1>1, <1>3, <2>2
    <3>q. QED
      BY <1>3, <3>1, <3>2
  <2>q. QED
    BY <1>1, <1>3, <2>1, <2>2
<1>8. WellOrdered(longer)
  BY <1>3, <1>6, <1>7 DEF WellOrdered
<1>q. QED
  BY <1>2, <1>8

(* stableTopologicalSort is a recursion over a count, and defined.         *)
LEMMA SortExists ==
  ASSUME NEW N \in Nat, NEW ids
  PROVE  \E sort : sort = [n \in 0..N |->
           IF n = 0 THEN <<>>
           ELSE IF Ready(sort[n - 1]) = {} THEN sort[n - 1]
           ELSE Append(sort[n - 1], FirstReady(Ready(sort[n - 1]), ids))]
<1> DEFINE After(order) == IF Ready(order) = {} THEN order
                           ELSE Append(order, FirstReady(Ready(order), ids))
           Body(g, n) == IF n = 0 THEN <<>> ELSE After(g[n - 1])
           Good(n) == \E g : g = [m \in 0..n |-> Body(g, m)]
           Bad == {n \in Nat : ~Good(n)}
<1> HIDE DEF After
<1>1. Good(0)
  <2>1. PICK g : g = [m \in 0..0 |-> <<>>]
    OBVIOUS
  <2>2. g = [m \in 0..0 |-> Body(g, m)]
    BY <2>1
  <2>q. QED
    BY <2>2
<1>2. ASSUME NEW n \in Nat, Good(n) PROVE Good(n + 1)
  <2>1. PICK g : g = [m \in 0..n |-> Body(g, m)]
    BY <1>2
  <2>2. PICK h : h = [m \in 0..(n + 1) |-> Body(g, m)]
    OBVIOUS
  <2>3. \A m \in 0..n : h[m] = g[m]
    BY <2>1, <2>2
  <2>4. \A m \in 0..(n + 1) : m # 0 => m - 1 \in 0..n
    OBVIOUS
  <2>5. \A m \in 0..(n + 1) : Body(h, m) = Body(g, m)
    BY <2>3, <2>4
  <2>6. h = [m \in 0..(n + 1) |-> Body(h, m)]
    BY <2>2, <2>5
  <2>q. QED
    BY <2>6
<1>3. Bad = {}
  <2> SUFFICES ASSUME Bad # {} PROVE FALSE
    OBVIOUS
  <2> HIDE DEF Good
  <2>1. PICK n \in Bad : \A m \in Bad : n <= m
    BY LeastNatural
  <2>2. n # 0 /\ n - 1 \in Nat
    BY <1>1, <2>1
  <2>3. Good(n - 1)
    BY <2>1, <2>2
  <2>4. Good((n - 1) + 1)
    BY <1>2, <2>2, <2>3
  <2>5. (n - 1) + 1 = n
    BY <2>2
  <2>6. Good(n)
    BY <2>4, <2>5
  <2> QED BY <2>1, <2>6
<1>4. Good(N)
  BY <1>3
<1>q. QED
  BY <1>4 DEF After

LEMMA SortedInOrder ==
  ASSUME CandidateTypes, CandidateValid, NEW ids \in Allocations,
         \A d \in candidate : ReferencesResolve(d)
  PROVE  WellOrdered(Sorted(ids))
<1>1. PICK N \in Nat : N = Cardinality(candidate)
  BY FS_CardinalityType DEF CandidateTypes
<1> DEFINE Sorts(s) == s = [n \in 0..N |->
             IF n = 0 THEN <<>>
             ELSE IF Ready(s[n - 1]) = {} THEN s[n - 1]
             ELSE Append(s[n - 1], FirstReady(Ready(s[n - 1]), ids))]
           sort == CHOOSE s : Sorts(s)
<1>2. Sorts(sort)
  BY SortExists
<1>3. Sorted(ids) = sort[N]
  BY <1>1 DEF Sorted
<1> DEFINE Bad == {n \in 0..N : ~WellOrdered(sort[n])}
<1> HIDE DEF sort
<1>4. WellOrdered(sort[0])
  <2>1. sort[0] = <<>>
    BY <1>2
  <2>q. QED
    BY <2>1 DEF WellOrdered
<1>5. ASSUME NEW n \in 1..N, WellOrdered(sort[n - 1]) PROVE WellOrdered(sort[n])
  <2>1. PICK order : order = sort[n - 1]
    OBVIOUS
  <2>2. n \in 0..N /\ n # 0
    OBVIOUS
  <2>3. sort[n] = IF Ready(order) = {} THEN order
                  ELSE Append(order, FirstReady(Ready(order), ids))
    BY <1>2, <2>1, <2>2
  <2>4. Ready(order) \in SUBSET candidate
    BY DEF Ready
  <2>5. Ready(order) # {} => FirstReady(Ready(order), ids) \in Ready(order)
    BY <2>4, FirstReadyIsOne
  <2>q. QED
    BY <1>5, <2>1, <2>3, <2>5, NextInOrder
<1>6. Bad = {}
  <2> SUFFICES ASSUME Bad # {} PROVE FALSE
    OBVIOUS
  <2>1. Bad \in SUBSET Nat
    OBVIOUS
  <2>2. PICK n \in Bad : \A m \in Bad : n <= m
    BY <2>1, LeastNatural
  <2>3. n # 0 /\ n \in 1..N /\ n - 1 \in 0..N
    BY <1>4, <2>2
  <2>4. WellOrdered(sort[n - 1])
    BY <2>2, <2>3
  <2>5. WellOrdered(sort[n])
    BY <1>5, <2>3, <2>4
  <2>q. QED
    BY <2>2, <2>5
<1>q. QED
  BY <1>3, <1>6
-----------------------------------------------------------------------------
(* What applying the operations in this order finds.                       *)

(* The check that a candidate goes through under an allocation.            *)
Resolved(ids) ==
  /\ CandidateValid /\ EdgesValid
  /\ \A d \in candidate : ReferencesResolve(d)
  /\ Len(Sorted(ids)) = Cardinality(candidate)

(* Whoever makes what a reference names has the name that it names.        *)
LEMMA ProducerMakes ==
  ASSUME CandidateTypes, CandidateValid, NEW ids,
         NEW r \in Refs, r.temp, Resolvable(r), NEW d \in candidate, d.ref = r.id
  PROVE  Creates(d) /\ d.target.type = r.type /\ IdOf(d.target, ids) = IdOf(r, ids)
<1>1. PICK p \in candidate : Creates(p) /\ p.ref = r.id /\ p.target.type = r.type
  BY DEF Resolvable, Producer
<1>2. p = d
  BY <1>1 DEF CandidateValid
<1>3. WellFormed(d)
  BY DraftsAreNormalized
<1>4. d.target.temp /\ d.target.id = d.ref
  BY <1>1, <1>2, <1>3 DEF WellFormed, Temporary
<1>q. QED
  BY <1>1, <1>2, <1>4 DEF IdOf

(* No draft refers to what it makes itself.                                *)
LEMMA NamesAnother ==
  ASSUME CandidateTypes, CandidateValid, NEW d \in candidate,
         NEW r \in Named(d) \cup Quoted(d), r.temp, Resolvable(r)
  PROVE  r \in Refs /\ r.id # d.ref
<1>1. WellFormed(d)
  BY DraftsAreNormalized
<1>2. r \in Refs /\ (r \in Quoted(d) => r.type = "prose_version" /\ d.proof # {})
  BY <1>1 DEF WellFormed, Quoted
<1>3. r.id # d.ref
  <2> SUFFICES ASSUME r.id = d.ref PROVE FALSE
    OBVIOUS
  <2>1. Creates(d) /\ d.target.type = r.type
    BY <1>2, ProducerMakes
  <2>2. r \in Quoted(d)
    BY <1>1, <2>1 DEF WellFormed
  <2>3. d.op = "prose.version.create"
    BY <1>1, <1>2, <2>1, <2>2 DEF WellFormed, TypesMade, Creates, CreateOps
  <2>q. QED
    BY <1>1, <1>2, <2>2, <2>3 DEF WellFormed
<1>q. QED
  BY <1>2, <1>3

(* The beat of a version of prose is never a new one.                      *)
LEMMA VersionsOfOldBeats ==
  ASSUME CandidateTypes, CandidateValid, NEW d \in candidate, d.op = "prose.version.create",
         NEW r \in d.of, Resolvable(r)
  PROVE  ~r.temp
<1> SUFFICES ASSUME r.temp PROVE FALSE
  OBVIOUS
<1>1. PICK p \in candidate : Creates(p) /\ p.target.type = r.type
  BY DEF Resolvable, Producer
<1>2. r.type = "beat"
  BY DraftsAreNormalized DEF WellFormed, Named
<1>3. p.op = "outline.create"
  BY <1>1, <1>2, DraftsAreNormalized DEF WellFormed, TypesMade, Creates, CreateOps
<1>4. context.contract \in WritingContracts \cup {"intake", "foundation", "outline"}
  BY ContextsAssumption DEF CandidateTypes
<1>5. {"outline.create", "prose.version.create"} \subseteq AllowedOps(context.contract)
  BY <1>3 DEF CandidateValid
<1>q. QED
  BY <1>4, <1>5 DEF AllowedOps, WritingContracts, FactOps, ExtractionOps
(* What a draft names is canonical, or made before it.                     *)
LEMMA NamedComesBefore ==
  ASSUME CandidateTypes, CandidateValid, NEW d \in candidate, ReferencesResolve(d),
         NEW r \in Named(d) \cup Quoted(d)
  PROVE  /\ r \in Refs /\ Resolvable(r)
         /\ r.temp => r.id \in Before(d)
<1>1. Resolvable(r)
  BY DEF ReferencesResolve, Named, Quoted, EvidenceValid
<1>2. r \in Refs
  BY DraftsAreNormalized DEF WellFormed, Quoted
<1>3. ASSUME r.temp PROVE r.id \in Before(d)
  <2>1. r.id # d.ref
    BY <1>1, <1>3, NamesAnother
  <2>2. r \in d.of => d.op # "prose.version.create"
    BY <1>1, <1>3, VersionsOfOldBeats
  <2>3. r \in References(d)
    BY <2>2 DEF References, Named
  <2>q. QED
    BY <1>3, <2>1, <2>3 DEF Before
<1>q. QED
  BY <1>1, <1>2, <1>3

(* So is what a draft acts on, unless the draft makes it.                  *)
LEMMA TargetComesBefore ==
  ASSUME CandidateTypes, CandidateValid, NEW d \in candidate, ReferencesResolve(d)
  PROVE  /\ d.target \in Refs /\ Resolvable(d.target)
         /\ d.target.temp => (Creates(d) /\ d.target.id = d.ref) \/ d.target.id \in Before(d)
<1>1. d.target \in Refs /\ Resolvable(d.target)
  BY DraftsAreNormalized DEF WellFormed, ReferencesResolve
<1>2. ASSUME d.target.temp, d.target.id # d.ref PROVE d.target.id \in Before(d)
  BY <1>2 DEF Before, References
<1>3. ASSUME d.target.temp, d.target.id = d.ref PROVE Creates(d)
  <2>1. PICK p \in candidate : Creates(p) /\ p.ref = d.target.id
    BY <1>1, <1>3 DEF Resolvable, Producer
  <2>q. QED
    BY <1>3, <2>1 DEF CandidateValid
<1>q. QED
  BY <1>1, <1>2, <1>3

Made(ops, i) == {[type |-> ops[j].type, id |-> ops[j].id] :
                   j \in {k \in 1..i : ops[k].op \in CreateOps}}
Canons == {[type |-> s.type, id |-> s.id] : s \in context.canon}
Applies(ops) ==
  \A i \in DOMAIN ops :
    /\ ops[i].needs \subseteq Canons \cup Made(ops, i - 1)
    /\ [type |-> ops[i].type, id |-> ops[i].id] \in Canons \cup Made(ops, i)
    /\ ops[i].op = "prose.accept" => i = Len(ops)

(* What a resolved order says of the operations, one at a time.            *)
LEMMA FoundInOrder ==
  ASSUME CandidateTypes, CandidateValid, NEW ids, NEW order, WellOrdered(order),
         NEW ops, ops = [i \in DOMAIN order |-> Operation(order[i], ids)],
         NEW r \in Refs, Resolvable(r), NEW n \in Nat, n <= Len(order),
         r.temp => \E j \in 1..n : order[j].ref = r.id
  PROVE  [type |-> r.type, id |-> IdOf(r, ids)] \in Canons \cup Made(ops, n)
<1>1. CASE ~r.temp
  <2>1. PICK s \in context.canon : s.type = r.type /\ s.id = r.id
    BY <1>1 DEF Resolvable, Canonical
  <2>q. QED
    BY <1>1, <2>1 DEF IdOf, Canons
<1>2. CASE r.temp
  <2>1. PICK j \in 1..n : order[j].ref = r.id
    BY <1>2
  <2>2. j \in DOMAIN order /\ order[j] \in candidate
    BY <2>1 DEF WellOrdered
  <2>3. Creates(order[j]) /\ order[j].target.type = r.type
        /\ IdOf(order[j].target, ids) = IdOf(r, ids)
    BY <1>2, <2>1, <2>2, ProducerMakes
  <2>4. ops[j].type = r.type /\ ops[j].id = IdOf(r, ids) /\ ops[j].op \in CreateOps
    BY <2>2, <2>3 DEF Operation, Creates
  <2>q. QED
    BY <2>1, <2>4 DEF Made
<1>q. QED
  BY <1>1, <1>2

LEMMA ResolvedApplies ==
  ASSUME CandidateTypes, NEW ids \in Allocations, Resolved(ids), NEW ops,
         ops = [i \in DOMAIN Sorted(ids) |-> Operation(Sorted(ids)[i], ids)]
  PROVE  Applies(ops)
<1>1. PICK order : order = Sorted(ids)
  OBVIOUS
<1>2. CandidateValid /\ WellOrdered(order) /\ \A d \in candidate : ReferencesResolve(d)
  BY <1>1, SortedInOrder DEF Resolved
<1>3. order \in Seq(candidate) /\ Len(order) \in Nat /\ DOMAIN order = 1..Len(order)
  BY <1>2 DEF WellOrdered
<1>4. ops = [i \in DOMAIN order |-> Operation(order[i], ids)]
  BY <1>1
<1>5. Len(ops) = Len(order)
  BY <1>3, <1>4
<1> SUFFICES ASSUME NEW i \in DOMAIN order
             PROVE  /\ ops[i].needs \subseteq Canons \cup Made(ops, i - 1)
                    /\ [type |-> ops[i].type, id |-> ops[i].id] \in Canons \cup Made(ops, i)
                    /\ ops[i].op = "prose.accept" => i = Len(ops)
  BY <1>4 DEF Applies
<1>6. PICK d \in candidate : d = order[i]
  BY <1>3
<1>7. /\ ops[i].op = d.op /\ ops[i].type = d.target.type /\ ops[i].id = IdOf(d.target, ids)
      /\ ops[i].needs = {[type |-> r.type, id |-> IdOf(r, ids)] : r \in Named(d) \cup Quoted(d)}
  BY <1>4, <1>6 DEF Operation, Named
<1>8. \A b \in Before(d) : \E j \in 1..(i - 1) : order[j].ref = b
  BY <1>2, <1>6 DEF WellOrdered
<1>9. ASSUME NEW r \in Named(d) \cup Quoted(d)
      PROVE  [type |-> r.type, id |-> IdOf(r, ids)] \in Canons \cup Made(ops, i - 1)
  <2>1. r \in Refs /\ Resolvable(r) /\ (r.temp => \E j \in 1..(i - 1) : order[j].ref = r.id)
    BY <1>2, <1>8, NamedComesBefore
  <2>2. i - 1 \in Nat /\ i - 1 <= Len(order)
    BY <1>3
  <2>q. QED
    BY <1>2, <1>4, <2>1, <2>2, FoundInOrder
<1>10. [type |-> ops[i].type, id |-> ops[i].id] \in Canons \cup Made(ops, i)
  <2>1. /\ d.target \in Refs /\ Resolvable(d.target)
        /\ d.target.temp => d.target.id = d.ref \/ d.target.id \in Before(d)
    BY <1>2, TargetComesBefore
  <2>2. i \in Nat /\ i <= Len(order) /\ i \in 1..i /\ \A j \in 1..(i - 1) : j \in 1..i
    BY <1>3
  <2>3. d.target.temp => \E j \in 1..i : order[j].ref = d.target.id
    BY <1>6, <1>8, <2>1, <2>2
  <2>q. QED
    BY <1>2, <1>4, <1>7, <2>1, <2>2, <2>3, FoundInOrder
<1>11. ASSUME d.op = "prose.accept" PROVE i = Len(order)
  <2> SUFFICES ASSUME i # Len(order) PROVE FALSE
    OBVIOUS
  <2>1. Len(order) \in DOMAIN order /\ order[Len(order)] \in candidate
    BY <1>3
  <2>2. order[Len(order)].ref # d.ref
    BY <1>2, <1>6, <2>1 DEF WellOrdered
  <2>3. order[Len(order)].ref \in Before(d)
    BY <1>11, <2>1, <2>2 DEF Before
  <2>4. PICK j \in 1..(i - 1) : order[j].ref = order[Len(order)].ref
    BY <1>8, <2>3
  <2>5. j \in DOMAIN order /\ j # Len(order)
    <3>1. PICK n \in Nat : n = Len(order) /\ DOMAIN order = 1..n
      BY <1>3
    <3>2. j \in 1..n /\ j # n
      BY <3>1
    <3>q. QED
      BY <3>1, <3>2
  <2>q. QED
    BY <1>2, <2>1, <2>4, <2>5 DEF WellOrdered
<1>q. QED
  BY <1>5, <1>7, <1>9, <1>10, <1>11
-----------------------------------------------------------------------------
(* Where the order puts a new position in the outline.                     *)

(* Of two siblings, the one named later has more elder ones.               *)
LEMMA ElderIsFewer ==
  ASSUME CandidateTypes, NEW d \in candidate, d.op = "outline.create",
         NEW e \in candidate, e.of = d.of, d.ref < e.ref, d.ref \in Nat, e.ref \in Nat
  PROVE  Elder(d) < Elder(e)
<1>1. PICK D : D = {x \in Siblings(d) : x.ref < d.ref}
  OBVIOUS
<1>2. PICK E : E = {x \in Siblings(e) : x.ref < e.ref}
  OBVIOUS
<1>3. E \subseteq candidate /\ IsFiniteSet(E)
  <2>1. E \subseteq candidate
    BY <1>2 DEF Siblings
  <2>q. QED
    BY <2>1, FS_Subset DEF CandidateTypes
<1>4. \A x \in candidate : x.ref \in Nat
  BY DraftsAreNormalized DEF WellFormed
<1>5. D \subseteq E /\ d \in E /\ d \notin D
  BY <1>1, <1>2, <1>4 DEF Siblings
<1>6. Cardinality(D) < Cardinality(E)
  <2>1. D # E
    BY <1>5
  <2>2. IsFiniteSet(D) /\ Cardinality(D) <= Cardinality(E)
        /\ (Cardinality(D) = Cardinality(E) => D = E)
    BY <1>3, <1>5, FS_Subset
  <2>3. Cardinality(D) \in Nat /\ Cardinality(E) \in Nat
    BY <1>3, <2>2, FS_CardinalityType
  <2>q. QED
    BY <2>1, <2>2, <2>3
<1>q. QED
  BY <1>1, <1>2, <1>6 DEF Elder

LEMMA ElderIsNumber ==
  ASSUME CandidateTypes, NEW d \in candidate
  PROVE  Elder(d) \in Nat
<1>1. PICK D : D = {x \in Siblings(d) : x.ref < d.ref}
  OBVIOUS
<1>2. D \subseteq candidate
  BY <1>1 DEF Siblings
<1>3. IsFiniteSet(D)
  BY <1>2, FS_Subset DEF CandidateTypes
<1>q. QED
  BY <1>1, <1>3, FS_CardinalityType DEF Elder

(* A position below another names that one and nothing else.               *)
LEMMA OneParent ==
  ASSUME CandidateTypes, NEW d \in candidate, ReferencesResolve(d),
         d.op = "outline.create", d.target.type # "roadmap"
  PROVE  \E r \in Refs :
           /\ d.of = {r} /\ ParentOf(d) = r /\ Resolvable(r)
           /\ d.target.type \in DOMAIN ParentType /\ r.type \in ParentType[d.target.type]
           /\ Named(d) \cup Quoted(d) = {r}
<1>1. WellFormed(d)
  BY DraftsAreNormalized
<1>2. PICK r \in d.of : r \in Refs /\ r.type \in ParentType[d.target.type]
  BY <1>1 DEF WellFormed, Named
<1>3. d.of = {r}
  BY <1>1, <1>2 DEF WellFormed
<1>4. Resolvable(r)
  BY <1>2 DEF ReferencesResolve
<1>5. ParentOf(d) = r
  BY <1>3 DEF ParentOf
<1>6. d.proof = {} /\ d.at = <<>>
  BY <1>1 DEF WellFormed
<1>7. Named(d) \cup Quoted(d) = {r}
  BY <1>3, <1>6 DEF Named, Quoted
<1>8. d.target.type \in DOMAIN ParentType
  <2>1. d.target.type \in {"roadmap", "arc", "chapter", "beat"}
    BY <1>1 DEF WellFormed, Creates, CreateOps, TypesMade
  <2>q. QED
    BY <2>1 DEF ParentType
<1>q. QED
  BY <1>2, <1>3, <1>4, <1>5, <1>7, <1>8

(* What is new has an id that no canonical entity has, or is under.        *)
LEMMA NewOrCanonical ==
  ASSUME CandidateTypes, NEW ids \in Allocations, NEW r \in Refs, Resolvable(r)
  PROVE  /\ r.temp => r.id \in DOMAIN ids /\ IdOf(r, ids) = ids[r.id] /\ ids[r.id] \in NewIds
         /\ ~r.temp => /\ IdOf(r, ids) = r.id /\ r.id \notin NewIds
                       /\ Snapshot(r) \in context.canon
                       /\ Snapshot(r).type = r.type /\ Snapshot(r).id = r.id
<1>1. CASE r.temp
  <2>1. PICK p \in candidate : Creates(p) /\ p.ref = r.id
    BY <1>1 DEF Resolvable, Producer
  <2>q. QED
    BY <1>1, <2>1, Allotted DEF IdOf
<1>2. CASE ~r.temp
  <2>1. \E s \in context.canon : s.type = r.type /\ s.id = r.id
    BY <1>2 DEF Resolvable, Canonical
  <2>2. Snapshot(r) \in context.canon /\ Snapshot(r).type = r.type /\ Snapshot(r).id = r.id
    BY <2>1 DEF Snapshot
  <2>3. \A s \in context.canon : s.id \notin NewIds
    BY ContextsAssumption DEF CandidateTypes
  <2>q. QED
    BY <1>2, <2>2, <2>3 DEF IdOf
<1>q. QED
  BY <1>1, <1>2

(* So two references to one thing are the same.                            *)
LEMMA SameThing ==
  ASSUME CandidateTypes, NEW ids \in Allocations,
         NEW r \in Refs, Resolvable(r), NEW q \in Refs, Resolvable(q),
         r.type = q.type, IdOf(r, ids) = IdOf(q, ids)
  PROVE  r = q
<1>1. r.temp = q.temp
  BY NewOrCanonical DEF Refs
<1>2. \A p, o \in DOMAIN ids : ids[p] = ids[o] => p = o
  BY DEF Allocations
<1>3. r.id = q.id
  <2>1. CASE r.temp
    BY <1>1, <1>2, <2>1, NewOrCanonical
  <2>2. CASE ~r.temp
    BY <1>1, <2>2, NewOrCanonical
  <2>q. QED
    BY <2>1, <2>2
<1>q. QED
  BY <1>1, <1>3 DEF Refs
PlacesDiffer(ops) ==
  \A i \in {k \in DOMAIN ops : ops[k].op = "outline.create" /\ ops[k].type # "roadmap"} :
    /\ \A j \in {k \in DOMAIN ops : ops[k].op = "outline.create" /\ ops[k].type # "roadmap"}
                  \ {i} :
         ops[i].needs = ops[j].needs => ops[i].number.ordinal # ops[j].number.ordinal
    /\ \A s \in context.canon, parent \in ops[i].needs :
         s.type = ops[i].type /\ s.parent = parent.id
           => /\ s.ordinal # ops[i].number.ordinal
              /\ s.type \in {"chapter", "beat"} => s.seq # ops[i].number.seq

(* Siblings of one candidate are numbered from one place.                  *)
LEMMA SiblingsAreApart ==
  ASSUME CandidateTypes, CandidateValid, NEW d \in candidate, NEW e \in candidate, d.ref # e.ref,
         d.op = "outline.create", e.op = "outline.create", NEW r \in Refs,
         d.of = {r}, e.of = {r}, ParentOf(d) = r, ParentOf(e) = r, Resolvable(r)
  PROVE  Number(d).ordinal # Number(e).ordinal
<1>1. d.ref \in Nat /\ e.ref \in Nat /\ Elder(d) \in Nat /\ Elder(e) \in Nat
  BY DraftsAreNormalized, ElderIsNumber DEF WellFormed
<1>2. Elder(d) # Elder(e)
  <2>1. CASE d.ref < e.ref
    <3>1. Elder(d) < Elder(e)
      BY <1>1, <2>1, ElderIsFewer
    <3>q. QED
      BY <1>1, <3>1
  <2>2. CASE e.ref < d.ref
    <3>1. Elder(e) < Elder(d)
      BY <1>1, <2>2, ElderIsFewer
    <3>q. QED
      BY <1>1, <3>1
  <2>q. QED
    BY <1>1, <2>1, <2>2
<1>3. CASE r.temp
  BY <1>2, <1>3 DEF Number
<1>4. CASE ~r.temp
  <2>1. \E s \in context.canon : s.type = r.type /\ s.id = r.id
    BY <1>4 DEF Resolvable, Canonical
  <2>2. Snapshot(r) \in context.canon
    BY <2>1 DEF Snapshot
  <2>3. Snapshot(r).nextOrdinal \in Nat
    BY <2>2, ContextsAssumption DEF CandidateTypes
  <2>4. /\ Number(d).ordinal = Snapshot(r).nextOrdinal + Elder(d)
        /\ Number(e).ordinal = Snapshot(r).nextOrdinal + Elder(e)
    BY <1>4 DEF Number
  <2>q. QED
    BY <1>1, <1>2, <2>3, <2>4
<1>q. QED
  BY <1>3, <1>4

(* And the canonical ones are below.                                       *)
LEMMA CanonicalIsBelow ==
  ASSUME CandidateTypes, NEW d \in candidate, d.op = "outline.create",
         NEW ids \in Allocations, NEW r \in Refs, d.of = {r}, ParentOf(d) = r, Resolvable(r),
         d.target.type \in DOMAIN ParentType, r.type \in ParentType[d.target.type],
         NEW s \in context.canon, s.type = d.target.type, s.parent = IdOf(r, ids)
  PROVE  /\ s.ordinal # Number(d).ordinal
         /\ s.type \in {"chapter", "beat"} => s.seq # Number(d).seq
<1>1. s.parent \notin NewIds
  BY ContextsAssumption DEF CandidateTypes
<1>2. ~r.temp /\ s.parent = r.id
  BY <1>1, NewOrCanonical DEF Refs
<1>3. PICK p \in context.canon : p = Snapshot(r) /\ p.type = r.type /\ p.id = r.id
  BY <1>2, NewOrCanonical
<1>4. {s.ordinal, s.seq} \subseteq Nat /\ {p.nextOrdinal, p.nextSeq} \subseteq Nat
  BY ContextsAssumption DEF CandidateTypes
<1>5. s.ordinal < p.nextOrdinal /\ (s.type \in {"chapter", "beat"} => s.seq < p.nextSeq)
  BY <1>2, <1>3, ContextsAssumption DEF CandidateTypes
<1>6. Number(d).ordinal = p.nextOrdinal + Elder(d) /\ Number(d).seq = p.nextSeq + Elder(d)
  BY <1>2, <1>3 DEF Number
<1>7. Elder(d) \in Nat
  BY ElderIsNumber
<1>q. QED
  BY <1>4, <1>5, <1>6, <1>7

LEMMA ResolvedIsDistinct ==
  ASSUME CandidateTypes, NEW ids \in Allocations, Resolved(ids), NEW ops,
         ops = [i \in DOMAIN Sorted(ids) |-> Operation(Sorted(ids)[i], ids)]
  PROVE  PlacesDiffer(ops)
<1>1. PICK order : order = Sorted(ids)
  OBVIOUS
<1>2. CandidateValid /\ WellOrdered(order) /\ \A d \in candidate : ReferencesResolve(d)
  BY <1>1, SortedInOrder DEF Resolved
<1>3. ops = [i \in DOMAIN order |-> Operation(order[i], ids)] /\ DOMAIN ops = DOMAIN order
      /\ order \in Seq(candidate)
  BY <1>1, <1>2 DEF WellOrdered
<1>4. ASSUME NEW i \in DOMAIN order, ops[i].op = "outline.create", ops[i].type # "roadmap"
      PROVE  \E d \in candidate, r \in Refs :
               /\ order[i] = d /\ d.op = "outline.create" /\ ops[i].type = d.target.type
               /\ d.of = {r} /\ ParentOf(d) = r /\ Resolvable(r)
               /\ d.target.type \in DOMAIN ParentType /\ r.type \in ParentType[d.target.type]
               /\ ops[i].needs = {[type |-> r.type, id |-> IdOf(r, ids)]}
               /\ ops[i].number = Number(d)
  <2>1. PICK d \in candidate : d = order[i]
    BY <1>3
  <2>2. /\ ops[i].op = d.op /\ ops[i].type = d.target.type
        /\ ops[i].needs = {[type |-> r.type, id |-> IdOf(r, ids)] :
                             r \in Named(d) \cup Quoted(d)}
        /\ d.op = "outline.create" => ops[i].number = Number(d)
    <3>1. ops[i] = Operation(d, ids)
      BY <1>3, <2>1
    <3>2. /\ Operation(d, ids).op = d.op /\ Operation(d, ids).type = d.target.type
          /\ d.op = "outline.create" => Operation(d, ids).number = Number(d)
      BY DEF Operation
    <3>3. Operation(d, ids).needs = {[type |-> r.type, id |-> IdOf(r, ids)] :
                                      r \in Named(d) \cup Quoted(d)}
      BY DEF Operation, Named
    <3>q. QED
      BY <3>1, <3>2, <3>3
  <2>3. PICK r \in Refs :
           /\ d.of = {r} /\ ParentOf(d) = r /\ Resolvable(r)
           /\ d.target.type \in DOMAIN ParentType /\ r.type \in ParentType[d.target.type]
           /\ Named(d) \cup Quoted(d) = {r}
    BY <1>2, <1>4, <2>2, OneParent
  <2>4. ops[i].needs = {[type |-> r.type, id |-> IdOf(r, ids)]}
    BY <2>2, <2>3
  <2>q. QED
    BY <1>4, <2>1, <2>2, <2>3, <2>4
<1>5. ASSUME NEW i \in DOMAIN order, ops[i].op = "outline.create", ops[i].type # "roadmap",
             NEW j \in DOMAIN order, ops[j].op = "outline.create", ops[j].type # "roadmap",
             i # j, ops[i].needs = ops[j].needs
      PROVE  ops[i].number.ordinal # ops[j].number.ordinal
  <2>1. PICK d \in candidate, r \in Refs :
           /\ order[i] = d /\ d.op = "outline.create" /\ d.of = {r} /\ ParentOf(d) = r
           /\ Resolvable(r) /\ ops[i].needs = {[type |-> r.type, id |-> IdOf(r, ids)]}
           /\ ops[i].number = Number(d)
    BY <1>4, <1>5
  <2>2. PICK e \in candidate, q \in Refs :
           /\ order[j] = e /\ e.op = "outline.create" /\ e.of = {q} /\ ParentOf(e) = q
           /\ Resolvable(q) /\ ops[j].needs = {[type |-> q.type, id |-> IdOf(q, ids)]}
           /\ ops[j].number = Number(e)
    BY <1>4, <1>5
  <2>3. [type |-> r.type, id |-> IdOf(r, ids)] = [type |-> q.type, id |-> IdOf(q, ids)]
    BY <1>5, <2>1, <2>2
  <2>4. r.type = q.type /\ IdOf(r, ids) = IdOf(q, ids)
    BY <2>3
  <2>5. r = q
    BY <2>1, <2>2, <2>4, SameThing
  <2>6. d.ref # e.ref
    BY <1>2, <1>5, <2>1, <2>2 DEF WellOrdered
  <2>q. QED
    BY <1>2, <2>1, <2>2, <2>5, <2>6, SiblingsAreApart
<1>6. ASSUME NEW i \in DOMAIN order, ops[i].op = "outline.create", ops[i].type # "roadmap",
             NEW s \in context.canon, NEW parent \in ops[i].needs,
             s.type = ops[i].type, s.parent = parent.id
      PROVE  /\ s.ordinal # ops[i].number.ordinal
             /\ s.type \in {"chapter", "beat"} => s.seq # ops[i].number.seq
  <2>1. PICK d \in candidate, r \in Refs :
           /\ order[i] = d /\ d.op = "outline.create" /\ ops[i].type = d.target.type
           /\ d.of = {r} /\ ParentOf(d) = r /\ Resolvable(r)
           /\ d.target.type \in DOMAIN ParentType /\ r.type \in ParentType[d.target.type]
           /\ ops[i].needs = {[type |-> r.type, id |-> IdOf(r, ids)]}
           /\ ops[i].number = Number(d)
    BY <1>4, <1>6
  <2>2. s.type = d.target.type /\ s.parent = IdOf(r, ids)
    BY <1>6, <2>1
  <2>3. /\ s.ordinal # Number(d).ordinal
        /\ s.type \in {"chapter", "beat"} => s.seq # Number(d).seq
    BY <2>1, <2>2, CanonicalIsBelow
  <2>q. QED
    BY <2>1, <2>3
<1>q. QED
  BY <1>3, <1>5, <1>6 DEF PlacesDiffer
-----------------------------------------------------------------------------
(* The specification.                                                      *)

\* What every state keeps: a finite candidate of drafts of its contract,
\* and an outcome that applies.
OperationsInv ==
  CandidateTypes /\ Applies(outcome.operations) /\ PlacesDiffer(outcome.operations)

LEMMA NothingApplies ==
  ASSUME NEW ops, ops = <<>>
  PROVE  Applies(ops) /\ PlacesDiffer(ops)
BY DEF Applies, PlacesDiffer

LEMMA OutcomeApplies ==
  ASSUME CandidateTypes, NEW ids \in Allocations
  PROVE  Applies(Outcome(ids).operations) /\ PlacesDiffer(Outcome(ids).operations)
<1>1. PICK ops : ops = [i \in DOMAIN Sorted(ids) |-> Operation(Sorted(ids)[i], ids)]
  OBVIOUS
<1>2. Outcome(ids).operations = <<>> \/ (Resolved(ids) /\ Outcome(ids).operations = ops)
  BY <1>1 DEF Outcome, Unresolvable, Resolved
<1>q. QED
  BY <1>1, <1>2, NothingApplies, ResolvedApplies, ResolvedIsDistinct

LEMMA OperationsInitially == OperationsInit => OperationsInv
<1> SUFFICES ASSUME OperationsInit PROVE OperationsInv
  OBVIOUS
<1>1. CandidateTypes
  BY FS_EmptySet DEF OperationsInit, CandidateTypes
<1>2. outcome.operations = <<>>
  BY DEF OperationsInit, Unresolved
<1>q. QED
  BY <1>1, <1>2, NothingApplies DEF OperationsInv

LEMMA OperationsStep == OperationsInv /\ [OperationsNext]_operationVars => OperationsInv'
<1> SUFFICES ASSUME OperationsInv, [OperationsNext]_operationVars PROVE OperationsInv'
  OBVIOUS
<1>1. context' = context
  BY DEF OperationsNext, Suggests, Resolves, operationVars
<1>2. ASSUME NEW ops, Applies(ops), PlacesDiffer(ops), outcome'.operations = ops
      PROVE  (Applies(outcome.operations) /\ PlacesDiffer(outcome.operations))'
  BY <1>1, <1>2 DEF Applies, PlacesDiffer, Made, Canons
<1>3. CASE Suggests
  <2>1. PICK d \in Drafts[context.contract] : candidate' = candidate \cup {d}
    BY <1>3 DEF Suggests
  <2>2. IsFiniteSet(candidate \cup {d})
    BY FS_AddElement DEF OperationsInv, CandidateTypes
  <2>3. CandidateTypes'
    BY <1>1, <2>1, <2>2 DEF OperationsInv, CandidateTypes
  <2>4. outcome' = outcome
    BY <1>3 DEF Suggests
  <2>q. QED
    BY <1>2, <2>3, <2>4 DEF OperationsInv
<1>4. CASE Resolves
  <2>1. candidate' = candidate
    BY <1>4 DEF Resolves
  <2>2. CandidateTypes'
    BY <1>1, <2>1 DEF OperationsInv, CandidateTypes
  <2>3. CASE \E ids \in Allocations : outcome' = Outcome(ids)
    <3>1. PICK ids \in Allocations : outcome' = Outcome(ids)
      BY <2>3
    <3>2. Applies(Outcome(ids).operations) /\ PlacesDiffer(Outcome(ids).operations)
      BY OutcomeApplies DEF OperationsInv
    <3>q. QED
      BY <1>2, <2>2, <3>1, <3>2 DEF OperationsInv
  <2>4. CASE outcome' = Unresolvable
    <3>1. outcome'.operations = <<>>
      BY <2>4 DEF Unresolvable
    <3>q. QED
      BY <1>2, <2>2, <3>1, NothingApplies DEF OperationsInv
  <2>q. QED
    BY <1>4, <2>3, <2>4 DEF Resolves
<1>5. CASE UNCHANGED operationVars
  <2>1. candidate' = candidate /\ outcome' = outcome
    BY <1>5 DEF operationVars
  <2>2. CandidateTypes'
    BY <1>1, <2>1 DEF OperationsInv, CandidateTypes
  <2>q. QED
    BY <1>2, <2>1, <2>2 DEF OperationsInv
<1>q. QED
  BY <1>3, <1>4, <1>5 DEF OperationsNext

\* In every reachable state the candidate is a finite set of drafts of its
\* contract, and the operations it was resolved to, if it was, apply one
\* after the other and give every position a place of its own (resolver.ts).
THEOREM OperationsInvariant == OperationsSpec => []OperationsInv
BY OperationsInitially, OperationsStep, PTL DEF OperationsSpec

\* Applied in the order resolver.ts gives them, operations find all that
\* they refer to, quote, act on or are placed in, and an acceptance of
\* prose comes last, for every candidate, context and allocation of ids.
THEOREM ResolvedOperationsApply == OperationsSpec => []AppliesInOrder
<1>1. OperationsInv => AppliesInOrder
  BY DEF OperationsInv, AppliesInOrder, Applies, Made, Canons
<1>q. QED
  BY <1>1, OperationsInvariant, PTL

\* No two children of a parent, canonical or suggested, ever share an
\* ordinal, nor does a suggested chapter or beat take a canonical one's
\* sequence (precomputeOutlineCreates).
THEOREM PlacesStayDistinct == OperationsSpec => []PlacesAreDistinct
<1>1. OperationsInv => PlacesAreDistinct
  BY DEF OperationsInv, PlacesAreDistinct, PlacesDiffer
<1>q. QED
  BY <1>1, OperationsInvariant, PTL

-----------------------------------------------------------------------------
(* Packets.                                                                *)

(* What a shape may have as keys.                                          *)
MayHave(shape) == Keys[shape] \cup OptionalKeys(shape)


LEMMA KeysOfShapes ==
  /\ Keys["Contract"] = WriterKeys.Contract /\ Keys["Directive"] = WriterKeys.Directive
  /\ Keys["SafeFact"] = WriterKeys.SafeFact /\ Keys["Guidance"] = WriterKeys.Guidance
  /\ Keys["Excerpt"] = WriterKeys.Excerpt /\ Keys["Prose"] = ValidatorKeys.Prose
  /\ Keys["Repair"] = RepairKeys.Repair /\ Keys["Message"] = ExtractionKeys.Message
  /\ Keys["PublicProse"] = ExtractionKeys.PublicProse
<1>1. /\ DOMAIN PlannerKeys = {"Foundation", "Character", "PrivateFact", "Reveal", "OutlineItem"}
      /\ DOMAIN WriterKeys = {"Contract", "Directive", "SafeFact", "Guidance", "Excerpt"}
      /\ DOMAIN ValidatorKeys = {"Prose", "Demands", "Guard", "Rule"}
      /\ DOMAIN RepairKeys = {"Repair"}
      /\ DOMAIN ExtractionKeys = {"Message", "PublicProse", "Identity"}
  BY DEF PlannerKeys, WriterKeys, ValidatorKeys, RepairKeys, ExtractionKeys
<1>2. ASSUME NEW shape \in DOMAIN WriterKeys PROVE Keys[shape] = WriterKeys[shape]
  BY <1>1 DEF Keys
<1>3. ASSUME NEW shape \in DOMAIN ExtractionKeys PROVE Keys[shape] = ExtractionKeys[shape]
  BY <1>1 DEF Keys
<1>4. Keys["Prose"] = ValidatorKeys["Prose"] /\ Keys["Repair"] = RepairKeys["Repair"]
  BY <1>1 DEF Keys
<1>q. QED
  BY <1>1, <1>2, <1>3, <1>4

(* Nothing that a packet of these may have is private to the author.       *)
LEMMA SafeShapes ==
  ASSUME NEW shape \in {"Contract", "Directive", "SafeFact", "Guidance", "Excerpt", "Prose",
                        "Repair", "Message", "PublicProse"}
  PROVE  MayHave(shape) \cap Private = {}
<1>1. OptionalKeys(shape) \subseteq {"location"}
  BY DEF OptionalKeys
<1>2. "location" \notin Private
  BY DEF Private
<1>3. Keys[shape] \cap Private = {}
  BY KeysOfShapes DEF Private, WriterKeys, ValidatorKeys, RepairKeys, ExtractionKeys
<1>q. QED
  BY <1>1, <1>2, <1>3 DEF MayHave

LEMMA SafePackings ==
  ASSUME NEW packing \in Packings, ClassOfPacking(packing) # "author_private",
         NEW f \in DOMAIN Fields[packing]
  PROVE  MayHave(Fields[packing][f]) \cap Private = {}
<1>1. packing \in {"writer", "repair", "intake_signals", "prose_public_structure"}
  BY DEF Packings, Fields, ClassOfPacking
<1>2. Fields[packing][f] \in {"Contract", "Directive", "SafeFact", "Guidance", "Excerpt",
                              "Prose", "Repair", "Message", "PublicProse"}
  <2>1. CASE packing = "writer"
    BY <2>1 DEF Fields
  <2>2. CASE packing = "repair"
    BY <2>2 DEF Fields
  <2>3. CASE packing = "intake_signals"
    BY <2>3 DEF Fields
  <2>4. CASE packing = "prose_public_structure"
    BY <2>4 DEF Fields
  <2>q. QED
    BY <1>1, <2>1, <2>2, <2>3, <2>4
<1>q. QED
  BY <1>2, SafeShapes

(* So a builder lets secrets into a packet of the author's class only.     *)
SecretsAreClassed(p) == p.secrets # {} => Restricted(p.class)

LEMMA AcceptedIsClassed ==
  ASSUME NEW raw, raw.packing \in Packings, Accepts(raw)
  PROVE  SecretsAreClassed(Built(raw))
<1> SUFFICES ASSUME raw.class # "author_private"
             PROVE  Built(raw).secrets = {}
  BY DEF SecretsAreClassed, Restricted, Built
<1>1. /\ ClassOfPacking(raw.packing) # "author_private"
      /\ DOMAIN raw.fields = DOMAIN Fields[raw.packing]
  BY DEF Accepts
<1>2. ASSUME NEW f \in DOMAIN raw.fields, NEW item \in Range(raw.fields[f])
      PROVE  item.keys \cap Private = {}
  <2>1. ExactObject(item, Fields[raw.packing][f])
    BY <1>1 DEF Accepts
  <2>2. item.keys \subseteq MayHave(Fields[raw.packing][f])
    BY <2>1 DEF ExactObject, MayHave
  <2>q. QED
    BY <1>1, <2>2, SafePackings
<1>3. Built(raw).secrets =
        Private \cap
          UNION {UNION {item.keys : item \in Range(raw.fields[f])} : f \in DOMAIN raw.fields}
  BY DEF Built
<1>q. QED
  BY <1>2, <1>3

LEMMA AcceptableIsClassed == \A p \in Acceptable : SecretsAreClassed(p)
<1> SUFFICES ASSUME NEW p \in Acceptable PROVE SecretsAreClassed(p)
  OBVIOUS
<1>1. PICK raw \in RawPackets : Accepts(raw) /\ p = Built(raw)
  BY DEF Acceptable
<1>2. raw.packing \in Packings
  BY DEF RawPackets, Raw
<1>q. QED
  BY <1>1, <1>2, AcceptedIsClassed

-----------------------------------------------------------------------------
\* What is in the bundle is classed, and what was sent is where it may be.
PacketsInv ==
  /\ \A p \in bundle : SecretsAreClassed(p)
  /\ SecretsStayTrusted

LEMMA PacketsInitially == PacketsInit => PacketsInv
BY DEF PacketsInit, PacketsInv, SecretsStayTrusted

LEMMA PacketsStep == PacketsInv /\ [PacketsNext]_packetVars => PacketsInv'
<1> SUFFICES ASSUME PacketsInv, [PacketsNext]_packetVars PROVE PacketsInv'
  OBVIOUS
<1>1. ASSUME NEW p \in Acceptable, BuildPacket(p) PROVE PacketsInv'
  BY <1>1, AcceptableIsClassed DEF BuildPacket, Pack, PacketsInv, SecretsStayTrusted
<1>2. ASSUME NEW provider \in Providers, NEW of \in Bases, Freeze(provider, of) PROVE PacketsInv'
  BY <1>2 DEF Freeze, PacketsInv, SecretsStayTrusted
<1>3. ASSUME NEW providers \in SUBSET Providers, Boot(providers) PROVE PacketsInv'
  BY <1>3 DEF Boot, PacketsInv, SecretsStayTrusted
<1>4. CASE Process
  BY <1>4 DEF Process, PacketsInv, SecretsStayTrusted
<1>5. CASE CallStage
  <2>1. PICK s : s = Templates[plan.workflow][plan.stage]
    OBVIOUS
  <2>2. bundle' = bundle
    BY <1>5 DEF CallStage
  <2>3. CASE sent' = sent
    BY <2>2, <2>3 DEF PacketsInv, SecretsStayTrusted
  <2>4. CASE /\ PromptBound(s) /\ Permitted(plan.provider, s.class)
             /\ sent' = sent \cup {[to |-> plan.provider, for |-> plan.of, packet |-> p] :
                                     p \in PacketFor(s)}
    <3>1. ASSUME NEW p \in PacketFor(s)
          PROVE  (p.secrets # {} => plan.provider \in Trusted) /\ p.of = plan.of
      <4>1. p \in bundle /\ p.class = s.class /\ p.of = plan.of
        BY <2>4 DEF PromptBound, PacketFor
      <4>2. SecretsAreClassed(p)
        BY <4>1 DEF PacketsInv
      <4>q. QED
        BY <2>4, <4>1, <4>2 DEF SecretsAreClassed, Permitted
    <3>q. QED
      BY <2>2, <2>4, <3>1 DEF PacketsInv, SecretsStayTrusted
  <2>q. QED
    BY <1>5, <2>1, <2>3, <2>4 DEF CallStage
<1>6. CASE SkipStage
  BY <1>6 DEF SkipStage, PacketsInv, SecretsStayTrusted
<1>7. ASSUME NEW of \in Bases, AddRecovery(of) PROVE PacketsInv'
  <2>1. SecretsAreClassed(RecoveryPacket(of))
    BY DEF SecretsAreClassed, RecoveryPacket
  <2>q. QED
    BY <1>7, <2>1 DEF AddRecovery, Pack, PacketsInv, SecretsStayTrusted
<1>8. CASE UNCHANGED packetVars
  BY <1>8 DEF packetVars, PacketsInv, SecretsStayTrusted
<1>q. QED
  BY <1>1, <1>2, <1>3, <1>4, <1>5, <1>6, <1>7, <1>8 DEF PacketsNext

\* In every reachable state a packet with something private to the author is
\* of a class restricted to trusted providers, whether a builder accepted it
\* (packet-builders.ts) or it is a recovery envelope (prod-packet-common.ts),
\* and what was sent went to one (m4-job-processor.ts, model-policy.ts).
THEOREM PacketsInvariant == PacketsSpec => []PacketsInv
BY PacketsInitially, PacketsStep, PTL DEF PacketsSpec

\* Whatever raw material callers give to builders, whichever providers plans
\* name and workers have: secrets reach trusted providers only, no prompt is of
\* another story or manifest than its plan.
THEOREM SecretsStayWithTrusted == PacketsSpec => []SecretsStayTrusted
<1>1. PacketsInv => SecretsStayTrusted
  BY DEF PacketsInv
<1>q. QED
  BY <1>1, PacketsInvariant, PTL

-----------------------------------------------------------------------------
(* Narrative.                                                              *)

Entry == [revision : Nat, hash : Nat, deleted : BOOLEAN]

\* What is touched gets further from what it was, and never back.
Later(old, new) ==
  /\ old.revision <= new.revision /\ old.hash <= new.hash /\ (old.deleted => new.deleted)
  /\ old.revision < new.revision \/ old.hash < new.hash \/ (new.deleted /\ ~old.deleted)

\* A manifest has what it lists as it is, but for what was touched since.
DependencyInv ==
  /\ \A d \in DOMAIN canon : canon[d] \in Entry
  /\ \A d \in DOMAIN manifest :
       /\ d \in DOMAIN canon /\ manifest[d] \in Entry
       /\ d \notin touched => manifest[d] = canon[d]
       /\ d \in touched => Later(manifest[d], canon[d])
  /\ touched \subseteq DOMAIN canon

LEMMA SameEntry ==
  ASSUME NEW e \in Entry, NEW f \in Entry
  PROVE  EntryTuple(e) = EntryTuple(f) <=>
           e.revision = f.revision /\ e.hash = f.hash /\ e.deleted = f.deleted
BY DEF EntryTuple

(* What has changed since is what was touched, and what is new.            *)
LEMMA ChangedIsTouched ==
  DependencyInv => Changed(manifest, canon) = DOMAIN canon \ (DOMAIN manifest \ touched)
<1> SUFFICES ASSUME DependencyInv
             PROVE  Changed(manifest, canon) = DOMAIN canon \ (DOMAIN manifest \ touched)
  OBVIOUS
<1>1. DOMAIN manifest \subseteq DOMAIN canon
  BY DEF DependencyInv
<1>2. ASSUME NEW d \in DOMAIN manifest
      PROVE  EntryTuple(manifest[d]) = EntryTuple(canon[d]) <=> d \notin touched
  <2>1. PICK e \in Entry, f \in Entry : e = manifest[d] /\ f = canon[d]
    BY DEF DependencyInv
  <2>2. CASE d \notin touched
    BY <2>2 DEF DependencyInv
  <2>3. CASE d \in touched
    <3>1. Later(e, f)
      BY <2>1, <2>3 DEF DependencyInv
    <3>2. ~(e.revision = f.revision /\ e.hash = f.hash /\ e.deleted = f.deleted)
      BY <3>1 DEF Later, Entry
    <3>q. QED
      BY <2>1, <2>3, <3>2, SameEntry
  <2>q. QED
    BY <2>2, <2>3
<1>q. QED
  BY <1>1, <1>2 DEF Changed

(* A touch makes an entry a later one.                                     *)
LEMMA TouchIsLater ==
  ASSUME NEW d, DependencyInv, NEW entry \in Entry, Touch(d, entry),
         d \in DOMAIN canon => Later(canon[d], entry)
  PROVE  DependencyInv'
<1>1. /\ canon' = [x \in DOMAIN canon \cup {d} |-> IF x = d THEN entry ELSE canon[x]]
      /\ touched' = touched \cup {d} /\ manifest' = manifest
  BY DEF Touch
<1>2. DOMAIN canon' = DOMAIN canon \cup {d} /\ canon'[d] = entry
      /\ \A x \in DOMAIN canon : x # d => canon'[x] = canon[x]
  BY <1>1
<1>3. \A x \in DOMAIN canon' : canon'[x] \in Entry
  BY <1>2 DEF DependencyInv
<1>4. ASSUME NEW x \in DOMAIN manifest
      PROVE  /\ x \in DOMAIN canon' /\ manifest[x] \in Entry
             /\ x \notin touched' => manifest[x] = canon'[x]
             /\ x \in touched' => Later(manifest[x], canon'[x])
  <2>1. x \in DOMAIN canon /\ manifest[x] \in Entry
    BY DEF DependencyInv
  <2>2. CASE x # d
    BY <1>1, <1>2, <2>1, <2>2 DEF DependencyInv
  <2>3. CASE x = d
    <3>1. PICK e \in Entry, f \in Entry : e = manifest[x] /\ f = canon[x]
      BY <2>1 DEF DependencyInv
    <3>2. e = f \/ Later(e, f)
      BY <3>1 DEF DependencyInv
    <3>3. Later(f, entry)
      BY <2>1, <2>3, <3>1
    <3>4. Later(e, entry)
      BY <3>2, <3>3 DEF Later, Entry
    <3>q. QED
      BY <1>1, <1>2, <2>1, <2>3, <3>1, <3>4
  <2>q. QED
    BY <2>2, <2>3
<1>5. touched' \subseteq DOMAIN canon'
  BY <1>1, <1>2 DEF DependencyInv
<1>q. QED
  BY <1>1, <1>3, <1>4, <1>5 DEF DependencyInv

LEMMA ChangeKeepsDependencies ==
  ASSUME NEW d, DependencyInv, DependencyChanges(d)
  PROVE  DependencyInv'
<1>1. CASE d \notin DOMAIN canon /\ Touch(d, [revision |-> 0, hash |-> 0, deleted |-> FALSE])
  <2>1. [revision |-> 0, hash |-> 0, deleted |-> FALSE] \in Entry
    BY DEF Entry
  <2>q. QED
    BY <1>1, <2>1, TouchIsLater
<1>2. ASSUME d \in DOMAIN canon, ~canon[d].deleted, NEW entry,
             \/ entry = [canon[d] EXCEPT !.revision = @ + 1]
             \/ entry = [canon[d] EXCEPT !.hash = @ + 1]
             \/ entry = [canon[d] EXCEPT !.deleted = TRUE],
             Touch(d, entry)
      PROVE  DependencyInv'
  <2>1. PICK e \in Entry : e = canon[d]
    BY <1>2 DEF DependencyInv
  <2>2. CASE entry = [canon[d] EXCEPT !.revision = @ + 1]
    <3>1. entry = [e EXCEPT !.revision = e.revision + 1]
      BY <2>1, <2>2
    <3>2. entry \in Entry /\ Later(e, entry)
      BY <3>1 DEF Entry, Later
    <3>q. QED
      BY <1>2, <2>1, <3>2, TouchIsLater
  <2>3. CASE entry = [canon[d] EXCEPT !.hash = @ + 1]
    <3>1. entry = [e EXCEPT !.hash = e.hash + 1]
      BY <2>1, <2>3
    <3>2. entry \in Entry /\ Later(e, entry)
      BY <3>1 DEF Entry, Later
    <3>q. QED
      BY <1>2, <2>1, <3>2, TouchIsLater
  <2>4. CASE entry = [canon[d] EXCEPT !.deleted = TRUE]
    <3>1. entry = [e EXCEPT !.deleted = TRUE] /\ e.deleted = FALSE
      <4>1. e.deleted \in BOOLEAN /\ ~e.deleted
        BY <1>2, <2>1 DEF Entry
      <4>q. QED
        BY <2>1, <2>4, <4>1
    <3>2. entry \in Entry /\ entry.deleted = TRUE
          /\ entry.revision = e.revision /\ entry.hash = e.hash
      BY <3>1 DEF Entry
    <3>3. e.revision <= entry.revision /\ e.hash <= entry.hash
      BY <3>2 DEF Entry
    <3>4. Later(e, entry)
      BY <3>1, <3>2, <3>3 DEF Later
    <3>q. QED
      BY <1>2, <2>1, <3>2, <3>4, TouchIsLater
  <2>q. QED
    BY <1>2, <2>2, <2>3, <2>4
<1>q. QED
  BY <1>1, <1>2 DEF DependencyChanges

LEMMA BuildKeepsDependencies ==
  ASSUME NEW ds, DependencyInv, BuildDependencyManifest(ds)
  PROVE  DependencyInv'
<1>1. /\ manifest' = [d \in ds \cap DOMAIN canon |-> canon[d]]
      /\ touched' = {} /\ canon' = canon
  BY DEF BuildDependencyManifest, Restrict
<1>q. QED
  BY <1>1 DEF DependencyInv

LEMMA NarrativeInitially == NarrativeInit => DependencyInv
BY DEF NarrativeInit, DependencyInv

LEMMA NarrativeStep == DependencyInv /\ [NarrativeNext]_narrativeVars => DependencyInv'
<1> SUFFICES ASSUME DependencyInv, [NarrativeNext]_narrativeVars PROVE DependencyInv'
  OBVIOUS
<1>1. CASE BeliefsNext \/ DisclosuresNext \/ PlansNext
  <2>1. canon' = canon /\ manifest' = manifest /\ touched' = touched
    <3>1. BeliefsNext => UNCHANGED <<canon, manifest, touched>>
      BY DEF BeliefsNext, BelieveEvent
    <3>2. DisclosuresNext => UNCHANGED <<canon, manifest, touched>>
      BY DEF DisclosuresNext, DiscloseEvent
    <3>3. PlansNext => UNCHANGED <<canon, manifest, touched>>
      BY DEF PlansNext, FoundationUpdate, SecretUpdate
    <3>q. QED
      BY <1>1, <3>1, <3>2, <3>3
  <2>q. QED
    BY <2>1 DEF DependencyInv
<1>2. CASE DependenciesNext
  BY <1>2, ChangeKeepsDependencies, BuildKeepsDependencies DEF DependenciesNext
<1>3. CASE UNCHANGED narrativeVars
  BY <1>3 DEF narrativeVars, DependencyInv
<1>q. QED
  BY <1>1, <1>2, <1>3 DEF NarrativeNext

\* In every reachable state a manifest has what it lists as it is, but for
\* what was touched since, which is a later entry (manifest.ts).
THEOREM DependencyInvariant == NarrativeSpec => []DependencyInv
BY NarrativeInitially, NarrativeStep, PTL DEF NarrativeSpec

LEMMA StatusIsKnown == DependencyInv => StatusKnowsChanges
<1> SUFFICES ASSUME DependencyInv PROVE StatusKnowsChanges
  OBVIOUS
<1> SUFFICES ASSUME NEW target \in Dependencies, NEW relevant \in SUBSET Dependencies
    PROVE LET told == Applicability(manifest, canon, target)
              status == DependencyStatus(manifest, canon, told, relevant)
              same == target \in DOMAIN manifest /\ ~canon[target].deleted
                        /\ canon[target].revision = manifest[target].revision
              rest == DOMAIN canon \ (DOMAIN manifest \ touched)
          IN status # "refused" =>
               /\ status = "stale" <=> ~same
               /\ status = "current" => relevant \cap rest = {}
               /\ same /\ relevant \cap rest = {} => status = "current"
  BY DEF StatusKnowsChanges
<1> DEFINE same == target \in DOMAIN manifest /\ ~canon[target].deleted
                     /\ canon[target].revision = manifest[target].revision
           rest == DOMAIN canon \ (DOMAIN manifest \ touched)
<1>a. PICK told : told = Applicability(manifest, canon, target)
  OBVIOUS
<1>b. PICK status : status = DependencyStatus(manifest, canon, told, relevant)
  OBVIOUS
<1> SUFFICES ASSUME status # "refused"
             PROVE  /\ status = "stale" <=> ~same
                    /\ status = "current" => relevant \cap rest = {}
                    /\ same /\ relevant \cap rest = {} => status = "current"
  BY <1>a, <1>b
<1>1. Changed(manifest, canon) = rest
  BY ChangedIsTouched
<1>2. told.exists /\ ~told.deleted /\ told.same /\ told.matches <=> same
  <2>1. target \in DOMAIN manifest => target \in DOMAIN canon
    BY DEF DependencyInv
  <2>q. QED
    BY <1>a, <2>1 DEF Applicability
<1>3. status \in {"stale", "needs_revalidation", "current"}
      /\ (status = "stale" <=> ~(told.exists /\ ~told.deleted /\ told.same /\ told.matches))
      /\ (status = "current" => Changed(manifest, canon) \cap relevant = {})
      /\ (status # "stale" /\ Changed(manifest, canon) \cap relevant = {} => status = "current")
  BY <1>b DEF DependencyStatus
<1>q. QED
  BY <1>1, <1>2, <1>3

\* However dependencies come, change and go, and whatever a proposal was
\* written on: stale-policy.ts calls it current only if nothing relevant and
\* not its target was touched since, and stale exactly if its target was
\* deleted, revised or never listed.
THEOREM StatusAlwaysKnows == NarrativeSpec => []StatusKnowsChanges
BY DependencyInvariant, StatusIsKnown, PTL

-----------------------------------------------------------------------------
(* Judging: the tokens of a text.                                          *)

AreWords(words, text, N) ==
  words = [n \in 0..N |->
             IF n = 0 THEN <<>>
             ELSE IF text[n] = Stop THEN words[n - 1] ELSE Append(words[n - 1], n)]

LEMMA WordsExist ==
  ASSUME NEW text, NEW N \in Nat
  PROVE  \E words : AreWords(words, text, N)
<1> DEFINE After(ws, n) == IF text[n] = Stop THEN ws ELSE Append(ws, n)
           Body(g, n) == IF n = 0 THEN <<>> ELSE After(g[n - 1], n)
           Good(n) == \E g : g = [m \in 0..n |-> Body(g, m)]
           Bad == {n \in Nat : ~Good(n)}
<1> HIDE DEF After
<1>1. Good(0)
  <2>1. PICK g : g = [m \in 0..0 |-> <<>>]
    OBVIOUS
  <2>2. g = [m \in 0..0 |-> Body(g, m)]
    BY <2>1
  <2>q. QED
    BY <2>2
<1>2. ASSUME NEW n \in Nat, Good(n) PROVE Good(n + 1)
  <2>1. PICK g : g = [m \in 0..n |-> Body(g, m)]
    BY <1>2
  <2>2. PICK h : h = [m \in 0..(n + 1) |-> Body(g, m)]
    OBVIOUS
  <2>3. \A m \in 0..n : h[m] = g[m]
    BY <2>1, <2>2
  <2>4. \A m \in 0..(n + 1) : m # 0 => m - 1 \in 0..n
    OBVIOUS
  <2>5. \A m \in 0..(n + 1) : Body(h, m) = Body(g, m)
    BY <2>3, <2>4
  <2>6. h = [m \in 0..(n + 1) |-> Body(h, m)]
    BY <2>2, <2>5
  <2>q. QED
    BY <2>6
<1>3. Bad = {}
  <2> SUFFICES ASSUME Bad # {} PROVE FALSE
    OBVIOUS
  <2> HIDE DEF Good
  <2>1. PICK n \in Bad : \A m \in Bad : n <= m
    BY LeastNatural
  <2>2. n # 0 /\ n - 1 \in Nat
    BY <1>1, <2>1
  <2>3. Good(n - 1)
    BY <2>1, <2>2
  <2>4. Good((n - 1) + 1)
    BY <1>2, <2>2, <2>3
  <2>5. (n - 1) + 1 = n
    BY <2>2
  <2>6. Good(n)
    BY <2>4, <2>5
  <2> QED BY <2>1, <2>6
<1>4. Good(N)
  BY <1>3
<1>q. QED
  BY <1>4 DEF After, AreWords

(* They are a sequence of places.                                          *)
LEMMA TokensAreASequence ==
  ASSUME NEW text, Len(text) \in Nat
  PROVE  Tokens(text) \in Seq(Nat)
<1> DEFINE words == CHOOSE w : AreWords(w, text, Len(text))
           Bad == {n \in 0..Len(text) : words[n] \notin Seq(Nat)}
<1>1. \E w : AreWords(w, text, Len(text))
  BY WordsExist
<1>2. AreWords(words, text, Len(text))
  BY <1>1
<1>3. Tokens(text) = words[Len(text)]
  BY DEF Tokens, AreWords
<1> HIDE DEF words
<1>4. words[0] \in Seq(Nat)
  BY <1>2 DEF AreWords
<1>5. ASSUME NEW n \in 1..Len(text), words[n - 1] \in Seq(Nat) PROVE words[n] \in Seq(Nat)
  <2>1. n \in 0..Len(text) /\ n # 0 /\ n \in Nat
    OBVIOUS
  <2>2. PICK w \in Seq(Nat) : w = words[n - 1]
    BY <1>5
  <2>3. words[n] = IF text[n] = Stop THEN w ELSE Append(w, n)
    BY <1>2, <2>1, <2>2 DEF AreWords
  <2>4. Append(w, n) \in Seq(Nat)
    BY <2>1
  <2>q. QED
    BY <2>3, <2>4
<1>6. Bad = {}
  <2> SUFFICES ASSUME Bad # {} PROVE FALSE
    OBVIOUS
  <2>1. Bad \in SUBSET Nat
    OBVIOUS
  <2>2. PICK n \in Bad : \A m \in Bad : n <= m
    BY <2>1, LeastNatural
  <2>3. n # 0 /\ n \in 1..Len(text) /\ n - 1 \in 0..Len(text)
    BY <1>4, <2>2
  <2>4. words[n - 1] \in Seq(Nat)
    BY <2>2, <2>3
  <2>5. words[n] \in Seq(Nat)
    BY <1>5, <2>3, <2>4
  <2>q. QED
    BY <2>2, <2>5
<1>q. QED
  BY <1>3, <1>6

-----------------------------------------------------------------------------
(* Merging.                                                                *)

AreMerges(merges, found, said, N) ==
  merges = [n \in 0..N |-> IF n = 0 THEN found ELSE Absorb(merges[n - 1], said[n])]

LEMMA MergesExist ==
  ASSUME NEW found, NEW said, NEW N \in Nat
  PROVE  \E merges : AreMerges(merges, found, said, N)
<1> DEFINE Body(g, n) == IF n = 0 THEN found ELSE Absorb(g[n - 1], said[n])
           Good(n) == \E g : g = [m \in 0..n |-> Body(g, m)]
           Bad == {n \in Nat : ~Good(n)}
<1>1. Good(0)
  <2>1. PICK g : g = [m \in 0..0 |-> found]
    OBVIOUS
  <2>2. g = [m \in 0..0 |-> Body(g, m)]
    BY <2>1
  <2>q. QED
    BY <2>2
<1>2. ASSUME NEW n \in Nat, Good(n) PROVE Good(n + 1)
  <2>1. PICK g : g = [m \in 0..n |-> Body(g, m)]
    BY <1>2
  <2>2. PICK h : h = [m \in 0..(n + 1) |-> Body(g, m)]
    OBVIOUS
  <2>3. \A m \in 0..n : h[m] = g[m]
    BY <2>1, <2>2
  <2>4. \A m \in 0..(n + 1) : m # 0 => m - 1 \in 0..n
    OBVIOUS
  <2>5. \A m \in 0..(n + 1) : Body(h, m) = Body(g, m)
    BY <2>3, <2>4
  <2>6. h = [m \in 0..(n + 1) |-> Body(h, m)]
    BY <2>2, <2>5
  <2>q. QED
    BY <2>6
<1>3. Bad = {}
  <2> SUFFICES ASSUME Bad # {} PROVE FALSE
    OBVIOUS
  <2> HIDE DEF Good
  <2>1. PICK n \in Bad : \A m \in Bad : n <= m
    BY LeastNatural
  <2>2. n # 0 /\ n - 1 \in Nat
    BY <1>1, <2>1
  <2>3. Good(n - 1)
    BY <2>1, <2>2
  <2>4. Good((n - 1) + 1)
    BY <1>2, <2>2, <2>3
  <2>5. (n - 1) + 1 = n
    BY <2>2
  <2>6. Good(n)
    BY <2>4, <2>5
  <2> QED BY <2>1, <2>6
<1>4. Good(N)
  BY <1>3
<1>q. QED
  BY <1>4 DEF AreMerges

(* What has been merged of what was found and of what a model said so far: *)
(* every key once, what was found before what was said, and of what was    *)
(* said under a key nothing that is graver than what stays.                *)
Outweighs(f, g) ==
  /\ SeverityRank[g.severity] =< SeverityRank[f.severity]
  /\ g.severity = f.severity => f.code =< g.code
IsMergeOf(merged, found, said) ==
  /\ found \subseteq merged
  /\ merged \subseteq found \cup said
  /\ \A f \in found \cup said : \E g \in merged : FindingKey(g) = FindingKey(f)
  /\ \A f, g \in merged : FindingKey(f) = FindingKey(g) => f = g
  /\ \A f \in merged \ found : \A g \in said :
       FindingKey(g) = FindingKey(f) => Outweighs(f, g)

FromModel(f) == f.source = "model" /\ f.severity \in DOMAIN SeverityRank /\ f.code \in Nat

LEMMA AbsorbMerges ==
  ASSUME NEW merged, NEW found, NEW said, NEW f,
         \A g \in found : g.source = "deterministic",
         \A g \in said \cup {f} : FromModel(g),
         IsMergeOf(merged, found, said)
  PROVE  IsMergeOf(Absorb(merged, f), found, said \cup {f})
<1> DEFINE same == {g \in merged : FindingKey(g) = FindingKey(f)}
<1>0. \A g, h \in said \cup {f} :
        /\ SeverityRank[g.severity] \in Nat /\ g.code \in Nat
        /\ SeverityRank[g.severity] = SeverityRank[h.severity] <=> g.severity = h.severity
  BY DEF FromModel, SeverityRank
<1>1. CASE same = {}
  <2>1. Absorb(merged, f) = merged \cup {f}
    BY <1>1 DEF Absorb
  <2>2. \A g \in merged : FindingKey(g) # FindingKey(f)
    BY <1>1
  <2>3. \A g \in found \cup said : FindingKey(g) # FindingKey(f)
    BY <2>2 DEF IsMergeOf
  <2>4. Outweighs(f, f)
    BY <1>0 DEF Outweighs
  <2> HIDE DEF same
  <2>5. found \subseteq merged \cup {f} /\ merged \cup {f} \subseteq found \cup (said \cup {f})
    BY DEF IsMergeOf
  <2>6. \A h \in found \cup (said \cup {f}) : \E g \in merged \cup {f} : FindingKey(g) = FindingKey(h)
    BY DEF IsMergeOf
  <2>7. \A h, g \in merged \cup {f} : FindingKey(h) = FindingKey(g) => h = g
    BY <2>2 DEF IsMergeOf
  <2>8. ASSUME NEW h \in (merged \cup {f}) \ found, NEW g \in said \cup {f},
               FindingKey(g) = FindingKey(h)
        PROVE  Outweighs(h, g)
    BY <2>2, <2>3, <2>4, <2>8 DEF IsMergeOf
  <2>q. QED
    BY <2>1, <2>5, <2>6, <2>7, <2>8 DEF IsMergeOf
<1>2. CASE same # {}
  <2>1. PICK g : g = CHOOSE h \in same : TRUE
    OBVIOUS
  <2>2. g \in merged /\ FindingKey(g) = FindingKey(f)
    BY <1>2, <2>1
  <2>3. same = {g}
    BY <2>2 DEF IsMergeOf
  <2>4. Absorb(merged, f)
          = IF g.source = "model" /\ Graver(f, g) THEN (merged \ {g}) \cup {f} ELSE merged
    BY <1>2, <2>1, <2>3 DEF Absorb
  <2> HIDE DEF same
  <2>5. CASE g.source = "model" /\ Graver(f, g)
    <3>1. g \notin found /\ g \in said
      BY <2>2, <2>5, Zenon DEF IsMergeOf
    <3>2. f \notin found
      BY DEF FromModel
    <3> DEFINE after == (merged \ {g}) \cup {f}
    <3>3. found \subseteq after /\ after \subseteq found \cup (said \cup {f})
      BY <3>1 DEF IsMergeOf
    <3>4. \A h \in found \cup (said \cup {f}) : \E k \in after : FindingKey(k) = FindingKey(h)
      <4> SUFFICES ASSUME NEW h \in found \cup (said \cup {f})
                   PROVE  \E k \in after : FindingKey(k) = FindingKey(h)
        OBVIOUS
      <4>1. PICK k \in merged : FindingKey(k) = FindingKey(h)
        BY <2>2 DEF IsMergeOf
      <4>q. QED
        BY <2>2, <4>1
    <3>5. \A h, k \in after : FindingKey(h) = FindingKey(k) => h = k
      BY <2>2 DEF IsMergeOf
    <3>6. ASSUME NEW h \in after \ found, NEW k \in said \cup {f}, FindingKey(k) = FindingKey(h)
          PROVE  Outweighs(h, k)
      <4>1. CASE h = f
        <5>1. CASE k = f
          BY <1>0, <4>1, <5>1 DEF Outweighs
        <5>2. CASE k \in said
          <6>1. Outweighs(g, k)
            BY <2>2, <3>1, <3>6, <4>1, <5>2 DEF IsMergeOf
          <6>q. QED
            BY <1>0, <2>5, <3>1, <4>1, <5>2, <6>1 DEF Outweighs, Graver
        <5>q. QED
          BY <5>1, <5>2
      <4>2. CASE h \in merged \ {g}
        <5>1. FindingKey(h) # FindingKey(f)
          BY <2>2, <4>2 DEF IsMergeOf
        <5>q. QED
          BY <3>6, <4>2, <5>1 DEF IsMergeOf
      <4>q. QED
        BY <4>1, <4>2
    <3> HIDE DEF after
    <3>7. Absorb(merged, f) = after
      BY <2>4, <2>5 DEF after
    <3>q. QED
      BY <3>3, <3>4, <3>5, <3>6, <3>7 DEF IsMergeOf
  <2>6. CASE ~(g.source = "model" /\ Graver(f, g))
    <3>1. Absorb(merged, f) = merged
      BY <2>4, <2>6
    <3>2. found \subseteq merged /\ merged \subseteq found \cup (said \cup {f})
      BY DEF IsMergeOf
    <3>3. \A h \in found \cup (said \cup {f}) : \E k \in merged : FindingKey(k) = FindingKey(h)
      BY <2>2 DEF IsMergeOf
    <3>4. \A h, k \in merged : FindingKey(h) = FindingKey(k) => h = k
      BY DEF IsMergeOf
    <3>5. ASSUME NEW h \in merged \ found, NEW k \in said \cup {f}, FindingKey(k) = FindingKey(h)
          PROVE  Outweighs(h, k)
      <4>1. CASE k \in said
        BY <3>5, <4>1 DEF IsMergeOf
      <4>2. CASE k = f
        <5>1. h = g /\ h \in said
          BY <2>2, <3>5, <4>2 DEF IsMergeOf
        <5>2. ~Graver(f, g)
          BY <2>6, <5>1 DEF FromModel
        <5>q. QED
          BY <1>0, <4>2, <5>1, <5>2 DEF Outweighs, Graver
      <4>q. QED
        BY <4>1, <4>2
    <3>q. QED
      BY <3>1, <3>2, <3>3, <3>4, <3>5 DEF IsMergeOf
  <2>q. QED
    BY <2>5, <2>6
<1>q. QED
  BY <1>1, <1>2
(* The fold of merge-findings.ts, whatever was said.                       *)
LEMMA MergedIsAMerge ==
  ASSUME NEW found, NEW said \in Seq(Opinions),
         \A f \in found : f.source = "deterministic",
         \A f \in Opinions : FromModel(f),
         ~Collides(found)
  PROVE  IsMergeOf(Merged(found, said), found, {said[k] : k \in DOMAIN said})
<1> DEFINE merges == CHOOSE m : AreMerges(m, found, said, Len(said))
           SaidBy(n) == {said[k] : k \in 1..n}
           Bad == {n \in 0..Len(said) : ~IsMergeOf(merges[n], found, SaidBy(n))}
<1>0. Len(said) \in Nat /\ DOMAIN said = 1..Len(said) /\ \A k \in 1..Len(said) : said[k] \in Opinions
  OBVIOUS
<1>1. AreMerges(merges, found, said, Len(said))
  BY <1>0, MergesExist
<1>2. Merged(found, said) = merges[Len(said)]
  BY DEF Merged, AreMerges
<1> HIDE DEF merges
<1>3. IsMergeOf(merges[0], found, SaidBy(0))
  <2>1. merges[0] = found /\ SaidBy(0) = {}
    BY <1>0, <1>1 DEF AreMerges
  <2> HIDE DEF SaidBy
  <2>q. QED
    BY <2>1 DEF IsMergeOf, Collides
<1>4. ASSUME NEW n \in 1..Len(said), IsMergeOf(merges[n - 1], found, SaidBy(n - 1))
      PROVE  IsMergeOf(merges[n], found, SaidBy(n))
  <2>1. merges[n] = Absorb(merges[n - 1], said[n])
    BY <1>0, <1>1 DEF AreMerges
  <2>2. SaidBy(n) = SaidBy(n - 1) \cup {said[n]}
    BY <1>0
  <2>3. \A f \in SaidBy(n - 1) \cup {said[n]} : FromModel(f)
    BY <1>0
  <2> HIDE DEF SaidBy
  <2>q. QED
    BY <1>4, <2>1, <2>2, <2>3, AbsorbMerges
<1>5. Bad = {}
  <2> SUFFICES ASSUME Bad # {} PROVE FALSE
    OBVIOUS
  <2> HIDE DEF SaidBy
  <2>1. Bad \in SUBSET Nat
    BY <1>0
  <2>2. PICK n \in Bad : \A m \in Bad : n <= m
    BY <2>1, LeastNatural
  <2>3. n # 0 /\ n \in 1..Len(said) /\ n - 1 \in 0..Len(said)
    BY <1>0, <1>3, <2>2
  <2>4. IsMergeOf(merges[n - 1], found, SaidBy(n - 1))
    BY <2>2, <2>3
  <2>5. IsMergeOf(merges[n], found, SaidBy(n))
    BY <1>4, <2>3, <2>4
  <2>q. QED
    BY <2>2, <2>5
<1>6. IsMergeOf(merges[Len(said)], found, SaidBy(Len(said)))
  <2> HIDE DEF SaidBy
  <2>q. QED
    BY <1>0, <1>5
<1>q. QED
  BY <1>0, <1>2, <1>6

(* What stays was found or said.                                           *)
LEMMA AbsorbedIsFoundOrSaid ==
  ASSUME NEW merged, NEW f
  PROVE  Absorb(merged, f) \subseteq merged \cup {f}
BY DEF Absorb

LEMMA MergedIsFoundOrSaid ==
  ASSUME NEW found, NEW said \in Seq(Opinions)
  PROVE  Merged(found, said) \subseteq found \cup {said[k] : k \in DOMAIN said}
<1> DEFINE merges == CHOOSE m : AreMerges(m, found, said, Len(said))
           SaidBy(n) == {said[k] : k \in 1..n}
           Bad == {n \in 0..Len(said) : ~(merges[n] \subseteq found \cup SaidBy(n))}
<1>0. Len(said) \in Nat /\ DOMAIN said = 1..Len(said)
  OBVIOUS
<1>1. AreMerges(merges, found, said, Len(said))
  BY <1>0, MergesExist
<1>2. Merged(found, said) = merges[Len(said)]
  BY DEF Merged, AreMerges
<1> HIDE DEF merges
<1>3. merges[0] \subseteq found \cup SaidBy(0)
  BY <1>0, <1>1 DEF AreMerges
<1>4. ASSUME NEW n \in 1..Len(said), merges[n - 1] \subseteq found \cup SaidBy(n - 1)
      PROVE  merges[n] \subseteq found \cup SaidBy(n)
  <2>1. merges[n] = Absorb(merges[n - 1], said[n])
    BY <1>0, <1>1 DEF AreMerges
  <2>2. SaidBy(n) = SaidBy(n - 1) \cup {said[n]}
    BY <1>0
  <2> HIDE DEF SaidBy
  <2>3. merges[n] \subseteq merges[n - 1] \cup {said[n]}
    BY <2>1, AbsorbedIsFoundOrSaid
  <2>q. QED
    BY <1>4, <2>2, <2>3
<1>5. Bad = {}
  <2> SUFFICES ASSUME Bad # {} PROVE FALSE
    OBVIOUS
  <2> HIDE DEF SaidBy
  <2>1. Bad \in SUBSET Nat
    BY <1>0
  <2>2. PICK n \in Bad : \A m \in Bad : n <= m
    BY <2>1, LeastNatural
  <2>3. n # 0 /\ n \in 1..Len(said) /\ n - 1 \in 0..Len(said)
    BY <1>0, <1>3, <2>2
  <2>4. merges[n - 1] \subseteq found \cup SaidBy(n - 1)
    BY <2>2, <2>3
  <2>5. merges[n] \subseteq found \cup SaidBy(n)
    BY <1>4, <2>3, <2>4
  <2>q. QED
    BY <2>2, <2>5
<1>q. QED
  BY <1>0, <1>2, <1>5

-----------------------------------------------------------------------------
(* What the blockers of a report are called.                               *)

Blocks(f) == f.severity = "blocking"

LEMMA LexicalShape ==
  ASSUME NEW text, NEW g, NEW mode, NEW phrases
  PROVE  \A f \in Lexical(text, g, mode, phrases) : \E p \in phrases :
           f = Finding(mode, <<g.key, mode, Normalized(p)>>, PhraseMatch(text, Normalized(p)), {p})
BY DEF Lexical

LEMMA RestrictedShape ==
  ASSUME NEW text, NEW g
  PROVE  \A f \in RestrictedFindings(text, g) :
           \/ f \in Lexical(text, g, "restricted.exact", g.exact)
           \/ f \in Lexical(text, g, "restricted.alias", g.alias)
           \/ \E group \in g.together :
                f = Finding("restricted.co_occurrence", <<g.key, Terms(group)>>,
                            SentenceMatch(text, Terms(group)), group)
           \/ \E group \in g.near :
                /\ ProximityMatch(text, group) # NoPlace
                /\ f = Finding("restricted.proximity", <<g.key, Terms(group)>>,
                               ProximityMatch(text, group), group)
BY DEF RestrictedFindings

LEMMA StructuralShape ==
  ASSUME NEW text, NEW c
  PROVE  \A f \in StructuralFindings(text, c) :
           \/ \E evidence : \E rule \in {"empty", "length"} : f = Finding(rule, evidence, NoPlace, {})
           \/ \E d \in c.demands : \E evidence, place :
                \E rule \in {"action", Semantic[d.kind], d.kind} :
                  f = Finding(rule, evidence, place, {})
<1>1. ASSUME NEW d, NEW f \in DemandFindings(text, d)
      PROVE  \E evidence, place : \E rule \in {"action", Semantic[d.kind], d.kind} :
               f = Finding(rule, evidence, place, {})
  BY <1>1 DEF DemandFindings
<1>2. ASSUME NEW f \in StructuralFindings(text, c),
             NEW d \in c.demands, f \in DemandFindings(text, d)
      PROVE  \E e \in c.demands : \E evidence, place :
               \E rule \in {"action", Semantic[e.kind], e.kind} :
                 f = Finding(rule, evidence, place, {})
  BY <1>1, <1>2
<1>3. ASSUME NEW f \in StructuralFindings(text, c),
             ~\E d \in c.demands : f \in DemandFindings(text, d)
      PROVE  \E evidence : \E rule \in {"empty", "length"} : f = Finding(rule, evidence, NoPlace, {})
  BY <1>3 DEF StructuralFindings
<1>q. QED
  BY <1>2, <1>3

LEMMA DeterministicFindings ==
  ASSUME NEW text, NEW c, NEW gs
  PROVE  \A f \in Deterministic(text, c, gs) :
           /\ f.source = "deterministic"
           /\ f.severity = SeverityOf(f.rule)
<1> DEFINE Good(f) == f.source = "deterministic" /\ f.severity = SeverityOf(f.rule)
<1>1. \A rule, evidence, place, of : Good(Finding(rule, evidence, place, of))
  BY DEF Finding
<1> HIDE DEF Good
<1>2. ASSUME NEW f \in StructuralFindings(text, c) PROVE Good(f)
  BY <1>1, StructuralShape
<1>3. \A g : \A f \in GuardFindings(text, g) : Good(f)
  <2> SUFFICES ASSUME NEW g PROVE \A f \in GuardFindings(text, g) : Good(f)
    OBVIOUS
  <2>1. ASSUME NEW mode, NEW phrases, NEW f \in Lexical(text, g, mode, phrases) PROVE Good(f)
    <3>1. PICK p \in phrases :
            f = Finding(mode, <<g.key, mode, Normalized(p)>>, PhraseMatch(text, Normalized(p)), {p})
      BY LexicalShape
    <3>q. QED
      BY <1>1, <3>1
  <2>2. ASSUME NEW f \in RestrictedFindings(text, g) PROVE Good(f)
    <3>1. CASE f \in Lexical(text, g, "restricted.exact", g.exact)
      BY <2>1, <3>1
    <3>2. CASE f \in Lexical(text, g, "restricted.alias", g.alias)
      BY <2>1, <3>2
    <3>3. CASE ~(f \in Lexical(text, g, "restricted.exact", g.exact)) /\
               ~(f \in Lexical(text, g, "restricted.alias", g.alias))
      <4>1. \/ \E group \in g.together :
                 f = Finding("restricted.co_occurrence", <<g.key, Terms(group)>>,
                             SentenceMatch(text, Terms(group)), group)
            \/ \E group \in g.near :
                 f = Finding("restricted.proximity", <<g.key, Terms(group)>>,
                             ProximityMatch(text, group), group)
        BY <3>3, RestrictedShape
      <4>q. QED
        BY <1>1, <4>1
    <3>q. QED
      BY <3>1, <3>2, <3>3
  <2>3. \A f \in RestrictedFindings(text, g) : Good(f)
    BY <2>2
  <2>q. QED
    BY <1>1, <2>3 DEF GuardFindings
<1>4. \A f \in Deterministic(text, c, gs) : Good(f)
  BY <1>2, <1>3 DEF Deterministic
<1>q. QED
  BY <1>4 DEF Good
-----------------------------------------------------------------------------
(* The invariant: a report is the judgement of what is before it, and a    *)
(* chain of repairs has spent an attempt for every blocker it is rid of.   *)

Rules == Blocking \cup {f.rule : f \in Opinions}

Refusable ==
  \/ ~ContractValid(contract) \/ ~GuardsValid(guards)
  \/ Collides(Deterministic(prose, contract, guards))

ReportIsJudgement ==
  \/ report = Unreported
  \/ report = Refused /\ Refusable
  \/ ~Refusable /\ \E X : report =
       [state |-> "reported", findings |-> Merged(Deterministic(prose, contract, guards), opinions),
        passed |-> Passed(Merged(Deterministic(prose, contract, guards), opinions)),
        overridden |-> X]

JudgingTypes ==
  /\ prose \in Proses /\ contract \in Contracts /\ guards \in GuardSets
  /\ opinions \in Seq(Opinions)
  /\ chain \in [open : BOOLEAN, first : Nat, completed : Nat, previous : SUBSET Rules,
                clear : BOOLEAN]

ChainConverges ==
  /\ IsFiniteSet(chain.previous)
  /\ chain.open => Cardinality(chain.previous) + chain.completed =< chain.first
  /\ ~chain.open => Cardinality(chain.previous) + chain.completed =< chain.first + 1

JudgingInv == JudgingTypes /\ ReportIsJudgement /\ ChainConverges

LEMMA SaidIsFinite ==
  ASSUME NEW said \in Seq(Opinions)
  PROVE  /\ IsFiniteSet({said[k].rule : k \in 1..Len(said)})
         /\ \A k \in DOMAIN said : k \in 1..Len(said) /\ said[k] \in Opinions
<1>1. Len(said) \in Nat /\ DOMAIN said = 1..Len(said) /\ \A k \in 1..Len(said) : said[k] \in Opinions
  OBVIOUS
<1>2. IsFiniteSet(1..Len(said))
  BY <1>1, FS_Interval
<1> DEFINE rules == {said[k].rule : k \in 1..Len(said)}
           called == [k \in 1..Len(said) |-> said[k].rule]
<1>3. called \in Surjection(1..Len(said), rules)
  BY DEF Surjection
<1>4. IsFiniteSet(rules)
  BY <1>2, <1>3, FS_Surjection
<1>q. QED
  BY <1>1, <1>4

LEMMA BlockingIsFinite == IsFiniteSet(Blocking)
<1> DEFINE called == [k \in 1..6 |->
             IF k = 1 THEN "empty" ELSE IF k = 2 THEN "character" ELSE IF k = 3 THEN "fact"
             ELSE IF k = 4 THEN "action" ELSE IF k = 5 THEN "restricted.exact"
             ELSE "restricted.alias"]
<1>1. called \in [1..6 -> Blocking]
  BY DEF Blocking
<1>2. /\ called[1] = "empty" /\ called[2] = "character" /\ called[3] = "fact"
      /\ called[4] = "action" /\ called[5] = "restricted.exact" /\ called[6] = "restricted.alias"
  OBVIOUS
<1> HIDE DEF called
<1>3. \A rule \in Blocking : \E k \in 1..6 : called[k] = rule
  BY <1>2 DEF Blocking
<1>4. called \in Surjection(1..6, Blocking)
  BY <1>1, <1>3 DEF Surjection
<1>5. IsFiniteSet(1..6)
  <2>1. \A n \in Nat : IsFiniteSet(1..n)
    BY FS_Interval
  <2>q. QED
    BY <2>1
<1>q. QED
  BY <1>4, <1>5, FS_Surjection

LEMMA BlockersAreFew ==
  ASSUME NEW found, NEW said \in Seq(Opinions), NEW X,
         \A f \in found : f.severity = SeverityOf(f.rule),
         \A f \in X : f.severity = "blocking",
         X \subseteq Merged(found, said)
  PROVE  RulesOf(X) \in SUBSET Rules /\ IsFiniteSet(RulesOf(X))
<1> DEFINE spoken == {said[k].rule : k \in 1..Len(said)}
<1>1. \A f \in X : f.rule \in Blocking \cup spoken
  <2> SUFFICES ASSUME NEW f \in X PROVE f.rule \in Blocking \cup spoken
    OBVIOUS
  <2>1. f \in found \cup {said[k] : k \in DOMAIN said}
    BY MergedIsFoundOrSaid
  <2>2. CASE f \in found
    BY <2>2 DEF SeverityOf
  <2>3. CASE f \in {said[k] : k \in DOMAIN said}
    BY <2>3, SaidIsFinite
  <2>q. QED
    BY <2>1, <2>2, <2>3
<1>2. RulesOf(X) \in SUBSET (Blocking \cup spoken)
  BY <1>1 DEF RulesOf
<1>3. spoken \subseteq {f.rule : f \in Opinions}
  BY SaidIsFinite
<1>4. IsFiniteSet(spoken)
  BY SaidIsFinite
<1> HIDE DEF spoken
<1>5. IsFiniteSet(Blocking \cup spoken)
  BY <1>4, BlockingIsFinite, FS_Union
<1>6. IsFiniteSet(RulesOf(X))
  BY <1>2, <1>5, FS_Subset
<1>q. QED
  BY <1>2, <1>3, <1>6 DEF Rules

LEMMA BlockersOfAReport ==
  ASSUME JudgingTypes, ReportIsJudgement, report.state = "reported"
  PROVE  RulesOf(Blockers) \in SUBSET Rules /\ IsFiniteSet(RulesOf(Blockers))
<1> DEFINE found == Deterministic(prose, contract, guards)
<1>1. PICK said \in Seq(Opinions) : said = opinions
  BY DEF JudgingTypes
<1>2. report.findings = Merged(found, said)
  BY <1>1 DEF ReportIsJudgement, Refused, Unreported
<1>3. \A f \in found : f.severity = SeverityOf(f.rule)
  BY DeterministicFindings
<1>4. Blockers \subseteq report.findings /\ \A f \in Blockers : f.severity = "blocking"
  BY DEF Blockers
<1> HIDE DEF found
<1>q. QED
  BY <1>2, <1>3, <1>4, BlockersAreFew
LEMMA JudgingStarts == JudgingInit => JudgingInv
<1> SUFFICES ASSUME JudgingInit PROVE JudgingInv
  OBVIOUS
<1>1. IsFiniteSet({}) /\ Cardinality({}) = 0
  BY FS_EmptySet
<1>2. JudgingTypes
  BY DEF JudgingInit, JudgingTypes, NoChain
<1>3. ReportIsJudgement
  BY DEF JudgingInit, ReportIsJudgement
<1>4. ChainConverges
  BY <1>1 DEF JudgingInit, ChainConverges, NoChain
<1>q. QED
  BY <1>2, <1>3, <1>4 DEF JudgingInv

LEMMA OpineKeeps ==
  ASSUME JudgingInv, NEW f \in Opinions, Opine(f) PROVE JudgingInv'
<1>1. JudgingTypes'
  BY DEF JudgingInv, JudgingTypes, Opine
<1>2. ReportIsJudgement'
  BY DEF ReportIsJudgement, Opine
<1>3. ChainConverges'
  BY DEF JudgingInv, ChainConverges, Opine
<1>q. QED
  BY <1>1, <1>2, <1>3 DEF JudgingInv

LEMMA ValidateKeeps ==
  ASSUME JudgingInv, Validate PROVE JudgingInv'
<1>1. JudgingTypes'
  BY DEF JudgingInv, JudgingTypes, Validate
<1>2. ReportIsJudgement'
  <2>1. report' = Judged(prose, contract, guards, opinions)
    BY DEF Validate
  <2>2. Refusable' <=> Refusable
    BY DEF Refusable, Validate
  <2>3. /\ prose' = prose /\ contract' = contract /\ guards' = guards /\ opinions' = opinions
    BY DEF Validate
  <2>4. CASE Refusable
    <3>1. report' = Refused
      BY <2>1, <2>4 DEF Refusable, Judged
    <3>q. QED
      BY <2>2, <2>4, <3>1 DEF ReportIsJudgement
  <2>5. CASE ~Refusable
    <3>1. report' =
            [state |-> "reported",
             findings |-> Merged(Deterministic(prose, contract, guards), opinions),
             passed |-> Passed(Merged(Deterministic(prose, contract, guards), opinions)),
             overridden |-> {}]
      BY <2>1, <2>5 DEF Refusable, Judged
    <3>q. QED
      BY <2>2, <2>3, <2>5, <3>1 DEF ReportIsJudgement
  <2>q. QED
    BY <2>4, <2>5
<1>3. ChainConverges'
  BY DEF JudgingInv, ChainConverges, Validate
<1>q. QED
  BY <1>1, <1>2, <1>3 DEF JudgingInv

LEMMA OverrideKeeps ==
  ASSUME JudgingInv, NEW f, Override(f) PROVE JudgingInv'
<1>1. JudgingTypes'
  BY DEF JudgingInv, JudgingTypes, Override
<1>2. ReportIsJudgement'
  <2>1. ~Refusable /\ report.state = "reported"
    BY DEF JudgingInv, ReportIsJudgement, Override, Unreported, Refused
  <2>2. ~Refusable'
    BY <2>1 DEF Refusable, Override
  <2>3. /\ prose' = prose /\ contract' = contract /\ guards' = guards /\ opinions' = opinions
    BY DEF Override
  <2> DEFINE merged == Merged(Deterministic(prose, contract, guards), opinions)
  <2>4. PICK X : report = [state |-> "reported", findings |-> merged, passed |-> Passed(merged),
                           overridden |-> X]
    BY <2>1 DEF JudgingInv, ReportIsJudgement, Unreported, Refused
  <2> HIDE DEF merged
  <2>5. report' = [state |-> "reported", findings |-> merged, passed |-> Passed(merged),
                   overridden |-> X \cup {f}]
    BY <2>4 DEF Override
  <2>q. QED
    BY <2>2, <2>3, <2>5 DEF ReportIsJudgement, merged
<1>3. ChainConverges'
  BY DEF JudgingInv, ChainConverges, Override
<1>q. QED
  BY <1>1, <1>2, <1>3 DEF JudgingInv

(* A chain that knows what the last attempt left goes on only with fewer   *)
(* blockers; one that does not know starts anew.                           *)
LEMMA RequestKeeps ==
  ASSUME JudgingInv, NEW known \in BOOLEAN, RequestSafeRepair(known) PROVE JudgingInv'
<1>0. RulesOf(Blockers) \in SUBSET Rules /\ IsFiniteSet(RulesOf(Blockers))
  BY BlockersOfAReport DEF JudgingInv, RequestSafeRepair
<1>1. PICK now \in SUBSET Rules : now = RulesOf(Blockers) /\ IsFiniteSet(now)
  BY <1>0
<1>2. Cardinality(now) \in Nat
  BY <1>1, FS_CardinalityType
<1>3. PICK clear \in BOOLEAN : clear = ~Ambiguous(Blockers)
  OBVIOUS
<1>4. PICK c \in [open : BOOLEAN, first : Nat, completed : Nat, previous : SUBSET Rules,
                  clear : BOOLEAN] : c = chain
  BY DEF JudgingInv, JudgingTypes
<1>5. JudgingTypes' /\ ChainConverges'
  <2>1. CASE known
    <3>1. ~StopsRepair(c.previous, now, c.completed)
      BY <1>1, <1>4, <2>1 DEF RequestSafeRepair
    <3>2. chain' = [c EXCEPT !.open = TRUE, !.previous = now]
      BY <1>1, <1>4, <2>1 DEF RequestSafeRepair
    <3>3. ~c.open /\ IsFiniteSet(c.previous) /\ Cardinality(c.previous) + c.completed =< c.first + 1
      BY <1>4 DEF JudgingInv, ChainConverges, RequestSafeRepair
    <3>4. Cardinality(c.previous) \in Nat
      BY <3>3, FS_CardinalityType
    <3>5. Cardinality(now) < Cardinality(c.previous)
      BY <1>2, <3>1, <3>4 DEF StopsRepair
    <3>6. Cardinality(now) + c.completed =< c.first
      BY <1>2, <1>4, <3>3, <3>4, <3>5
    <3>q. QED
      BY <1>1, <1>2, <1>4, <3>2, <3>6 DEF JudgingInv, JudgingTypes, ChainConverges, RequestSafeRepair
  <2>2. CASE ~known
    <3>1. chain' = [open |-> TRUE, first |-> Cardinality(now), completed |-> 0,
                    previous |-> now, clear |-> clear]
      BY <1>1, <1>3, <2>2 DEF RequestSafeRepair
    <3>q. QED
      BY <1>1, <1>2, <1>3, <3>1 DEF JudgingInv, JudgingTypes, ChainConverges, RequestSafeRepair
  <2>q. QED
    BY <2>1, <2>2
<1>6. ReportIsJudgement'
  BY DEF JudgingInv, ReportIsJudgement, Refusable, RequestSafeRepair
<1>q. QED
  BY <1>5, <1>6 DEF JudgingInv

LEMMA RepairedKeeps ==
  ASSUME JudgingInv, NEW text \in Proses, Repaired(text) PROVE JudgingInv'
<1>1. PICK c \in [open : BOOLEAN, first : Nat, completed : Nat, previous : SUBSET Rules,
                  clear : BOOLEAN] : c = chain
  BY DEF JudgingInv, JudgingTypes
<1>2. chain' = [c EXCEPT !.open = FALSE, !.completed = @ + 1] /\ c.open
  BY <1>1 DEF Repaired
<1>3. JudgingTypes'
  <2>1. chain' = [open |-> FALSE, first |-> c.first, completed |-> c.completed + 1,
                  previous |-> c.previous, clear |-> c.clear]
    BY <1>2
  <2>2. chain' \in [open : BOOLEAN, first : Nat, completed : Nat, previous : SUBSET Rules,
                    clear : BOOLEAN]
    BY <2>1
  <2>3. prose' \in Proses /\ contract' \in Contracts /\ guards' \in GuardSets
    BY DEF JudgingInv, JudgingTypes, Repaired
  <2>4. opinions' \in Seq(Opinions)
    BY DEF Repaired
  <2>q. QED
    BY <2>2, <2>3, <2>4 DEF JudgingTypes
<1>4. ReportIsJudgement'
  BY DEF ReportIsJudgement, Repaired
<1>5. ChainConverges'
  <2>1. Cardinality(c.previous) \in Nat /\ IsFiniteSet(c.previous)
    BY <1>1, FS_CardinalityType DEF JudgingInv, ChainConverges
  <2>2. Cardinality(c.previous) + c.completed =< c.first
    BY <1>1, <1>2 DEF JudgingInv, ChainConverges
  <2>q. QED
    BY <1>1, <1>2, <2>1, <2>2 DEF ChainConverges
<1>q. QED
  BY <1>3, <1>4, <1>5 DEF JudgingInv

LEMMA JudgingKeeps == JudgingInv /\ [JudgingNext]_judgingVars => JudgingInv'
<1> SUFFICES ASSUME JudgingInv, [JudgingNext]_judgingVars PROVE JudgingInv'
  OBVIOUS
<1>1. ASSUME NEW f \in Opinions, Opine(f) PROVE JudgingInv'
  BY <1>1, OpineKeeps
<1>2. CASE Validate
  BY <1>2, ValidateKeeps
<1>3. ASSUME NEW f \in report.findings, Override(f) PROVE JudgingInv'
  BY <1>3, OverrideKeeps
<1>4. ASSUME NEW known \in BOOLEAN, RequestSafeRepair(known) PROVE JudgingInv'
  BY <1>4, RequestKeeps
<1>5. ASSUME NEW text \in Proses, Repaired(text) PROVE JudgingInv'
  BY <1>5, RepairedKeeps
<1>6. CASE UNCHANGED judgingVars
  <2>1. JudgingTypes' /\ ChainConverges'
    BY <1>6 DEF judgingVars, JudgingInv, JudgingTypes, ChainConverges
  <2>2. ReportIsJudgement'
    BY <1>6 DEF judgingVars, JudgingInv, ReportIsJudgement, Refusable
  <2>q. QED
    BY <2>1, <2>2 DEF JudgingInv
<1>q. QED
  BY <1>1, <1>2, <1>3, <1>4, <1>5, <1>6 DEF JudgingNext

(* A report is what merging gives for the text, the demands and the guards *)
(* it stands beside, through overrides and repairs.                        *)
THEOREM JudgingInvariant == JudgingSpec => []JudgingInv
<1>1. JudgingInit => JudgingInv
  BY JudgingStarts
<1>2. JudgingInv /\ [JudgingNext]_judgingVars => JudgingInv'
  BY JudgingKeeps
<1>q. QED
  BY <1>1, <1>2, PTL DEF JudgingSpec

(* decideRepairStop ends every chain of repairs: whatever the model writes *)
(* in between, an attempt costs a blocker.                                 *)
THEOREM ChainsOfRepairsConverge == JudgingSpec => []RepairsConverge
<1>1. JudgingInv => RepairsConverge
  BY DEF JudgingInv, ChainConverges, RepairsConverge
<1>q. QED
  BY <1>1, JudgingInvariant, PTL
-----------------------------------------------------------------------------
(* No two findings of one judgement have the same key: the normalized      *)
(* phrases of a valid guard are apart, and so are the terms of its groups. *)

LEMMA ValidPhrasesApart ==
  ASSUME NEW g, NormalizedApart(g.exact, g.alias), IsFiniteSet(g.exact \cup g.alias)
  PROVE  \A p, q \in Phrases(g) : Normalized(p) = Normalized(q) => p = q
<1> DEFINE all == g.exact \cup g.alias
           forms == {Normalized(p) : p \in all}
           form == [p \in all |-> Normalized(p)]
<1>1. g.exact \in SUBSET all /\ g.alias \in SUBSET all
  OBVIOUS
<1>2. form \in Surjection(all, forms)
  BY DEF Surjection
<1>3. IsFiniteSet(all) /\ IsFiniteSet(g.exact) /\ IsFiniteSet(g.alias)
  BY <1>1, FS_Subset
<1>4. Cardinality(forms) = Cardinality(g.exact) + Cardinality(g.alias)
  BY DEF NormalizedApart
<1>5. Cardinality(all) = Cardinality(g.exact) + Cardinality(g.alias) - Cardinality(g.exact \cap g.alias)
  BY <1>3, FS_Union
<1>6. IsFiniteSet(g.exact \cap g.alias)
  BY <1>3, FS_Intersection
<1>7. /\ Cardinality(all) \in Nat /\ Cardinality(g.exact) \in Nat
      /\ Cardinality(g.alias) \in Nat /\ Cardinality(g.exact \cap g.alias) \in Nat
  BY <1>3, <1>6, FS_CardinalityType
<1> HIDE DEF all, forms, form
<1>8. IsFiniteSet(forms) /\ Cardinality(forms) =< Cardinality(all)
  BY <1>2, <1>3, FS_Surjection
<1>9. Cardinality(all) = Cardinality(forms)
  BY <1>4, <1>5, <1>7, <1>8
<1>10. form \in Injection(all, forms)
  BY <1>2, <1>3, <1>9, FS_SurjSameCardinalityImpliesInj
<1>11. \A p, q \in all : form[p] = form[q] => p = q
  BY <1>10 DEF Injection, IsInjective
<1>q. QED
  BY <1>11 DEF Phrases, all, form

RestrictedRules == {"restricted.exact", "restricted.alias", "restricted.co_occurrence",
               "restricted.proximity"}

(* The item a finding was made for, by its rule and its evidence.          *)
MadeFor(gs, rule, evidence, of) ==
  \/ rule \notin RestrictedRules /\ of = {}
  \/ \E g \in gs :
       \/ \E p \in g.exact :
            /\ rule = "restricted.exact" /\ of = {p}
            /\ evidence = <<g.key, "restricted.exact", Normalized(p)>>
       \/ \E p \in g.alias :
            /\ rule = "restricted.alias" /\ of = {p}
            /\ evidence = <<g.key, "restricted.alias", Normalized(p)>>
       \/ \E group \in g.together :
            /\ rule = "restricted.co_occurrence" /\ of = group
            /\ evidence = <<g.key, Terms(group)>>
       \/ \E group \in g.near :
            /\ rule = "restricted.proximity" /\ of = group
            /\ evidence = <<g.key, Terms(group)>>

Kinds == {"character", "fact", "directive", "action", "ending"}

LEMMA FindingsAreMadeForSomething ==
  ASSUME NEW text, NEW c, NEW gs, \A d \in c.demands : d.kind \in Kinds,
         NEW f \in Deterministic(text, c, gs)
  PROVE  \E rule, evidence, place, of :
           f = Finding(rule, evidence, place, of) /\ MadeFor(gs, rule, evidence, of)
<1>1. CASE f \in StructuralFindings(text, c)
  <2>1. \A kind \in Kinds : \A rule \in {"action", Semantic[kind], kind} : rule \notin RestrictedRules
    BY DEF Kinds, Semantic, RestrictedRules
  <2>2. \A rule \in {"empty", "length"} : rule \notin RestrictedRules
    BY DEF RestrictedRules
  <2>3. \E rule, evidence, place : f = Finding(rule, evidence, place, {}) /\ rule \notin RestrictedRules
    <3>1. CASE \E evidence : \E rule \in {"empty", "length"} : f = Finding(rule, evidence, NoPlace, {})
      BY <2>2, <3>1
    <3>2. CASE ~\E evidence : \E rule \in {"empty", "length"} : f = Finding(rule, evidence, NoPlace, {})
      <4>1. PICK d \in c.demands : \E evidence, place :
                \E rule \in {"action", Semantic[d.kind], d.kind} :
                  f = Finding(rule, evidence, place, {})
        BY <1>1, <3>2, StructuralShape
      <4>q. QED
        BY <2>1, <4>1
    <3>q. QED
      BY <3>1, <3>2
  <2>q. QED
    BY <2>3 DEF MadeFor
<1>2. ASSUME NEW g \in gs, f \in GuardFindings(text, g)
      PROVE  \E rule, evidence, place, of :
               f = Finding(rule, evidence, place, of) /\ MadeFor(gs, rule, evidence, of)
  <2>1. CASE f = Finding("restricted.semantic_gap", <<g.key>>, NoPlace, {})
    BY <2>1 DEF MadeFor, RestrictedRules
  <2>2. CASE f \in Lexical(text, g, "restricted.exact", g.exact)
    <3>1. PICK p \in g.exact : f = Finding("restricted.exact",
            <<g.key, "restricted.exact", Normalized(p)>>, PhraseMatch(text, Normalized(p)), {p})
      BY <2>2, LexicalShape
    <3>2. MadeFor(gs, "restricted.exact", <<g.key, "restricted.exact", Normalized(p)>>, {p})
      BY DEF MadeFor
    <3>q. QED
      BY <3>1, <3>2
  <2>3. CASE f \in Lexical(text, g, "restricted.alias", g.alias)
    <3>1. PICK p \in g.alias : f = Finding("restricted.alias",
            <<g.key, "restricted.alias", Normalized(p)>>, PhraseMatch(text, Normalized(p)), {p})
      BY <2>3, LexicalShape
    <3>2. MadeFor(gs, "restricted.alias", <<g.key, "restricted.alias", Normalized(p)>>, {p})
      BY DEF MadeFor
    <3>q. QED
      BY <3>1, <3>2
  <2>4. ASSUME NEW group \in g.together,
               f = Finding("restricted.co_occurrence", <<g.key, Terms(group)>>,
                           SentenceMatch(text, Terms(group)), group)
        PROVE  \E rule, evidence, place, of :
                 f = Finding(rule, evidence, place, of) /\ MadeFor(gs, rule, evidence, of)
    <3>1. MadeFor(gs, "restricted.co_occurrence", <<g.key, Terms(group)>>, group)
      BY DEF MadeFor
    <3>q. QED
      BY <2>4, <3>1
  <2>5. ASSUME NEW group \in g.near,
               f = Finding("restricted.proximity", <<g.key, Terms(group)>>,
                           ProximityMatch(text, group), group)
        PROVE  \E rule, evidence, place, of :
                 f = Finding(rule, evidence, place, of) /\ MadeFor(gs, rule, evidence, of)
    <3>1. MadeFor(gs, "restricted.proximity", <<g.key, Terms(group)>>, group)
      BY DEF MadeFor
    <3>q. QED
      BY <2>5, <3>1
  <2>6. f \in RestrictedFindings(text, g) \/ f = Finding("restricted.semantic_gap", <<g.key>>, NoPlace, {})
    BY <1>2 DEF GuardFindings
  <2>7. CASE f \in RestrictedFindings(text, g)
    <3>1. \/ f \in Lexical(text, g, "restricted.exact", g.exact)
          \/ f \in Lexical(text, g, "restricted.alias", g.alias)
          \/ \E group \in g.together :
               f = Finding("restricted.co_occurrence", <<g.key, Terms(group)>>,
                           SentenceMatch(text, Terms(group)), group)
          \/ \E group \in g.near :
               f = Finding("restricted.proximity", <<g.key, Terms(group)>>,
                           ProximityMatch(text, group), group)
      BY <2>7, RestrictedShape
    <3>q. QED
      BY <2>2, <2>3, <2>4, <2>5, <3>1
  <2>q. QED
    BY <2>1, <2>6, <2>7
<1>3. f \in StructuralFindings(text, c) \/ \E g \in gs : f \in GuardFindings(text, g)
  BY DEF Deterministic
<1>q. QED
  BY <1>1, <1>2, <1>3

LEMMA MadeForOneThing ==
  ASSUME NEW gs, GuardsValid(gs), \A g \in gs : IsFiniteSet(g.exact \cup g.alias),
         NEW rule, NEW evidence, NEW of, NEW other,
         MadeFor(gs, rule, evidence, of), MadeFor(gs, rule, evidence, other)
  PROVE  of = other
<1>1. \A g, h \in gs : g.key = h.key => g = h
  BY DEF GuardsValid
<1>2. \A g \in gs : \A p, q \in Phrases(g) : Normalized(p) = Normalized(q) => p = q
  BY ValidPhrasesApart DEF GuardsValid, GuardValid
<1>3. \A g \in gs : \A a, b \in g.together : Terms(a) = Terms(b) => a = b
  BY DEF GuardsValid, GuardValid
<1>4. \A g \in gs : \A a, b \in g.near : Terms(a) = Terms(b) => a = b
  BY DEF GuardsValid, GuardValid
<1>5. CASE rule = "restricted.exact"
  BY <1>1, <1>2, <1>5 DEF MadeFor, RestrictedRules, Phrases
<1>6. CASE rule = "restricted.alias"
  BY <1>1, <1>2, <1>6 DEF MadeFor, RestrictedRules, Phrases
<1>7. CASE rule = "restricted.co_occurrence"
  BY <1>1, <1>3, <1>7 DEF MadeFor, RestrictedRules
<1>8. CASE rule = "restricted.proximity"
  BY <1>1, <1>4, <1>8 DEF MadeFor, RestrictedRules
<1>9. CASE rule \notin RestrictedRules
  BY <1>9 DEF MadeFor, RestrictedRules
<1>q. QED
  BY <1>5, <1>6, <1>7, <1>8, <1>9 DEF RestrictedRules

LEMMA ValidInputDoesNotCollide ==
  ASSUME NEW text, NEW c, NEW gs, \A d \in c.demands : d.kind \in Kinds,
         GuardsValid(gs), \A g \in gs : IsFiniteSet(g.exact \cup g.alias)
  PROVE  ~Collides(Deterministic(text, c, gs))
<1> SUFFICES ASSUME NEW f \in Deterministic(text, c, gs), NEW h \in Deterministic(text, c, gs),
                    FindingKey(f) = FindingKey(h)
             PROVE  f = h
  BY DEF Collides
<1>1. PICK rule, evidence, place, of :
        f = Finding(rule, evidence, place, of) /\ MadeFor(gs, rule, evidence, of)
  BY FindingsAreMadeForSomething
<1>2. PICK rule2, evidence2, place2, of2 :
        h = Finding(rule2, evidence2, place2, of2) /\ MadeFor(gs, rule2, evidence2, of2)
  BY FindingsAreMadeForSomething
<1>3. rule = rule2 /\ evidence = evidence2 /\ place = place2
  BY <1>1, <1>2 DEF FindingKey, Finding
<1>4. of = of2
  BY <1>1, <1>2, <1>3, MadeForOneThing
<1>q. QED
  BY <1>1, <1>2, <1>3, <1>4
-----------------------------------------------------------------------------
(* The sliding window finds a group exactly if some window holds it.       *)

Held(text, tokens, terms, span, left, right) ==
  right < left + span /\ Covers(text, tokens, terms, left, right)

LEMMA CoversGrows ==
  ASSUME NEW text, NEW tokens, NEW terms, NEW a \in Nat, NEW b \in Nat, NEW c \in Nat, NEW d \in Nat,
         Covers(text, tokens, terms, b, c), a =< b, c =< d
  PROVE  Covers(text, tokens, terms, a, d)
<1>1. b..c \subseteq a..d
  OBVIOUS
<1>q. QED
  BY <1>1 DEF Covers

LEMMA CoversSomething ==
  ASSUME NEW text, NEW tokens, NEW terms, terms # {}, NEW a \in Nat, NEW b \in Nat,
         Covers(text, tokens, terms, a, b)
  PROVE  a =< b
<1>1. \E k \in a..b : TRUE
  BY DEF Covers
<1>q. QED
  BY <1>1

(* Where the window is after n steps: a window it found is one, none is    *)
(* left behind for good, and a step moves one side.                        *)
WindowAt(text, tokens, terms, span, w, n) ==
  /\ w \in [left : 1..(Len(tokens) + 1), right : 1..(Len(tokens) + 1), found : BOOLEAN]
  /\ w.found =>
       w.left =< Len(tokens) /\ w.right =< Len(tokens)
       /\ Held(text, tokens, terms, span, w.left, w.right)
  /\ ~w.found =>
       ((\E l, r \in 1..Len(tokens) : Held(text, tokens, terms, span, l, r)) =>
          \E l, r \in 1..Len(tokens) :
             l >= w.left /\ r >= w.right /\ Held(text, tokens, terms, span, l, r))
  /\ w.found \/ w.right > Len(tokens) \/ w.left + w.right >= n + 2

LEMMA SlideKeeps ==
  ASSUME NEW text, NEW tokens, NEW terms, terms # {}, NEW span \in Nat, NEW n \in Nat,
         Len(tokens) \in Nat, NEW w, WindowAt(text, tokens, terms, span, w, n)
  PROVE  WindowAt(text, tokens, terms, span, Slid(text, tokens, terms, span, w), n + 1)
<1>1. PICK N \in Nat : N = Len(tokens)
  OBVIOUS
<1>2. PICK v \in [left : 1..(N + 1), right : 1..(N + 1), found : BOOLEAN] : v = w
  BY <1>1 DEF WindowAt
<1> DEFINE covers(l, r) == Covers(text, tokens, terms, l, r)
           held(l, r) == Held(text, tokens, terms, span, l, r)
<1>0. PICK after : after = Slid(text, tokens, terms, span, w)
  OBVIOUS
<1> SUFFICES WindowAt(text, tokens, terms, span, after, n + 1)
  BY <1>0
<1>3. /\ v.left \in 1..(N + 1) /\ v.right \in 1..(N + 1) /\ v.found \in BOOLEAN
  OBVIOUS
<1>4. \A l, r \in Nat : held(l, r) <=> r < l + span /\ covers(l, r)
  BY DEF Held
<1>5. \A l, r \in Nat : covers(l, r) => l =< r
  BY CoversSomething
<1>6. \A a, b, c, d \in Nat : covers(b, c) /\ a =< b /\ c =< d => covers(a, d)
  BY CoversGrows
<1>7. ~v.found =>
        ((\E l, r \in 1..N : held(l, r)) =>
           \E l, r \in 1..N : l >= v.left /\ r >= v.right /\ held(l, r))
  BY <1>1, <1>2 DEF WindowAt
<1>8. v.found \/ v.right > N \/ v.left + v.right >= n + 2
  BY <1>1, <1>2 DEF WindowAt
<1>9. WindowAt(text, tokens, terms, span, after, n + 1) <=>
        /\ after \in [left : 1..(N + 1), right : 1..(N + 1), found : BOOLEAN]
        /\ after.found => after.left =< N /\ after.right =< N /\ held(after.left, after.right)
        /\ ~after.found =>
             ((\E l, r \in 1..N : held(l, r)) =>
                \E l, r \in 1..N : l >= after.left /\ r >= after.right /\ held(l, r))
        /\ after.found \/ after.right > N \/ after.left + after.right >= (n + 1) + 2
  BY <1>1 DEF WindowAt
<1>a. CASE v.found \/ v.right > N
  <2>1. after = v
    BY <1>0, <1>1, <1>2, <1>a DEF Slid
  <2>2. v.found => v.left =< N /\ v.right =< N /\ held(v.left, v.right)
    BY <1>1, <1>2 DEF WindowAt
  <2> HIDE DEF held, covers
  <2>q. QED
    BY <1>2, <1>7, <1>9, <1>a, <2>1, <2>2
<1>b. CASE ~v.found /\ v.right =< N /\ ~covers(v.left, v.right)
  <2>1. after = [v EXCEPT !.right = @ + 1]
    BY <1>0, <1>1, <1>2, <1>3, <1>b DEF Slid
  <2>2. after = [left |-> v.left, right |-> v.right + 1, found |-> FALSE]
    BY <1>b, <2>1
  <2> HIDE DEF held, covers
  <2>3. \A l, r \in 1..N : l >= v.left /\ r >= v.right /\ held(l, r) => r >= v.right + 1
    <3> SUFFICES ASSUME NEW l \in 1..N, NEW r \in 1..N, l >= v.left, r >= v.right, held(l, r)
                 PROVE  r >= v.right + 1
      OBVIOUS
    <3>1. ~(r =< v.right)
      BY <1>3, <1>4, <1>6, <1>b
    <3>q. QED
      BY <1>3, <3>1
  <2>4. after.left = v.left /\ after.right = v.right + 1 /\ after.found = FALSE
    BY <2>2
  <2>5. after \in [left : 1..(N + 1), right : 1..(N + 1), found : BOOLEAN]
    BY <1>3, <1>b, <2>2
  <2>6. (\E l, r \in 1..N : held(l, r)) =>
           \E l, r \in 1..N : l >= after.left /\ r >= after.right /\ held(l, r)
    BY <1>7, <1>b, <2>3, <2>4
  <2>7. after.left + after.right >= (n + 1) + 2
    BY <1>3, <1>8, <1>b, <2>4
  <2>q. QED
    BY <1>9, <2>4, <2>5, <2>6, <2>7
<1>c. CASE ~v.found /\ v.right =< N /\ covers(v.left, v.right) /\ covers(v.left + 1, v.right)
  <2>1. after = [v EXCEPT !.left = @ + 1]
    BY <1>0, <1>1, <1>2, <1>3, <1>c DEF Slid
  <2>2. after = [left |-> v.left + 1, right |-> v.right, found |-> FALSE]
    BY <1>c, <2>1
  <2> HIDE DEF held, covers
  <2>3. v.left + 1 =< v.right
    BY <1>3, <1>5, <1>c
  <2>4. after.left = v.left + 1 /\ after.right = v.right /\ after.found = FALSE
    BY <2>2
  <2>5. after \in [left : 1..(N + 1), right : 1..(N + 1), found : BOOLEAN]
    BY <1>3, <1>c, <2>2, <2>3
  <2>6. ASSUME NEW l \in 1..N, NEW r \in 1..N, l >= v.left, r >= v.right, held(l, r)
        PROVE  \E a, b \in 1..N : a >= after.left /\ b >= after.right /\ held(a, b)
    <3>1. CASE l = v.left
      <4>1. held(v.left + 1, v.right)
        BY <1>3, <1>4, <1>c, <2>6, <3>1
      <4>q. QED
        BY <1>3, <1>c, <2>3, <2>4, <4>1
    <3>2. CASE l >= v.left + 1
      BY <2>4, <2>6, <3>2
    <3>q. QED
      BY <1>3, <2>6, <3>1, <3>2
  <2>7. (\E l, r \in 1..N : held(l, r)) =>
           \E l, r \in 1..N : l >= after.left /\ r >= after.right /\ held(l, r)
    BY <1>7, <1>c, <2>6
  <2>8. after.left + after.right >= (n + 1) + 2
    BY <1>3, <1>8, <1>c, <2>4
  <2>q. QED
    BY <1>9, <2>4, <2>5, <2>7, <2>8
<1>d. CASE ~v.found /\ v.right =< N /\ covers(v.left, v.right) /\ ~covers(v.left + 1, v.right)
           /\ v.right - v.left + 1 =< span
  <2>1. after = [v EXCEPT !.found = TRUE]
    BY <1>0, <1>1, <1>2, <1>3, <1>d DEF Slid
  <2>2. after = [left |-> v.left, right |-> v.right, found |-> TRUE]
    BY <2>1
  <2> HIDE DEF held, covers
  <2>3. v.left =< v.right /\ v.right < v.left + span
    BY <1>3, <1>5, <1>d
  <2>4. held(v.left, v.right)
    BY <1>3, <1>4, <1>d, <2>3
  <2>5. after.left = v.left /\ after.right = v.right /\ after.found = TRUE
    BY <2>2
  <2>6. after \in [left : 1..(N + 1), right : 1..(N + 1), found : BOOLEAN]
    BY <1>3, <2>2
  <2>q. QED
    BY <1>3, <1>9, <1>d, <2>3, <2>4, <2>5, <2>6
<1>e. CASE ~v.found /\ v.right =< N /\ covers(v.left, v.right) /\ ~covers(v.left + 1, v.right)
           /\ ~(v.right - v.left + 1 =< span)
  <2>1. after = [v EXCEPT !.left = @ + 1]
    BY <1>0, <1>1, <1>2, <1>3, <1>e DEF Slid
  <2>2. after = [left |-> v.left + 1, right |-> v.right, found |-> FALSE]
    BY <1>e, <2>1
  <2> HIDE DEF held, covers
  <2>3. v.left =< v.right
    BY <1>3, <1>5, <1>e
  <2>4. after.left = v.left + 1 /\ after.right = v.right /\ after.found = FALSE
    BY <2>2
  <2>5. after \in [left : 1..(N + 1), right : 1..(N + 1), found : BOOLEAN]
    BY <1>3, <1>e, <2>2, <2>3
  <2>6. \A l, r \in 1..N : l >= v.left /\ r >= v.right /\ held(l, r) => l >= v.left + 1
    <3> SUFFICES ASSUME NEW l \in 1..N, NEW r \in 1..N, l >= v.left, r >= v.right, held(l, r)
                 PROVE  l >= v.left + 1
      OBVIOUS
    <3>1. r < l + span
      BY <1>4
    <3>q. QED
      BY <1>3, <1>e, <3>1
  <2>7. (\E l, r \in 1..N : held(l, r)) =>
           \E l, r \in 1..N : l >= after.left /\ r >= after.right /\ held(l, r)
    BY <1>7, <1>e, <2>4, <2>6
  <2>8. after.left + after.right >= (n + 1) + 2
    BY <1>3, <1>8, <1>e, <2>4
  <2>q. QED
    BY <1>9, <2>4, <2>5, <2>7, <2>8
<1>q. QED
  BY <1>3, <1>a, <1>b, <1>c, <1>d, <1>e
AreWindows(windows, text, tokens, terms, span, N) ==
  windows = [n \in 0..N |->
               IF n = 0 THEN [left |-> 1, right |-> 1, found |-> FALSE]
               ELSE Slid(text, tokens, terms, span, windows[n - 1])]

LEMMA WindowsExist ==
  ASSUME NEW text, NEW tokens, NEW terms, NEW span, NEW N \in Nat
  PROVE  \E windows : AreWindows(windows, text, tokens, terms, span, N)
<1> DEFINE Start == [left |-> 1, right |-> 1, found |-> FALSE]
           Body(g, n) == IF n = 0 THEN Start ELSE Slid(text, tokens, terms, span, g[n - 1])
           Good(n) == \E g : g = [m \in 0..n |-> Body(g, m)]
           Bad == {n \in Nat : ~Good(n)}
<1> HIDE DEF Start
<1>1. Good(0)
  <2>1. PICK g : g = [m \in 0..0 |-> Start]
    OBVIOUS
  <2>2. g = [m \in 0..0 |-> Body(g, m)]
    BY <2>1
  <2>q. QED
    BY <2>2
<1>2. ASSUME NEW n \in Nat, Good(n) PROVE Good(n + 1)
  <2>1. PICK g : g = [m \in 0..n |-> Body(g, m)]
    BY <1>2
  <2>2. PICK h : h = [m \in 0..(n + 1) |-> Body(g, m)]
    OBVIOUS
  <2>3. \A m \in 0..n : h[m] = g[m]
    BY <2>1, <2>2
  <2>4. \A m \in 0..(n + 1) : m # 0 => m - 1 \in 0..n
    OBVIOUS
  <2>5. \A m \in 0..(n + 1) : Body(h, m) = Body(g, m)
    BY <2>3, <2>4
  <2>6. h = [m \in 0..(n + 1) |-> Body(h, m)]
    BY <2>2, <2>5
  <2>q. QED
    BY <2>6
<1>3. Bad = {}
  <2> SUFFICES ASSUME Bad # {} PROVE FALSE
    OBVIOUS
  <2> HIDE DEF Good
  <2>1. PICK n \in Bad : \A m \in Bad : n <= m
    BY LeastNatural
  <2>2. n # 0 /\ n - 1 \in Nat
    BY <1>1, <2>1
  <2>3. Good(n - 1)
    BY <2>1, <2>2
  <2>4. Good((n - 1) + 1)
    BY <1>2, <2>2, <2>3
  <2>5. (n - 1) + 1 = n
    BY <2>2
  <2>6. Good(n)
    BY <2>4, <2>5
  <2> QED BY <2>1, <2>6
<1>4. Good(N)
  BY <1>3
<1>q. QED
  BY <1>4 DEF AreWindows, Start

LEMMA GroupMatchFindsWindows ==
  ASSUME NEW text, NEW tokens, NEW terms, terms # {}, NEW span \in Nat, Len(tokens) \in Nat
  PROVE  GroupMatch(text, tokens, terms, span) # NoPlace <=>
           \E l, r \in 1..Len(tokens) : Held(text, tokens, terms, span, l, r)
<1>0. PICK N \in Nat : N = Len(tokens)
  OBVIOUS
<1> DEFINE windows == CHOOSE m : AreWindows(m, text, tokens, terms, span, 2 * Len(tokens))
           Fine(n) == WindowAt(text, tokens, terms, span, windows[n], n)
           Bad == {n \in 0..(2 * N) : ~Fine(n)}
           start == [left |-> 1, right |-> 1, found |-> FALSE]
<1>1. AreWindows(windows, text, tokens, terms, span, 2 * Len(tokens))
  BY WindowsExist
<1>2. GroupMatch(text, tokens, terms, span)
        = IF windows[2 * Len(tokens)].found
          THEN <<tokens[windows[2 * Len(tokens)].left], tokens[windows[2 * Len(tokens)].right]>>
          ELSE NoPlace
  BY DEF GroupMatch, AreWindows
<1> HIDE DEF windows
<1>3. Fine(0)
  <2>1. windows[0] = start
    BY <1>1 DEF AreWindows
  <2>2. WindowAt(text, tokens, terms, span, start, 0)
    BY <1>0 DEF WindowAt
  <2> HIDE DEF start
  <2>q. QED
    BY <2>1, <2>2
<1>4. ASSUME NEW n \in 1..(2 * N), Fine(n - 1) PROVE Fine(n)
  <2>1. windows[n] = Slid(text, tokens, terms, span, windows[n - 1])
    <3>1. n \in 0..(2 * Len(tokens)) /\ n # 0
      BY <1>0
    <3> DEFINE step(m) == Slid(text, tokens, terms, span, windows[m - 1])
    <3>2. windows = [m \in 0..(2 * Len(tokens)) |-> IF m = 0 THEN start ELSE step(m)]
      BY <1>1 DEF AreWindows
    <3> HIDE DEF step, start
    <3>3. windows[n] = step(n)
      BY <3>1, <3>2
    <3>q. QED
      BY <3>3 DEF step
  <2>2. n - 1 \in Nat /\ (n - 1) + 1 = n
    OBVIOUS
  <2>3. WindowAt(text, tokens, terms, span, windows[n], (n - 1) + 1)
    BY <1>4, <2>1, <2>2, SlideKeeps
  <2>q. QED
    BY <2>2, <2>3
<1>5. Bad = {}
  <2> SUFFICES ASSUME Bad # {} PROVE FALSE
    OBVIOUS
  <2> HIDE DEF Fine
  <2>1. Bad \in SUBSET Nat
    OBVIOUS
  <2>2. PICK n \in Bad : \A m \in Bad : n <= m
    BY <2>1, LeastNatural
  <2>3. n # 0 /\ n \in 1..(2 * N) /\ n - 1 \in 0..(2 * N)
    BY <1>3, <2>2
  <2>4. Fine(n - 1)
    BY <2>2, <2>3
  <2>5. Fine(n)
    BY <1>4, <2>3, <2>4
  <2>q. QED
    BY <2>2, <2>5
<1>6. PICK w : w = windows[2 * N]
  OBVIOUS
<1>7. WindowAt(text, tokens, terms, span, w, 2 * N)
  BY <1>5, <1>6
<1>8. /\ w.left \in 1..(N + 1) /\ w.right \in 1..(N + 1) /\ w.found \in BOOLEAN
      /\ w.found => w.left =< N /\ w.right =< N /\ Held(text, tokens, terms, span, w.left, w.right)
      /\ ~w.found =>
           ((\E l, r \in 1..N : Held(text, tokens, terms, span, l, r)) =>
              \E l, r \in 1..N :
                 l >= w.left /\ r >= w.right /\ Held(text, tokens, terms, span, l, r))
      /\ w.found \/ w.right > N \/ w.left + w.right >= 2 * N + 2
  BY <1>0, <1>7 DEF WindowAt
<1>9. w.found <=> \E l, r \in 1..N : Held(text, tokens, terms, span, l, r)
  BY <1>8
<1>10. GroupMatch(text, tokens, terms, span) # NoPlace <=> w.found
  <2>1. <<tokens[w.left], tokens[w.right]>> # <<>>
    OBVIOUS
  <2>q. QED
    BY <1>0, <1>2, <1>6, <2>1 DEF NoPlace
<1>q. QED
  BY <1>0, <1>9, <1>10

(* What the property asks of a group.                                      *)
LEMMA ProximityMatchFindsWindows ==
  ASSUME NEW text, Len(text) \in Nat, NEW group, Terms(group) # {}, Window \in Nat
  PROVE  ProximityMatch(text, group) # NoPlace <=>
           \E left, right \in DOMAIN Tokens(text) :
             right < left + Window /\ Covers(text, Tokens(text), Terms(group), left, right)
<1>1. Tokens(text) \in Seq(Nat)
  BY TokensAreASequence
<1>2. PICK tokens \in Seq(Nat) : tokens = Tokens(text)
  BY <1>1
<1>3. Len(tokens) \in Nat /\ DOMAIN tokens = 1..Len(tokens)
  OBVIOUS
<1>4. GroupMatch(text, tokens, Terms(group), Window) # NoPlace <=>
        \E l, r \in 1..Len(tokens) : Held(text, tokens, Terms(group), Window, l, r)
  BY <1>3, GroupMatchFindsWindows
<1>q. QED
  BY <1>2, <1>3, <1>4 DEF ProximityMatch, Held
-----------------------------------------------------------------------------
(* The groups a judgement reports are those some window holds.             *)

LEMMA TermsOfAGroup ==
  ASSUME NEW g, GuardValid(g), NEW group \in Groups(g)
  PROVE  Terms(group) # {}
<1>1. Cardinality(group) > 1 /\ Cardinality(Terms(group)) = Cardinality(group)
  BY DEF GuardValid
<1>2. Cardinality({}) = 0
  BY FS_EmptySet
<1>q. QED
  BY <1>1, <1>2

IsReported(text, c, gs, g, group) ==
  \E f \in Deterministic(text, c, gs) :
    f.rule = "restricted.proximity" /\ f.evidence = <<g.key, Terms(group)>>

LEMMA ProximityFindings ==
  ASSUME NEW text, NEW c, NEW gs, \A d \in c.demands : d.kind \in Kinds, GuardsValid(gs),
         NEW g \in gs, NEW group \in g.near
  PROVE  IsReported(text, c, gs, g, group) <=> ProximityMatch(text, group) # NoPlace
<1>1. ASSUME NEW f \in Deterministic(text, c, gs),
             f.rule = "restricted.proximity", f.evidence = <<g.key, Terms(group)>>
      PROVE  ProximityMatch(text, group) # NoPlace
  <2>1. \A rule, evidence, place, of :
          /\ Finding(rule, evidence, place, of).rule = rule
          /\ Finding(rule, evidence, place, of).evidence = evidence
    BY DEF Finding
  <2>2. f \notin StructuralFindings(text, c)
    <3> SUFFICES ASSUME f \in StructuralFindings(text, c) PROVE FALSE
      OBVIOUS
    <3>1. \A kind \in Kinds : \A rule \in {"action", Semantic[kind], kind} :
            rule # "restricted.proximity"
      BY DEF Kinds, Semantic
    <3>2. CASE \E evidence : \E rule \in {"empty", "length"} : f = Finding(rule, evidence, NoPlace, {})
      BY <1>1, <2>1, <3>2
    <3>3. CASE ~\E evidence : \E rule \in {"empty", "length"} : f = Finding(rule, evidence, NoPlace, {})
      <4>1. PICK d \in c.demands : \E evidence, place :
                \E rule \in {"action", Semantic[d.kind], d.kind} :
                  f = Finding(rule, evidence, place, {})
        BY <3>3, StructuralShape
      <4>q. QED
        BY <1>1, <2>1, <3>1, <4>1
    <3>q. QED
      BY <3>2, <3>3
  <2>3. PICK h \in gs : f \in GuardFindings(text, h)
    BY <2>2 DEF Deterministic
  <2>4. f # Finding("restricted.semantic_gap", <<h.key>>, NoPlace, {})
    BY <1>1, <2>1
  <2>5. f \in RestrictedFindings(text, h)
    BY <2>3, <2>4 DEF GuardFindings
  <2>6. ASSUME NEW mode, NEW phrases, f \in Lexical(text, h, mode, phrases),
               mode # "restricted.proximity"
        PROVE  FALSE
    <3>1. PICK p \in phrases :
            f = Finding(mode, <<h.key, mode, Normalized(p)>>, PhraseMatch(text, Normalized(p)), {p})
      <4>1. \A e \in Lexical(text, h, mode, phrases) : \E p \in phrases :
              e = Finding(mode, <<h.key, mode, Normalized(p)>>, PhraseMatch(text, Normalized(p)), {p})
        BY LexicalShape
      <4>q. QED
        BY <2>6, <4>1
    <3>2. f.rule = mode
      BY <2>1, <3>1
    <3>q. QED
      BY <1>1, <2>6, <3>2
  <2>7. /\ f \notin Lexical(text, h, "restricted.exact", h.exact)
        /\ f \notin Lexical(text, h, "restricted.alias", h.alias)
    BY <2>6
  <2>8. ASSUME NEW other \in h.together,
               f = Finding("restricted.co_occurrence", <<h.key, Terms(other)>>,
                           SentenceMatch(text, Terms(other)), other)
        PROVE  FALSE
    <3>1. f.rule = "restricted.co_occurrence"
      BY <2>1, <2>8
    <3>q. QED
      BY <1>1, <3>1
  <2>9. PICK other \in h.near :
          /\ ProximityMatch(text, other) # NoPlace
          /\ f = Finding("restricted.proximity", <<h.key, Terms(other)>>,
                         ProximityMatch(text, other), other)
    BY <2>5, <2>7, <2>8, RestrictedShape
  <2>10. h.key = g.key /\ Terms(other) = Terms(group)
    BY <1>1, <2>1, <2>9
  <2>11. h = g
    BY <2>10 DEF GuardsValid
  <2>12. other = group
    BY <2>10, <2>11 DEF GuardsValid, GuardValid
  <2>q. QED
    BY <2>9, <2>12
<1>2. ASSUME ProximityMatch(text, group) # NoPlace
      PROVE  \E f \in Deterministic(text, c, gs) :
               f.rule = "restricted.proximity" /\ f.evidence = <<g.key, Terms(group)>>
  <2> DEFINE f == Finding("restricted.proximity", <<g.key, Terms(group)>>,
                          ProximityMatch(text, group), group)
  <2>1. f.rule = "restricted.proximity" /\ f.evidence = <<g.key, Terms(group)>>
    BY DEF Finding
  <2>2. f \in RestrictedFindings(text, g)
    BY <1>2 DEF RestrictedFindings
  <2>3. f \in GuardFindings(text, g)
    BY <2>2 DEF GuardFindings
  <2> HIDE DEF f
  <2>4. f \in Deterministic(text, c, gs)
    BY <2>3 DEF Deterministic
  <2>q. QED
    BY <2>1, <2>4
<1>q. QED
  BY <1>1, <1>2 DEF IsReported

LEMMA AssumedOfInputs ==
  /\ Window \in Nat
  /\ \A text \in Proses : Len(text) \in Nat
  /\ \A c \in Contracts : \A d \in c.demands : d.kind \in Kinds
  /\ \A gs \in GuardSets : \A g \in gs : IsFiniteSet(g.exact \cup g.alias)
  /\ \A f \in Opinions : FromModel(f)
<1>1. \A text \in Proses : text \in Seq(DOMAIN Normal)
  BY JudgingAssumption
<1>2. \A text \in Proses : Len(text) \in Nat
  BY <1>1
<1>q. QED
  BY <1>2, JudgingAssumption DEF Kinds, FromModel

LEMMA InvImpliesJudgement ==
  ASSUME JudgingInv, report # Unreported
  PROVE  JudgementIsOfTheText
<1>1. PICK text \in Proses : text = prose
  BY DEF JudgingInv, JudgingTypes
<1>2. PICK c \in Contracts : c = contract
  BY DEF JudgingInv, JudgingTypes
<1>3. PICK gs \in GuardSets : gs = guards
  BY DEF JudgingInv, JudgingTypes
<1>4. PICK said \in Seq(Opinions) : said = opinions
  BY DEF JudgingInv, JudgingTypes
<1>5. PICK found : found = Deterministic(text, c, gs)
  OBVIOUS
<1>6. PICK merged : merged = Merged(found, said)
  OBVIOUS
<1>7. PICK spoken : spoken = {said[k] : k \in DOMAIN said}
  OBVIOUS
<1>8. Said = spoken
  BY <1>4, <1>7 DEF Said
<1>9. Refusable <=> ~(ContractValid(c) /\ GuardsValid(gs))
  <2>1. GuardsValid(gs) => ~Collides(found)
    BY <1>5, AssumedOfInputs, ValidInputDoesNotCollide
  <2>q. QED
    BY <1>1, <1>2, <1>3, <1>5, <2>1 DEF Refusable
<1>10. \/ report = Refused /\ Refusable
       \/ ~Refusable /\ report.state = "reported" /\ report.findings = merged
                     /\ report.passed = Passed(merged)
  BY <1>1, <1>2, <1>3, <1>4, <1>5, <1>6 DEF JudgingInv, ReportIsJudgement
<1>11. report.state = "refused" <=> Refusable
  BY <1>10 DEF Refused
<1>12. ASSUME report.state = "reported"
       PROVE  /\ \A g \in gs : ReportedGroups(report.findings, g) = NearGroups(text, g)
              /\ {FindingKey(f) : f \in report.findings} = {FindingKey(f) : f \in found \cup spoken}
              /\ \A f, g \in report.findings : FindingKey(f) = FindingKey(g) => f = g
              /\ \A f \in report.findings :
                   \/ f \in found
                   \/ \A g \in spoken : FindingKey(g) = FindingKey(f) =>
                        /\ SeverityRank[g.severity] =< SeverityRank[f.severity]
                        /\ g.severity = f.severity => f.code =< g.code
              /\ report.passed <=> ~\E f \in report.findings : f.severity = "blocking"
  <2>1. /\ ContractValid(c) /\ GuardsValid(gs)
        /\ report.findings = merged /\ report.passed = Passed(merged)
    BY <1>9, <1>10, <1>12 DEF Refused
  <2>2. \A f \in found : f.source = "deterministic"
    BY <1>5, DeterministicFindings
  <2>3. ~Collides(found)
    BY <1>5, <2>1, AssumedOfInputs, ValidInputDoesNotCollide
  <2>4. IsMergeOf(merged, found, spoken)
    BY <1>6, <1>7, <2>2, <2>3, AssumedOfInputs, MergedIsAMerge
  <2>5. \A f \in spoken : f.source = "model"
    BY <1>7, SaidIsFinite, AssumedOfInputs DEF FromModel
  <2>6. ASSUME NEW g \in gs, NEW group \in g.near
        PROVE  (\E f \in merged : /\ f.source = "deterministic" /\ f.rule = "restricted.proximity"
                                  /\ f.evidence = <<g.key, Terms(group)>>)
               <=> \E left, right \in DOMAIN Tokens(text) :
                     right < left + Window
                     /\ Covers(text, Tokens(text), Terms(group), left, right)
    <3>0. found \subseteq merged /\ merged \subseteq found \cup spoken
      BY <2>4 DEF IsMergeOf
    <3>1. (\E f \in merged : /\ f.source = "deterministic" /\ f.rule = "restricted.proximity"
                             /\ f.evidence = <<g.key, Terms(group)>>)
          <=> \E f \in found : f.rule = "restricted.proximity" /\ f.evidence = <<g.key, Terms(group)>>
      BY <2>2, <2>5, <3>0
    <3>2. (\E f \in found : f.rule = "restricted.proximity" /\ f.evidence = <<g.key, Terms(group)>>)
          <=> ProximityMatch(text, group) # NoPlace
      <4>1. \A d \in c.demands : d.kind \in Kinds
        BY AssumedOfInputs
      <4>2. IsReported(text, c, gs, g, group) <=> ProximityMatch(text, group) # NoPlace
        BY <2>1, <4>1, ProximityFindings
      <4>q. QED
        BY <1>5, <4>2 DEF IsReported
    <3>3. Terms(group) # {}
      BY <2>1, TermsOfAGroup DEF GuardsValid, Groups
    <3>4. Len(text) \in Nat /\ Window \in Nat
      BY AssumedOfInputs
    <3>5. ProximityMatch(text, group) # NoPlace <=>
            \E left, right \in DOMAIN Tokens(text) :
              right < left + Window
              /\ Covers(text, Tokens(text), Terms(group), left, right)
      BY <3>3, <3>4, ProximityMatchFindsWindows
    <3>q. QED
      BY <3>1, <3>2, <3>5
  <2>7. {FindingKey(f) : f \in merged} = {FindingKey(f) : f \in found \cup spoken}
    <3>1. merged \subseteq found \cup spoken
      BY <2>4 DEF IsMergeOf
    <3>2. \A f \in found \cup spoken : \E g \in merged : FindingKey(g) = FindingKey(f)
      BY <2>4 DEF IsMergeOf
    <3>q. QED
      BY <3>1, <3>2
  <2>8. \A f, g \in merged : FindingKey(f) = FindingKey(g) => f = g
    BY <2>4 DEF IsMergeOf
  <2>9. \A f \in merged :
          \/ f \in found
          \/ \A g \in spoken : FindingKey(g) = FindingKey(f) =>
               /\ SeverityRank[g.severity] =< SeverityRank[f.severity]
               /\ g.severity = f.severity => f.code =< g.code
    BY <2>4 DEF IsMergeOf, Outweighs
  <2>10. Passed(merged) <=> ~\E f \in merged : f.severity = "blocking"
    BY DEF Passed
  <2>11. \A g \in gs : ReportedGroups(merged, g) = NearGroups(text, g)
    BY <2>6 DEF ReportedGroups, NearGroups
  <2>q. QED
    BY <2>1, <2>7, <2>8, <2>9, <2>10, <2>11, Zenon
<1>13. report.state = "refused" <=> ~(ContractValid(c) /\ GuardsValid(gs))
  BY <1>9, <1>11
<1>14. report.state = "refused" <=> ~(ContractValid(contract) /\ GuardsValid(guards))
  BY <1>2, <1>3, <1>13
<1>15. report.state = "reported" =>
         /\ \A g \in guards : ReportedGroups(report.findings, g) = NearGroups(prose, g)
         /\ {FindingKey(f) : f \in report.findings}
              = {FindingKey(f) : f \in Deterministic(prose, contract, guards) \cup Said}
         /\ \A f, g \in report.findings : FindingKey(f) = FindingKey(g) => f = g
         /\ \A f \in report.findings :
              \/ f \in Deterministic(prose, contract, guards)
              \/ \A g \in Said : FindingKey(g) = FindingKey(f) =>
                   /\ SeverityRank[g.severity] =< SeverityRank[f.severity]
                   /\ g.severity = f.severity => f.code =< g.code
         /\ report.passed <=> ~\E f \in report.findings : f.severity = "blocking"
  BY <1>1, <1>2, <1>3, <1>5, <1>8, <1>12
<1>q. QED
  BY <1>14, <1>15 DEF JudgementIsOfTheText

(* A report says of the text what there is to say, in whatever order the   *)
(* model found it and wherever the window of a group went.                 *)
THEOREM ReportsAreOfTheText == JudgingSpec => []JudgementIsOfTheText
<1>1. JudgingInv => JudgementIsOfTheText
  <2>1. CASE report = Unreported
    BY <2>1 DEF JudgementIsOfTheText
  <2>q. QED
    BY <2>1, InvImpliesJudgement
<1>q. QED
  BY <1>1, JudgingInvariant, PTL

-----------------------------------------------------------------------------
(* Narrative: places in the story are in one order.                        *)

Places == Nat \X Int \X Nat

LEMMA PlacesInOneOrder ==
  /\ \A p \in Places : ~LiesBefore(p, p)
  /\ \A p, q \in Places : LiesBefore(p, q) \/ LiesBefore(q, p) \/ p = q
  /\ \A p, q, r \in Places : LiesBefore(p, q) /\ LiesBefore(q, r) => LiesBefore(p, r)
<1>1. ASSUME NEW p \in Places PROVE ~LiesBefore(p, p)
  BY DEF LiesBefore, Places
<1>2. ASSUME NEW p \in Places, NEW q \in Places
      PROVE  LiesBefore(p, q) \/ LiesBefore(q, p) \/ p = q
  <2>1. p = <<p[1], p[2], p[3]>> /\ q = <<q[1], q[2], q[3]>>
    BY DEF Places
  <2>2. p[1] \in Nat /\ p[2] \in Int /\ p[3] \in Nat /\ q[1] \in Nat /\ q[2] \in Int /\ q[3] \in Nat
    BY DEF Places
  <2>q. QED
    BY <2>1, <2>2 DEF LiesBefore
<1>3. ASSUME NEW p \in Places, NEW q \in Places, NEW r \in Places,
             LiesBefore(p, q), LiesBefore(q, r)
      PROVE  LiesBefore(p, r)
  <2>1. /\ p[1] \in Nat /\ p[2] \in Int /\ p[3] \in Nat /\ q[1] \in Nat /\ q[2] \in Int
        /\ q[3] \in Nat /\ r[1] \in Nat /\ r[2] \in Int /\ r[3] \in Nat
    BY DEF Places
  <2>q. QED
    BY <1>3, <2>1 DEF LiesBefore
<1>q. QED
  BY <1>1, <1>2, <1>3

(* Of finitely many of them, the first is the one none lies before.        *)
LEMMA FirstPlace ==
  ASSUME NEW S \in SUBSET (Nat \X Nat \X Nat), S # {}
  PROVE  \E p \in S : \A q \in S : ~LiesBefore(q, p)
<1>0. \A p \in S : p[1] \in Nat /\ p[2] \in Nat /\ p[3] \in Nat
  OBVIOUS
<1> DEFINE A == {p[1] : p \in S}
<1>1. A \in SUBSET Nat /\ A # {}
  BY <1>0
<1>2. PICK a \in A : \A m \in A : a <= m
  BY <1>1, LeastNatural
<1> DEFINE T == {p \in S : p[1] = a}
           B == {p[2] : p \in T}
<1>3. B \in SUBSET Nat /\ B # {}
  BY <1>0
<1>4. PICK b \in B : \A m \in B : b <= m
  BY <1>3, LeastNatural
<1> DEFINE U == {p \in T : p[2] = b}
           C == {p[3] : p \in U}
<1>5. C \in SUBSET Nat /\ C # {}
  BY <1>0
<1>6. PICK c \in C : \A m \in C : c <= m
  BY <1>5, LeastNatural
<1>7. PICK p \in U : p[3] = c
  OBVIOUS
<1>8. ASSUME NEW q \in S PROVE ~LiesBefore(q, p)
  <2>1. a <= q[1] /\ (q[1] = a => b <= q[2]) /\ (q[1] = a /\ q[2] = b => c <= q[3])
    BY <1>2, <1>4, <1>6
  <2>2. p[1] = a /\ p[2] = b /\ p[3] = c /\ a \in Nat /\ b \in Nat /\ c \in Nat
    BY <1>0, <1>7
  <2> HIDE DEF A, B, C, T, U
  <2>q. QED
    BY <1>0, <2>1, <2>2 DEF LiesBefore
<1>q. QED
  BY <1>7, <1>8

-----------------------------------------------------------------------------
(* What the reveal policy makes of a schedule.                             *)

LEMMA ReadyIsAccepted ==
  ASSUME NEW s, s.crumbs \in Seq(Positions), ValidBreadcrumbSchedule(s)
  PROVE  RevealAccepted(s)
<1>1. \A i \in DOMAIN s.crumbs : \A j \in 1..(i - 1) : j \in DOMAIN s.crumbs \ {i}
  OBVIOUS
<1>q. QED
  BY <1>1 DEF ValidBreadcrumbSchedule, RevealAccepted

(* What is decided at a place, place by place.                             *)
LEMMA Guidance ==
  ASSUME NEW s, s.crumbs \in Seq(Positions), s.target \in Positions \cup {Nowhere},
         ValidBreadcrumbSchedule(s), NEW here \in Positions
  PROVE  LET d == DecideReveal(s, here)
             first == CHOOSE p \in Range(s.crumbs) : \A q \in Range(s.crumbs) : ~LiesBefore(q, p)
         IN /\ d.status = "reveal_due" <=> here = s.target
            /\ d.status = "revealed" <=> LiesBefore(s.target, here)
            /\ d.status = "breadcrumb_due" <=> here \in Range(s.crumbs)
            /\ d.status = "before_breadcrumb" <=> LiesBefore(here, first)
            /\ d.status \in {"reveal_due", "revealed", "breadcrumb_due", "before_breadcrumb", "hold"}
            /\ d.given = {i \in DOMAIN s.crumbs : s.crumbs[i] = here}
<1> DEFINE d == DecideReveal(s, here)
           first == CHOOSE p \in Range(s.crumbs) : \A q \in Range(s.crumbs) : ~LiesBefore(q, p)
           due == {i \in DOMAIN s.crumbs : s.crumbs[i] = here}
<1>0. Positions \subseteq Places /\ Positions \subseteq Nat \X Nat \X Nat
  BY NarrativeAssumption DEF Places
<1>1. s.target \in Positions /\ s.crumbs # <<>>
  BY DEF ValidBreadcrumbSchedule
<1>2. Range(s.crumbs) \subseteq Positions /\ Range(s.crumbs) # {}
  <2>1. PICK crumbs \in Seq(Positions) : crumbs = s.crumbs
    OBVIOUS
  <2>2. crumbs # <<>> => 1 \in DOMAIN crumbs
    OBVIOUS
  <2>3. \A i \in DOMAIN crumbs : crumbs[i] \in Positions
    OBVIOUS
  <2>q. QED
    BY <1>1, <2>1, <2>2, <2>3 DEF Range
<1>3. due # {} <=> here \in Range(s.crumbs)
  BY DEF Range
<1>4. \A p \in Range(s.crumbs) : LiesBefore(p, s.target)
  BY DEF ValidBreadcrumbSchedule, Range
<1>5. first \in Range(s.crumbs) /\ \A q \in Range(s.crumbs) : ~LiesBefore(q, first)
  BY <1>0, <1>2, FirstPlace
<1>6. /\ d.given = due
      /\ d.status = CASE here = s.target -> "reveal_due"
                      [] LiesBefore(s.target, here) -> "revealed"
                      [] due # {} -> "breadcrumb_due"
                      [] s.crumbs # <<>> /\ LiesBefore(here, first) -> "before_breadcrumb"
                      [] OTHER -> "hold"
  BY DEF DecideReveal
<1> HIDE DEF d, first, due
<1>7. here = s.target => ~LiesBefore(s.target, here) /\ here \notin Range(s.crumbs)
  BY <1>0, <1>1, <1>4, PlacesInOneOrder
<1>8. LiesBefore(s.target, here) => here \notin Range(s.crumbs) /\ here # s.target
  BY <1>0, <1>1, <1>4, PlacesInOneOrder
<1>9. LiesBefore(here, first) => LiesBefore(here, s.target) /\ here \notin Range(s.crumbs)
  BY <1>0, <1>1, <1>2, <1>4, <1>5, PlacesInOneOrder
<1>10. LiesBefore(here, s.target) => here # s.target /\ ~LiesBefore(s.target, here)
  BY <1>0, <1>1, PlacesInOneOrder
<1>q. QED
  BY <1>1, <1>3, <1>6, <1>7, <1>8, <1>9, <1>10 DEF d, first, due

LEMMA ReadyScheduleGuides ==
  ASSUME NEW s, s.crumbs \in Seq(Positions), s.target \in Positions \cup {Nowhere},
         ValidBreadcrumbSchedule(s)
  PROVE  /\ RevealAccepted(s)
         /\ \A p \in Positions :
              /\ Range(s.crumbs) \cap {p} # {} <=> DecideReveal(s, p).status = "breadcrumb_due"
              /\ Cardinality(DecideReveal(s, p).given) =< 1
         /\ \A p, q \in Positions : LiesBefore(p, q) =>
              GuidanceRank[DecideReveal(s, p).status] =< GuidanceRank[DecideReveal(s, q).status]
<1> DEFINE first == CHOOSE p \in Range(s.crumbs) : \A q \in Range(s.crumbs) : ~LiesBefore(q, p)
<1>0. Positions \subseteq Places /\ s.target \in Positions
  BY NarrativeAssumption DEF Places, ValidBreadcrumbSchedule
<1>1. PICK status : status = [p \in Positions |-> DecideReveal(s, p).status]
  OBVIOUS
<1>2. ASSUME NEW p \in Positions
      PROVE  /\ status[p] = DecideReveal(s, p).status
             /\ status[p] = "reveal_due" <=> p = s.target
             /\ status[p] = "revealed" <=> LiesBefore(s.target, p)
             /\ status[p] = "breadcrumb_due" <=> p \in Range(s.crumbs)
             /\ status[p] = "before_breadcrumb" <=> LiesBefore(p, first)
             /\ status[p] \in {"reveal_due", "revealed", "breadcrumb_due", "before_breadcrumb", "hold"}
             /\ DecideReveal(s, p).given = {i \in DOMAIN s.crumbs : s.crumbs[i] = p}
  BY <1>1, Guidance
<1>3. first \in Range(s.crumbs) /\ Range(s.crumbs) \subseteq Positions
  <2>1. PICK crumbs \in Seq(Positions) : crumbs = s.crumbs
    OBVIOUS
  <2>2. crumbs # <<>> => 1 \in DOMAIN crumbs
    OBVIOUS
  <2>3. \A i \in DOMAIN crumbs : crumbs[i] \in Positions
    OBVIOUS
  <2>4. Range(s.crumbs) \subseteq Positions /\ Range(s.crumbs) # {}
    BY <2>1, <2>2, <2>3 DEF Range, ValidBreadcrumbSchedule
  <2>5. Range(s.crumbs) \in SUBSET (Nat \X Nat \X Nat)
    BY <2>4, NarrativeAssumption
  <2>q. QED
    BY <2>4, <2>5, FirstPlace
<1> HIDE DEF first
<1>4. ASSUME NEW p \in Positions PROVE Cardinality(DecideReveal(s, p).given) =< 1
  <2>1. PICK given : given = {i \in DOMAIN s.crumbs : s.crumbs[i] = p}
    OBVIOUS
  <2>2. \A i, j \in given : i = j
    BY <2>1 DEF ValidBreadcrumbSchedule
  <2>a. DecideReveal(s, p).given = given
    BY <1>2, <2>1
  <2>3. CASE given = {}
    BY <2>a, <2>3, FS_EmptySet
  <2>4. CASE given # {}
    <3>1. PICK i \in given : TRUE
      BY <2>4
    <3>2. given = {i}
      BY <2>2, <3>1
    <3>3. Cardinality({i}) = 1
      BY FS_Singleton
    <3>q. QED
      BY <2>a, <3>2, <3>3
  <2>q. QED
    BY <2>3, <2>4
<1>5. ASSUME NEW p \in Positions, NEW q \in Positions, LiesBefore(p, q)
      PROVE  GuidanceRank[status[p]] =< GuidanceRank[status[q]]
  <2>1. status[p] \in {"reveal_due", "revealed", "breadcrumb_due", "before_breadcrumb", "hold"}
        /\ status[q] \in {"reveal_due", "revealed", "breadcrumb_due", "before_breadcrumb", "hold"}
    BY <1>2
  <2>2. status[p] = "revealed" => status[q] = "revealed"
    BY <1>0, <1>2, <1>5, PlacesInOneOrder
  <2>3. status[p] = "reveal_due" => status[q] = "revealed"
    BY <1>0, <1>2, <1>5, PlacesInOneOrder
  <2>4. status[q] = "before_breadcrumb" => status[p] = "before_breadcrumb"
    BY <1>0, <1>2, <1>3, <1>5, PlacesInOneOrder
  <2>q. QED
    BY <2>1, <2>2, <2>3, <2>4 DEF GuidanceRank
<1>6. RevealAccepted(s)
  BY ReadyIsAccepted
<1>7. \A p \in Positions :
        Range(s.crumbs) \cap {p} # {} <=> DecideReveal(s, p).status = "breadcrumb_due"
  BY <1>2
<1>8. \A p, q \in Positions : LiesBefore(p, q) =>
        GuidanceRank[DecideReveal(s, p).status] =< GuidanceRank[DecideReveal(s, q).status]
  BY <1>2, <1>5
<1>q. QED
  BY <1>4, <1>6, <1>7, <1>8

-----------------------------------------------------------------------------
(* Readiness: the weights are the most that can be earned, and they are    *)
(* 100 together.                                                           *)

LEMMA EarnedOfAKey ==
  ASSUME NEW f, NEW s, NEW n \in 1..9
  PROVE  Earned(f, s, Order[n]) \in 0..Weight[Order[n]]
<1> DEFINE ofMain == IF f.active THEN f.written \cap {"identity", "goal", "motivation"} ELSE {}
<1>1. Cardinality(ofMain) \in 0..3
  <2>1. IsFiniteSet({"identity", "goal", "motivation"})
        /\ Cardinality({"identity", "goal", "motivation"}) =< 3
    <3>1. IsFiniteSet({"identity"}) /\ Cardinality({"identity"}) = 1
      BY FS_Singleton
    <3>2. IsFiniteSet({"identity"} \cup {"goal"}) /\ Cardinality({"identity"} \cup {"goal"}) = 2
      BY <3>1, FS_AddElement
    <3>3. /\ IsFiniteSet(({"identity"} \cup {"goal"}) \cup {"motivation"})
          /\ Cardinality(({"identity"} \cup {"goal"}) \cup {"motivation"}) = 3
      BY <3>2, FS_AddElement
    <3>4. {"identity", "goal", "motivation"} = ({"identity"} \cup {"goal"}) \cup {"motivation"}
      OBVIOUS
    <3>q. QED
      BY <3>3, <3>4
  <2>2. PICK three : three = {"identity", "goal", "motivation"}
    OBVIOUS
  <2>3. ofMain \in SUBSET three
    BY <2>2
  <2> HIDE DEF ofMain
  <2>4. IsFiniteSet(ofMain) /\ Cardinality(ofMain) =< Cardinality(three)
    BY <2>1, <2>2, <2>3, FS_Subset
  <2>5. Cardinality(ofMain) \in Nat /\ Cardinality(three) \in Nat
    BY <2>1, <2>2, <2>4, FS_CardinalityType
  <2>q. QED
    BY <2>1, <2>2, <2>4, <2>5
<1>2. SecretScore(s) \in 0..10
  BY DEF SecretScore
<1>3. Order[n] \in {"core_concept", "main_character", "main_relationship", "conflict",
           "ending_direction", "reader_promise", "character_address", "speech_style",
           "secret_schedule"}
  BY DEF Order
<1>4. Earned(f, s, "main_character") = 5 * Cardinality(ofMain)
  BY DEF Earned
<1>5. Earned(f, s, "secret_schedule") = SecretScore(s)
  BY DEF Earned
<1>6. \A key \in {"core_concept", "main_relationship", "conflict", "ending_direction",
                  "reader_promise", "character_address", "speech_style"} :
        Earned(f, s, key) = Weight[key] \/ Earned(f, s, key) = 0
  BY DEF Earned
<1> HIDE DEF ofMain
<1>q. QED
  BY <1>1, <1>2, <1>3, <1>4, <1>5, <1>6 DEF Weight

AreSums(sum, f, s) ==
  sum = [n \in 0..9 |-> IF n = 0 THEN 0 ELSE sum[n - 1] + Earned(f, s, Order[n])]

LEMMA SumsExist ==
  ASSUME NEW f, NEW s
  PROVE  \E sum : AreSums(sum, f, s)
<1> DEFINE Body(g, n) == IF n = 0 THEN 0 ELSE g[n - 1] + Earned(f, s, Order[n])
           Good(n) == \E g : g = [m \in 0..n |-> Body(g, m)]
           Bad == {n \in Nat : ~Good(n)}
<1>1. Good(0)
  <2>1. PICK g : g = [m \in 0..0 |-> 0]
    OBVIOUS
  <2>2. g = [m \in 0..0 |-> Body(g, m)]
    BY <2>1
  <2>q. QED
    BY <2>2
<1>2. ASSUME NEW n \in Nat, Good(n) PROVE Good(n + 1)
  <2>1. PICK g : g = [m \in 0..n |-> Body(g, m)]
    BY <1>2
  <2>2. PICK h : h = [m \in 0..(n + 1) |-> Body(g, m)]
    OBVIOUS
  <2>3. \A m \in 0..n : h[m] = g[m]
    BY <2>1, <2>2
  <2>4. \A m \in 0..(n + 1) : m # 0 => m - 1 \in 0..n
    OBVIOUS
  <2>5. \A m \in 0..(n + 1) : Body(h, m) = Body(g, m)
    BY <2>3, <2>4
  <2>6. h = [m \in 0..(n + 1) |-> Body(h, m)]
    BY <2>2, <2>5
  <2>q. QED
    BY <2>6
<1>3. Bad = {}
  <2> SUFFICES ASSUME Bad # {} PROVE FALSE
    OBVIOUS
  <2> HIDE DEF Good
  <2>1. PICK n \in Bad : \A m \in Bad : n <= m
    BY LeastNatural
  <2>2. n # 0 /\ n - 1 \in Nat
    BY <1>1, <2>1
  <2>3. Good(n - 1)
    BY <2>1, <2>2
  <2>4. Good((n - 1) + 1)
    BY <1>2, <2>2, <2>3
  <2>5. (n - 1) + 1 = n
    BY <2>2
  <2>6. Good(n)
    BY <2>4, <2>5
  <2> QED BY <2>1, <2>6
<1>4. Good(9)
  BY <1>3
<1>q. QED
  BY <1>4 DEF AreSums

LEMMA FullPercent ==
  ASSUME NEW f, NEW s
  PROVE  Percent(f, s) = 100 <=> \A n \in 1..9 : Lacks(f, s, Order[n]) = 0
<1>0. Len(Order) = 9
  BY DEF Order
<1> DEFINE sum == CHOOSE m : AreSums(m, f, s)
           e == [n \in 1..9 |-> Earned(f, s, Order[n])]
           w == [n \in 1..9 |-> Weight[Order[n]]]
<1>1. AreSums(sum, f, s)
  BY SumsExist
<1>2. Percent(f, s) = sum[9]
  BY <1>0 DEF Percent, AreSums
<1>3. /\ w[1] = 20 /\ w[2] = 15 /\ w[3] = 10 /\ w[4] = 15 /\ w[5] = 10
      /\ w[6] = 10 /\ w[7] = 5 /\ w[8] = 5 /\ w[9] = 10
  BY DEF Order, Weight
<1>4. \A n \in 1..9 : e[n] \in 0..w[n]
  BY EarnedOfAKey
<1>5. \A n \in 1..9 : Lacks(f, s, Order[n]) = w[n] - e[n]
  BY DEF Lacks
<1>6. sum[0] = 0 /\ \A n \in 1..9 : sum[n] = sum[n - 1] + e[n]
  <2>1. sum[0] = 0
    <3> DEFINE step(n) == sum[n - 1] + Earned(f, s, Order[n])
    <3>1. sum = [n \in 0..9 |-> IF n = 0 THEN 0 ELSE step(n)]
      BY <1>1 DEF AreSums
    <3> HIDE DEF step
    <3>2. 0 \in 0..9
      OBVIOUS
    <3>q. QED
      BY <3>1, <3>2
  <2>2. ASSUME NEW n \in 1..9 PROVE sum[n] = sum[n - 1] + e[n]
    <3>1. n \in 0..9 /\ n # 0
      OBVIOUS
    <3>2. sum[n] = sum[n - 1] + Earned(f, s, Order[n])
      BY <1>1, <3>1 DEF AreSums
    <3>q. QED
      BY <3>2
  <2>q. QED
    BY <2>1, <2>2
<1> HIDE DEF sum, e, w
<1>7. /\ e[1] \in 0..20 /\ e[2] \in 0..15 /\ e[3] \in 0..10 /\ e[4] \in 0..15 /\ e[5] \in 0..10
      /\ e[6] \in 0..10 /\ e[7] \in 0..5 /\ e[8] \in 0..5 /\ e[9] \in 0..10
  BY <1>3, <1>4
<1>8. sum[9] = e[1] + e[2] + e[3] + e[4] + e[5] + e[6] + e[7] + e[8] + e[9]
  <2>1. /\ sum[1] = sum[0] + e[1] /\ sum[2] = sum[1] + e[2] /\ sum[3] = sum[2] + e[3]
        /\ sum[4] = sum[3] + e[4] /\ sum[5] = sum[4] + e[5] /\ sum[6] = sum[5] + e[6]
        /\ sum[7] = sum[6] + e[7] /\ sum[8] = sum[7] + e[8] /\ sum[9] = sum[8] + e[9]
    BY <1>6
  <2>q. QED
    BY <1>6, <1>7, <2>1
<1>9. sum[9] = 100 <=> \A n \in 1..9 : w[n] - e[n] = 0
  <2>1. sum[9] = 100 <=> /\ e[1] = 20 /\ e[2] = 15 /\ e[3] = 10 /\ e[4] = 15 /\ e[5] = 10
                         /\ e[6] = 10 /\ e[7] = 5 /\ e[8] = 5 /\ e[9] = 10
    <3>1. PICK a1 \in 0..20, a2 \in 0..15, a3 \in 0..10, a4 \in 0..15, a5 \in 0..10 :
            a1 = e[1] /\ a2 = e[2] /\ a3 = e[3] /\ a4 = e[4] /\ a5 = e[5]
      BY <1>7
    <3>2. PICK a6 \in 0..10, a7 \in 0..5, a8 \in 0..5, a9 \in 0..10 :
            a6 = e[6] /\ a7 = e[7] /\ a8 = e[8] /\ a9 = e[9]
      BY <1>7
    <3>3. sum[9] = a1 + a2 + a3 + a4 + a5 + a6 + a7 + a8 + a9
      BY <1>8, <3>1, <3>2
    <3>4. a1 + a2 + a3 + a4 + a5 + a6 + a7 + a8 + a9 = 100
          <=> /\ a1 = 20 /\ a2 = 15 /\ a3 = 10 /\ a4 = 15 /\ a5 = 10
              /\ a6 = 10 /\ a7 = 5 /\ a8 = 5 /\ a9 = 10
      OBVIOUS
    <3>q. QED
      BY <3>1, <3>2, <3>3, <3>4
  <2>2. (\A n \in 1..9 : w[n] - e[n] = 0)
        <=> /\ w[1] - e[1] = 0 /\ w[2] - e[2] = 0 /\ w[3] - e[3] = 0 /\ w[4] - e[4] = 0
            /\ w[5] - e[5] = 0 /\ w[6] - e[6] = 0 /\ w[7] - e[7] = 0 /\ w[8] - e[8] = 0
            /\ w[9] - e[9] = 0
    <3>1. 1..9 = {1, 2, 3, 4, 5, 6, 7, 8, 9}
      OBVIOUS
    <3>q. QED
      BY <3>1
  <2>q. QED
    BY <1>3, <1>7, <2>1, <2>2
<1>q. QED
  BY <1>2, <1>5, <1>9

AreBest(best, f, s) ==
  best = [n \in 0..9 |->
            IF n = 0 THEN [key |-> "none", lacks |-> 0] ELSE Better(best[n - 1], f, s, Order[n])]

LEMMA BestExist ==
  ASSUME NEW f, NEW s
  PROVE  \E best : AreBest(best, f, s)
<1> DEFINE None == [key |-> "none", lacks |-> 0]
           Body(g, n) == IF n = 0 THEN None ELSE Better(g[n - 1], f, s, Order[n])
           Good(n) == \E g : g = [m \in 0..n |-> Body(g, m)]
           Bad == {n \in Nat : ~Good(n)}
<1> HIDE DEF None
<1>1. Good(0)
  <2>1. PICK g : g = [m \in 0..0 |-> None]
    OBVIOUS
  <2>2. g = [m \in 0..0 |-> Body(g, m)]
    BY <2>1
  <2>q. QED
    BY <2>2
<1>2. ASSUME NEW n \in Nat, Good(n) PROVE Good(n + 1)
  <2>1. PICK g : g = [m \in 0..n |-> Body(g, m)]
    BY <1>2
  <2>2. PICK h : h = [m \in 0..(n + 1) |-> Body(g, m)]
    OBVIOUS
  <2>3. \A m \in 0..n : h[m] = g[m]
    BY <2>1, <2>2
  <2>4. \A m \in 0..(n + 1) : m # 0 => m - 1 \in 0..n
    OBVIOUS
  <2>5. \A m \in 0..(n + 1) : Body(h, m) = Body(g, m)
    BY <2>3, <2>4
  <2>6. h = [m \in 0..(n + 1) |-> Body(h, m)]
    BY <2>2, <2>5
  <2>q. QED
    BY <2>6
<1>3. Bad = {}
  <2> SUFFICES ASSUME Bad # {} PROVE FALSE
    OBVIOUS
  <2> HIDE DEF Good
  <2>1. PICK n \in Bad : \A m \in Bad : n <= m
    BY LeastNatural
  <2>2. n # 0 /\ n - 1 \in Nat
    BY <1>1, <2>1
  <2>3. Good(n - 1)
    BY <2>1, <2>2
  <2>4. Good((n - 1) + 1)
    BY <1>2, <2>2, <2>3
  <2>5. (n - 1) + 1 = n
    BY <2>2
  <2>6. Good(n)
    BY <2>4, <2>5
  <2> QED BY <2>1, <2>6
<1>4. Good(9)
  BY <1>3
<1>q. QED
  BY <1>4 DEF AreBest, None

LEMMA NothingRecommended ==
  ASSUME NEW f, NEW s
  PROVE  NextRecommendation(f, s) = "none" <=> \A n \in 1..9 : Lacks(f, s, Order[n]) = 0
<1>0. Len(Order) = 9 /\ \A n \in 1..9 : Order[n] # "none"
  BY DEF Order
<1> DEFINE best == CHOOSE m : AreBest(m, f, s)
           None == [key |-> "none", lacks |-> 0]
           Full(n) == \A m \in 1..n : Lacks(f, s, Order[m]) = 0
           Fine(n) == /\ best[n].lacks \in Nat
                      /\ best[n].key = "none" <=> Full(n)
                      /\ best[n].lacks = 0 <=> Full(n)
           Bad == {n \in 0..9 : ~Fine(n)}
<1>1. AreBest(best, f, s)
  BY BestExist
<1>2. NextRecommendation(f, s) = best[9].key
  BY <1>0 DEF NextRecommendation, AreBest
<1> HIDE DEF best
<1>3. Fine(0)
  <2>1. best[0] = None
    BY <1>1 DEF AreBest
  <2>q. QED
    BY <2>1
<1>4. ASSUME NEW n \in 1..9, Fine(n - 1) PROVE Fine(n)
  <2>1. best[n] = Better(best[n - 1], f, s, Order[n])
    BY <1>1 DEF AreBest
  <2>2. PICK lacks : lacks = Lacks(f, s, Order[n])
    OBVIOUS
  <2>3. lacks \in Nat
    <3>1. Earned(f, s, Order[n]) \in 0..Weight[Order[n]]
      BY EarnedOfAKey
    <3>2. Weight[Order[n]] \in Nat
      BY DEF Order, Weight
    <3>q. QED
      BY <2>2, <3>1, <3>2 DEF Lacks
  <2>4. Full(n) <=> Full(n - 1) /\ lacks = 0
    <3>1. 1..n = (1..(n - 1)) \cup {n}
      OBVIOUS
    <3>q. QED
      BY <2>2, <3>1
  <2> HIDE DEF Full
  <2>5. CASE lacks > best[n - 1].lacks
    <3>1. best[n].key = Order[n] /\ best[n].lacks = lacks
      BY <2>1, <2>2, <2>5 DEF Better
    <3>2. lacks # 0 /\ ~Full(n)
      BY <1>4, <2>3, <2>4, <2>5
    <3>q. QED
      BY <1>0, <2>3, <3>1, <3>2
  <2>6. CASE ~(lacks > best[n - 1].lacks)
    <3>1. best[n] = best[n - 1]
      BY <2>1, <2>2, <2>6 DEF Better
    <3>2. Full(n - 1) => lacks = 0
      BY <1>4, <2>3, <2>6
    <3>q. QED
      BY <1>4, <2>4, <3>1, <3>2
  <2>q. QED
    BY <2>5, <2>6
<1>5. Bad = {}
  <2> SUFFICES ASSUME Bad # {} PROVE FALSE
    OBVIOUS
  <2> HIDE DEF Fine
  <2>1. Bad \in SUBSET Nat
    OBVIOUS
  <2>2. PICK n \in Bad : \A m \in Bad : n <= m
    BY <2>1, LeastNatural
  <2>3. n # 0 /\ n \in 1..9 /\ n - 1 \in 0..9
    BY <1>3, <2>2
  <2>4. Fine(n - 1)
    BY <2>2, <2>3
  <2>5. Fine(n)
    BY <1>4, <2>3, <2>4
  <2>q. QED
    BY <2>2, <2>5
<1>6. Fine(9)
  <2> HIDE DEF Fine
  <2>q. QED
    BY <1>5
<1>q. QED
  BY <1>2, <1>6

LEMMA FullScheduleIsValid ==
  ASSUME NEW f, NEW s, \A n \in 1..9 : Lacks(f, s, Order[n]) = 0
  PROVE  ValidBreadcrumbSchedule(s)
<1>1. Lacks(f, s, Order[9]) = 0
  OBVIOUS
<1>2. Order[9] = "secret_schedule" /\ Weight["secret_schedule"] = 10
  BY DEF Order, Weight
<1>3. Earned(f, s, "secret_schedule") = SecretScore(s)
  BY DEF Earned
<1>4. SecretScore(s) \in 0..10 /\ (SecretScore(s) = 10 => ValidBreadcrumbSchedule(s))
  BY DEF SecretScore
<1>q. QED
  BY <1>1, <1>2, <1>3, <1>4 DEF Lacks

-----------------------------------------------------------------------------
(* Events are read in the order of the story.                              *)

WellLog(log) ==
  /\ \E n \in Nat : DOMAIN log = 1..n
  /\ \A i \in DOMAIN log : log[i].at \in Nat /\ log[i].made \in Int /\ log[i].id \in Nat \ {0}
  /\ Distinct(log)

InStoryOrder(s, n, es) ==
  /\ s = [k \in 1..n |-> s[k]]
  /\ {s[k] : k \in 1..n} = es
  /\ \A k \in 1..n : Place(s[k]) \in Places /\ s[k].id # 0
  /\ \A k, l \in 1..n : k < l => LiesBefore(Place(s[k]), Place(s[l]))

LEMMA AheadIsBefore ==
  ASSUME NEW log, WellLog(log)
  PROVE  /\ \A i \in DOMAIN log : Place(log[i]) \in Places
         /\ \A i, j \in DOMAIN log :
              /\ Ahead(log, j, i) <=> LiesBefore(Place(log[j]), Place(log[i]))
              /\ Place(log[i]) = Place(log[j]) => i = j
<1>1. ASSUME NEW i \in DOMAIN log PROVE Place(log[i]) \in Places
  BY DEF WellLog, Place, Places
<1>2. ASSUME NEW i \in DOMAIN log, NEW j \in DOMAIN log, Place(log[i]) = Place(log[j])
      PROVE  i = j
  BY <1>2 DEF WellLog, Distinct, Place
<1>3. ASSUME NEW i \in DOMAIN log, NEW j \in DOMAIN log
      PROVE  EventBefore(log[j], log[i]) <=> LiesBefore(Place(log[j]), Place(log[i]))
  BY DEF EventBefore, LiesBefore, Place
<1>4. ASSUME NEW i \in DOMAIN log, NEW j \in DOMAIN log
      PROVE  Ahead(log, j, i) <=> LiesBefore(Place(log[j]), Place(log[i]))
  <2>1. i \in Int /\ j \in Int
    BY DEF WellLog
  <2>2. CASE i = j
    BY <1>1, <1>3, <2>1, <2>2, PlacesInOneOrder DEF Ahead
  <2>3. CASE i # j
    <3>1. LiesBefore(Place(log[i]), Place(log[j])) \/ LiesBefore(Place(log[j]), Place(log[i]))
      BY <1>1, <1>2, <2>3, PlacesInOneOrder
    <3>2. EventBefore(log[i], log[j]) \/ EventBefore(log[j], log[i])
      BY <1>3, <3>1
    <3>q. QED
      BY <1>3, <3>2 DEF Ahead
  <2>q. QED
    BY <2>2, <2>3
<1>q. QED
  BY <1>1, <1>2, <1>4

LEMMA ReadInOrder ==
  ASSUME NEW log, WellLog(log), NEW at \in Nat
  PROVE  \E n \in Nat : /\ Len(InOrder(log, at)) = n
                        /\ InStoryOrder(InOrder(log, at), n, {e \in Range(log) : e.at =< at})
<1> DEFINE U == UpTo(log, at)
           N == Cardinality(U)
           Elders(i) == {j \in U : Ahead(log, j, i)}
           p == [i \in U |-> 1 + Cardinality(Elders(i))]
           Wanted(k) == CHOOSE i \in U : 1 + Cardinality(Elders(i)) = k
           q == [k \in 1..N |-> Wanted(k)]
<1>1. U \subseteq DOMAIN log /\ U = {i \in DOMAIN log : log[i].at =< at}
  BY DEF UpTo
<1>2. IsFiniteSet(U) /\ N \in Nat
  <2>1. PICK n \in Nat : DOMAIN log = 1..n
    BY DEF WellLog
  <2>2. IsFiniteSet(1..n)
    BY FS_Interval
  <2>3. U \in SUBSET (1..n)
    BY <1>1, <2>1
  <2> HIDE DEF U
  <2>4. IsFiniteSet(U)
    BY <2>2, <2>3, FS_Subset
  <2>q. QED
    BY <2>4, FS_CardinalityType
<1>3. InOrder(log, at) = [k \in 1..N |-> log[q[k]]]
  <2>1. InOrder(log, at) = [k \in 1..N |-> log[Wanted(k)]]
    BY DEF InOrder
  <2> HIDE DEF N, Wanted
  <2>q. QED
    BY <2>1
<1> HIDE DEF U
<1>4. ASSUME NEW i \in U
      PROVE  /\ IsFiniteSet(Elders(i)) /\ Cardinality(Elders(i)) \in Nat
             /\ i \notin Elders(i) /\ Cardinality(Elders(i)) < N
  <2>1. PICK E : E = Elders(i)
    OBVIOUS
  <2>2. E \in SUBSET U /\ i \notin E
    BY <1>1, <2>1, AheadIsBefore, PlacesInOneOrder
  <2>3. IsFiniteSet(E) /\ Cardinality(E) =< N /\ (N = Cardinality(E) => U = E)
    BY <1>2, <2>2, FS_Subset
  <2>4. Cardinality(E) \in Nat
    BY <2>3, FS_CardinalityType
  <2>q. QED
    BY <1>2, <2>1, <2>2, <2>3, <2>4
<1>5. ASSUME NEW i \in U, NEW j \in U, LiesBefore(Place(log[i]), Place(log[j]))
      PROVE  Cardinality(Elders(i)) < Cardinality(Elders(j))
  <2>1. PICK D, E : D = Elders(i) /\ E = Elders(j)
    OBVIOUS
  <2>2. D \subseteq E
    BY <1>1, <1>5, <2>1, AheadIsBefore, PlacesInOneOrder
  <2>3. i \in E /\ i \notin D
    BY <1>1, <1>4, <1>5, <2>1, AheadIsBefore
  <2>4. IsFiniteSet(E) /\ Cardinality(E) \in Nat /\ Cardinality(D) \in Nat
    BY <1>4, <2>1
  <2>5. Cardinality(D) =< Cardinality(E) /\ (Cardinality(E) = Cardinality(D) => E = D)
    BY <2>2, <2>4, FS_Subset
  <2>q. QED
    BY <2>1, <2>3, <2>4, <2>5
<1>6. \A i \in U : p[i] = 1 + Cardinality(Elders(i)) /\ p[i] \in 1..N
  <2> HIDE DEF N, Elders
  <2>q. QED
    BY <1>2, <1>4
<1>7. ASSUME NEW i \in U, NEW j \in U, LiesBefore(Place(log[i]), Place(log[j])) PROVE p[i] < p[j]
  <2>1. p[i] = 1 + Cardinality(Elders(i)) /\ p[j] = 1 + Cardinality(Elders(j))
    BY <1>6
  <2> HIDE DEF p, Elders
  <2>q. QED
    BY <1>4, <1>5, <1>7, <2>1
<1>8. p = [i \in U |-> p[i]]
  OBVIOUS
<1> HIDE DEF p, Elders
<1>9. ASSUME NEW i \in U, NEW j \in U, p[i] = p[j] PROVE i = j
  <2>1. p[i] \in Int /\ p[j] \in Int
    BY <1>2, <1>6
  <2>2. Place(log[i]) = Place(log[j])
    BY <1>1, <1>7, <1>9, <2>1, AheadIsBefore, PlacesInOneOrder
  <2>q. QED
    BY <1>1, <2>2, AheadIsBefore
<1>10. p \in Surjection(U, 1..N)
  <2>1. p \in Injection(U, 1..N)
    <3>1. p \in [U -> 1..N] /\ DOMAIN p = U
      BY <1>6, <1>8
    <3>q. QED
      BY <1>9, <3>1 DEF Injection, IsInjective
  <2>2. IsFiniteSet(1..N) /\ Cardinality(1..N) = N
    BY <1>2, FS_Interval
  <2>3. Cardinality(U) = Cardinality(1..N)
    BY <2>2
  <2> HIDE DEF N
  <2>q. QED
    BY <2>1, <2>2, <2>3, FS_Injection
<1>11. ASSUME NEW k \in 1..N PROVE q[k] \in U /\ p[q[k]] = k
  <2>1. \E i \in U : p[i] = k
    BY <1>10 DEF Surjection
  <2>2. \E i \in U : 1 + Cardinality(Elders(i)) = k
    BY <1>6, <2>1
  <2>3. Wanted(k) \in U /\ 1 + Cardinality(Elders(Wanted(k))) = k
    BY <2>2
  <2>4. q[k] = Wanted(k)
    OBVIOUS
  <2>q. QED
    BY <1>6, <2>3, <2>4
<1> HIDE DEF q
<1> DEFINE s == InOrder(log, at)
<1>12. \A k \in 1..N : s[k] = log[q[k]]
  BY <1>3
<1>13. {s[k] : k \in 1..N} = {e \in Range(log) : e.at =< at}
  <2>1. ASSUME NEW k \in 1..N PROVE s[k] \in Range(log) /\ s[k].at =< at
    BY <1>1, <1>11, <1>12 DEF Range
  <2>2. ASSUME NEW e \in Range(log), e.at =< at PROVE \E k \in 1..N : s[k] = e
    <3>1. PICK i \in DOMAIN log : log[i] = e
      BY DEF Range
    <3>2. i \in U /\ p[i] \in 1..N
      BY <1>1, <1>6, <2>2, <3>1
    <3>3. q[p[i]] = i
      BY <1>9, <1>11, <3>2
    <3>q. QED
      BY <1>12, <3>1, <3>2, <3>3
  <2> HIDE DEF s
  <2>q. QED
    BY <2>1, <2>2
<1>14. ASSUME NEW k \in 1..N, NEW l \in 1..N, k < l
       PROVE  LiesBefore(Place(s[k]), Place(s[l]))
  <2>1. q[k] \in U /\ q[l] \in U /\ p[q[k]] = k /\ p[q[l]] = l
    BY <1>11
  <2>2. q[k] # q[l]
    BY <1>14, <2>1
  <2>3. ~LiesBefore(Place(log[q[l]]), Place(log[q[k]]))
    BY <1>2, <1>7, <1>14, <2>1
  <2>4. LiesBefore(Place(log[q[k]]), Place(log[q[l]]))
    BY <1>1, <2>1, <2>2, <2>3, AheadIsBefore, PlacesInOneOrder
  <2>q. QED
    BY <1>12, <2>4
<1>15. \A k \in 1..N : Place(s[k]) \in Places /\ s[k].id # 0
  <2>1. \A i \in U : Place(log[i]) \in Places /\ log[i].id # 0
    BY <1>1, AheadIsBefore DEF WellLog
  <2>q. QED
    BY <1>11, <1>12, <2>1
<1>16. s = [k \in 1..N |-> s[k]] /\ Len(s) = N
  BY <1>2, <1>3
<1> HIDE DEF s, N
<1>q. QED
  BY <1>2, <1>13, <1>14, <1>15, <1>16 DEF InStoryOrder, s
(* The last of the first so many, and what lies before one of them.        *)
LEMMA OrderedPrefixes ==
  ASSUME NEW s, NEW n \in Nat, NEW es, InStoryOrder(s, n, es)
  PROVE  /\ n = 0 <=> es = {}
         /\ n # 0 => LastOf(es) = s[n]
         /\ \A k \in 1..n :
              /\ s[k] \in es
              /\ k = 1 => Earlier(es, s[k]) = {}
              /\ k # 1 => /\ Earlier(es, s[k]) # {}
                          /\ LastOf(Earlier(es, s[k])) = s[k - 1]
<1>1. \A k \in 1..n : s[k] \in es
  BY DEF InStoryOrder
<1>2. \A e \in es : \E k \in 1..n : s[k] = e
  BY DEF InStoryOrder
<1>3. \A k, l \in 1..n : LiesBefore(Place(s[k]), Place(s[l])) <=> k < l
  <2>1. \A k \in 1..n : Place(s[k]) \in Places
    BY DEF InStoryOrder
  <2>2. \A k, l \in 1..n : k < l \/ l < k \/ k = l
    OBVIOUS
  <2>3. \A k, l \in 1..n : k < l => LiesBefore(Place(s[k]), Place(s[l]))
    BY DEF InStoryOrder
  <2>q. QED
    BY <2>1, <2>2, <2>3, PlacesInOneOrder
<1>4. ASSUME NEW m \in 1..n, NEW fs, fs \subseteq es,
             \A k \in 1..n : s[k] \in fs <=> k =< m
      PROVE  LastOf(fs) = s[m]
  <2>1. s[m] \in fs
    BY <1>4
  <2>2. \A f \in fs : ~LiesBefore(Place(s[m]), Place(f))
    <3> TAKE f \in fs
    <3>1. PICK k \in 1..n : s[k] = f
      BY <1>2, <1>4
    <3>2. ~(m < k)
      BY <1>4, <3>1
    <3>q. QED
      BY <1>3, <3>1, <3>2
  <2>3. ASSUME NEW e \in fs, \A f \in fs : ~LiesBefore(Place(e), Place(f))
        PROVE  e = s[m]
    <3>1. PICK k \in 1..n : s[k] = e
      BY <1>2, <1>4
    <3>2. k =< m /\ ~(k < m)
      BY <1>3, <1>4, <2>1, <2>3, <3>1
    <3>3. k = m
      BY <3>2
    <3>q. QED
      BY <3>1, <3>3
  <2>q. QED
    BY <2>1, <2>2, <2>3 DEF LastOf
<1>5. n = 0 <=> es = {}
  <2>1. n # 0 => 1 \in 1..n
    OBVIOUS
  <2>2. n = 0 => 1..n = {}
    OBVIOUS
  <2>q. QED
    BY <1>1, <1>2, <2>1, <2>2
<1>6. n # 0 => LastOf(es) = s[n]
  <2> HAVE n # 0
  <2>1. n \in 1..n /\ \A k \in 1..n : k =< n
    OBVIOUS
  <2>q. QED
    BY <1>1, <1>4, <2>1
<1>7. ASSUME NEW k \in 1..n, k = 1 PROVE Earlier(es, s[k]) = {}
  <2>1. \A l \in 1..n : ~(l < k)
    BY <1>7
  <2>q. QED
    BY <1>2, <1>3, <2>1 DEF Earlier
<1>8. ASSUME NEW k \in 1..n, k # 1
      PROVE  Earlier(es, s[k]) # {} /\ LastOf(Earlier(es, s[k])) = s[k - 1]
  <2>1. k - 1 \in 1..n /\ \A l \in 1..n : l < k <=> l =< k - 1
    BY <1>8
  <2>2. \A l \in 1..n : s[l] \in Earlier(es, s[k]) <=> l =< k - 1
    BY <1>1, <1>3, <2>1 DEF Earlier
  <2>3. Earlier(es, s[k]) \subseteq es
    BY DEF Earlier
  <2>4. LastOf(Earlier(es, s[k])) = s[k - 1]
    BY <1>4, <2>1, <2>2, <2>3
  <2>5. s[k - 1] \in Earlier(es, s[k])
    BY <2>1, <2>2
  <2>q. QED
    BY <2>4, <2>5
<1>q. QED
  BY <1>1, <1>5, <1>6, <1>7, <1>8

-----------------------------------------------------------------------------
(* What a character believes, event by event.                              *)

Unaware == [status |-> "unknown", by |-> 0]
AreBeliefs(fold, s, n) ==
  fold = [k \in 0..n |-> IF k = 0 THEN Unaware ELSE Believed(fold[k - 1], s[k])]

LEMMA BeliefsExist ==
  ASSUME NEW s, NEW n \in Nat
  PROVE  \E fold : AreBeliefs(fold, s, n)
<1> DEFINE Body(g, m) == IF m = 0 THEN Unaware ELSE Believed(g[m - 1], s[m])
           Good(k) == \E g : g = [m \in 0..k |-> Body(g, m)]
           Bad == {k \in Nat : ~Good(k)}
<1>1. Good(0)
  <2>1. PICK g : g = [m \in 0..0 |-> Unaware]
    OBVIOUS
  <2>2. g = [m \in 0..0 |-> Body(g, m)]
    BY <2>1
  <2>q. QED
    BY <2>2
<1>2. ASSUME NEW k \in Nat, Good(k) PROVE Good(k + 1)
  <2>1. PICK g : g = [m \in 0..k |-> Body(g, m)]
    BY <1>2
  <2>2. PICK h : h = [m \in 0..(k + 1) |-> Body(g, m)]
    OBVIOUS
  <2>3. \A m \in 0..k : h[m] = g[m]
    BY <2>1, <2>2
  <2>4. \A m \in 0..(k + 1) : m # 0 => m - 1 \in 0..k
    OBVIOUS
  <2>5. \A m \in 0..(k + 1) : Body(h, m) = Body(g, m)
    BY <2>3, <2>4
  <2>6. h = [m \in 0..(k + 1) |-> Body(h, m)]
    BY <2>2, <2>5
  <2>q. QED
    BY <2>6
<1>3. Bad = {}
  <2> SUFFICES ASSUME Bad # {} PROVE FALSE
    OBVIOUS
  <2> HIDE DEF Good
  <2>1. PICK k \in Bad : \A m \in Bad : k <= m
    BY LeastNatural
  <2>2. k # 0 /\ k - 1 \in Nat
    BY <1>1, <2>1
  <2>3. Good(k - 1)
    BY <2>1, <2>2
  <2>4. Good((k - 1) + 1)
    BY <1>2, <2>2, <2>3
  <2>5. (k - 1) + 1 = k
    BY <2>2
  <2>6. Good(k)
    BY <2>4, <2>5
  <2> QED BY <2>1, <2>6
<1>4. Good(n)
  BY <1>3
<1>q. QED
  BY <1>4 DEF AreBeliefs

Baseless(bs, e) == RequiresReason(LevelOf(Earlier(bs, e)), e.level) /\ ~e.reason

LEMMA BeliefsFold ==
  ASSUME NEW s, NEW n \in Nat, NEW bs, InStoryOrder(s, n, bs),
         \A e \in bs : e.level \in {"suspected", "known", "disproven"},
         NEW fold, AreBeliefs(fold, s, n)
  PROVE  fold[n] = IF \E e \in bs : Baseless(bs, e) THEN Unreadable
                   ELSE [status |-> LevelOf(bs), by |-> IF bs = {} THEN 0 ELSE LastOf(bs).id]
<1> DEFINE RefusedBy(m) == \E k \in 1..m : Baseless(bs, s[k])
           Status(m) == IF m = 0 THEN "unknown" ELSE s[m].level
           By(m) == IF m = 0 THEN 0 ELSE s[m].id
           Fine(m) == fold[m] = IF RefusedBy(m) THEN Unreadable
                                ELSE [status |-> Status(m), by |-> By(m)]
           Bad == {m \in 0..n : ~Fine(m)}
<1>1. Fine(0)
  <2> DEFINE step(k) == Believed(fold[k - 1], s[k])
  <2>1. fold = [k \in 0..n |-> IF k = 0 THEN Unaware ELSE step(k)]
    BY DEF AreBeliefs
  <2> HIDE DEF step
  <2>2. fold[0] = Unaware
    BY <2>1
  <2>3. ~RefusedBy(0)
    OBVIOUS
  <2>q. QED
    BY <2>2, <2>3 DEF Unaware
<1>2. \A m \in 1..n : s[m] \in bs /\ s[m].level \in {"suspected", "known", "disproven"}
  BY OrderedPrefixes
<1>3. \A m \in 1..n : LevelOf(Earlier(bs, s[m])) = Status(m - 1)
  <2> TAKE m \in 1..n
  <2>1. CASE m = 1
    <3>1. m - 1 = 0 /\ Status(m - 1) = "unknown"
      BY <2>1
    <3>2. Earlier(bs, s[m]) = {}
      BY <2>1, OrderedPrefixes
    <3>q. QED
      BY <3>1, <3>2 DEF LevelOf
  <2>2. CASE m # 1
    <3>1. m - 1 # 0
      BY <2>2
    <3>q. QED
      BY <2>2, <3>1, OrderedPrefixes DEF LevelOf
  <2>q. QED
    BY <2>1, <2>2
<1>4. \A m \in 0..n : Status(m) \in {"unknown", "suspected", "known", "disproven"}
  BY <1>2
<1>5. ASSUME NEW m \in 1..n, Fine(m - 1) PROVE Fine(m)
  <2>1. fold[m] = Believed(fold[m - 1], s[m])
    BY DEF AreBeliefs
  <2>2. RefusedBy(m) <=> RefusedBy(m - 1) \/ Baseless(bs, s[m])
    <3>1. 1..m = (1..(m - 1)) \cup {m}
      OBVIOUS
    <3>q. QED
      BY <3>1
  <2>3. Status(m) = s[m].level /\ By(m) = s[m].id
    OBVIOUS
  <2>4. Baseless(bs, s[m]) <=> RequiresReason(Status(m - 1), s[m].level) /\ ~s[m].reason
    BY <1>3 DEF Baseless
  <2>5. Status(m - 1) # "refused"
    BY <1>4
  <2> HIDE DEF RefusedBy, Status, By
  <2>6. CASE RefusedBy(m - 1)
    BY <1>5, <2>1, <2>2, <2>6 DEF Believed
  <2>7. CASE ~RefusedBy(m - 1)
    <3>1. PICK r : r = [status |-> Status(m - 1), by |-> By(m - 1)]
      OBVIOUS
    <3>2. fold[m - 1] = r /\ r.status = Status(m - 1)
      BY <1>5, <2>7, <3>1
    <3>3. r # Unreadable
      BY <2>5, <3>2 DEF Unreadable
    <3>4. Believed(r, s[m]) = IF Baseless(bs, s[m]) THEN Unreadable
                              ELSE [status |-> s[m].level, by |-> s[m].id]
      BY <2>4, <3>2, <3>3 DEF Believed
    <3>q. QED
      BY <2>1, <2>2, <2>3, <2>7, <3>2, <3>4
  <2>q. QED
    BY <2>6, <2>7
<1>6. Bad = {}
  <2> SUFFICES ASSUME Bad # {} PROVE FALSE
    OBVIOUS
  <2> HIDE DEF Fine
  <2>1. Bad \in SUBSET Nat
    OBVIOUS
  <2>2. PICK m \in Bad : \A k \in Bad : m <= k
    BY <2>1, LeastNatural
  <2>3. m # 0 /\ m \in 1..n /\ m - 1 \in 0..n
    BY <1>1, <2>2
  <2>4. Fine(m - 1)
    BY <2>2, <2>3
  <2>5. Fine(m)
    BY <1>5, <2>3, <2>4
  <2>q. QED
    BY <2>2, <2>5
<1>7. Fine(n)
  <2> HIDE DEF Fine
  <2>q. QED
    BY <1>6
<1>8. RefusedBy(n) <=> \E e \in bs : Baseless(bs, e)
  <2>1. bs = {s[k] : k \in 1..n}
    BY DEF InStoryOrder
  <2>q. QED
    BY <2>1
<1>9. Status(n) = LevelOf(bs) /\ By(n) = IF bs = {} THEN 0 ELSE LastOf(bs).id
  BY OrderedPrefixes DEF LevelOf
<1>q. QED
  BY <1>7, <1>8, <1>9

-----------------------------------------------------------------------------
(* What the reader knows of a fact, event by event.                        *)

Undisclosed == [status |-> "unknown", by |-> 0, active |-> 0]
AreDisclosures(fold, s, n) ==
  fold = [k \in 0..n |-> IF k = 0 THEN Undisclosed ELSE Disclosed(fold[k - 1], s[k])]

LEMMA DisclosuresExist ==
  ASSUME NEW s, NEW n \in Nat
  PROVE  \E fold : AreDisclosures(fold, s, n)
<1> DEFINE Body(g, m) == IF m = 0 THEN Undisclosed ELSE Disclosed(g[m - 1], s[m])
           Good(k) == \E g : g = [m \in 0..k |-> Body(g, m)]
           Bad == {k \in Nat : ~Good(k)}
<1>1. Good(0)
  <2>1. PICK g : g = [m \in 0..0 |-> Undisclosed]
    OBVIOUS
  <2>2. g = [m \in 0..0 |-> Body(g, m)]
    BY <2>1
  <2>q. QED
    BY <2>2
<1>2. ASSUME NEW k \in Nat, Good(k) PROVE Good(k + 1)
  <2>1. PICK g : g = [m \in 0..k |-> Body(g, m)]
    BY <1>2
  <2>2. PICK h : h = [m \in 0..(k + 1) |-> Body(g, m)]
    OBVIOUS
  <2>3. \A m \in 0..k : h[m] = g[m]
    BY <2>1, <2>2
  <2>4. \A m \in 0..(k + 1) : m # 0 => m - 1 \in 0..k
    OBVIOUS
  <2>5. \A m \in 0..(k + 1) : Body(h, m) = Body(g, m)
    BY <2>3, <2>4
  <2>6. h = [m \in 0..(k + 1) |-> Body(h, m)]
    BY <2>2, <2>5
  <2>q. QED
    BY <2>6
<1>3. Bad = {}
  <2> SUFFICES ASSUME Bad # {} PROVE FALSE
    OBVIOUS
  <2> HIDE DEF Good
  <2>1. PICK k \in Bad : \A m \in Bad : k <= m
    BY LeastNatural
  <2>2. k # 0 /\ k - 1 \in Nat
    BY <1>1, <2>1
  <2>3. Good(k - 1)
    BY <2>1, <2>2
  <2>4. Good((k - 1) + 1)
    BY <1>2, <2>2, <2>3
  <2>5. (k - 1) + 1 = k
    BY <2>2
  <2>6. Good(k)
    BY <2>4, <2>5
  <2> QED BY <2>1, <2>6
<1>4. Good(n)
  BY <1>3
<1>q. QED
  BY <1>4 DEF AreDisclosures

Astray(ds, e) ==
  LET before == Earlier(ds, e)
  IN e.retracts # 0
     /\ (before = {} \/ LastOf(before).retracts # 0 \/ LastOf(before).id # e.retracts)

LEMMA DisclosuresFold ==
  ASSUME NEW s, NEW n \in Nat, NEW ds, InStoryOrder(s, n, ds),
         \A e \in ds : e.level \in {"suspected", "known"},
         NEW fold, AreDisclosures(fold, s, n)
  PROVE  [status |-> fold[n].status, by |-> fold[n].by]
           = IF \E e \in ds : Astray(ds, e) THEN Unreadable
             ELSE [status |-> IF ds # {} /\ LastOf(ds).retracts # 0 THEN "retracted"
                              ELSE LevelOf(ds),
                   by |-> IF ds = {} THEN 0 ELSE LastOf(ds).id]
<1> DEFINE RefusedBy(m) == \E k \in 1..m : Astray(ds, s[k])
           Status(m) == IF m = 0 THEN "unknown"
                        ELSE IF s[m].retracts # 0 THEN "retracted" ELSE s[m].level
           By(m) == IF m = 0 THEN 0 ELSE s[m].id
           Active(m) == IF m = 0 THEN 0 ELSE IF s[m].retracts # 0 THEN 0 ELSE s[m].id
           Lost == [status |-> "refused", by |-> 0, active |-> 0]
           Fine(m) == fold[m] = IF RefusedBy(m) THEN Lost
                                ELSE [status |-> Status(m), by |-> By(m), active |-> Active(m)]
           Bad == {m \in 0..n : ~Fine(m)}
<1>1. Fine(0)
  <2> DEFINE step(k) == Disclosed(fold[k - 1], s[k])
  <2>1. fold = [k \in 0..n |-> IF k = 0 THEN Undisclosed ELSE step(k)]
    BY DEF AreDisclosures
  <2> HIDE DEF step
  <2>2. fold[0] = Undisclosed
    BY <2>1
  <2>3. ~RefusedBy(0)
    OBVIOUS
  <2>q. QED
    BY <2>2, <2>3 DEF Undisclosed
<1>2. \A m \in 1..n : s[m] \in ds /\ s[m].level \in {"suspected", "known"} /\ s[m].id # 0
  BY OrderedPrefixes DEF InStoryOrder
<1>3. \A m \in 0..n : Status(m) # "refused"
  BY <1>2
<1>4. ASSUME NEW m \in 1..n
      PROVE  Astray(ds, s[m]) <=> s[m].retracts # 0 /\ s[m].retracts # Active(m - 1)
  <2>1. CASE m = 1
    <3>1. m - 1 = 0 /\ Active(m - 1) = 0
      BY <2>1
    <3>2. Earlier(ds, s[m]) = {}
      BY <2>1, OrderedPrefixes
    <3>q. QED
      BY <3>1, <3>2 DEF Astray
  <2>2. CASE m # 1
    <3>1. m - 1 # 0 /\ m - 1 \in 1..n
      BY <2>2
    <3>2. Earlier(ds, s[m]) # {} /\ LastOf(Earlier(ds, s[m])) = s[m - 1]
      BY <2>2, OrderedPrefixes
    <3>3. Active(m - 1) = IF s[m - 1].retracts # 0 THEN 0 ELSE s[m - 1].id
      BY <3>1
    <3> HIDE DEF Active
    <3>q. QED
      BY <3>2, <3>3 DEF Astray
  <2>q. QED
    BY <2>1, <2>2
<1>5. ASSUME NEW m \in 1..n, Fine(m - 1) PROVE Fine(m)
  <2>1. fold[m] = Disclosed(fold[m - 1], s[m])
    BY DEF AreDisclosures
  <2>2. RefusedBy(m) <=> RefusedBy(m - 1) \/ Astray(ds, s[m])
    <3>1. 1..m = (1..(m - 1)) \cup {m}
      OBVIOUS
    <3>q. QED
      BY <3>1
  <2>3. /\ Status(m) = IF s[m].retracts # 0 THEN "retracted" ELSE s[m].level
        /\ By(m) = s[m].id
        /\ Active(m) = IF s[m].retracts # 0 THEN 0 ELSE s[m].id
    OBVIOUS
  <2>4. Status(m - 1) # "refused"
    BY <1>3
  <2> HIDE DEF RefusedBy, Status, By, Active
  <2>5. CASE RefusedBy(m - 1)
    BY <1>5, <2>1, <2>2, <2>5 DEF Disclosed
  <2>6. CASE ~RefusedBy(m - 1)
    <3>1. PICK r : r = [status |-> Status(m - 1), by |-> By(m - 1), active |-> Active(m - 1)]
      OBVIOUS
    <3>2. fold[m - 1] = r /\ r.status = Status(m - 1) /\ r.active = Active(m - 1)
      BY <1>5, <2>6, <3>1
    <3>3. Disclosed(r, s[m]) =
            IF Astray(ds, s[m]) THEN Lost
            ELSE [status |-> Status(m), by |-> By(m), active |-> Active(m)]
      BY <1>4, <2>3, <2>4, <3>2 DEF Disclosed
    <3>q. QED
      BY <2>1, <2>2, <2>6, <3>2, <3>3
  <2>q. QED
    BY <2>5, <2>6
<1>6. Bad = {}
  <2> SUFFICES ASSUME Bad # {} PROVE FALSE
    OBVIOUS
  <2> HIDE DEF Fine
  <2>1. Bad \in SUBSET Nat
    OBVIOUS
  <2>2. PICK m \in Bad : \A k \in Bad : m <= k
    BY <2>1, LeastNatural
  <2>3. m # 0 /\ m \in 1..n /\ m - 1 \in 0..n
    BY <1>1, <2>2
  <2>4. Fine(m - 1)
    BY <2>2, <2>3
  <2>5. Fine(m)
    BY <1>5, <2>3, <2>4
  <2>q. QED
    BY <2>2, <2>5
<1>7. Fine(n)
  <2> HIDE DEF Fine
  <2>q. QED
    BY <1>6
<1>8. RefusedBy(n) <=> \E e \in ds : Astray(ds, e)
  <2>1. ds = {s[k] : k \in 1..n}
    BY DEF InStoryOrder
  <2>q. QED
    BY <2>1
<1>9. /\ Status(n) = IF ds # {} /\ LastOf(ds).retracts # 0 THEN "retracted" ELSE LevelOf(ds)
      /\ By(n) = IF ds = {} THEN 0 ELSE LastOf(ds).id
  BY OrderedPrefixes DEF LevelOf
<1> HIDE DEF RefusedBy, Status, By, Active
<1>q. QED
  BY <1>7, <1>8, <1>9 DEF Unreadable

-----------------------------------------------------------------------------
(* The logs and the secret as the steps keep them.                         *)

BeliefEvents ==
  [id : EventIds, at : Sequences, made : Moments,
   level : {"suspected", "known", "disproven"}, reason : BOOLEAN]
DisclosureEvents ==
  [id : EventIds, at : Sequences, made : Moments,
   retracts : {0} \cup EventIds, level : {"suspected", "known"}]
ReadingInv ==
  /\ beliefs \in Seq(BeliefEvents) /\ Distinct(beliefs)
  /\ disclosures \in Seq(DisclosureEvents) /\ Distinct(disclosures)
  /\ secret \in [truth : BOOLEAN, target : Positions \cup {Nowhere}, crumbs : Seq(Positions)]

LEMMA ReadingInitially == NarrativeInit => ReadingInv
<1> SUFFICES ASSUME NarrativeInit PROVE ReadingInv
  OBVIOUS
<1>1. \A S : <<>> \in Seq(S)
  OBVIOUS
<1>2. Distinct(<<>>)
  BY DEF Distinct
<1>q. QED
  BY <1>1, <1>2 DEF NarrativeInit, ReadingInv

(* An event with an id no other event has.                                 *)
LEMMA Recorded ==
  ASSUME NEW E, NEW log \in Seq(E), Distinct(log), NEW e \in E, e.id \in FreshIds(log)
  PROVE  Append(log, e) \in Seq(E) /\ Distinct(Append(log, e))
<1> DEFINE new == Append(log, e)
<1>1. new \in Seq(E) /\ Len(new) = Len(log) + 1 /\ new[Len(log) + 1] = e
      /\ \A i \in DOMAIN log : new[i] = log[i]
  OBVIOUS
<1>2. DOMAIN new = DOMAIN log \cup {Len(log) + 1}
  BY <1>1
<1>3. \A i \in DOMAIN log : log[i].id # e.id
  BY DEF FreshIds, Range
<1> HIDE DEF new
<1>4. Distinct(new)
  BY <1>1, <1>2, <1>3 DEF Distinct
<1>q. QED
  BY <1>1, <1>4 DEF new

LEMMA ReadingStep == ReadingInv /\ [NarrativeNext]_narrativeVars => ReadingInv'
<1> SUFFICES ASSUME ReadingInv, [NarrativeNext]_narrativeVars PROVE ReadingInv'
  OBVIOUS
<1>1. ASSUME BeliefsNext PROVE ReadingInv'
  <2>1. PICK id \in FreshIds(beliefs), at \in Sequences, made \in Moments,
             level \in {"suspected", "known", "disproven"}, reason \in BOOLEAN :
          BelieveEvent([id |-> id, at |-> at, made |-> made, level |-> level, reason |-> reason])
    BY <1>1 DEF BeliefsNext
  <2>2. PICK e : e = [id |-> id, at |-> at, made |-> made, level |-> level, reason |-> reason]
    OBVIOUS
  <2>3. PICK log : log = beliefs
    OBVIOUS
  <2>4. log \in Seq(BeliefEvents) /\ Distinct(log) /\ e \in BeliefEvents /\ e.id \in FreshIds(log)
    BY <2>2, <2>3 DEF ReadingInv, BeliefEvents, FreshIds
  <2>5. Append(log, e) \in Seq(BeliefEvents) /\ Distinct(Append(log, e))
    BY <2>4, Recorded
  <2>6. beliefs' = Append(log, e) /\ UNCHANGED <<disclosures, secret>>
    BY <2>1, <2>2, <2>3 DEF BelieveEvent
  <2>q. QED
    BY <2>5, <2>6 DEF ReadingInv
<1>2. ASSUME DisclosuresNext PROVE ReadingInv'
  <2>1. PICK id \in FreshIds(disclosures), at \in Sequences, made \in Moments,
             retracts \in {0} \cup EventIds :
          DiscloseEvent([id |-> id, at |-> at, made |-> made, retracts |-> retracts,
                         level |-> IF id = 1 THEN "suspected" ELSE "known"])
    BY <1>2 DEF DisclosuresNext
  <2>2. PICK e : e = [id |-> id, at |-> at, made |-> made, retracts |-> retracts,
                      level |-> IF id = 1 THEN "suspected" ELSE "known"]
    OBVIOUS
  <2>3. PICK log : log = disclosures
    OBVIOUS
  <2>4. log \in Seq(DisclosureEvents) /\ Distinct(log) /\ e \in DisclosureEvents
        /\ e.id \in FreshIds(log)
    BY <2>2, <2>3 DEF ReadingInv, DisclosureEvents, FreshIds
  <2>5. Append(log, e) \in Seq(DisclosureEvents) /\ Distinct(Append(log, e))
    BY <2>4, Recorded
  <2>6. disclosures' = Append(log, e) /\ UNCHANGED <<beliefs, secret>>
    BY <2>1, <2>2, <2>3 DEF DiscloseEvent
  <2>q. QED
    BY <2>5, <2>6 DEF ReadingInv
<1>3. ASSUME SecretUpdate PROVE ReadingInv'
  <2>1. secret \in [truth : BOOLEAN, target : Positions \cup {Nowhere}, crumbs : Seq(Positions)]
    BY DEF ReadingInv
  <2>2. \A p \in Positions : Append(secret.crumbs, p) \in Seq(Positions)
    BY <2>1
  <2>3. secret' \in [truth : BOOLEAN, target : Positions \cup {Nowhere}, crumbs : Seq(Positions)]
    BY <1>3, <2>1, <2>2 DEF SecretUpdate
  <2>q. QED
    BY <1>3, <2>3 DEF SecretUpdate, ReadingInv
<1>4. ASSUME UNCHANGED <<beliefs, disclosures, secret>> PROVE ReadingInv'
  BY <1>4 DEF ReadingInv
<1>5. ASSUME NEW f, FoundationUpdate(f) PROVE ReadingInv'
  BY <1>4, <1>5 DEF FoundationUpdate
<1>6. ASSUME DependenciesNext PROVE ReadingInv'
  BY <1>4, <1>6 DEF DependenciesNext, DependencyChanges, Touch, BuildDependencyManifest
<1>7. ASSUME UNCHANGED narrativeVars PROVE ReadingInv'
  BY <1>4, <1>7 DEF narrativeVars
<1>q. QED
  BY <1>1, <1>2, <1>3, <1>5, <1>6, <1>7 DEF NarrativeNext, PlansNext

LEMMA GoodLog ==
  ASSUME NEW E, NEW log \in Seq(E), Distinct(log),
         \A e \in E : e.at \in Nat /\ e.made \in Int /\ e.id \in Nat \ {0}
  PROVE  WellLog(log) /\ Range(log) \subseteq E
<1>1. \A i \in DOMAIN log : log[i] \in E
  OBVIOUS
<1>2. DOMAIN log = 1..Len(log) /\ Len(log) \in Nat
  OBVIOUS
<1>q. QED
  BY <1>1, <1>2 DEF WellLog, Range

LEMMA BeliefsRead ==
  ASSUME NEW log \in Seq(BeliefEvents), Distinct(log), NEW at \in Nat
  PROVE  LET bs == {e \in Range(log) : e.at =< at}
         IN FoldBeliefs(log, at) =
              IF \E e \in bs : Baseless(bs, e) THEN Unreadable
              ELSE [status |-> LevelOf(bs), by |-> IF bs = {} THEN 0 ELSE LastOf(bs).id]
<1> DEFINE bs == {e \in Range(log) : e.at =< at}
           s == InOrder(log, at)
<1>1. \A e \in BeliefEvents : e.at \in Nat /\ e.made \in Int /\ e.id \in Nat \ {0}
  BY NarrativeAssumption DEF BeliefEvents
<1>2. WellLog(log) /\ Range(log) \subseteq BeliefEvents
  BY <1>1, GoodLog
<1>3. \A e \in bs : e.level \in {"suspected", "known", "disproven"}
  BY <1>2 DEF BeliefEvents
<1>4. PICK n \in Nat : Len(s) = n /\ InStoryOrder(s, n, bs)
  BY <1>2, ReadInOrder
<1> DEFINE fold == CHOOSE g : AreBeliefs(g, s, n)
<1>5. AreBeliefs(fold, s, n)
  BY BeliefsExist
<1>6. FoldBeliefs(log, at) = fold[n]
  BY <1>4 DEF FoldBeliefs, AreBeliefs, Unaware
<1> HIDE DEF fold, s, bs
<1>7. fold[n] = IF \E e \in bs : Baseless(bs, e) THEN Unreadable
                ELSE [status |-> LevelOf(bs), by |-> IF bs = {} THEN 0 ELSE LastOf(bs).id]
  BY <1>3, <1>4, <1>5, BeliefsFold
<1>q. QED
  BY <1>6, <1>7 DEF bs

LEMMA DisclosuresRead ==
  ASSUME NEW log \in Seq(DisclosureEvents), Distinct(log), NEW at \in Nat
  PROVE  LET ds == {e \in Range(log) : e.at =< at}
         IN FoldDisclosures(log, at) =
              IF \E e \in ds : Astray(ds, e) THEN Unreadable
              ELSE [status |-> IF ds # {} /\ LastOf(ds).retracts # 0 THEN "retracted"
                               ELSE LevelOf(ds),
                    by |-> IF ds = {} THEN 0 ELSE LastOf(ds).id]
<1> DEFINE ds == {e \in Range(log) : e.at =< at}
           s == InOrder(log, at)
<1>1. \A e \in DisclosureEvents : e.at \in Nat /\ e.made \in Int /\ e.id \in Nat \ {0}
  BY NarrativeAssumption DEF DisclosureEvents
<1>2. WellLog(log) /\ Range(log) \subseteq DisclosureEvents
  BY <1>1, GoodLog
<1>3. \A e \in ds : e.level \in {"suspected", "known"}
  BY <1>2 DEF DisclosureEvents
<1>4. PICK n \in Nat : Len(s) = n /\ InStoryOrder(s, n, ds)
  BY <1>2, ReadInOrder
<1> DEFINE fold == CHOOSE g : AreDisclosures(g, s, n)
<1>5. AreDisclosures(fold, s, n)
  BY DisclosuresExist
<1>6. FoldDisclosures(log, at) = [status |-> fold[n].status, by |-> fold[n].by]
  BY <1>4 DEF FoldDisclosures, AreDisclosures, Undisclosed
<1> HIDE DEF fold, s, ds
<1>7. [status |-> fold[n].status, by |-> fold[n].by]
        = IF \E e \in ds : Astray(ds, e) THEN Unreadable
          ELSE [status |-> IF ds # {} /\ LastOf(ds).retracts # 0 THEN "retracted" ELSE LevelOf(ds),
                by |-> IF ds = {} THEN 0 ELSE LastOf(ds).id]
  BY <1>3, <1>4, <1>5, DisclosuresFold
<1>q. QED
  BY <1>6, <1>7 DEF ds

(* The logs and the schedule are, at every step, what the readings take.   *)
LEMMA ReadingInvariant == NarrativeSpec => []ReadingInv
BY ReadingInitially, ReadingStep, PTL DEF NarrativeSpec

(* A reading at a place is of the last event of the story up to there,     *)
(* whatever the order the events were recorded in.                         *)
THEOREM ReadingsAreOfTheLog == NarrativeSpec => []ReadingIsOfTheLog
<1>1. ReadingInv => ReadingIsOfTheLog
  <2> SUFFICES ASSUME ReadingInv PROVE ReadingIsOfTheLog
    OBVIOUS
  <2>1. PICK log \in Seq(BeliefEvents) : log = beliefs /\ Distinct(log)
    BY DEF ReadingInv
  <2>2. PICK told \in Seq(DisclosureEvents) : told = disclosures /\ Distinct(told)
    BY DEF ReadingInv
  <2>3. Sequences \subseteq Nat
    BY NarrativeAssumption
  <2>4. \A at \in Sequences :
          LET bs == {e \in Range(log) : e.at =< at}
          IN FoldBeliefs(log, at) =
               IF \E e \in bs : Baseless(bs, e) THEN Unreadable
               ELSE [status |-> LevelOf(bs), by |-> IF bs = {} THEN 0 ELSE LastOf(bs).id]
    BY <2>1, <2>3, BeliefsRead
  <2>5. \A at \in Sequences :
          LET ds == {e \in Range(told) : e.at =< at}
          IN FoldDisclosures(told, at) =
               IF \E e \in ds : Astray(ds, e) THEN Unreadable
               ELSE [status |-> IF ds # {} /\ LastOf(ds).retracts # 0 THEN "retracted"
                                ELSE LevelOf(ds),
                     by |-> IF ds = {} THEN 0 ELSE LastOf(ds).id]
    BY <2>2, <2>3, DisclosuresRead
  <2>q. QED
    BY <2>1, <2>2, <2>4, <2>5 DEF ReadingIsOfTheLog, Baseless, Astray
<1>q. QED
  BY <1>1, ReadingInvariant, PTL

(* A schedule that readiness takes is one the reveal policy can follow,    *)
(* and only a foundation with such a schedule has nothing left to do.      *)
THEOREM ReadySchedulesAlwaysReveal == NarrativeSpec => []ReadySchedulesReveal
<1>1. ReadingInv => ReadySchedulesReveal
  <2> SUFFICES ASSUME ReadingInv PROVE ReadySchedulesReveal
    OBVIOUS
  <2>1. PICK s, f : s = secret /\ f = foundation
    OBVIOUS
  <2>2. s.crumbs \in Seq(Positions) /\ s.target \in Positions \cup {Nowhere}
    BY <2>1 DEF ReadingInv
  <2>3. ValidBreadcrumbSchedule(s) =>
          /\ RevealAccepted(s)
          /\ \A p \in Positions :
               /\ Range(s.crumbs) \cap {p} # {} <=> DecideReveal(s, p).status = "breadcrumb_due"
               /\ Cardinality(DecideReveal(s, p).given) =< 1
          /\ \A p, q \in Positions : LiesBefore(p, q) =>
               GuidanceRank[DecideReveal(s, p).status] =< GuidanceRank[DecideReveal(s, q).status]
    BY <2>2, ReadyScheduleGuides
  <2>4. NextRecommendation(f, s) = "none" <=> Percent(f, s) = 100
    BY FullPercent, NothingRecommended
  <2>5. Percent(f, s) = 100 => ValidBreadcrumbSchedule(s)
    BY FullPercent, FullScheduleIsValid
  <2>q. QED
    BY <2>1, <2>3, <2>4, <2>5 DEF ReadySchedulesReveal
<1>q. QED
  BY <1>1, ReadingInvariant, PTL
=============================================================================
