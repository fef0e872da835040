-------------------------- MODULE QuoteConfirmProofs -------------------------
(***************************************************************************)
(* Proofs about QuoteConfirm for every finite set of quotes, with any      *)
(* amounts, and every set of requests, clients and costs.  The inductive   *)
(* invariant QuoteIInv says that the lock on the user's row leaves one     *)
(* confirmation open at a time (Serialized), that rows and ledgers are     *)
(* sound and their requests different (RowsSound, RequestsDiffer), and     *)
(* what an open confirmation has read and is still true (StillTrue).       *)
(*                                                                         *)
(* The balance is a sum over the quotes, so its proof needs induction.     *)
(* The library's induction theorems take operators, which the provers do   *)
(* not instantiate; that a well-founded relation has minimal elements      *)
(* (WFMin) is first-order, and a minimal counterexample does as well.      *)
(***************************************************************************)
EXTENDS QuoteConfirm, CreditReservationProofs, FiniteSetTheorems, WellFoundedInduction

-----------------------------------------------------------------------------
(* Sums over a finite set.                                                 *)

\* What SumFunction folds: the chosen element first, then the rest.
Pick(s) == CHOOSE x \in s : TRUE
SumStep(f, S, iter) ==
  [s \in SUBSET S |-> IF s = {} THEN 0 ELSE f[Pick(s)] + iter[s \ {Pick(s)}]]

\* A set of subsets of a finite set has a member with no member below it.
LEMMA MinimalSubset ==
  ASSUME NEW S, IsFiniteSet(S), NEW F \in SUBSET SUBSET S, F # {}
  PROVE  \E T \in F : \A U \in F : U \subseteq T => U = T
<1>1. IsWellFoundedOn(StrictSubsetOrdering(S), FiniteSubsetsOf(S))
  BY FS_StrictSubsetOrderingWellFounded
<1>2. FiniteSubsetsOf(S) = SUBSET S
  BY FS_FiniteSubsetsOfFinite
<1>3. \E T \in F : \A U \in F : ~(<<U, T>> \in StrictSubsetOrdering(S))
  BY <1>1, <1>2, WFMin
<1> QED BY <1>3 DEF StrictSubsetOrdering

\* SumFunction is such a fold, when one exists.
LEMMA SumIsFold ==
  ASSUME NEW S, NEW f, DOMAIN f = S, \E iter : iter = SumStep(f, S, iter)
  PROVE  \E iter : iter = SumStep(f, S, iter) /\ SumFunction(f) = iter[S]
<1> DEFINE iter == CHOOSE g : g = SumStep(f, S, g)
<1>1. iter = SumStep(f, S, iter)
  OBVIOUS
<1>2. SumFunction(f) = iter[S]
  BY DEF SumFunction, SumFunctionOnSet, FoldFunctionOnSet, MapThenFoldSet, SumStep, Pick
<1> QED BY <1>1, <1>2

\* Induction over the naturals, by a least counterexample.
LEMMA LeastNatural ==
  ASSUME NEW F \in SUBSET Nat, F # {}
  PROVE  \E n \in F : \A m \in F : n <= m
<1>1. \E n \in F : \A m \in F : ~(<<m, n>> \in OpToRel(<, Nat))
  BY NatLessThanWellFounded, WFMin
<1>2. \A m, n \in Nat : <<m, n>> \in OpToRel(<, Nat) <=> m < n
  BY DEF OpToRel
<1>3. PICK n \in F : \A m \in F : ~(<<m, n>> \in OpToRel(<, Nat))
  BY <1>1
<1>4. ASSUME NEW m \in F PROVE n <= m
  <2>1. ~(m < n)
    BY <1>2, <1>3
  <2> QED BY <2>1
<1> QED BY <1>4

\* The fold is defined on every finite set, size by size.
LEMMA FoldExists ==
  ASSUME NEW S, IsFiniteSet(S), NEW f
  PROVE  \E iter : iter = SumStep(f, S, iter)
<1> DEFINE D(n) == {s \in SUBSET S : Cardinality(s) <= n}
           Body(g, s) == IF s = {} THEN 0 ELSE f[Pick(s)] + g[s \ {Pick(s)}]
           Good(n) == \E g : g = [s \in D(n) |-> Body(g, s)]
           Bad == {n \in Nat : ~Good(n)}
<1>1. ASSUME NEW s \in SUBSET S
      PROVE  /\ Cardinality(s) \in Nat /\ Cardinality(s) <= Cardinality(S)
             /\ Cardinality(s) = 0 <=> s = {}
             /\ s # {} => /\ Pick(s) \in s /\ s \ {Pick(s)} \in SUBSET S
                          /\ Cardinality(s \ {Pick(s)}) = Cardinality(s) - 1
  <2>1. IsFiniteSet(s) /\ Cardinality(s) <= Cardinality(S)
    BY FS_Subset
  <2>2. Cardinality(s) \in Nat
    BY <2>1, FS_CardinalityType
  <2>3. Cardinality(s) = 0 <=> s = {}
    BY <2>1, FS_EmptySet
  <2>4. s # {} => Pick(s) \in s
    BY DEF Pick
  <2>5. s # {} => Cardinality(s \ {Pick(s)}) = Cardinality(s) - 1
    BY <2>1, <2>4, FS_RemoveElement
  <2> QED BY <2>1, <2>2, <2>3, <2>4, <2>5
<1>2. Good(0)
  <2>1. ASSUME NEW s \in D(0) PROVE s = {}
    <3>1. s \in SUBSET S /\ Cardinality(s) <= 0
      OBVIOUS
    <3>2. Cardinality(s) \in Nat /\ (Cardinality(s) = 0 <=> s = {})
      BY <3>1, <1>1
    <3>3. Cardinality(s) = 0
      BY <3>1, <3>2
    <3> QED BY <3>2, <3>3
  <2> DEFINE g == [s \in D(0) |-> 0]
  <2>2. g = [s \in D(0) |-> Body(g, s)]
    BY <2>1
  <2> QED BY <2>2
<1>3. ASSUME NEW n \in Nat, Good(n) PROVE Good(n + 1)
  <2>1. PICK g : g = [s \in D(n) |-> Body(g, s)]
    BY <1>3
  <2> DEFINE h == [s \in D(n + 1) |-> Body(g, s)]
  <2>2. ASSUME NEW s \in D(n + 1), s # {}
        PROVE  s \ {Pick(s)} \in D(n) /\ s \ {Pick(s)} \in D(n + 1)
    BY <1>1, <2>2
  <2>3. ASSUME NEW s \in D(n) PROVE s \in D(n + 1) /\ h[s] = g[s]
    <3>1. s \in SUBSET S /\ Cardinality(s) <= n /\ Cardinality(s) \in Nat
      BY <1>1
    <3>2. s \in D(n + 1)
      BY <3>1
    <3> QED BY <3>2, <2>1
  <2>4. ASSUME NEW s \in D(n + 1) PROVE Body(h, s) = Body(g, s)
    BY <2>2, <2>3
  <2>5. h = [s \in D(n + 1) |-> Body(h, s)]
    BY <2>4
  <2> QED BY <2>5
<1>4. Bad = {}
  <2> SUFFICES ASSUME Bad # {} PROVE FALSE
    OBVIOUS
  <2> HIDE DEF Good
  <2>1. PICK n \in Bad : \A m \in Bad : n <= m
    BY LeastNatural
  <2>2. n # 0 /\ n - 1 \in Nat
    BY <1>2, <2>1
  <2>3. Good(n - 1)
    BY <2>1, <2>2
  <2>4. Good((n - 1) + 1)
    BY <1>3, <2>2, <2>3
  <2>5. (n - 1) + 1 = n
    BY <2>2
  <2>6. Good(n)
    BY <2>4, <2>5
  <2> QED BY <2>1, <2>6
<1>5. Good(Cardinality(S))
  BY <1>1, <1>4
<1>6. D(Cardinality(S)) = SUBSET S
  BY <1>1
<1>7. \E g : g = [s \in SUBSET S |-> Body(g, s)]
  BY <1>5, <1>6
<1> QED BY <1>7 DEF SumStep

\* A sum of integers is an integer, and changes with one of its terms by as much.
LEMMA SumChanges ==
  ASSUME NEW S, IsFiniteSet(S), NEW f \in [S -> Int], NEW x \in S, NEW v \in Int
  PROVE  /\ SumFunction(f) \in Int
         /\ SumFunction([f EXCEPT ![x] = v]) = SumFunction(f) - f[x] + v
<1> DEFINE g == [f EXCEPT ![x] = v]
<1>1. PICK F : F = SumStep(f, S, F) /\ SumFunction(f) = F[S]
  BY FoldExists, SumIsFold
<1>2. g \in [S -> Int] /\ DOMAIN g = S
  OBVIOUS
<1> HIDE DEF g
<1>3. PICK G : G = SumStep(g, S, G) /\ SumFunction(g) = G[S]
  BY <1>2, FoldExists, SumIsFold
<1> DEFINE Off(s) == IF x \in s THEN v - f[x] ELSE 0
           Bad == {s \in SUBSET S : ~(F[s] \in Int /\ G[s] = F[s] + Off(s))}
<1>4. ASSUME Bad # {} PROVE FALSE
  <2>1. PICK s \in Bad : \A u \in Bad : u \subseteq s => u = s
    <3>1. Bad \in SUBSET SUBSET S
      OBVIOUS
    <3> HIDE DEF Bad
    <3> QED BY <3>1, <1>4, MinimalSubset
  <2>2. s # {}
    BY <1>1, <1>3, <2>1 DEF SumStep
  <2>3. PICK y : y = Pick(s)
    OBVIOUS
  <2>4. y \in s /\ y \in S
    BY <2>2, <2>3 DEF Pick
  <2>5. /\ F[s] = f[y] + F[s \ {y}]
        /\ G[s] = g[y] + G[s \ {y}]
    BY <1>1, <1>3, <2>2, <2>3 DEF SumStep
  <2>6. s \ {y} \notin Bad
    BY <2>1, <2>4
  <2>7. F[s \ {y}] \in Int /\ G[s \ {y}] = F[s \ {y}] + Off(s \ {y})
    BY <2>6
  <2>8. f[y] \in Int /\ f[x] \in Int /\ g[y] = (IF y = x THEN v ELSE f[y])
    BY <2>4 DEF g
  <2>9. F[s] \in Int
    BY <2>5, <2>7, <2>8
  <2>10. G[s] = F[s] + Off(s)
    <3>1. CASE y = x
      BY <3>1, <2>4, <2>5, <2>7, <2>8
    <3>2. CASE y # x
      <4>1. Off(s \ {y}) = Off(s) /\ Off(s) \in Int
        BY <3>2, <2>8
      <4> HIDE DEF Off
      <4> QED BY <3>2, <4>1, <2>5, <2>7, <2>8
    <3> QED BY <3>1, <3>2
  <2> QED BY <2>1, <2>9, <2>10
<1>5. F[S] \in Int /\ G[S] = F[S] + Off(S)
  BY <1>4
<1> QED BY <1>1, <1>3, <1>5 DEF g

\* Sums without terms, and of zeros.
LEMMA SumOfZeros ==
  ASSUME NEW S, IsFiniteSet(S)
  PROVE  SumFunction([s \in S |-> 0]) = 0
<1> DEFINE f == [s \in S |-> 0]
<1>1. PICK F : F = SumStep(f, S, F) /\ SumFunction(f) = F[S]
  BY FoldExists, SumIsFold
<1> DEFINE Bad == {s \in SUBSET S : F[s] # 0}
<1>2. ASSUME Bad # {} PROVE FALSE
  <2>1. PICK s \in Bad : \A u \in Bad : u \subseteq s => u = s
    <3>1. Bad \in SUBSET SUBSET S
      OBVIOUS
    <3> HIDE DEF Bad
    <3> QED BY <3>1, <1>2, MinimalSubset
  <2>2. s # {}
    BY <1>1, <2>1 DEF SumStep
  <2>3. Pick(s) \in s
    BY <2>2 DEF Pick
  <2>4. F[s] = f[Pick(s)] + F[s \ {Pick(s)}]
    BY <1>1, <2>2 DEF SumStep
  <2>5. F[s \ {Pick(s)}] = 0
    BY <2>1, <2>3
  <2> QED BY <2>1, <2>3, <2>4, <2>5
<1> QED BY <1>1, <1>2

-----------------------------------------------------------------------------
(* The inductive invariant.                                                *)

Open(c) == txn[c].pc # "idle"

\* The user's row is locked by one confirmation at a time.
Serialized ==
  /\ \A c, d \in Clients : Open(c) /\ Open(d) => c = d
  /\ \A c \in Clients : Open(c) => txn[c].quote \in Quotes /\ txn[c].request \in Requests

\* A reservation is of the quote's amount and agrees with its ledger rows, a closing
\* one settled nothing; a quote without a reservation has no row and no request.
RowsSound ==
  \A q \in Quotes :
    /\ Reserved(q) <=> quote[q] = "consumed"
    /\ Reserved(q) => /\ Sound(res[q], ledger[q], TRUE)
                      /\ res[q].reserved = Amount[q]
                      /\ res[q].status = "closing" => res[q].settled = 0
    /\ ~Reserved(q) => res[q] = NoReservation /\ ledger[q] = EmptyLedger

RequestsDiffer ==
  \A p, q \in Quotes : Reserved(p) /\ Reserved(q) /\ request[p] = request[q] => p = q

\* A confirmation past its first answer is of a request that has no reservation, and
\* the balance that admitted it is still enough.
StillTrue ==
  \A c \in Clients :
    /\ txn[c].pc \in {"quoted", "admitted"} => Replayed(txn[c].request) = {}
    /\ txn[c].pc = "admitted" => Available >= Amount[txn[c].quote]

QuoteIInv ==
  /\ CreditTypeOK /\ Serialized /\ RowsSound /\ RequestsDiffer /\ StillTrue
  /\ Available >= 0
  /\ AnswerIsStable

-----------------------------------------------------------------------------
(* What moves the balance.                                                 *)

\* What a quote takes from the balance.
OpenExposure(q) == IF res[q].status = "open" THEN res[q].exposure ELSE 0
ClosingExposure(q) == IF res[q].status = "closing" THEN res[q].exposure ELSE 0
Debt(q) == ledger[q]["settle"] + OpenExposure(q) + ClosingExposure(q)

LEMMA DebtTyped ==
  ASSUME CreditTypeOK, NEW q \in Quotes
  PROVE  /\ ledger[q]["settle"] \in Int /\ OpenExposure(q) \in Int
         /\ ClosingExposure(q) \in Int /\ Debt(q) \in Int
<1>1. ledger[q] \in Ledger /\ res[q] \in Reservation \cup {NoReservation}
  BY DEF CreditTypeOK
<1>2. ledger[q]["settle"] \in Int
  BY <1>1 DEF Ledger, LedgerKind
<1>3. res[q].exposure \in Int
  BY <1>1 DEF Reservation, NoReservation
<1> QED BY <1>2, <1>3 DEF Debt, OpenExposure, ClosingExposure

\* A step at one quote, or none, moves the balance by the grant and that quote's debt.
LEMMA BalanceMoves ==
  ASSUME CreditTypeOK, CreditTypeOK', NEW q \in Quotes,
         \A p \in Quotes \ {q} : res'[p] = res[p] /\ ledger'[p] = ledger[p]
  PROVE  /\ Available \in Int
         /\ Available' = Available + (grant' - grant) + Debt(q) - Debt(q)'
<1>1. PICK f : f = [p \in Quotes |-> ledger[p]["settle"]]
  OBVIOUS
<1>2. PICK o : o = [p \in Quotes |-> OpenExposure(p)]
  OBVIOUS
<1>3. PICK k : k = [p \in Quotes |-> ClosingExposure(p)]
  OBVIOUS
<1>4. f \in [Quotes -> Int] /\ o \in [Quotes -> Int] /\ k \in [Quotes -> Int]
  BY <1>1, <1>2, <1>3, DebtTyped
<1>5. PICK v, w, x : v = ledger'[q]["settle"] /\ w = OpenExposure(q)' /\ x = ClosingExposure(q)'
  OBVIOUS
<1>6. v \in Int /\ w \in Int /\ x \in Int
  <2>1. ledger'[q] \in Ledger /\ res'[q] \in Reservation \cup {NoReservation}
    BY DEF CreditTypeOK
  <2>2. res'[q].exposure \in Int
    BY <2>1 DEF Reservation, NoReservation
  <2> QED BY <1>5, <2>1, <2>2 DEF Ledger, LedgerKind, OpenExposure, ClosingExposure
<1>7. [p \in Quotes |-> ledger'[p]["settle"]] = [f EXCEPT ![q] = v]
  BY <1>1, <1>5
<1>8. [p \in Quotes |-> OpenExposure(p)'] = [o EXCEPT ![q] = w]
  BY <1>2, <1>5 DEF OpenExposure
<1>9. [p \in Quotes |-> ClosingExposure(p)'] = [k EXCEPT ![q] = x]
  BY <1>3, <1>5 DEF ClosingExposure
<1>10. /\ SumFunction(f) \in Int /\ SumFunction([f EXCEPT ![q] = v]) = SumFunction(f) - f[q] + v
       /\ SumFunction(o) \in Int /\ SumFunction([o EXCEPT ![q] = w]) = SumFunction(o) - o[q] + w
       /\ SumFunction(k) \in Int /\ SumFunction([k EXCEPT ![q] = x]) = SumFunction(k) - k[q] + x
  BY <1>4, <1>6, SumChanges, QuotesAssumption
<1>11. Available = grant - SumFunction(f) - SumFunction(o) - SumFunction(k)
  BY <1>1, <1>2, <1>3 DEF Available, Book, Exposed, OpenExposure, ClosingExposure
<1>12. Available' = grant' - SumFunction([f EXCEPT ![q] = v])
                      - SumFunction([o EXCEPT ![q] = w]) - SumFunction([k EXCEPT ![q] = x])
  BY <1>7, <1>8, <1>9 DEF Available, Book, Exposed, OpenExposure, ClosingExposure
<1>13. Debt(q) = f[q] + o[q] + k[q] /\ f[q] \in Int /\ o[q] \in Int /\ k[q] \in Int
  BY <1>1, <1>2, <1>3, <1>4 DEF Debt
<1>14. Debt(q)' = v + w + x
  BY <1>5 DEF Debt
<1>15. grant \in Int /\ grant' \in Int
  BY GrantAssumption DEF CreditTypeOK
<1> QED BY <1>6, <1>10, <1>11, <1>12, <1>13, <1>14, <1>15

\* Without a step at a quote, the grant alone moves it.
LEMMA BalanceStays ==
  ASSUME UNCHANGED <<res, ledger, grant>>
  PROVE  Available' = Available
  BY DEF Available, Book, Exposed

\* The balance before anything was issued.
LEMMA BalanceStarts ==
  ASSUME CreditInit
  PROVE  Available = 0
<1>1. [q \in Quotes |-> ledger[q]["settle"]] = [q \in Quotes |-> 0]
  BY DEF CreditInit, EmptyLedger, LedgerKind
<1>2. \A status \in {"open", "closing"} :
        [q \in Quotes |-> IF res[q].status = status THEN res[q].exposure ELSE 0]
          = [q \in Quotes |-> 0]
  BY DEF CreditInit, NoReservation
<1>3. SumFunction([q \in Quotes |-> 0]) = 0
  BY SumOfZeros, QuotesAssumption
<1>4. Book = 0
  BY <1>1, <1>3 DEF Book, CreditInit
<1>5. Exposed("open") = 0 /\ Exposed("closing") = 0
  BY <1>2, <1>3 DEF Exposed
<1> QED BY <1>4, <1>5 DEF Available

\* A sound reservation's debt is what it reserved and has not returned.
LEMMA SoundDebt ==
  ASSUME NEW r, NEW l, Sound(r, l, TRUE)
  PROVE  /\ r.reserved \in Nat /\ r.released \in Nat /\ r.settled \in Nat
         /\ l["settle"] + (IF r.status = "open" THEN r.exposure ELSE 0)
              + (IF r.status = "closing" THEN r.exposure ELSE 0) = r.reserved - r.released
<1>1. r \in Reservation /\ Conserved(r) /\ l["settle"] = r.settled
  BY DEF Sound, LedgerAgrees
<1>2. /\ r.reserved \in Nat /\ r.released \in Nat /\ r.settled \in Nat /\ r.exposure \in Nat
      /\ r.status \in ReservationStatus
  BY <1>1 DEF Reservation
<1>3. r.settled + r.released + r.exposure = r.reserved
  BY <1>1 DEF Conserved
<1>4. r.status \in ClosedStatus => r.exposure = 0
  BY <1>1, <1>2, <1>3 DEF Conserved, ClosedStatus
<1> QED BY <1>1, <1>2, <1>3, <1>4 DEF ReservationStatus, ClosedStatus

-----------------------------------------------------------------------------
(* One lemma for each kind of step.                                        *)

\* The reservations of requests change only with the rows they rest on.
LEMMA ReplaysStay ==
  ASSUME \A p \in Quotes : Reserved(p)' <=> Reserved(p), UNCHANGED request
  PROVE  \A r : Replayed(r)' = Replayed(r)
  BY DEF Replayed

\* A step of a reservation's job: the row and the ledger of one quote.
LEMMA JobStepKeeps ==
  ASSUME QuoteIInv, NEW q \in Quotes, Reserved(q), NEW out, Apply(q, out),
         Sound(out.res, out.ledger, TRUE), out.res.reserved = res[q].reserved,
         out.res.released >= res[q].released,
         out.res.status = "closing" => out.res.settled = 0
  PROVE  QuoteIInv'
<1>1. /\ CreditTypeOK /\ Serialized /\ RowsSound /\ RequestsDiffer /\ StillTrue
      /\ Available >= 0 /\ AnswerIsStable
  BY DEF QuoteIInv
<1>2. /\ res' = [res EXCEPT ![q] = out.res] /\ ledger' = [ledger EXCEPT ![q] = out.ledger]
      /\ UNCHANGED <<quote, expired, request, grant, txn, answered>>
  BY DEF Apply
<1>3. out.res \in Reservation /\ out.ledger \in Ledger
  BY DEF Sound
<1>4. out.res.status # "none"
  BY <1>3 DEF Reservation, ReservationStatus, ClosedStatus
<1>5. /\ res'[q] = out.res /\ ledger'[q] = out.ledger
      /\ \A p \in Quotes \ {q} : res'[p] = res[p] /\ ledger'[p] = ledger[p]
  BY <1>1, <1>2 DEF CreditTypeOK
<1>6. CreditTypeOK'
  <2>1. res' \in [Quotes -> Reservation \cup {NoReservation}]
    BY <1>1, <1>2, <1>3 DEF CreditTypeOK
  <2>2. ledger' \in [Quotes -> Ledger]
    BY <1>1, <1>2, <1>3 DEF CreditTypeOK
  <2> QED BY <1>1, <1>2, <2>1, <2>2 DEF CreditTypeOK
<1>7. \A p \in Quotes : Reserved(p)' <=> Reserved(p)
  BY <1>4, <1>5 DEF Reserved
<1>8. \A r : Replayed(r)' = Replayed(r)
  BY <1>2, <1>7, ReplaysStay
<1>9. Serialized'
  BY <1>1, <1>2 DEF Serialized, Open
<1>10. RowsSound'
  <2> SUFFICES ASSUME NEW p \in Quotes
               PROVE  /\ Reserved(p)' <=> quote'[p] = "consumed"
                      /\ Reserved(p)' =>
                           /\ Sound(res'[p], ledger'[p], TRUE)
                           /\ res'[p].reserved = Amount[p]
                           /\ res'[p].status = "closing" => res'[p].settled = 0
                      /\ ~Reserved(p)' => res'[p] = NoReservation /\ ledger'[p] = EmptyLedger
    BY DEF RowsSound
  <2>1. CASE p = q
    BY <2>1, <1>1, <1>2, <1>5, <1>7 DEF RowsSound
  <2>2. CASE p # q
    BY <2>2, <1>1, <1>2, <1>5, <1>7 DEF RowsSound
  <2> QED BY <2>1, <2>2
<1>11. RequestsDiffer'
  BY <1>1, <1>2, <1>7 DEF RequestsDiffer
<1>12. Available \in Int /\ Available' \in Int /\ Available' >= Available
  <2>1. /\ Available \in Int
        /\ Available' = Available + (grant' - grant) + Debt(q) - Debt(q)'
    BY <1>1, <1>5, <1>6, BalanceMoves
  <2>2. Sound(res[q], ledger[q], TRUE)
    BY <1>1 DEF RowsSound
  <2>3. Debt(q) = res[q].reserved - res[q].released
        /\ res[q].reserved \in Nat /\ res[q].released \in Nat
    BY <2>2, SoundDebt DEF Debt, OpenExposure, ClosingExposure
  <2>4. Debt(q)' = out.res.reserved - out.res.released
        /\ out.res.reserved \in Nat /\ out.res.released \in Nat
    BY <1>5, SoundDebt DEF Debt, OpenExposure, ClosingExposure
  <2>5. grant' - grant = 0
    BY <1>1, <1>2, GrantAssumption DEF CreditTypeOK
  <2> QED BY <2>1, <2>3, <2>4, <2>5
<1>13. StillTrue' /\ Available' >= 0
  <2>1. \A c \in Clients : Open(c) => Amount[txn[c].quote] \in Nat
    BY <1>1, AmountAssumption DEF Serialized
  <2>2. ASSUME NEW c \in Clients, txn[c].pc = "admitted"
        PROVE  Available' >= Amount[txn[c].quote]
    BY <1>1, <1>12, <2>1, <2>2 DEF StillTrue, Open
  <2>3. Available' >= 0
    BY <1>1, <1>12
  <2> QED BY <1>1, <1>2, <1>8, <2>2, <2>3 DEF StillTrue
<1>14. AnswerIsStable'
  BY <1>1, <1>2, <1>8 DEF AnswerIsStable
<1> QED BY <1>6, <1>9, <1>10, <1>11, <1>13, <1>14 DEF QuoteIInv

\* What the job of a reservation does.
LEMMA JobKeeps ==
  ASSUME QuoteIInv, NEW q \in Quotes,
         SettleUsable(q) \/ EndUnpaid(q) \/ CancelQueuedJob(q) \/ CloseLate(q)
  PROVE  QuoteIInv'
<1>1. RowsSound
  BY DEF QuoteIInv
<1>2. res[q].status \in {"open", "closing"} /\ Reserved(q)
  BY DEF SettleUsable, EndUnpaid, CancelQueuedJob, CloseLate, ReleaseQueued, Apply, Reserved
<1>3. Sound(res[q], ledger[q], TRUE) /\ res[q].settled = 0 /\ res[q].released = 0
  <2>0. Sound(res[q], ledger[q], TRUE)
    BY <1>1, <1>2 DEF RowsSound
  <2>1. res[q].status = "closing" => res[q].settled = 0
    BY <1>1, <1>2 DEF RowsSound
  <2>2. /\ res[q].settled \in Nat /\ res[q].released \in Nat /\ res[q].exposure \in Nat
        /\ res[q].reserved \in Nat
        /\ res[q].settled + res[q].released + res[q].exposure = res[q].reserved
        /\ res[q].status = "open" => res[q].exposure = res[q].reserved
        /\ res[q].status = "closing" => res[q].released = 0
    BY <2>0 DEF Sound, Conserved, Reservation
  <2>3. \A a, b, e, r \in Nat : a + b + e = r /\ e = r => a = 0 /\ b = 0
    OBVIOUS
  <2>4. ASSUME res[q].status = "open" PROVE res[q].settled = 0 /\ res[q].released = 0
    BY <2>2, <2>3, <2>4
  <2>5. ASSUME res[q].status = "closing" PROVE res[q].settled = 0 /\ res[q].released = 0
    BY <2>1, <2>2, <2>5
  <2> QED BY <1>2, <2>0, <2>4, <2>5
<1>4. ASSUME NEW charge \in Nat, NEW n \in Nat, n = 0 \/ charge = 0,
             NEW kind \in {"invocation_completed", "final-close"},
             Apply(q, Reconcile(res[q], ledger[q], TRUE, charge, n, "released", kind))
      PROVE  QuoteIInv'
  <2>1. PICK out : out = Reconcile(res[q], ledger[q], TRUE, charge, n, "released", kind)
    OBVIOUS
  <2>2. /\ Sound(out.res, out.ledger, TRUE)
        /\ out.res.released >= res[q].released /\ out.res.reserved = res[q].reserved
        /\ n = 0 => out.res.status \in ClosedStatus
        /\ \/ res[q].status \in ClosedStatus
           \/ out.res.settled = Least(charge, res[q].reserved)
    <3>1. PICK row, book : row = res[q] /\ book = ledger[q]
      OBVIOUS
    <3>2. PICK paid : paid = TRUE
      OBVIOUS
    <3>3. Sound(row, book, paid) /\ paid \in BOOLEAN
      BY <1>3, <3>1, <3>2, Zenon
    <3>4. ~(row.settled > 0)
      BY <1>3, <3>1
    <3>5. out = Reconcile(row, book, paid, charge, n, "released", kind)
      BY <2>1, <3>1, <3>2, Zenon
    <3>6. /\ Sound(out.res, out.ledger, paid)
          /\ out.res.released >= row.released
          /\ out.res.reserved = row.reserved
          /\ n = 0 => out.res.status \in ClosedStatus
          /\ \/ row.status \in ClosedStatus
             \/ out.res.settled = (IF paid THEN Least(charge, row.reserved) ELSE 0)
      BY <3>3, <3>4, <3>5, ReconcileSound
    <3>7. Sound(out.res, out.ledger, TRUE)
      BY <3>2, <3>6, Zenon
    <3> QED BY <3>1, <3>2, <3>6, <3>7
  <2>3. out.res.status = "closing" => out.res.settled = 0
    <3>1. res[q].status \notin ClosedStatus
      BY <1>2 DEF ClosedStatus
    <3>2. res[q].reserved \in Nat
      BY <1>3 DEF Sound, Reservation
    <3> QED BY <1>4, <2>2, <3>1, <3>2 DEF ClosedStatus, Least
  <2> QED BY <1>2, <1>4, <2>1, <2>2, <2>3, JobStepKeeps
<1>5. CASE SettleUsable(q)
  BY <1>4, <1>5, CostsAssumption DEF SettleUsable
<1>6. CASE EndUnpaid(q)
  BY <1>4, <1>6 DEF EndUnpaid
<1>7. CASE CloseLate(q)
  BY <1>4, <1>7 DEF CloseLate
<1>8. CASE CancelQueuedJob(q)
  <2>1. PICK out : out = ReleaseQueued(res[q], ledger[q])
    OBVIOUS
  <2>2. Sound(out.res, out.ledger, TRUE)
    BY <1>3, <2>1, ReleaseQueuedSound
  <2>3. res[q].status = "open" /\ Apply(q, out) /\ out.ok
    BY <1>8, <2>1 DEF CancelQueuedJob, Apply
  <2>4. AppendAccepted(ledger[q], "queued-cancel", res[q].reserved)
    BY <2>1, <2>3 DEF ReleaseQueued
  <2>5. out.res = [status |-> "cancelled", reserved |-> res[q].reserved, settled |-> 0,
                   released |-> res[q].reserved, exposure |-> 0]
    BY <2>1, <2>3, <2>4 DEF ReleaseQueued
  <2>6. res[q].reserved \in Nat
    BY <1>3 DEF Sound, Reservation
  <2>7. /\ out.res.reserved = res[q].reserved /\ out.res.released >= res[q].released
        /\ out.res.status # "closing"
    BY <1>3, <2>5, <2>6
  <2> QED BY <1>2, <2>2, <2>3, <2>7, JobStepKeeps
<1> QED BY <1>5, <1>6, <1>7, <1>8

\* Quotes are issued, expire and are swept without touching a reservation.
LEMMA QuoteKeeps ==
  ASSUME QuoteIInv, NEW q \in Quotes, Issue(q) \/ Expire(q) \/ Purge(q)
  PROVE  QuoteIInv'
<1>1. /\ CreditTypeOK /\ Serialized /\ RowsSound /\ RequestsDiffer /\ StillTrue
      /\ Available >= 0 /\ AnswerIsStable
  BY DEF QuoteIInv
<1>2. UNCHANGED <<res, ledger, request, grant, txn, answered>>
  BY DEF Issue, Expire, Purge
<1>3. \/ quote' = quote
      \/ ~Reserved(q) /\ \E s \in QuoteStatus \ {"consumed"} : quote' = [quote EXCEPT ![q] = s]
  BY <1>1 DEF Issue, Expire, Purge, RowsSound, QuoteStatus
<1>4. quote' \in [Quotes -> QuoteStatus] /\ expired' \in [Quotes -> BOOLEAN]
  BY <1>1, <1>3 DEF CreditTypeOK, Issue, Expire, Purge
<1>5. \A p \in Quotes : quote'[p] = "consumed" <=> quote[p] = "consumed"
  BY <1>1, <1>3 DEF CreditTypeOK, RowsSound
<1>6. \A p \in Quotes : Reserved(p)' <=> Reserved(p)
  BY <1>2 DEF Reserved
<1>7. \A r : Replayed(r)' = Replayed(r)
  BY <1>2, <1>6, ReplaysStay
<1>8. CreditTypeOK'
  BY <1>1, <1>2, <1>4 DEF CreditTypeOK
<1>9. Serialized' /\ RequestsDiffer'
  BY <1>1, <1>2, <1>6 DEF Serialized, Open, RequestsDiffer
<1>10. RowsSound'
  BY <1>1, <1>2, <1>5, <1>6 DEF RowsSound
<1>11. Available' = Available
  BY <1>2, BalanceStays
<1>12. StillTrue' /\ Available' >= 0
  BY <1>1, <1>2, <1>7, <1>11 DEF StillTrue
<1>13. AnswerIsStable'
  BY <1>1, <1>2, <1>7 DEF AnswerIsStable
<1> QED BY <1>8, <1>9, <1>10, <1>12, <1>13 DEF QuoteIInv

LEMMA GrantKeeps ==
  ASSUME QuoteIInv, Grant
  PROVE  QuoteIInv'
<1>1. /\ CreditTypeOK /\ Serialized /\ RowsSound /\ RequestsDiffer /\ StillTrue
      /\ Available >= 0 /\ AnswerIsStable
  BY DEF QuoteIInv
<1>2. UNCHANGED <<quote, expired, res, ledger, request, txn, answered>>
      /\ grant = 0 /\ grant' = GrantAmount
  BY DEF Grant
<1>3. CreditTypeOK'
  BY <1>1, <1>2 DEF CreditTypeOK
<1>4. \A p \in Quotes : Reserved(p)' <=> Reserved(p)
  BY <1>2 DEF Reserved
<1>5. \A r : Replayed(r)' = Replayed(r)
  BY <1>2, <1>4, ReplaysStay
<1>6. Serialized' /\ RequestsDiffer' /\ RowsSound'
  BY <1>1, <1>2, <1>4 DEF Serialized, Open, RequestsDiffer, RowsSound
<1>7. AnswerIsStable'
  BY <1>1, <1>2, <1>5 DEF AnswerIsStable
<1>8. CASE Quotes = {}
  <2>1. SumFunction([q \in Quotes |-> 0]) = 0
    BY SumOfZeros, QuotesAssumption
  <2>2. \A f : [q \in Quotes |-> f[q]] = [q \in Quotes |-> 0]
    BY <1>8
  <2>3. Available' = grant' - 0 - 0 - 0
    BY <1>8, <2>1 DEF Available, Book, Exposed
  <2>4. ~\E c \in Clients : Open(c)
    BY <1>1, <1>8 DEF Serialized
  <2>5. StillTrue' /\ Available' >= 0
    BY <1>2, <2>3, <2>4, GrantAssumption DEF StillTrue, Open
  <2> QED BY <1>3, <1>6, <1>7, <2>5 DEF QuoteIInv
<1>9. CASE Quotes # {}
  <2>1. PICK q \in Quotes : TRUE
    BY <1>9
  <2>2. Debt(q)' = Debt(q)
    BY <1>2 DEF Debt, OpenExposure, ClosingExposure
  <2>3. /\ Available \in Int
        /\ Available' = Available + (grant' - grant) + Debt(q) - Debt(q)'
    BY <1>1, <1>2, <1>3, <2>1, BalanceMoves
  <2>4. Debt(q) \in Int
    BY <1>1, DebtTyped
  <2>5. Available' \in Int /\ Available' >= Available
    BY <1>2, <2>2, <2>3, <2>4, GrantAssumption
  <2>6. \A c \in Clients : Open(c) => Amount[txn[c].quote] \in Nat
    BY <1>1, AmountAssumption DEF Serialized
  <2>7. ASSUME NEW c \in Clients, txn[c].pc = "admitted"
        PROVE  Available' >= Amount[txn[c].quote]
    BY <1>1, <2>3, <2>5, <2>6, <2>7 DEF StillTrue, Open
  <2>8. Available' >= 0
    BY <1>1, <2>3, <2>5
  <2>9. StillTrue'
    BY <1>1, <1>2, <1>5, <2>7 DEF StillTrue
  <2> QED BY <1>3, <1>6, <1>7, <2>8, <2>9 DEF QuoteIInv
<1> QED BY <1>8, <1>9

\* A transaction that writes no row goes on, or ends.
Txn == [pc : {"idle", "locked", "quoted", "admitted"}, quote : Quotes \cup {NoQuote},
        request : Requests \cup {NoRequest}, fresh : BOOLEAN]

LEMMA TxnStepKeeps ==
  ASSUME QuoteIInv, UNCHANGED rowVars, NEW c \in Clients, NEW t \in Txn,
         txn' = [txn EXCEPT ![c] = t],
         t.pc # "idle" => /\ \A d \in Clients \ {c} : ~Open(d)
                          /\ t.quote \in Quotes /\ t.request \in Requests,
         t.pc \in {"quoted", "admitted"} => Replayed(t.request) = {},
         t.pc = "admitted" => Available >= Amount[t.quote],
         answered' \in [Requests -> SUBSET Quotes],
         \A r \in Requests : answered'[r] # {} => answered'[r] = Replayed(r)
  PROVE  QuoteIInv'
<1>1. /\ CreditTypeOK /\ Serialized /\ RowsSound /\ RequestsDiffer /\ StillTrue
      /\ Available >= 0
  BY DEF QuoteIInv
<1>2. UNCHANGED <<quote, expired, res, ledger, request, grant>>
  BY DEF rowVars
<1>3. /\ txn' \in [Clients -> Txn] /\ txn'[c] = t
      /\ \A d \in Clients \ {c} : txn'[d] = txn[d]
  BY <1>1 DEF CreditTypeOK, Txn
<1>4. CreditTypeOK'
  BY <1>1, <1>2, <1>3 DEF CreditTypeOK, Txn
<1>5. \A p \in Quotes : Reserved(p)' <=> Reserved(p)
  BY <1>2 DEF Reserved
<1>6. \A r : Replayed(r)' = Replayed(r)
  BY <1>2, <1>5, ReplaysStay
<1>7. Available' = Available
  BY <1>2, BalanceStays
<1>8. RowsSound' /\ RequestsDiffer'
  BY <1>1, <1>2, <1>5 DEF RowsSound, RequestsDiffer
<1>9. Serialized'
  <2>1. ASSUME NEW d \in Clients, NEW e \in Clients, Open(d)', Open(e)'
        PROVE  d = e
    BY <2>1, <1>1, <1>3 DEF Serialized, Open
  <2>2. ASSUME NEW d \in Clients, Open(d)'
        PROVE  txn'[d].quote \in Quotes /\ txn'[d].request \in Requests
    BY <2>2, <1>1, <1>3 DEF Serialized, Open
  <2> QED BY <2>1, <2>2 DEF Serialized
<1>10. StillTrue'
  BY <1>1, <1>3, <1>6, <1>7 DEF StillTrue
<1>11. AnswerIsStable'
  BY <1>6 DEF AnswerIsStable
<1> QED BY <1>1, <1>4, <1>7, <1>8, <1>9, <1>10, <1>11 DEF QuoteIInv

LEMMA IdleTyped == IdleTxn \in Txn /\ IdleTxn.pc = "idle"
  BY DEF IdleTxn, Txn

\* The steps of a confirmation before it commits, and its rollback.
LEMMA ReadsKeep ==
  ASSUME QuoteIInv, NEW c \in Clients,
         SerializeUserBalance(c) \/ ConfirmLock(c) \/ CheckBalance(c) \/ Rollback(c)
  PROVE  QuoteIInv'
<1>1. /\ CreditTypeOK /\ Serialized /\ StillTrue /\ AnswerIsStable
      /\ txn \in [Clients -> Txn] /\ txn[c] \in Txn /\ answered \in [Requests -> SUBSET Quotes]
  BY DEF QuoteIInv, CreditTypeOK, Txn
<1>2. UNCHANGED rowVars
  BY DEF SerializeUserBalance, ConfirmLock, CheckBalance, Rollback
<1>3. ASSUME Done(c), UNCHANGED answered PROVE QuoteIInv'
  BY <1>1, <1>2, <1>3, IdleTyped, TxnStepKeeps DEF Done, AnswerIsStable
<1>4. CASE SerializeUserBalance(c)
  <2>1. PICK q \in Quotes, r \in Requests, fresh \in BOOLEAN :
          txn' = [txn EXCEPT ![c] = [pc |-> "locked", quote |-> q, request |-> r,
                                     fresh |-> fresh]]
    BY <1>4 DEF SerializeUserBalance
  <2> DEFINE t == [pc |-> "locked", quote |-> q, request |-> r, fresh |-> fresh]
  <2>2. /\ t \in Txn /\ t.pc = "locked" /\ t.quote \in Quotes /\ t.request \in Requests
        /\ txn' = [txn EXCEPT ![c] = t]
    BY <2>1 DEF Txn
  <2> HIDE DEF t
  <2>3. \A d \in Clients : ~Open(d)
    BY <1>4 DEF SerializeUserBalance, At, Open
  <2>4. UNCHANGED answered
    BY <1>4 DEF SerializeUserBalance
  <2> QED BY <1>1, <1>2, <2>2, <2>3, <2>4, TxnStepKeeps DEF AnswerIsStable
<1>5. ASSUME NEW pc \in {"quoted", "admitted"}, Goto(c, pc), Open(c), UNCHANGED answered,
             Replayed(txn[c].request) = {},
             pc = "admitted" => Available >= Amount[txn[c].quote]
      PROVE  QuoteIInv'
  <2> DEFINE t == [txn[c] EXCEPT !.pc = pc]
  <2>1. /\ t \in Txn /\ t.pc = pc /\ t.quote = txn[c].quote /\ t.request = txn[c].request
        /\ txn' = [txn EXCEPT ![c] = t]
    BY <1>1, <1>5 DEF Txn, Goto
  <2> HIDE DEF t
  <2>2. /\ \A d \in Clients \ {c} : ~Open(d)
        /\ txn[c].quote \in Quotes /\ txn[c].request \in Requests
    BY <1>1, <1>5 DEF Serialized
  <2> QED BY <1>1, <1>2, <1>5, <2>1, <2>2, TxnStepKeeps DEF AnswerIsStable
<1>6. CASE ConfirmLock(c)
  <2>1. PICK q, r : q = txn[c].quote /\ r = txn[c].request
    OBVIOUS
  <2>2. Open(c) /\ q \in Quotes /\ r \in Requests
    BY <1>1, <1>6, <2>1 DEF ConfirmLock, At, Open, Serialized
  <2>3. CASE /\ ReservationMatchesInput(r, q)
             /\ answered' = [answered EXCEPT ![r] = answered[r] \cup {q}] /\ Done(c)
    <3>1. answered' \in [Requests -> SUBSET Quotes]
      BY <1>1, <2>2, <2>3
    <3>2. ASSUME NEW x \in Requests, answered'[x] # {} PROVE answered'[x] = Replayed(x)
      <4>1. CASE x = r
        BY <4>1, <1>1, <2>2, <2>3 DEF AnswerIsStable, ReservationMatchesInput
      <4>2. CASE x # r
        BY <4>2, <3>2, <1>1, <2>2, <2>3 DEF AnswerIsStable
      <4> QED BY <4>1, <4>2
    <3> QED BY <1>2, <2>3, <3>1, <3>2, IdleTyped, TxnStepKeeps DEF Done
  <2>4. CASE Replayed(r) = {} /\ Goto(c, "quoted") /\ UNCHANGED answered
    BY <1>5, <2>1, <2>2, <2>4
  <2> QED BY <1>3, <1>6, <2>1, <2>3, <2>4 DEF ConfirmLock
<1>7. CASE CheckBalance(c)
  <2>1. Open(c) /\ Replayed(txn[c].request) = {} /\ UNCHANGED answered
    BY <1>1, <1>7 DEF CheckBalance, At, Open, StillTrue
  <2> QED BY <1>3, <1>5, <1>7, <2>1 DEF CheckBalance
<1>8. CASE Rollback(c)
  BY <1>3, <1>8 DEF Rollback
<1> QED BY <1>4, <1>6, <1>7, <1>8

\* The commit: one reservation, of a quote that had none, for a request that had none,
\* within a balance nothing has lowered since it was read.
LEMMA ConfirmKeeps ==
  ASSUME QuoteIInv, NEW c \in Clients, Confirm(c)
  PROVE  QuoteIInv'
<1>1. /\ CreditTypeOK /\ Serialized /\ RowsSound /\ RequestsDiffer /\ StillTrue
      /\ Available >= 0 /\ AnswerIsStable
      /\ txn \in [Clients -> Txn] /\ answered \in [Requests -> SUBSET Quotes]
  BY DEF QuoteIInv, CreditTypeOK, Txn
<1>2. PICK q, r : q = txn[c].quote /\ r = txn[c].request
  OBVIOUS
<1>3. /\ q \in Quotes /\ r \in Requests /\ Replayed(r) = {} /\ Available >= Amount[q]
      /\ \A d \in Clients \ {c} : ~Open(d)
  BY <1>1, <1>2 DEF Confirm, At, Open, Serialized, StillTrue
<1>4. UNCHANGED <<expired, ledger, grant>> /\ txn' = [txn EXCEPT ![c] = IdleTxn]
  BY DEF Confirm, Done
<1>5. CASE UNCHANGED <<quote, res, request, answered>>
  BY <1>1, <1>4, <1>5, IdleTyped, TxnStepKeeps DEF rowVars, AnswerIsStable
<1>6. CASE /\ quote[q] = "issued" /\ quote' = [quote EXCEPT ![q] = "consumed"]
           /\ res' = [res EXCEPT ![q] = OpenReservation(Amount[q])]
           /\ request' = [request EXCEPT ![q] = r]
           /\ answered' = [answered EXCEPT ![r] = answered[r] \cup {q}]
  <2>1. ~Reserved(q) /\ res[q] = NoReservation /\ ledger[q] = EmptyLedger
    BY <1>1, <1>3, <1>6 DEF RowsSound
  <2>2. Amount[q] \in Nat \ {0}
    BY <1>3, AmountAssumption
  <2>3. /\ OpenReservation(Amount[q]) \in Reservation
        /\ OpenReservation(Amount[q]).reserved = Amount[q]
        /\ OpenReservation(Amount[q]).exposure = Amount[q]
        /\ OpenReservation(Amount[q]).status = "open"
    BY <2>2 DEF OpenReservation, Reservation, ReservationStatus
  <2>4. Sound(OpenReservation(Amount[q]), EmptyLedger, TRUE)
    <3>1. PICK paid : paid = TRUE
      OBVIOUS
    <3>2. Sound(OpenReservation(Amount[q]), EmptyLedger, paid)
      BY <2>2, <3>1, OpenIsSound
    <3> QED BY <3>1, <3>2, Zenon
  <2>5. /\ res'[q] = OpenReservation(Amount[q]) /\ ledger'[q] = EmptyLedger
        /\ quote'[q] = "consumed" /\ request'[q] = r
        /\ \A p \in Quotes \ {q} :
             /\ res'[p] = res[p] /\ ledger'[p] = ledger[p]
             /\ quote'[p] = quote[p] /\ request'[p] = request[p]
    BY <1>1, <1>3, <1>4, <1>6, <2>1 DEF CreditTypeOK
  <2>6. /\ txn' \in [Clients -> Txn] /\ txn'[c].pc = "idle"
        /\ \A d \in Clients \ {c} : txn'[d] = txn[d]
    BY <1>1, <1>4, IdleTyped
  <2>7. CreditTypeOK'
    <3>1. res' \in [Quotes -> Reservation \cup {NoReservation}]
      BY <1>1, <1>6, <2>3 DEF CreditTypeOK
    <3>2. quote' \in [Quotes -> QuoteStatus]
      BY <1>1, <1>6 DEF CreditTypeOK, QuoteStatus
    <3>3. request' \in [Quotes -> Requests \cup {NoRequest}]
      BY <1>1, <1>3, <1>6 DEF CreditTypeOK
    <3>4. answered' \in [Requests -> SUBSET Quotes]
      BY <1>1, <1>3, <1>6
    <3> QED BY <1>1, <1>4, <2>6, <3>1, <3>2, <3>3, <3>4 DEF CreditTypeOK, Txn
  <2>8. Reserved(q)' /\ \A p \in Quotes \ {q} : Reserved(p)' <=> Reserved(p)
    BY <2>3, <2>5 DEF Reserved
  <2>9. \A d \in Clients : ~Open(d)'
    BY <1>3, <2>6 DEF Open
  <2>10. Serialized' /\ StillTrue'
    BY <2>9 DEF Serialized, StillTrue, Open
  <2>11. RowsSound'
    <3> SUFFICES ASSUME NEW p \in Quotes
                 PROVE  /\ Reserved(p)' <=> quote'[p] = "consumed"
                        /\ Reserved(p)' =>
                             /\ Sound(res'[p], ledger'[p], TRUE)
                             /\ res'[p].reserved = Amount[p]
                             /\ res'[p].status = "closing" => res'[p].settled = 0
                        /\ ~Reserved(p)' => res'[p] = NoReservation /\ ledger'[p] = EmptyLedger
      BY DEF RowsSound
    <3>1. CASE p = q
      BY <3>1, <2>3, <2>4, <2>5, <2>8
    <3>2. CASE p # q
      BY <3>2, <1>1, <2>5, <2>8 DEF RowsSound
    <3> QED BY <3>1, <3>2
  <2>12. \A p \in Quotes \ {q} : Reserved(p)' => request'[p] # r
    BY <1>3, <2>5, <2>8 DEF Replayed
  <2>13. RequestsDiffer'
    <3> SUFFICES ASSUME NEW p \in Quotes, NEW x \in Quotes, Reserved(p)', Reserved(x)',
                        request'[p] = request'[x]
                 PROVE  p = x
      BY DEF RequestsDiffer
    <3>1. CASE p # q /\ x # q
      BY <3>1, <1>1, <2>5, <2>8 DEF RequestsDiffer
    <3>2. CASE p = q \/ x = q
      BY <3>2, <2>5, <2>12
    <3> QED BY <3>1, <3>2
  <2>14. Available' >= 0
    <3>1. /\ Available \in Int
          /\ Available' = Available + (grant' - grant) + Debt(q) - Debt(q)'
      BY <1>1, <1>3, <2>5, <2>7, BalanceMoves
    <3>2. Debt(q) = 0
      BY <2>1 DEF Debt, OpenExposure, ClosingExposure, NoReservation, EmptyLedger, LedgerKind
    <3>3. Debt(q)' = Amount[q]
      BY <2>2, <2>3, <2>5
      DEF Debt, OpenExposure, ClosingExposure, EmptyLedger, LedgerKind
    <3>4. grant' - grant = 0
      BY <1>1, <1>4, GrantAssumption DEF CreditTypeOK
    <3> QED BY <1>3, <2>2, <3>1, <3>2, <3>3, <3>4
  <2>15. AnswerIsStable'
    <3>1. Replayed(r)' = {q}
      BY <1>3, <2>5, <2>8, <2>12 DEF Replayed
    <3>2. \A x \in Requests \ {r} : Replayed(x)' = Replayed(x)
      <4> SUFFICES ASSUME NEW x \in Requests \ {r}, NEW p \in Quotes
                   PROVE  Reserved(p)' /\ request'[p] = x <=> Reserved(p) /\ request[p] = x
        BY DEF Replayed
      <4>1. CASE p = q
        BY <4>1, <2>1, <2>5
      <4>2. CASE p # q
        BY <4>2, <2>5, <2>8
      <4> QED BY <4>1, <4>2
    <3>3. answered[r] = {}
      BY <1>1, <1>3 DEF AnswerIsStable
    <3>4. answered'[r] = {q} /\ \A x \in Requests \ {r} : answered'[x] = answered[x]
      BY <1>1, <1>3, <1>6, <3>3
    <3>5. ASSUME NEW x \in Requests, answered'[x] # {} PROVE answered'[x] = Replayed(x)'
      BY <3>5, <3>1, <3>2, <3>4, <1>1 DEF AnswerIsStable
    <3> QED BY <3>5 DEF AnswerIsStable
  <2> QED BY <2>7, <2>10, <2>11, <2>13, <2>14, <2>15 DEF QuoteIInv
<1> QED BY <1>2, <1>5, <1>6 DEF Confirm

-----------------------------------------------------------------------------
(* The specification.                                                      *)

LEMMA CreditInitHolds == CreditInit => QuoteIInv
<1> SUFFICES ASSUME CreditInit PROVE QuoteIInv
  OBVIOUS
<1>1. NoReservation.status = "none"
  BY DEF NoReservation
<1>2. EmptyLedger \in Ledger
  BY DEF EmptyLedger, Ledger
<1>3. CreditTypeOK
  BY <1>2, IdleTyped DEF CreditInit, CreditTypeOK, QuoteStatus, Txn
<1>4. \A q \in Quotes : ~Reserved(q)
  BY <1>1 DEF CreditInit, Reserved
<1>5. \A c \in Clients : txn[c].pc = "idle"
  BY IdleTyped DEF CreditInit
<1>6. Serialized /\ StillTrue
  BY <1>5 DEF Serialized, StillTrue, Open
<1>7. RowsSound /\ RequestsDiffer
  BY <1>4 DEF RowsSound, RequestsDiffer, CreditInit
<1>8. Available >= 0
  BY BalanceStarts
<1>9. AnswerIsStable
  BY DEF AnswerIsStable, CreditInit
<1> QED BY <1>3, <1>6, <1>7, <1>8, <1>9 DEF QuoteIInv

LEMMA CreditStepHolds == QuoteIInv /\ [CreditNext]_creditVars => QuoteIInv'
<1> SUFFICES ASSUME QuoteIInv, [CreditNext]_creditVars PROVE QuoteIInv'
  OBVIOUS
<1>1. CASE Grant
  BY <1>1, GrantKeeps
<1>2. ASSUME NEW c \in Clients, ConfirmStep(c) PROVE QuoteIInv'
  BY <1>2, ReadsKeep, ConfirmKeeps DEF ConfirmStep
<1>3. ASSUME NEW q \in Quotes, QuoteStep(q) PROVE QuoteIInv'
  BY <1>3, QuoteKeeps, JobKeeps DEF QuoteStep
<1>4. CASE UNCHANGED creditVars
  <2>1. UNCHANGED <<quote, expired, res, ledger, request, grant, txn, answered>>
    BY <1>4 DEF creditVars
  <2>2. Available' = Available
    BY <2>1, BalanceStays
  <2>3. \A p \in Quotes : Reserved(p)' <=> Reserved(p)
    BY <2>1 DEF Reserved
  <2>4. \A r : Replayed(r)' = Replayed(r)
    BY <2>1, <2>3, ReplaysStay
  <2>5. CreditTypeOK' /\ Serialized' /\ RowsSound' /\ RequestsDiffer'
    BY <2>1, <2>3 DEF QuoteIInv, CreditTypeOK, Serialized, Open, RowsSound, RequestsDiffer
  <2>6. StillTrue' /\ AnswerIsStable' /\ Available' >= 0
    BY <2>1, <2>2, <2>4 DEF QuoteIInv, StillTrue, AnswerIsStable
  <2> QED BY <2>5, <2>6 DEF QuoteIInv
<1> QED BY <1>1, <1>2, <1>3, <1>4 DEF CreditNext

LEMMA QuoteInvariant == CreditSpec => []QuoteIInv
  BY CreditInitHolds, CreditStepHolds, PTL DEF CreditSpec

(* Quotes, reservations, ledgers and open confirmations are well typed in  *)
(* every reachable state.                                                  *)
THEOREM CreditTyped == CreditSpec => []CreditTypeOK
<1>1. QuoteIInv => CreditTypeOK
  BY DEF QuoteIInv
<1> QED BY <1>1, QuoteInvariant, PTL

(* A user's balance never goes below zero, and one that admitted a         *)
(* confirmation is still enough when it commits, although settlements,     *)
(* grants and returns do not wait for the lock on the user's row.          *)
THEOREM CreditNeverOverspent == CreditSpec => []NeverOverspent
<1>1. QuoteIInv => NeverOverspent
  BY DEF QuoteIInv, StillTrue, NeverOverspent, At
<1> QED BY <1>1, QuoteInvariant, PTL

(* A quote pays for one reservation, made by the confirmation that         *)
(* consumed it, and the retention sweep never deletes it.                  *)
THEOREM QuotesSpentOnce == CreditSpec => []QuoteSpentOnce
<1>1. QuoteIInv => QuoteSpentOnce
  <2> SUFFICES ASSUME QuoteIInv, NEW q \in Quotes
               PROVE  /\ Reserved(q) <=> quote[q] = "consumed"
                      /\ Reserved(q) => /\ res[q].reserved = Amount[q]
                                        /\ Replayed(request[q]) = {q}
    BY DEF QuoteSpentOnce
  <2>1. Reserved(q) => Replayed(request[q]) = {q}
    BY DEF QuoteIInv, RequestsDiffer, Replayed
  <2> QED BY <2>1 DEF QuoteIInv, RowsSound
<1> QED BY <1>1, QuoteInvariant, PTL

(* All positive answers to a confirmation request name one reservation,    *)
(* however often it is repeated and whatever quote it comes with.          *)
THEOREM AnswersStayStable == CreditSpec => []AnswerIsStable
<1>1. QuoteIInv => AnswerIsStable
  BY DEF QuoteIInv
<1> QED BY <1>1, QuoteInvariant, PTL

=============================================================================
