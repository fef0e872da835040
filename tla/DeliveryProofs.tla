--------------------------- MODULE DeliveryProofs ---------------------------
(***************************************************************************)
(* Proofs about what delivers: OutboxDelivery, StageWalk and LockOrder,    *)
(* for every value of their constants.                                     *)
(*                                                                         *)
(* Outbox: the inductive invariant is OutboxInv; claims of busy processes  *)
(* name rows that exist, with attempts not above the row's, and are        *)
(* pairwise different; an answer is recorded before it is finalized; and a *)
(* lease is kept by processing rows only.                                  *)
(*                                                                         *)
(* Walk: the inductive invariant is WalkInv.  What can be recovered of the *)
(* attempts rises through the plan, and a stage that was tried and not     *)
(* read back is the one the plan picks next; so one more outcome is        *)
(* recovered exactly where the owner remembers it, at the end.             *)
(*                                                                         *)
(* Locks: rank the rows.  Every handler but three takes rows of rising     *)
(* rank, so a client that waits for a row of rank n waits for one that     *)
(* waits for a row of higher rank; the ranks end at 7, and no cycle of     *)
(* such handlers exists.                                                   *)
(***************************************************************************)
EXTENDS OutboxDelivery, StageWalk, LockOrder, SequenceTheorems, FiniteSetTheorems,
        WellFoundedInduction, TLAPS

\* Outbox delivery.

ClaimsExist ==
  \A p \in Processes : Busy(p) =>
    /\ delivery[p].event \in Events
    /\ delivery[p].generation \in 1..Generation(delivery[p].event)
    /\ delivery[p].attempt \in 1..receipts[delivery[p].event][delivery[p].generation].attempt

ClaimsDiffer ==
  \A p, q \in Processes : Busy(p) /\ Busy(q) /\ ClaimOf(p) = ClaimOf(q) => p = q

AnswersRecorded ==
  \A p \in Processes : delivery[p].pc = "answered" =>
    [claim |-> ClaimOf(p), verdict |-> delivery[p].verdict] \in verdicts

LeaseOfProcessing ==
  \A e \in Events : \A g \in 1..Generation(e) :
    receipts[e][g].lease > 0 => receipts[e][g].status = "processing"

OutboxInv ==
  /\ OutboxTypeOK /\ ClaimsExist /\ ClaimsDiffer /\ AnswersRecorded
  /\ LeaseOfProcessing /\ OnlyDeadIsReplayed /\ VerdictOfAttempt

\* No row disappears, no row's attempt falls and no finalized row changes.
RowsGrow ==
  \A e \in Events :
    /\ Generation(e) <= Generation(e)'
    /\ \A g \in 1..Generation(e) :
         /\ receipts[e][g].attempt <= receipts'[e][g].attempt
         /\ receipts[e][g].status \in Verdict => receipts'[e][g] = receipts[e][g]

\* A row other than generation g of event e keeps its place and content.
KeptBut(e, g) ==
  \A f \in Events : \A h \in 1..Generation(f) :
    f # e \/ h # g => receipts'[f][h] = receipts[f][h]

\* What the invariant says of processes.
Deliveries ==
  delivery \in [Processes -> Delivery] /\ ClaimsExist /\ ClaimsDiffer /\ AnswersRecorded

\* What it says of rows.
Rows ==
  /\ receipts \in [Events -> Seq(Receipt)]
  /\ LeaseOfProcessing /\ OnlyDeadIsReplayed /\ VerdictOfAttempt

\* The invariant says something of processes, of rows, and types the rest.
LEMMA Parts ==
  OutboxInv <=> /\ Deliveries /\ Rows /\ appended \subseteq Events
                /\ verdicts \subseteq [claim : Claimed, verdict : Verdict]
BY DEF OutboxInv, OutboxTypeOK, Deliveries, Rows

\* To reach the invariant it is enough to reach its parts.
LEMMA PartsAfter ==
  ASSUME Deliveries', Rows', appended' \subseteq Events,
         verdicts' \subseteq [claim : Claimed, verdict : Verdict]
  PROVE  OutboxInv'
BY DEF OutboxInv, OutboxTypeOK, Deliveries, Rows

\* Init establishes every part: nothing is claimed, received or answered.
LEMMA InitOutboxInv == OutboxInit => OutboxInv
<1> SUFFICES ASSUME OutboxInit PROVE OutboxInv OBVIOUS
<1>1. Idle \in Delivery
  BY DEF Idle, Delivery, Verdict
<1>2. OutboxTypeOK
  BY <1>1 DEF OutboxInit, OutboxTypeOK
<1>3. \A e \in Events : Generation(e) = 0
  BY DEF OutboxInit, Generation
<1>4. \A p \in Processes : ~Busy(p) /\ delivery[p].pc # "answered"
  BY DEF OutboxInit, Busy, Idle
<1> QED BY <1>2, <1>3, <1>4 DEF OutboxInv, ClaimsExist, ClaimsDiffer, AnswersRecorded,
           LeaseOfProcessing, OnlyDeadIsReplayed, VerdictOfAttempt

-----------------------------------------------------------------------------
\* The two ways of writing rows.

\* Row g of event e is overwritten by r.
LEMMA WrittenRow ==
  ASSUME receipts \in [Events -> Seq(Receipt)],
         NEW e \in Events, NEW g \in 1..Generation(e), NEW r \in Receipt,
         receipts' = [receipts EXCEPT ![e] = [receipts[e] EXCEPT ![g] = r]]
  PROVE  /\ receipts' \in [Events -> Seq(Receipt)]
         /\ \A f \in Events : Generation(f)' = Generation(f)
         /\ KeptBut(e, g) /\ receipts'[e][g] = r
<1> DEFINE row == [receipts[e] EXCEPT ![g] = r]
<1>1. receipts[e] \in Seq(Receipt) /\ g \in 1..Len(receipts[e])
  BY DEF Generation
<1>2. /\ row \in Seq(Receipt) /\ Len(row) = Len(receipts[e])
      /\ \A j \in 1..Len(receipts[e]) : row[j] = IF j = g THEN r ELSE receipts[e][j]
  BY <1>1, ExceptSeq
<1>3. \A f \in Events : receipts'[f] = IF f = e THEN row ELSE receipts[f]
  OBVIOUS
<1> HIDE DEF row
<1>4. receipts' \in [Events -> Seq(Receipt)]
  BY <1>2, <1>3
<1> QED BY <1>1, <1>2, <1>3, <1>4 DEF Generation, KeptBut

\* A fresh row is appended to those of event e.
LEMMA AppendedRow ==
  ASSUME receipts \in [Events -> Seq(Receipt)], NEW e \in Events,
         receipts' = [receipts EXCEPT ![e] = Append(receipts[e], FreshReceipt)]
  PROVE  /\ receipts' \in [Events -> Seq(Receipt)] /\ RowsGrow
         /\ \A f \in Events : f # e => Generation(f)' = Generation(f)
         /\ Generation(e)' = Generation(e) + 1 /\ Generation(e) \in Nat
         /\ \A f \in Events : \A h \in 1..Generation(f) : receipts'[f][h] = receipts[f][h]
         /\ receipts'[e][Generation(e) + 1] = FreshReceipt
<1> DEFINE row == Append(receipts[e], FreshReceipt)
<1>1. receipts[e] \in Seq(Receipt)
  OBVIOUS
<1>2. FreshReceipt \in Receipt
  BY OutboxLeaseAssumption DEF FreshReceipt, Receipt, Verdict
<1>3. /\ row \in Seq(Receipt) /\ Len(row) = Len(receipts[e]) + 1
      /\ \A j \in 1..Len(receipts[e]) : row[j] = receipts[e][j]
      /\ row[Len(receipts[e]) + 1] = FreshReceipt
      /\ Len(receipts[e]) \in Nat
  BY <1>1, <1>2
<1>4. \A f \in Events : receipts'[f] = IF f = e THEN row ELSE receipts[f]
  OBVIOUS
<1> HIDE DEF row
<1>5. receipts' \in [Events -> Seq(Receipt)]
  BY <1>3, <1>4
<1>6. \A f \in Events : Len(receipts[f]) \in Nat
  OBVIOUS
<1>7. \A f \in Events : \A h \in 1..Generation(f) :
        receipts[f][h].attempt \in Nat /\ receipts'[f][h] = receipts[f][h]
  <2> SUFFICES ASSUME NEW f \in Events, NEW h \in 1..Len(receipts[f])
               PROVE  receipts[f][h].attempt \in Nat /\ receipts'[f][h] = receipts[f][h]
    BY DEF Generation
  <2>1. receipts[f] \in Seq(Receipt)
    OBVIOUS
  <2>2. receipts[f][h] \in Receipt
    BY <2>1, ElementOfSeq
  <2> QED BY <1>3, <1>4, <2>2 DEF Receipt
<1>8. \A f \in Events : Generation(f)' = IF f = e THEN Generation(f) + 1 ELSE Generation(f)
  BY <1>3, <1>4 DEF Generation
<1>9. RowsGrow
  BY <1>6, <1>7, <1>8 DEF RowsGrow, Generation
<1> QED BY <1>3, <1>4, <1>5, <1>7, <1>8, <1>9 DEF Generation

-----------------------------------------------------------------------------
\* What may happen to the processes.

\* An existing claim exists in grown rows.
LEMMA ClaimsSurvive ==
  ASSUME Rows, RowsGrow, receipts' \in [Events -> Seq(Receipt)],
         NEW e \in Events, NEW g \in 1..Generation(e), NEW a \in 1..receipts[e][g].attempt
  PROVE  g \in 1..Generation(e)' /\ a \in 1..receipts'[e][g].attempt
<1>1. receipts[e] \in Seq(Receipt) /\ receipts'[e] \in Seq(Receipt)
  BY DEF Rows
<1>2. Generation(e) \in Nat /\ Generation(e)' \in Nat
  BY <1>1 DEF Generation
<1>3. g \in 1..Generation(e)'
  BY <1>2 DEF RowsGrow
<1>4. receipts[e][g] \in Receipt /\ receipts'[e][g] \in Receipt
  BY <1>1, <1>3, ElementOfSeq DEF Generation
<1>5. receipts[e][g].attempt <= receipts'[e][g].attempt
  BY DEF RowsGrow
<1> QED BY <1>3, <1>4, <1>5 DEF Receipt

\* Nobody claims or answers.
LEMMA KeepDeliveries ==
  ASSUME Deliveries, Rows, RowsGrow, receipts' \in [Events -> Seq(Receipt)],
         UNCHANGED <<delivery, verdicts>>
  PROVE  Deliveries'
<1>1. ClaimsExist'
  BY ClaimsSurvive DEF Deliveries, ClaimsExist, Busy
<1>2. ClaimsDiffer' /\ AnswersRecorded'
  BY DEF Deliveries, ClaimsDiffer, AnswersRecorded, Busy, ClaimOf
<1> QED BY <1>1, <1>2 DEF Deliveries

\* A process drops its claim.
LEMMA StopDeliveries ==
  ASSUME Deliveries, Rows, RowsGrow, receipts' \in [Events -> Seq(Receipt)],
         NEW p \in Processes, Stop(p), UNCHANGED verdicts
  PROVE  Deliveries'
<1>1. Idle \in Delivery /\ Idle.pc = "idle"
  BY DEF Idle, Delivery, Verdict
<1>2. \A q \in Processes : delivery'[q] = IF q = p THEN Idle ELSE delivery[q]
  BY DEF Deliveries, Stop
<1>3. delivery' \in [Processes -> Delivery]
  BY <1>1 DEF Deliveries, Stop
<1>4. \A q \in Processes : Busy(q)' \/ delivery'[q].pc = "answered"
                             => delivery'[q] = delivery[q] /\ q # p
  BY <1>1, <1>2 DEF Busy
<1>5. \A q \in Processes : Busy(q)' => Busy(q) /\ ClaimOf(q)' = ClaimOf(q)
  BY <1>4 DEF Busy, ClaimOf
<1>6. ClaimsExist'
  <2> SUFFICES ASSUME NEW q \in Processes, Busy(q)'
               PROVE  /\ delivery'[q].event \in Events
                      /\ delivery'[q].generation \in 1..Generation(delivery[q].event)'
                      /\ delivery'[q].attempt
                           \in 1..receipts'[delivery[q].event][delivery[q].generation].attempt
    BY <1>4 DEF ClaimsExist, Busy
  <2> QED BY <1>4, <1>5, ClaimsSurvive DEF Deliveries, ClaimsExist
<1>7. ClaimsDiffer'
  BY <1>5 DEF Deliveries, ClaimsDiffer
<1>8. AnswersRecorded'
  BY <1>4 DEF Deliveries, AnswersRecorded, ClaimOf
<1> QED BY <1>3, <1>6, <1>7, <1>8 DEF Deliveries

\* An idle process claims a row nobody has claimed with that attempt.
LEMMA StartDeliveries ==
  ASSUME Deliveries, Rows, RowsGrow, receipts' \in [Events -> Seq(Receipt)],
         NEW p \in Processes, NEW e \in Events, NEW g \in 1..Generation(e)', NEW a,
         a = receipts'[e][g].attempt, Start(p, e, g, a), UNCHANGED verdicts,
         \A q \in Processes :
           Busy(q) => delivery[q].event # e \/ delivery[q].generation # g
                        \/ delivery[q].attempt # a
  PROVE  Deliveries'
<1> DEFINE new == [pc |-> "handling", event |-> e, generation |-> g, attempt |-> a,
                   verdict |-> "completed"]
<1>1. receipts'[e] \in Seq(Receipt)
  OBVIOUS
<1>2. receipts'[e][g] \in Receipt
  BY <1>1, ElementOfSeq DEF Generation
<1>3. g \in Nat /\ a \in Nat \ {0}
  BY <1>1, <1>2 DEF Receipt, Generation
<1>4. new \in Delivery
  BY <1>3 DEF Delivery, Verdict
<1>5. \A q \in Processes : delivery'[q] = IF q = p THEN new ELSE delivery[q]
  BY DEF Deliveries, Start
<1>6. delivery' \in [Processes -> Delivery]
  BY <1>4 DEF Deliveries, Start
<1>7. \A q \in Processes : q # p /\ Busy(q)' => Busy(q) /\ ClaimOf(q)' = ClaimOf(q)
  BY <1>5 DEF Busy, ClaimOf
<1>8. ClaimOf(p)' = [event |-> e, generation |-> g, attempt |-> a]
  BY <1>5 DEF ClaimOf
<1>9. ClaimsExist'
  <2>1. g \in 1..Len(receipts'[e]) /\ a \in 1..receipts'[e][g].attempt
    BY <1>3 DEF Generation
  <2>2. /\ delivery'[p].event = e /\ delivery'[p].generation = g
        /\ delivery'[p].attempt = a
    BY <1>5
  <2>3. ASSUME NEW q \in Processes, q # p, Busy(q)'
        PROVE  /\ delivery'[q].event \in Events
               /\ delivery'[q].generation \in 1..Len(receipts'[delivery'[q].event])
               /\ delivery'[q].attempt
                    \in 1..receipts'[delivery'[q].event][delivery'[q].generation].attempt
    <3>1. delivery'[q] = delivery[q] /\ Busy(q)
      BY <1>5, <1>7, <2>3
    <3>2. /\ delivery[q].event \in Events
          /\ delivery[q].generation \in 1..Generation(delivery[q].event)
          /\ delivery[q].attempt
               \in 1..receipts[delivery[q].event][delivery[q].generation].attempt
      BY <3>1 DEF Deliveries, ClaimsExist
    <3>3. /\ delivery[q].generation \in 1..Len(receipts'[delivery[q].event])
          /\ delivery[q].attempt
               \in 1..receipts'[delivery[q].event][delivery[q].generation].attempt
      BY <3>2, ClaimsSurvive DEF Generation
    <3> QED BY <3>1, <3>2, <3>3
  <2> QED BY <2>1, <2>2, <2>3 DEF ClaimsExist, Generation
<1>10. \A q \in Processes : q # p /\ Busy(q)' => ClaimOf(q)' # ClaimOf(p)'
  <2> SUFFICES ASSUME NEW q \in Processes, q # p, Busy(q)', ClaimOf(q)' = ClaimOf(p)'
               PROVE  FALSE
    OBVIOUS
  <2>1. Busy(q) /\ ClaimOf(q) = [event |-> e, generation |-> g, attempt |-> a]
    BY <1>7, <1>8
  <2> QED BY <2>1 DEF ClaimOf
<1>11. ClaimsDiffer'
  BY <1>7, <1>10 DEF Deliveries, ClaimsDiffer
<1>12. AnswersRecorded'
  BY <1>5 DEF Deliveries, AnswersRecorded, ClaimOf
<1> QED BY <1>6, <1>9, <1>11, <1>12 DEF Deliveries

\* A handler answers: the answer is recorded with the claim, which does not move.
LEMMA AnswerDeliveries ==
  ASSUME Deliveries, UNCHANGED receipts, NEW p \in Processes, NEW v \in Verdict,
         delivery[p].pc = "handling",
         delivery' = [delivery EXCEPT ![p] = [delivery[p] EXCEPT !.pc = "answered", !.verdict = v]],
         verdicts' = verdicts \cup {[claim |-> ClaimOf(p), verdict |-> v]}
  PROVE  /\ Deliveries'
         /\ ClaimOf(p) \in Claimed
<1>1. delivery[p] \in Delivery
  BY DEF Deliveries
<1>2. \A q \in Processes :
        delivery'[q] = IF q = p THEN [delivery[p] EXCEPT !.pc = "answered", !.verdict = v]
                                ELSE delivery[q]
  BY DEF Deliveries
<1>3. [delivery[p] EXCEPT !.pc = "answered", !.verdict = v] \in Delivery
  BY <1>1 DEF Delivery
<1>4. delivery' \in [Processes -> Delivery]
  BY <1>3 DEF Deliveries
<1>5. \A q \in Processes :
        /\ delivery'[q].event = delivery[q].event
        /\ delivery'[q].generation = delivery[q].generation
        /\ delivery'[q].attempt = delivery[q].attempt
        /\ Busy(q)' => Busy(q)
  BY <1>1, <1>2 DEF Busy, Delivery
<1>6. \A q \in Processes : ClaimOf(q)' = ClaimOf(q)
  BY <1>5 DEF ClaimOf
<1>7. ClaimsExist'
  BY <1>5 DEF Deliveries, ClaimsExist, Generation
<1>8. ClaimsDiffer'
  BY <1>5, <1>6 DEF Deliveries, ClaimsDiffer
<1>9. /\ delivery'[p].verdict = v
      /\ \A q \in Processes : q # p => delivery'[q] = delivery[q]
  <2>1. delivery'[p] = [delivery[p] EXCEPT !.pc = "answered", !.verdict = v]
    BY <1>2
  <2>2. delivery'[p].verdict = v
    BY <1>1, <2>1 DEF Delivery
  <2> QED BY <1>2, <2>2
<1>10. AnswersRecorded'
  BY <1>6, <1>9 DEF Deliveries, AnswersRecorded
<1>11. ClaimOf(p) \in Claimed
  <2>1. Busy(p)
    BY DEF Busy
  <2>2. /\ delivery[p].event \in Events
        /\ delivery[p].attempt # 0 /\ delivery[p].generation # 0
    BY <2>1 DEF Deliveries, ClaimsExist
  <2> QED BY <1>1, <2>2 DEF ClaimOf, Claimed, Delivery
<1> QED BY <1>4, <1>7, <1>8, <1>10, <1>11 DEF Deliveries

-----------------------------------------------------------------------------
\* What may happen to rows.

\* Answers may be recorded while rows stay.
LEMMA KeepRows ==
  ASSUME Rows, UNCHANGED receipts, verdicts \subseteq verdicts'
  PROVE  Rows' /\ RowsGrow
<1>1. \A e \in Events : Generation(e)' = Generation(e) /\ Generation(e) \in Nat
  BY DEF Rows, Generation
<1>2. \A e \in Events : \A g \in 1..Generation(e) : receipts[e][g].attempt \in Nat
  <2> SUFFICES ASSUME NEW e \in Events, NEW g \in 1..Len(receipts[e])
               PROVE  receipts[e][g].attempt \in Nat
    BY DEF Generation
  <2>1. receipts[e] \in Seq(Receipt)
    BY DEF Rows
  <2>2. receipts[e][g] \in Receipt
    BY <2>1, ElementOfSeq
  <2> QED BY <2>2 DEF Receipt
<1> QED BY <1>1, <1>2 DEF Rows, RowsGrow, LeaseOfProcessing, OnlyDeadIsReplayed, VerdictOfAttempt

\* A processing row is overwritten by r: it is again processing, with a lease and
\* perhaps a higher attempt, or it takes the recorded verdict of its attempt.
LEMMA WriteRows ==
  ASSUME Rows, NEW e \in Events, NEW g \in 1..Generation(e), NEW r \in Receipt,
         receipts[e][g].status = "processing", UNCHANGED verdicts,
         receipts' = [receipts EXCEPT ![e] = [receipts[e] EXCEPT ![g] = r]],
         receipts[e][g].attempt <= r.attempt,
         r.lease > 0 => r.status = "processing",
         r.status \in Verdict =>
           [claim |-> [event |-> e, generation |-> g, attempt |-> r.attempt],
            verdict |-> r.status] \in verdicts
  PROVE  Rows' /\ RowsGrow /\ KeptBut(e, g) /\ receipts'[e][g] = r
         /\ \A f \in Events : Generation(f)' = Generation(f)
<1>1. /\ receipts' \in [Events -> Seq(Receipt)]
      /\ \A f \in Events : Generation(f)' = Generation(f)
      /\ KeptBut(e, g) /\ receipts'[e][g] = r
  BY WrittenRow DEF Rows
<1>2. \A f \in Events : Generation(f) \in Nat
  BY DEF Rows, Generation
<1>3. \A f \in Events : \A h \in 1..Generation(f) :
        \/ f = e /\ h = g
        \/ receipts'[f][h] = receipts[f][h] /\ receipts[f][h].attempt \in Nat
  <2> SUFFICES ASSUME NEW f \in Events, NEW h \in 1..Len(receipts[f])
               PROVE  \/ f = e /\ h = g
                      \/ receipts'[f][h] = receipts[f][h] /\ receipts[f][h].attempt \in Nat
    BY DEF Generation
  <2>1. receipts[f] \in Seq(Receipt)
    BY DEF Rows
  <2>2. receipts[f][h] \in Receipt
    BY <2>1, ElementOfSeq
  <2> QED BY <1>1, <2>2 DEF KeptBut, Generation, Receipt
<1>4. RowsGrow
  BY <1>1, <1>2, <1>3 DEF RowsGrow, Verdict
<1>5. LeaseOfProcessing'
  BY <1>1, <1>3 DEF Rows, LeaseOfProcessing
<1>6. OnlyDeadIsReplayed'
  <2>1. g = Generation(e)
    BY <1>2 DEF Rows, OnlyDeadIsReplayed
  <2> QED BY <1>1, <1>3, <2>1 DEF Rows, OnlyDeadIsReplayed
<1>7. VerdictOfAttempt'
  BY <1>1, <1>3 DEF Rows, VerdictOfAttempt
<1> QED BY <1>1, <1>4, <1>5, <1>6, <1>7 DEF Rows

\* A fresh row is appended over none or over a dead one.
LEMMA AppendRows ==
  ASSUME Rows, NEW e \in Events, UNCHANGED verdicts,
         receipts' = [receipts EXCEPT ![e] = Append(receipts[e], FreshReceipt)],
         Generation(e) # 0 => receipts[e][Generation(e)].status = "dead"
  PROVE  Rows'
<1>1. /\ receipts' \in [Events -> Seq(Receipt)]
      /\ \A f \in Events : f # e => Generation(f)' = Generation(f)
      /\ Generation(e)' = Generation(e) + 1 /\ Generation(e) \in Nat
      /\ \A f \in Events : \A h \in 1..Generation(f) : receipts'[f][h] = receipts[f][h]
      /\ receipts'[e][Generation(e) + 1] = FreshReceipt
  BY AppendedRow DEF Rows
<1>2. FreshReceipt.status = "processing" /\ "processing" \notin Verdict
  BY DEF FreshReceipt, Verdict
<1>3. \A f \in Events : \A h \in 1..Generation(f)' :
        \/ h \in 1..Generation(f) /\ receipts'[f][h] = receipts[f][h]
        \/ f = e /\ h = Generation(e) + 1 /\ receipts'[f][h] = FreshReceipt
  <2> SUFFICES ASSUME NEW f \in Events, NEW h \in 1..Generation(f)'
               PROVE  \/ h \in 1..Generation(f) /\ receipts'[f][h] = receipts[f][h]
                      \/ f = e /\ h = Generation(e) + 1 /\ receipts'[f][h] = FreshReceipt
    OBVIOUS
  <2>1. CASE f # e
    <3>1. h \in 1..Generation(f)
      BY <1>1, <2>1
    <3> QED BY <1>1, <3>1
  <2>2. CASE f = e /\ h \in 1..Generation(e)
    BY <1>1, <2>2
  <2>3. CASE f = e /\ h \notin 1..Generation(e)
    <3>1. h = Generation(e) + 1
      BY <1>1, <2>3
    <3> QED BY <1>1, <2>3, <3>1
  <2> QED BY <2>1, <2>2, <2>3
<1>4. LeaseOfProcessing'
  <2> SUFFICES ASSUME NEW f \in Events, NEW h \in 1..Generation(f)'
               PROVE  receipts'[f][h].lease > 0 => receipts'[f][h].status = "processing"
    BY DEF LeaseOfProcessing
  <2> QED BY <1>2, <1>3 DEF Rows, LeaseOfProcessing
<1>5. OnlyDeadIsReplayed'
  <2> SUFFICES ASSUME NEW f \in Events, NEW h \in 1..Generation(f)', h < Generation(f)'
               PROVE  receipts'[f][h].status = "dead"
    BY DEF OnlyDeadIsReplayed
  <2>1. h \in 1..Generation(f) /\ receipts'[f][h] = receipts[f][h]
    <3>1. ASSUME f = e, h = Generation(e) + 1 PROVE FALSE
      <4>1. Generation(f)' = Generation(e) + 1
        BY <1>1, <3>1 DEF Generation
      <4> QED BY <1>1, <3>1, <4>1
    <3> QED BY <1>3, <3>1
  <2>2. CASE h < Generation(f)
    BY <2>1, <2>2 DEF Rows, OnlyDeadIsReplayed
  <2>3. CASE ~(h < Generation(f))
    <3>1. f = e
      BY <1>1, <2>3
    <3>2. h = Generation(e) /\ Generation(e) # 0
      BY <1>1, <2>1, <2>3, <3>1
    <3> QED BY <2>1, <3>1, <3>2
  <2> QED BY <2>2, <2>3
<1>6. VerdictOfAttempt'
  <2> SUFFICES ASSUME NEW f \in Events, NEW h \in 1..Generation(f)',
                      receipts'[f][h].status \in Verdict
               PROVE  [claim |-> [event |-> f, generation |-> h,
                                  attempt |-> receipts'[f][h].attempt],
                       verdict |-> receipts'[f][h].status] \in verdicts'
    BY DEF VerdictOfAttempt
  <2>1. h \in 1..Generation(f) /\ receipts'[f][h] = receipts[f][h]
    BY <1>2, <1>3
  <2> QED BY <2>1 DEF Rows, VerdictOfAttempt
<1> QED BY <1>1, <1>4, <1>5, <1>6 DEF Rows

-----------------------------------------------------------------------------
\* A row of an event that has one is a receipt, and so is the latest.
LEMMA RowTyped ==
  ASSUME Rows, NEW e \in Events, NEW g \in 1..Generation(e)
  PROVE  receipts[e][g] \in Receipt
<1>1. receipts[e] \in Seq(Receipt)
  BY DEF Rows
<1> QED BY <1>1, ElementOfSeq DEF Generation

\* The latest row of an event that has one.
LEMMA LatestTyped ==
  ASSUME Rows, NEW e \in Events, receipts[e] # <<>>
  PROVE  /\ Generation(e) \in 1..Generation(e) /\ Generation(e) # 0
         /\ Latest(e) = receipts[e][Generation(e)] /\ Latest(e) \in Receipt
<1>1. receipts[e] \in Seq(Receipt)
  BY DEF Rows
<1>2. Len(receipts[e]) \in Nat \ {0}
  BY <1>1, EmptySeq
<1>3. Generation(e) \in 1..Generation(e) /\ Generation(e) # 0
  BY <1>2 DEF Generation
<1> QED BY <1>3, RowTyped DEF Latest, Generation

\* What the three ways of rewriting a row make of it.
LEMMA RewrittenTyped ==
  ASSUME NEW x \in Receipt
  PROVE  /\ x.attempt \in Nat
         /\ Reclaimed(x) \in Receipt /\ Reclaimed(x).attempt = x.attempt + 1
         /\ Reclaimed(x).status = x.status
         /\ \A v \in Verdict :
              /\ [x EXCEPT !.status = v, !.lease = 0] \in Receipt
              /\ [x EXCEPT !.status = v, !.lease = 0].status = v
              /\ [x EXCEPT !.status = v, !.lease = 0].attempt = x.attempt
              /\ [x EXCEPT !.status = v, !.lease = 0].lease = 0
<1>1. x \in [status : {"processing"} \cup Verdict, attempt : Nat \ {0}, lease : 0..LeaseTerm]
  BY DEF Receipt
<1>2. 0 \in 0..LeaseTerm /\ LeaseTerm \in 0..LeaseTerm
  BY OutboxLeaseAssumption
<1>3. x.attempt \in Nat /\ x.attempt + 1 \in Nat \ {0}
  BY <1>1
<1>4. Reclaimed(x) \in Receipt
  BY <1>1, <1>2, <1>3 DEF Reclaimed, Receipt
<1>5. Reclaimed(x).attempt = x.attempt + 1 /\ Reclaimed(x).status = x.status
  BY <1>1 DEF Reclaimed
<1>6. \A v \in Verdict : [x EXCEPT !.status = v, !.lease = 0] \in Receipt
  BY <1>1, <1>2 DEF Receipt
<1>7. \A v \in Verdict :
        /\ [x EXCEPT !.status = v, !.lease = 0].status = v
        /\ [x EXCEPT !.status = v, !.lease = 0].attempt = x.attempt
        /\ [x EXCEPT !.status = v, !.lease = 0].lease = 0
  BY <1>1
<1> QED BY <1>3, <1>4, <1>5, <1>6, <1>7

\* An event is appended: no row is written.
LEMMA AppendEventInv ==
  ASSUME OutboxInv, NEW e \in Events, AppendEvent(e) PROVE OutboxInv' /\ RowsGrow
<1>1. Deliveries /\ Rows /\ appended' \subseteq Events
      /\ verdicts' \subseteq [claim : Claimed, verdict : Verdict]
  BY Parts DEF AppendEvent
<1>2. Rows' /\ RowsGrow
  BY <1>1, KeepRows DEF AppendEvent
<1>3. Deliveries'
  BY <1>1, <1>2, KeepDeliveries DEF AppendEvent, Rows
<1> QED BY <1>1, <1>2, <1>3, PartsAfter

\* The first claim of an event and a replay append a fresh row.
Fresh(p, e) ==
  /\ receipts' = [receipts EXCEPT ![e] = Append(receipts[e], FreshReceipt)]
  /\ Start(p, e, Generation(e) + 1, 1)
  /\ Generation(e) # 0 => receipts[e][Generation(e)].status = "dead"

\* A fresh row is claimed by nobody else, whose claims are all on older rows.
LEMMA StartFresh ==
  ASSUME Deliveries, Rows, NEW e \in Events, NEW p \in Processes, Fresh(p, e),
         UNCHANGED verdicts
  PROVE  Deliveries' /\ Rows' /\ RowsGrow
<1>0. receipts' \in [Events -> Seq(Receipt)] /\ RowsGrow
  BY AppendedRow DEF Rows, Fresh
<1>1. /\ Generation(e)' = Generation(e) + 1 /\ Generation(e) \in Nat
      /\ receipts'[e][Generation(e) + 1] = FreshReceipt
  BY AppendedRow DEF Rows, Fresh
<1>2. Generation(e) + 1 \in 1..Generation(e)'
  BY <1>1
<1>3. \A q \in Processes :
        Busy(q) => delivery[q].event # e \/ delivery[q].generation # Generation(e) + 1
  BY <1>1 DEF Deliveries, ClaimsExist
<1>4. receipts'[e][Generation(e) + 1].attempt = 1
  <2>1. FreshReceipt.attempt = 1
    BY DEF FreshReceipt
  <2> QED BY <1>1, <2>1
<1>5. Deliveries'
  <2>1. ASSUME NEW g \in 1..Generation(e)', NEW a, g = Generation(e) + 1, a = 1,
               Start(p, e, g, a)
        PROVE  Deliveries'
    <3>1. a = receipts'[e][g].attempt
      BY <1>4, <2>1
    <3>2. \A q \in Processes :
            Busy(q) => delivery[q].event # e \/ delivery[q].generation # g
                         \/ delivery[q].attempt # a
      BY <1>3, <2>1
    <3> QED BY <1>0, <2>1, <3>1, <3>2, StartDeliveries
  <2> QED BY <1>2, <2>1 DEF Fresh
<1>6. Rows'
  BY AppendRows DEF Fresh
<1> QED BY <1>0, <1>5, <1>6

\* The first claim appends a row; a later one takes over the lapsed latest row with an
\* attempt above that of every claim there is.
LEMMA ClaimNextInv ==
  ASSUME OutboxInv, NEW p \in Processes, NEW e \in Events, ClaimNext(p, e)
  PROVE  OutboxInv' /\ RowsGrow
<1>1. Deliveries /\ Rows /\ appended' \subseteq Events
      /\ verdicts' \subseteq [claim : Claimed, verdict : Verdict]
      /\ UNCHANGED verdicts
  BY Parts DEF ClaimNext
<1>2. CASE /\ receipts[e] = <<>>
           /\ receipts' = [receipts EXCEPT ![e] = <<FreshReceipt>>]
           /\ Start(p, e, 1, 1)
  <2>1. Generation(e) = 0
    BY <1>2 DEF Generation
  <2>2. Append(receipts[e], FreshReceipt) = <<FreshReceipt>>
    BY <1>2
  <2>3. /\ receipts' = [receipts EXCEPT ![e] = Append(receipts[e], FreshReceipt)]
        /\ Start(p, e, Generation(e) + 1, 1)
    BY <1>2, <2>1, <2>2
  <2>4. Deliveries' /\ Rows' /\ RowsGrow
    BY <1>1, <2>1, <2>3, StartFresh DEF Fresh
  <2> QED BY <1>1, <2>4, PartsAfter
<1>3. CASE /\ receipts[e] # <<>>
           /\ receipts' = [receipts EXCEPT ![e][Generation(e)] = Reclaimed(@)]
           /\ Start(p, e, Generation(e), Reclaimed(Latest(e)).attempt)
  <2> DEFINE g == Generation(e)
             r == Reclaimed(Latest(e))
  <2>1. /\ g \in 1..Generation(e)
        /\ Latest(e) = receipts[e][g] /\ Latest(e) \in Receipt
    BY <1>1, <1>3, LatestTyped
  <2>2. Latest(e).status = "processing"
    BY <1>3 DEF ClaimNext, Eligible
  <2>3. /\ r \in Receipt /\ r.attempt = receipts[e][g].attempt + 1
        /\ r.status = "processing" /\ receipts[e][g].attempt \in Nat
    BY <2>1, <2>2, RewrittenTyped
  <2>4. r.status \notin Verdict
    BY <2>3 DEF Verdict
  <2>5. receipts' = [receipts EXCEPT ![e] = [receipts[e] EXCEPT ![g] = r]]
    BY <1>3, <2>1
  <2> HIDE DEF g, r
  <2>6. /\ Rows' /\ RowsGrow /\ receipts'[e][g] = r
        /\ \A f \in Events : Generation(f)' = Generation(f)
    <3>1. /\ receipts[e][g].status = "processing" /\ receipts[e][g].attempt <= r.attempt
          /\ r.lease > 0 => r.status = "processing"
      BY <2>1, <2>2, <2>3
    <3>2. r.status \in Verdict =>
            [claim |-> [event |-> e, generation |-> g, attempt |-> r.attempt],
             verdict |-> r.status] \in verdicts
      BY <2>4
    <3> QED BY <1>1, <2>1, <2>3, <2>5, <3>1, <3>2, WriteRows
  <2>7. g \in 1..Generation(e)'
    BY <2>1, <2>6
  <2>8. \A q \in Processes :
          Busy(q) => delivery[q].event # e \/ delivery[q].generation # g
                       \/ delivery[q].attempt # r.attempt
    BY <1>1, <2>3 DEF Deliveries, ClaimsExist
  <2>9. Start(p, e, g, r.attempt)
    BY <1>3 DEF g, r
  <2>10. r.attempt = receipts'[e][g].attempt
    BY <2>6
  <2>11. receipts' \in [Events -> Seq(Receipt)]
    BY <2>6 DEF Rows
  <2>12. Deliveries /\ Rows /\ RowsGrow /\ UNCHANGED verdicts
    BY <1>1, <2>6
  <2>13. Deliveries'
    BY <2>7, <2>8, <2>9, <2>10, <2>11, <2>12, StartDeliveries
  <2> QED BY <1>1, <2>6, <2>13, PartsAfter
<1> QED BY <1>2, <1>3 DEF ClaimNext

\* A replay opens a generation over a dead one.
LEMMA ReplayDeadInv ==
  ASSUME OutboxInv, NEW p \in Processes, NEW e \in Events, ReplayDead(p, e)
  PROVE  OutboxInv' /\ RowsGrow
<1>1. Deliveries /\ Rows /\ appended' \subseteq Events
      /\ verdicts' \subseteq [claim : Claimed, verdict : Verdict]
      /\ UNCHANGED verdicts
  BY Parts DEF ReplayDead
<1>2. receipts[e] # <<>> /\ Latest(e).status = "dead"
  BY DEF ReplayDead
<1>3. Latest(e) = receipts[e][Generation(e)]
  BY <1>1, <1>2, LatestTyped
<1>4. /\ receipts' = [receipts EXCEPT ![e] = Append(receipts[e], FreshReceipt)]
      /\ Start(p, e, Generation(e) + 1, 1)
  BY DEF ReplayDead
<1>5. Deliveries' /\ Rows' /\ RowsGrow
  BY <1>1, <1>2, <1>3, <1>4, StartFresh DEF Fresh
<1> QED BY <1>1, <1>5, PartsAfter

\* The handler answers or the process lets go: no row is written.
LEMMA HandleInv ==
  ASSUME OutboxInv, NEW p \in Processes, Handle(p) PROVE OutboxInv' /\ RowsGrow
<1>1. Deliveries /\ Rows /\ appended' \subseteq Events
      /\ verdicts \subseteq [claim : Claimed, verdict : Verdict]
      /\ UNCHANGED receipts /\ delivery[p].pc = "handling"
  BY Parts DEF Handle
<1>2. verdicts \subseteq verdicts'
  BY DEF Handle
<1>3. Rows' /\ RowsGrow /\ receipts' \in [Events -> Seq(Receipt)]
  BY <1>1, <1>2, KeepRows DEF Rows
<1>4. ASSUME NEW v \in Verdict,
             delivery' = [delivery EXCEPT ![p] = [delivery[p] EXCEPT !.pc = "answered",
                                                                     !.verdict = v]],
             verdicts' = verdicts \cup {[claim |-> ClaimOf(p), verdict |-> v]}
      PROVE  OutboxInv' /\ RowsGrow
  <2>1. Deliveries' /\ ClaimOf(p) \in Claimed
    BY <1>1, <1>4, AnswerDeliveries
  <2>2. verdicts' \subseteq [claim : Claimed, verdict : Verdict]
    BY <1>1, <1>4, <2>1
  <2> QED BY <1>1, <1>3, <2>1, <2>2, PartsAfter
<1>5. CASE Stop(p) /\ UNCHANGED verdicts
  <2>1. Deliveries'
    BY <1>1, <1>3, <1>5, StopDeliveries
  <2> QED BY <1>1, <1>3, <1>5, <2>1, PartsAfter
<1> QED BY <1>4, <1>5 DEF Handle

\* Recording an outcome writes a claimed, processing row with the recorded answer.
LEMMA RecordRows ==
  ASSUME Deliveries, Rows, NEW p \in Processes, delivery[p].pc = "answered",
         Live(p), Record(p), UNCHANGED verdicts
  PROVE  Rows' /\ RowsGrow
<1> DEFINE e == delivery[p].event
           g == delivery[p].generation
           r == [receipts[e][g] EXCEPT !.status = delivery[p].verdict, !.lease = 0]
<1>1. /\ e \in Events /\ g \in 1..Generation(e)
  BY DEF Deliveries, ClaimsExist, Busy
<1>2. delivery[p].verdict \in Verdict /\ delivery[p] \in Delivery
  BY DEF Deliveries, Delivery
<1>3. receipts[e][g] \in Receipt
  BY <1>1, RowTyped
<1>4. /\ r \in Receipt /\ r.attempt = receipts[e][g].attempt /\ r.lease = 0
      /\ r.status = delivery[p].verdict /\ receipts[e][g].attempt \in Nat
  BY <1>2, <1>3, RewrittenTyped
<1>5. receipts[e][g].status = "processing" /\ receipts[e][g].attempt = delivery[p].attempt
  BY DEF Live, Current, ClaimOf
<1>6. [claim |-> [event |-> e, generation |-> g, attempt |-> r.attempt],
       verdict |-> r.status] \in verdicts
  BY <1>4, <1>5 DEF Deliveries, AnswersRecorded, ClaimOf
<1>7. receipts' = [receipts EXCEPT ![e] = [receipts[e] EXCEPT ![g] = r]]
  BY DEF Record
<1> HIDE DEF e, g, r
<1>8. receipts[e][g].attempt <= r.attempt /\ (r.lease > 0 => r.status = "processing")
  BY <1>4
<1> QED BY <1>1, <1>4, <1>5, <1>6, <1>7, <1>8, WriteRows

\* A live claim records its answer; a stale one writes nothing.
LEMMA FinalizeInv ==
  ASSUME OutboxInv, NEW p \in Processes, Finalize(p) PROVE OutboxInv' /\ RowsGrow
<1>1. Deliveries /\ Rows /\ appended' \subseteq Events
      /\ verdicts' \subseteq [claim : Claimed, verdict : Verdict]
      /\ UNCHANGED verdicts /\ Stop(p)
  BY Parts DEF Finalize
<1>2. Rows' /\ RowsGrow
  <2>1. CASE Live(p) /\ Record(p)
    BY <1>1, <2>1, RecordRows DEF Finalize
  <2>2. CASE UNCHANGED receipts
    BY <1>1, <2>2, KeepRows
  <2> QED BY <2>1, <2>2 DEF Finalize
<1>3. Deliveries'
  BY <1>1, <1>2, StopDeliveries DEF Rows
<1> QED BY <1>1, <1>2, <1>3, PartsAfter

\* A claim is dropped and its row left to the clock.
LEMMA AbandonInv ==
  ASSUME OutboxInv, NEW p \in Processes, Abandon(p) PROVE OutboxInv' /\ RowsGrow
<1>1. Deliveries /\ Rows /\ appended' \subseteq Events
      /\ verdicts' \subseteq [claim : Claimed, verdict : Verdict]
      /\ UNCHANGED <<receipts, verdicts>> /\ Stop(p)
  BY Parts DEF Abandon
<1>2. Rows' /\ RowsGrow
  BY <1>1, KeepRows
<1>3. Deliveries'
  BY <1>1, <1>2, StopDeliveries DEF Rows
<1> QED BY <1>1, <1>2, <1>3, PartsAfter

\* Only a processing row has a lease that can shrink.
LEMMA ElapseInv ==
  ASSUME OutboxInv, NEW e \in Events, Elapse(e) PROVE OutboxInv' /\ RowsGrow
<1> DEFINE g == Generation(e)
           r == [receipts[e][g] EXCEPT !.lease = @ - 1]
<1>1. Deliveries /\ Rows /\ appended' \subseteq Events
      /\ verdicts' \subseteq [claim : Claimed, verdict : Verdict]
      /\ UNCHANGED <<delivery, verdicts>>
  BY Parts DEF Elapse
<1>2. /\ g \in 1..Generation(e)
      /\ Latest(e) = receipts[e][g] /\ receipts[e][g] \in Receipt
      /\ receipts[e][g].lease > 0
  BY <1>1, LatestTyped DEF Elapse
<1>3. receipts[e][g].status = "processing"
  BY <1>1, <1>2 DEF Rows, LeaseOfProcessing
<1>4. /\ r \in Receipt /\ r.attempt = receipts[e][g].attempt
      /\ r.status = "processing" /\ receipts[e][g].attempt \in Nat
  BY <1>2, <1>3, OutboxLeaseAssumption DEF Receipt
<1>5. r.status \notin Verdict /\ receipts[e][g].attempt <= r.attempt
  BY <1>4 DEF Verdict
<1>6. receipts' = [receipts EXCEPT ![e] = [receipts[e] EXCEPT ![g] = r]]
  BY <1>2 DEF Elapse
<1> HIDE DEF g, r
<1>7. Rows' /\ RowsGrow
  <2>1. r \in Receipt /\ (r.lease > 0 => r.status = "processing")
    BY <1>4
  <2>2. r.status \in Verdict =>
          [claim |-> [event |-> e, generation |-> g, attempt |-> r.attempt],
           verdict |-> r.status] \in verdicts
    BY <1>5
  <2>3. UNCHANGED verdicts /\ g \in 1..Generation(e)
    BY <1>1, <1>2
  <2> QED BY <1>1, <1>3, <1>5, <1>6, <2>1, <2>2, <2>3, WriteRows
<1>8. Deliveries'
  BY <1>1, <1>7, KeepDeliveries DEF Rows
<1> QED BY <1>1, <1>7, <1>8, PartsAfter

-----------------------------------------------------------------------------
\* Every step preserves the invariant and lets rows only grow.
LEMMA NextOutboxInv == OutboxInv /\ [OutboxNext]_outboxVars => OutboxInv' /\ RowsGrow
<1> SUFFICES ASSUME OutboxInv, [OutboxNext]_outboxVars PROVE OutboxInv' /\ RowsGrow OBVIOUS
<1>1. ASSUME NEW p \in Processes, Claim(p) PROVE OutboxInv' /\ RowsGrow
  BY <1>1, ClaimNextInv DEF Claim
<1>2. ASSUME NEW p \in Processes, Deliver(p) PROVE OutboxInv' /\ RowsGrow
  BY <1>2, HandleInv, FinalizeInv DEF Deliver
<1>3. ASSUME NEW p \in Processes, Abandon(p) PROVE OutboxInv' /\ RowsGrow
  BY <1>3, AbandonInv
<1>4. ASSUME NEW p \in Processes, NEW e \in Events, ReplayDead(p, e) PROVE OutboxInv' /\ RowsGrow
  BY <1>4, ReplayDeadInv
<1>5. ASSUME NEW e \in Events, AppendEvent(e) \/ Elapse(e) PROVE OutboxInv' /\ RowsGrow
  BY <1>5, AppendEventInv, ElapseInv
<1>6. CASE UNCHANGED outboxVars
  <2>1. OutboxInv'
    BY <1>6 DEF outboxVars, OutboxInv, OutboxTypeOK, ClaimsExist, ClaimsDiffer, AnswersRecorded,
       LeaseOfProcessing, OnlyDeadIsReplayed, VerdictOfAttempt, Busy, ClaimOf, Generation
  <2>2. RowsGrow
    BY <1>6, Parts, KeepRows DEF outboxVars
  <2> QED BY <2>1, <2>2
<1> QED BY <1>1, <1>2, <1>3, <1>4, <1>5, <1>6 DEF OutboxNext

\* The invariant holds in every reachable state.
LEMMA OutboxInvHolds == OutboxSpec => []OutboxInv
<1>1. OutboxInit => OutboxInv
  BY InitOutboxInv
<1>2. OutboxInv /\ [OutboxNext]_outboxVars => OutboxInv'
  BY NextOutboxInv
<1> QED BY <1>1, <1>2, PTL DEF OutboxSpec

(* Rows, claims and answers are well typed in every reachable state.       *)
THEOREM OutboxTyped == OutboxSpec => []OutboxTypeOK
<1>1. OutboxInv => OutboxTypeOK
  BY DEF OutboxInv
<1> QED BY <1>1, OutboxInvHolds, PTL

(* A current claim names the latest generation, since every older row is   *)
(* dead, and the row's attempt; claims are different, so there is only one.*)
THEOREM OneClaimIsCurrent == OutboxSpec => []OneCurrentClaim
<1>1. OutboxInv => OneCurrentClaim
  <2> SUFFICES ASSUME OutboxInv, NEW p \in Processes, NEW q \in Processes,
                      Current(p), Current(q), delivery[p].event = delivery[q].event
               PROVE  p = q
    BY DEF OneCurrentClaim
  <2> DEFINE e == delivery[p].event
  <2>1. /\ Busy(p) /\ Busy(q) /\ e \in Events
        /\ delivery[p].generation \in 1..Generation(e)
        /\ delivery[q].generation \in 1..Generation(e)
    BY DEF OutboxInv, ClaimsExist, Current
  <2>2. /\ receipts[e][delivery[p].generation].status = "processing"
        /\ receipts[e][delivery[p].generation].attempt = delivery[p].attempt
        /\ receipts[e][delivery[q].generation].status = "processing"
        /\ receipts[e][delivery[q].generation].attempt = delivery[q].attempt
    BY DEF Current, ClaimOf
  <2>3. ~(delivery[p].generation < Generation(e)) /\ ~(delivery[q].generation < Generation(e))
    BY <2>1, <2>2 DEF OutboxInv, OnlyDeadIsReplayed
  <2>4. Generation(e) \in Nat
    <3>1. receipts[e] \in Seq(Receipt)
      BY <2>1 DEF OutboxInv, OutboxTypeOK
    <3> QED BY <3>1 DEF Generation
  <2>5. delivery[p].generation = delivery[q].generation
    BY <2>1, <2>3, <2>4
  <2>6. ClaimOf(p) = ClaimOf(q)
    BY <2>2, <2>5 DEF ClaimOf
  <2> QED BY <2>1, <2>6 DEF OutboxInv, ClaimsDiffer
<1> QED BY <1>1, OutboxInvHolds, PTL

(* A superseded attempt never decides the outcome of a generation.         *)
THEOREM VerdictsAreOfAttempt == OutboxSpec => []VerdictOfAttempt
<1>1. OutboxInv => VerdictOfAttempt
  BY DEF OutboxInv
<1> QED BY <1>1, OutboxInvHolds, PTL

(* A generation is opened over a dead one only.                            *)
THEOREM DeadIsReplayed == OutboxSpec => []OnlyDeadIsReplayed
<1>1. OutboxInv => OnlyDeadIsReplayed
  BY DEF OutboxInv
<1> QED BY <1>1, OutboxInvHolds, PTL

(* No operation touches a finalized receipt and no receipt disappears.     *)
THEOREM FinalReceiptsStay == OutboxSpec => ReceiptsAreFinal
<1>1. OutboxInv /\ [OutboxNext]_outboxVars
        => \A e \in Events : \A g \in 1..Generation(e) :
             /\ Generation(e) <= Len(receipts'[e])
             /\ receipts[e][g].status \in Verdict => receipts'[e][g] = receipts[e][g]
  BY NextOutboxInv DEF RowsGrow, Generation
<1> QED BY <1>1, OutboxInvHolds, PTL DEF OutboxSpec, ReceiptsAreFinal
-----------------------------------------------------------------------------
\* The walk over the stages.

\* Induction over the naturals, by a least counterexample.
LEMMA LeastNatural ==
  ASSUME NEW F \in SUBSET Nat, F # {}
  PROVE  \E n \in F : \A m \in F : n <= m
<1>1. \E n \in F : \A m \in F : ~(<<m, n>> \in OpToRel(<, Nat))
  BY NatLessThanWellFounded, WFMin
<1>2. \A m, n \in Nat : <<m, n>> \in OpToRel(<, Nat) <=> m < n
  BY DEF OpToRel
<1>3. PICK n \in F : \A m \in F : ~(<<m, n>> \in OpToRel(<, Nat))
  BY <1>1
<1>4. ASSUME NEW m \in F PROVE n <= m
  <2>1. ~(m < n)
    BY <1>2, <1>3
  <2> QED BY <2>1
<1> QED BY <1>4

-----------------------------------------------------------------------------
\* The plans of the catalogue.

LEMMA PlanShape ==
  ASSUME WalkAssumption
  PROVE  /\ Len(Stages) \in Nat /\ Len(Stages) \in {2, 5} /\ DOMAIN Stages = 1..Len(Stages)
         /\ \A i \in DOMAIN Stages : Stages[i].cap \in Nat /\ Stages[i].cap > 0
         /\ kind = "beat_write_judge" <=> Len(Stages) = 5
         /\ Stages[1].policy = "always" /\ Stages[Len(Stages)].policy # "always"
<1>1. CASE kind = "beat_write_judge"
  BY <1>1 DEF Stages, BeatStages, Stage, Always, ParseRepair, WalkAssumption
<1>2. CASE kind # "beat_write_judge"
  BY <1>2 DEF Stages, SingleStages, Stage, Always, ParseRepair, WalkAssumption
<1> QED BY <1>1, <1>2

\* The sums of the capacities.
LEMMA BudgetIs ==
  ASSUME WalkAssumption
  PROVE  Budget = Invocations + Len(Stages) - 1
<1> DEFINE n == Len(Stages)
           f == [i \in 0..n |-> IF i = 0 THEN 0 ELSE Invocations + i - 1]
           Sums(s) == s = [i \in 0..n |-> IF i = 0 THEN 0 ELSE s[i - 1] + Stages[i].cap]
           sum == CHOOSE s : Sums(s)
<1>1. n \in {2, 5} /\ Stages[1].cap = Invocations /\ \A i \in 2..n : Stages[i].cap = 1
  <2>1. CASE kind = "beat_write_judge"
    BY <2>1 DEF Stages, BeatStages, Stage, Always, ParseRepair
  <2>2. CASE kind # "beat_write_judge"
    BY <2>2 DEF Stages, SingleStages, Stage, Always, ParseRepair
  <2> QED BY <2>1, <2>2
<1>2. Invocations \in Nat /\ n \in Nat
  BY <1>1 DEF WalkAssumption
<1>3. Sums(f)
  BY <1>1, <1>2
<1>4. Sums(sum)
  BY <1>3
<1>5. Budget = sum[n]
  BY DEF Budget
<1> HIDE DEF sum
<1>6. sum[0] = 0 /\ \A i \in 1..n : sum[i] = sum[i - 1] + Stages[i].cap
  BY <1>2, <1>4
<1>7. CASE n = 2
  <2>1. sum[1] = Invocations /\ sum[2] = sum[1] + 1
    BY <1>1, <1>2, <1>6, <1>7
  <2> QED BY <1>2, <1>5, <1>7, <2>1
<1>8. CASE n = 5
  <2>1. /\ sum[1] = Invocations /\ sum[2] = sum[1] + 1 /\ sum[3] = sum[2] + 1
        /\ sum[4] = sum[3] + 1 /\ sum[5] = sum[4] + 1
    BY <1>1, <1>2, <1>6, <1>8
  <2> QED BY <1>2, <1>5, <1>8, <2>1
<1> QED BY <1>1, <1>7, <1>8

-----------------------------------------------------------------------------
\* Outcomes and what they make due.

Outcome == [stage : 1..5, failed : BOOLEAN, unparsed : BOOLEAN, unjudged : BOOLEAN]

Rising(o) == \A p, q \in DOMAIN o : p < q => o[p].stage < o[q].stage
Ahead(o) == \A p \in DOMAIN o, k \in Due(o) : o[p].stage < k
Picks(o, i) == i \in Due(o) /\ (\A k \in Due(o) : i =< k) /\ ~Blocked(o, i)

LEMMA DueLeast ==
  ASSUME WalkAssumption, NEW o, Due(o) # {}
  PROVE  \E i \in Due(o) : \A k \in Due(o) : i =< k
<1>1. \A k \in Due(o) : k \in 1..5
  BY PlanShape DEF Due
<1>2. PICK d : d = Due(o)
  OBVIOUS
<1>3. CASE 1 \in d
  BY <1>1, <1>2, <1>3
<1>4. CASE 1 \notin d /\ 2 \in d
  BY <1>1, <1>2, <1>4
<1>5. CASE 1 \notin d /\ 2 \notin d /\ 3 \in d
  BY <1>1, <1>2, <1>5
<1>6. CASE 1 \notin d /\ 2 \notin d /\ 3 \notin d /\ 4 \in d
  BY <1>1, <1>2, <1>6
<1>7. CASE 1 \notin d /\ 2 \notin d /\ 3 \notin d /\ 4 \notin d /\ 5 \in d
  BY <1>1, <1>2, <1>7
<1> QED BY <1>1, <1>2, <1>3, <1>4, <1>5, <1>6, <1>7

\* A stage is begun when it is picked, and not too often.
LEMMA ActionPicks ==
  ASSUME WalkAssumption, NEW o, NEW used
  PROVE  /\ NextAction(o, used) > 0 =>
              /\ Picks(o, NextAction(o, used)) /\ ~Exhausted(NextAction(o, used), used)
              /\ NextAction(o, used) \in DOMAIN Stages
         /\ NextAction(o, used) = 0 => Due(o) = {} /\ Completes(o)
<1>1. CASE Due(o) = {}
  BY <1>1 DEF NextAction
<1>2. CASE Due(o) # {}
  <2> DEFINE i == CHOOSE k \in Due(o) : \A m \in Due(o) : k =< m
  <2>1. i \in Due(o) /\ \A m \in Due(o) : i =< m
    BY <1>2, DueLeast
  <2>2. NextAction(o, used) = IF Blocked(o, i) \/ Exhausted(i, used) THEN -1 ELSE i
    BY <1>2 DEF NextAction
  <2>3. i \in DOMAIN Stages /\ i \in Nat /\ i > 0
    BY <2>1, PlanShape DEF Due
  <2> HIDE DEF i
  <2> QED BY <2>1, <2>2, <2>3 DEF Picks
<1> QED BY <1>1, <1>2

\* One more outcome is remembered.
LEMMA Remembers ==
  ASSUME WalkAssumption, NEW o \in Seq(Outcome), Rising(o), NEW x \in Outcome,
         \A p \in DOMAIN o : o[p].stage < x.stage
  PROVE  LET more == Append(o, x) IN
         /\ more \in Seq(Outcome) /\ Rising(more) /\ LatestOf(more) = x
         /\ \A k : Has(more, k) <=> Has(o, k) \/ k = x.stage
         /\ OutcomeOf(more, x.stage) = x
         /\ \A k : Has(o, k) => OutcomeOf(more, k) = OutcomeOf(o, k)
<1> DEFINE more == Append(o, x)
<1>1. /\ more \in Seq(Outcome) /\ DOMAIN more = 1..(Len(o) + 1) /\ Len(o) \in Nat
      /\ Len(more) = Len(o) + 1
      /\ more[Len(o) + 1] = x /\ \A p \in DOMAIN o : more[p] = o[p] /\ p \in 1..Len(o)
      /\ DOMAIN o = 1..Len(o)
  OBVIOUS
<1>2. \A p \in DOMAIN o : o[p] \in Outcome /\ o[p].stage \in Int
  <2>1. \A p \in DOMAIN o : o[p] \in Outcome
    OBVIOUS
  <2>2. \A y \in Outcome : y.stage \in Int
    BY DEF Outcome
  <2> QED BY <2>1, <2>2
<1>3. x.stage \in Int
  BY DEF Outcome
<1> HIDE DEF more
<1>4. Rising(more)
  BY <1>1, <1>2, <1>3 DEF Rising
<1>5. \A k : Has(more, k) <=> Has(o, k) \/ k = x.stage
  BY <1>1 DEF Has
<1>6. \A n \in DOMAIN more : more[n].stage = x.stage => n = Len(o) + 1
  BY <1>1, <1>2, <1>3
<1>7. OutcomeOf(more, x.stage) = x
  BY <1>1, <1>6 DEF OutcomeOf
<1>8. ASSUME NEW k, Has(o, k) PROVE OutcomeOf(more, k) = OutcomeOf(o, k)
  <2>1. PICK n \in DOMAIN o : o[n].stage = k
    BY <1>8 DEF Has
  <2>2. \A m \in DOMAIN o : o[m].stage = k => m = n
    BY <1>1, <1>2, <2>1 DEF Rising
  <2>3. n \in DOMAIN more /\ more[n] = o[n]
    BY <1>1
  <2>4. \A m \in DOMAIN more : more[m].stage = k => m = n
    BY <1>1, <1>2, <1>3, <2>1, <2>2
  <2>5. OutcomeOf(o, k) = o[n]
    BY <2>1, <2>2 DEF OutcomeOf
  <2>6. OutcomeOf(more, k) = more[n]
    BY <2>1, <2>3, <2>4 DEF OutcomeOf
  <2> QED BY <2>3, <2>5, <2>6
<1>9. LatestOf(more) = x
  BY <1>1 DEF LatestOf
<1> QED BY <1>1, <1>4, <1>5, <1>7, <1>8, <1>9 DEF more

\* What it makes due lies further on, and a refusal makes nothing due but what
\* it blocks.
LEMMA Advances ==
  ASSUME WalkAssumption, NEW o \in Seq(Outcome), Rising(o), Ahead(o), NEW x \in Outcome,
         Picks(o, x.stage)
  PROVE  LET more == Append(o, x) IN
         /\ \A k \in Due(more) : k > x.stage
         /\ Ahead(more)
         /\ x.failed /\ ~x.unparsed /\ ~x.unjudged =>
              \A used : NextAction(more, used) = -1
<1> DEFINE more == Append(o, x)
           i == x.stage
<1>1. \A p \in DOMAIN o : o[p].stage < i
  BY DEF Picks, Ahead
<1>2. /\ more \in Seq(Outcome) /\ Rising(more) /\ LatestOf(more) = x
      /\ \A k : Has(more, k) <=> Has(o, k) \/ k = i
      /\ OutcomeOf(more, i) = x
      /\ \A k : Has(o, k) => OutcomeOf(more, k) = OutcomeOf(o, k)
  BY <1>1, Remembers
<1>3. i \in Nat /\ i \in 1..5
  BY DEF Outcome
<1>4. more # <<>> /\ \A p \in DOMAIN more : p \in DOMAIN o \/ more[p] = x
  OBVIOUS
<1>5. \A p \in DOMAIN o : more[p] = o[p]
  OBVIOUS
<1> HIDE DEF more
<1>6. ASSUME NEW k \in DOMAIN Stages, k < i, Triggered(more, k) PROVE Triggered(o, k)
  <2>1. k \in Nat
    BY PlanShape
  <2>2. Preceding(more, k) = Preceding(o, k)
    BY <1>2, <1>3, <1>6, <2>1 DEF Preceding
  <2>3. Nearest(more, k) = Nearest(o, k)
    BY <2>2 DEF Nearest
  <2>4. Preceding(o, k) # {} /\ \A m \in Preceding(o, k) : m \in 1..5 /\ Has(o, m)
    BY <1>3, <1>6, <2>1, <2>2 DEF Triggered, Preceding
  <2>5. Nearest(o, k) \in Preceding(o, k)
    <3>1. PICK d \in SUBSET (1..5) : d = Preceding(o, k)
      BY <2>4
    <3>2. \E m \in d : \A n \in d : n =< m
      <4>1. CASE 5 \in d
        BY <4>1
      <4>2. CASE 5 \notin d /\ 4 \in d
        BY <4>2
      <4>3. CASE 5 \notin d /\ 4 \notin d /\ 3 \in d
        BY <4>3
      <4>4. CASE 5 \notin d /\ 4 \notin d /\ 3 \notin d /\ 2 \in d
        BY <4>4
      <4>5. CASE 5 \notin d /\ 4 \notin d /\ 3 \notin d /\ 2 \notin d
        BY <2>4, <3>1, <4>5
      <4> QED BY <4>1, <4>2, <4>3, <4>4, <4>5
    <3> QED BY <3>1, <3>2 DEF Nearest
  <2>6. OutcomeOf(more, Nearest(more, k)) = OutcomeOf(o, Nearest(o, k))
    BY <1>2, <2>3, <2>4, <2>5
  <2> QED BY <1>6, <2>2, <2>6 DEF Triggered
<1>7. ASSUME NEW k \in DOMAIN Stages, k > i
      PROVE  Triggered(more, k) =>
               \/ Stages[k].policy = "on_parse_failure" /\ x.unparsed
               \/ Stages[k].policy = "on_judge_fail" /\ x.unjudged
  <2>1. k \in Nat
    BY PlanShape
  <2>2. i \in Preceding(more, k) /\ \A m \in Preceding(more, k) : m =< i /\ m \in Nat
    <3>1. \A m : Has(o, m) => m < i
      BY <1>1 DEF Has
    <3> QED BY <1>2, <1>3, <1>7, <2>1, <3>1 DEF Preceding
  <2>3. Nearest(more, k) = i
    <3>1. \A m \in Preceding(more, k) : (\A n \in Preceding(more, k) : n =< m) => m = i
      BY <1>3, <2>2
    <3> QED BY <2>2, <3>1 DEF Nearest
  <2> QED BY <1>2, <2>3 DEF Triggered
<1>8. ASSUME NEW k \in Due(more) PROVE k > i
  <2>1. k \in DOMAIN Stages /\ k \in Nat /\ ~Has(o, k) /\ k # i
    BY <1>2, PlanShape DEF Due
  <2>2. CASE k < i
    <3>1. k \in Due(o)
      BY <1>6, <2>1, <2>2 DEF Due
    <3> QED BY <1>3, <2>1, <2>2, <3>1 DEF Picks
  <2> QED BY <1>3, <2>1, <2>2
<1>9. Ahead(more)
  <2> SUFFICES ASSUME NEW p \in DOMAIN more, NEW k \in Due(more)
               PROVE  more[p].stage < k
    BY DEF Ahead
  <2>1. k > i /\ k \in Nat
    BY <1>8, PlanShape DEF Due
  <2>2. CASE p \in DOMAIN o
    <3>1. o[p].stage < i /\ o[p] \in Outcome
      BY <1>1, <2>2
    <3>2. o[p].stage \in Nat
      BY <3>1 DEF Outcome
    <3> QED BY <1>3, <1>5, <2>1, <2>2, <3>1, <3>2
  <2> QED BY <1>4, <2>1, <2>2
<1>10. ASSUME x.failed, ~x.unparsed, ~x.unjudged, NEW used
       PROVE  NextAction(more, used) = -1
  <2>1. \A k \in DOMAIN Stages : k > i => ~Triggered(more, k)
    BY <1>7, <1>10
  <2>2. \A k \in Due(more) : Stages[k].policy = "always"
    BY <1>8, <2>1 DEF Due
  <2>3. \A k \in Due(more) : Blocked(more, k)
    BY <1>2, <1>4, <1>10, <2>1, <2>2 DEF Blocked
  <2>4. CASE Due(more) # {}
    <3> DEFINE k == CHOOSE d \in Due(more) : \A m \in Due(more) : d =< m
    <3>1. k \in Due(more)
      BY <2>4, DueLeast
    <3>2. NextAction(more, used) = IF Blocked(more, k) \/ Exhausted(k, used) THEN -1 ELSE k
      BY <2>4 DEF NextAction
    <3> HIDE DEF k
    <3> QED BY <2>3, <3>1, <3>2
  <2>5. CASE Due(more) = {}
    <3> DEFINE last == Len(Stages)
    <3>1. last \in DOMAIN Stages /\ last \in Nat
      BY PlanShape
    <3>2. ~Completes(more)
      <4>1. ASSUME Has(more, last), ~OutcomeOf(more, last).failed PROVE FALSE
        <5>1. last # i /\ Has(o, last)
          BY <1>2, <1>10, <4>1
        <5>2. last < i
          BY <1>1, <5>1 DEF Has
        <5>3. i \in DOMAIN Stages
          BY DEF Picks, Due
        <5> QED BY <1>3, <3>1, <5>2, <5>3, PlanShape
      <4> QED BY <1>2, <1>10, <4>1 DEF Completes
    <3> QED BY <2>5, <3>2 DEF NextAction
  <2> QED BY <2>4, <2>5
<1> QED BY <1>8, <1>9, <1>10 DEF more

-----------------------------------------------------------------------------
\* Attempts, and what is recovered from them.

Try == [stage : 1..5,
        answer : {"good", "failing", "unparsed", "refused", "started", "abandoned"}]
TriesTyped ==
  attempts \in Seq(Try) /\ \A n \in DOMAIN attempts : attempts[n].stage \in DOMAIN Stages

Known == {i \in DOMAIN Stages :
            \E n \in DOMAIN attempts : attempts[n].stage = i /\ ReadBack(attempts[n])}
Place(i) == Cardinality({k \in Known : FirstTry(k) =< FirstTry(i)})
At(p) == CHOOSE i \in Known : Place(i) = p

\* No stage is read back twice.
OneAnswer ==
  \A m, n \in DOMAIN attempts :
    ReadBack(attempts[m]) /\ ReadBack(attempts[n]) /\ attempts[m].stage = attempts[n].stage
      => m = n

\* The places are those of the known stages.
Enumerates ==
  /\ \A p \in 1..Cardinality(Known) : At(p) \in Known
  /\ \A i \in Known : \E p \in 1..Cardinality(Known) : At(p) = i

LEMMA KnownFinite ==
  ASSUME WalkAssumption
  PROVE  IsFiniteSet(Known) /\ Cardinality(Known) \in Nat /\ Known \subseteq 1..5
<1>1. Known \subseteq 1..5
  BY PlanShape DEF Known
<1>2. IsFiniteSet(1..5)
  <2>1. \A a, b \in Int : IsFiniteSet(a..b)
    BY FS_Interval
  <2>2. PICK a \in Int, b \in Int : a = 1 /\ b = 5
    OBVIOUS
  <2>3. IsFiniteSet(a..b)
    BY <2>1
  <2> QED BY <2>2, <2>3
<1>3. IsFiniteSet(Known)
  BY <1>1, <1>2, FS_Subset
<1> QED BY <1>1, <1>3, FS_CardinalityType

LEMMA RecoveredIs ==
  Recovered = [p \in 1..Cardinality(Known) |-> OutcomeFrom(At(p), attempts[LastRead(At(p))].answer)]
  BY DEF Recovered, Known, At, Place

\* A known stage is read back from its one answer.
LEMMA ReadOf ==
  ASSUME TriesTyped, OneAnswer, NEW i \in Known
  PROVE  /\ LastRead(i) \in DOMAIN attempts /\ attempts[LastRead(i)].stage = i
         /\ ReadBack(attempts[LastRead(i)])
<1>1. PICK n \in DOMAIN attempts : attempts[n].stage = i /\ ReadBack(attempts[n])
  BY DEF Known
<1>2. \A m \in DOMAIN attempts : attempts[m].stage = i /\ ReadBack(attempts[m]) => m = n
  BY <1>1 DEF OneAnswer
<1>3. n \in Nat
  BY DEF TriesTyped
<1>4. \A m \in DOMAIN attempts : attempts[m].stage = i /\ ReadBack(attempts[m]) => m =< n
  BY <1>2, <1>3
<1> QED BY <1>1, <1>4 DEF LastRead

\* What is recovered: an outcome for every known stage, of its one answer.
LEMMA RecoveredStands ==
  ASSUME WalkAssumption, TriesTyped, OneAnswer, Enumerates
  PROVE  /\ Recovered \in Seq(Outcome) /\ Len(Recovered) = Cardinality(Known)
         /\ \A k : Has(Recovered, k) <=> k \in Known
         /\ \A p \in DOMAIN Recovered :
              /\ Recovered[p].stage = At(p) /\ At(p) \in Known
              /\ \E n \in DOMAIN attempts :
                   /\ attempts[n].stage = At(p) /\ ReadBack(attempts[n])
                   /\ Recovered[p] = OutcomeFrom(At(p), attempts[n].answer)
<1>1. Cardinality(Known) \in Nat /\ Known \subseteq 1..5
  BY KnownFinite
<1>2. ASSUME NEW p \in 1..Cardinality(Known)
      PROVE  /\ Recovered[p] = OutcomeFrom(At(p), attempts[LastRead(At(p))].answer)
             /\ Recovered[p] \in Outcome /\ Recovered[p].stage = At(p) /\ At(p) \in Known
             /\ LastRead(At(p)) \in DOMAIN attempts /\ attempts[LastRead(At(p))].stage = At(p)
             /\ ReadBack(attempts[LastRead(At(p))])
  <2>1. At(p) \in Known
    BY DEF Enumerates
  <2>2. Recovered[p] = OutcomeFrom(At(p), attempts[LastRead(At(p))].answer)
    BY RecoveredIs
  <2>3. PICK i, a : i \in 1..5 /\ i = At(p) /\ a = attempts[LastRead(At(p))].answer
    BY <1>1, <2>1
  <2>4. OutcomeFrom(i, a) \in Outcome /\ OutcomeFrom(i, a).stage = i
    BY <2>3 DEF OutcomeFrom, Outcome, VerdictFails
  <2> QED BY <2>1, <2>2, <2>3, <2>4, ReadOf
<1>3. DOMAIN Recovered = 1..Cardinality(Known)
  BY RecoveredIs
<1>4. Recovered \in Seq(Outcome) /\ Len(Recovered) = Cardinality(Known)
  <2>1. Recovered = [p \in 1..Cardinality(Known) |-> Recovered[p]]
    BY RecoveredIs
  <2> HIDE DEF Recovered
  <2>2. Recovered \in [1..Cardinality(Known) -> Outcome]
    BY <1>2, <2>1
  <2> QED BY <1>1, <2>2
<1>5. \A k : Has(Recovered, k) <=> k \in Known
  BY <1>2, <1>3 DEF Has, Enumerates
<1> QED BY <1>2, <1>3, <1>4, <1>5

-----------------------------------------------------------------------------
\* What is written of the attempts, but for an answer that can be read back.
NothingRead ==
  /\ kind' = kind /\ attempts' \in Seq(Try)
  /\ \A n \in DOMAIN attempts :
       /\ n \in DOMAIN attempts' /\ attempts'[n].stage = attempts[n].stage
       /\ ReadBack(attempts'[n]) <=> ReadBack(attempts[n])
       /\ ReadBack(attempts[n]) => attempts'[n] = attempts[n]
  /\ \A n \in DOMAIN attempts' \ DOMAIN attempts :
       ~ReadBack(attempts'[n]) /\ attempts'[n].stage \in DOMAIN Stages

LEMMA StagesStay ==
  ASSUME kind' = kind
  PROVE  /\ Stages' = Stages
         /\ \A i, a : OutcomeFrom(i, a)' = OutcomeFrom(i, a)
  BY DEF Stages, BeatStages, SingleStages, Stage, Always, ParseRepair, OutcomeFrom, VerdictFails

LEMMA FirstOf ==
  ASSUME TriesTyped, NEW i, \E n \in DOMAIN attempts : attempts[n].stage = i
  PROVE  /\ FirstTry(i) \in DOMAIN attempts /\ attempts[FirstTry(i)].stage = i
         /\ \A m \in DOMAIN attempts : attempts[m].stage = i => FirstTry(i) =< m
<1>1. PICK F \in SUBSET Nat : F = {n \in DOMAIN attempts : attempts[n].stage = i}
  <2>1. \A n \in DOMAIN attempts : n \in Nat
    BY DEF TriesTyped
  <2> QED BY <2>1
<1>2. PICK n \in F : \A m \in F : n =< m
  BY <1>1, LeastNatural
<1>3. n \in DOMAIN attempts /\ attempts[n].stage = i
      /\ \A m \in DOMAIN attempts : attempts[m].stage = i => n =< m
  BY <1>1, <1>2
<1> QED BY <1>3 DEF FirstTry

LEMMA FirstIs ==
  ASSUME TriesTyped, NEW i, NEW n \in DOMAIN attempts, attempts[n].stage = i,
         \A m \in DOMAIN attempts : attempts[m].stage = i => n =< m
  PROVE  FirstTry(i) = n
<1>1. FirstTry(i) \in DOMAIN attempts /\ attempts[FirstTry(i)].stage = i /\ FirstTry(i) =< n
  BY FirstOf
<1>2. n =< FirstTry(i)
  BY <1>1
<1>3. \A m \in DOMAIN attempts : m \in Nat
  BY DEF TriesTyped
<1>4. n \in Nat /\ FirstTry(i) \in Nat
  BY <1>1, <1>3
<1> QED BY <1>1, <1>2, <1>4

\* Attempts come later than those there are.
LEMMA FirstStays ==
  ASSUME WalkAssumption, TriesTyped, NothingRead, NEW i,
         \E n \in DOMAIN attempts : attempts[n].stage = i
  PROVE  TriesTyped' /\ FirstTry(i)' = FirstTry(i)
<1>1. TriesTyped'
  <2>1. \A n \in DOMAIN attempts' : attempts'[n].stage \in DOMAIN Stages
    BY DEF NothingRead, TriesTyped
  <2> QED BY <2>1, StagesStay DEF NothingRead, TriesTyped
<1>2. PICK f : f = FirstTry(i)
  OBVIOUS
<1>3. f \in DOMAIN attempts /\ attempts[f].stage = i
      /\ \A m \in DOMAIN attempts : attempts[m].stage = i => f =< m
  BY <1>2, FirstOf
<1>4. f \in DOMAIN attempts' /\ attempts'[f].stage = i
  BY <1>3 DEF NothingRead
<1>5. ASSUME NEW m \in DOMAIN attempts', attempts'[m].stage = i PROVE f =< m
  <2>1. CASE m \in DOMAIN attempts
    BY <1>3, <1>5, <2>1 DEF NothingRead
  <2>2. CASE m \notin DOMAIN attempts
    BY <1>1, <1>3, <2>2 DEF TriesTyped
  <2> QED BY <2>1, <2>2
<1>6. FirstTry(i)' = f
  <2>1. \E n \in DOMAIN attempts' : attempts'[n].stage = i
    BY <1>4
  <2>2. /\ FirstTry(i)' \in DOMAIN attempts' /\ (attempts[FirstTry(i)].stage)' = i
        /\ FirstTry(i)' =< f
    <3>1. PICK g \in Nat : /\ g \in DOMAIN attempts' /\ attempts'[g].stage = i
                           /\ \A m \in DOMAIN attempts' : attempts'[m].stage = i => g =< m
      BY <1>1, <1>4, <1>5 DEF TriesTyped
    <3> QED BY <1>1, <1>4, <3>1 DEF FirstTry
  <2> QED BY <1>1, <1>3, <1>4, <1>5, <2>2 DEF TriesTyped
<1> QED BY <1>1, <1>2, <1>6

\* Nothing else is recovered then.
LEMMA RecoveredStays ==
  ASSUME WalkAssumption, TriesTyped, OneAnswer, Enumerates, NothingRead
  PROVE  /\ TriesTyped' /\ OneAnswer' /\ Enumerates'
         /\ Known' = Known /\ Recovered' = Recovered
<1>1. TriesTyped'
  <2>1. \A n \in DOMAIN attempts' : attempts'[n].stage \in DOMAIN Stages
    BY DEF NothingRead, TriesTyped
  <2> QED BY <2>1, StagesStay DEF NothingRead, TriesTyped
<1>2. Known' = Known
  BY StagesStay DEF NothingRead, Known
<1>3. OneAnswer'
  BY DEF NothingRead, OneAnswer
<1>4. \A i \in Known : FirstTry(i)' = FirstTry(i)
  BY FirstStays DEF Known
<1>5. \A i \in Known : Place(i)' = Place(i)
  BY <1>2, <1>4 DEF Place
<1>6. \A p : At(p)' = At(p)
  BY <1>2, <1>5 DEF At
<1>7. Enumerates'
  BY <1>2, <1>6 DEF Enumerates
<1>8. ASSUME NEW i \in Known
      PROVE  attempts[LastRead(i)]' = attempts[LastRead(i)]
  <2>1. LastRead(i)' = LastRead(i)
    BY DEF LastRead, NothingRead
  <2> QED BY <2>1, ReadOf DEF NothingRead
<1>9. Recovered' = Recovered
  <2>1. Recovered' = [p \in 1..Cardinality(Known) |->
                        OutcomeFrom(At(p), attempts[LastRead(At(p))].answer)]'
    BY DEF Recovered, Known, At, Place
  <2> QED BY <1>2, <1>6, <1>8, <2>1, StagesStay, RecoveredIs DEF Enumerates, NothingRead
<1> QED BY <1>1, <1>2, <1>3, <1>7, <1>9

\* A stage is tried until it is read back.
Pending ==
  \A m, n \in DOMAIN attempts :
    m < n /\ attempts[m].stage \notin Known => attempts[n].stage = attempts[m].stage

\* The last attempt gets an answer that can be read back.
LEMMA RecoveredGrows ==
  ASSUME WalkAssumption, TriesTyped, OneAnswer, Enumerates, Pending, kind' = kind,
         attempts # <<>>, attempts[Len(attempts)].stage \notin Known,
         NEW answer \in {"good", "failing", "unparsed"},
         attempts' = [attempts EXCEPT ![Len(attempts)].answer = answer]
  PROVE  LET i == attempts[Len(attempts)].stage IN
         /\ TriesTyped' /\ OneAnswer' /\ Enumerates'
         /\ Known' = Known \cup {i}
         /\ Recovered' = Append(Recovered, OutcomeFrom(i, answer))
<1>1. PICK last \in Nat, i \in 1..5 : last = Len(attempts) /\ i = attempts[last].stage
  <2>1. attempts[Len(attempts)] \in Try
    BY DEF TriesTyped
  <2> QED BY <2>1 DEF TriesTyped, Try
<1>2. last \in DOMAIN attempts /\ i \in DOMAIN Stages /\ i \notin Known
  BY <1>1 DEF TriesTyped
<1>3. PICK try : try = [attempts[last] EXCEPT !.answer = answer]
  OBVIOUS
<1>4. try \in Try /\ try.stage = i /\ try.answer = answer /\ ReadBack(try)
  <2>1. PICK old \in Try : old = attempts[last]
    BY <1>2 DEF TriesTyped
  <2> QED BY <1>1, <1>3, <2>1 DEF Try, ReadBack
<1>5. /\ attempts' \in Seq(Try) /\ DOMAIN attempts' = DOMAIN attempts
      /\ attempts'[last] = try /\ \A n \in DOMAIN attempts \ {last} : attempts'[n] = attempts[n]
  BY <1>1, <1>2, <1>3, <1>4 DEF TriesTyped
<1>6. \A n \in DOMAIN attempts : attempts'[n].stage = attempts[n].stage
  BY <1>1, <1>4, <1>5
<1>7. Stages' = Stages /\ \A k, a : OutcomeFrom(k, a)' = OutcomeFrom(k, a)
  BY StagesStay
<1>8. TriesTyped'
  BY <1>5, <1>6, <1>7 DEF TriesTyped
<1>9. Known' = Known \cup {i}
  <2>1. ASSUME NEW k, k # i
        PROVE  (\E n \in DOMAIN attempts' : attempts'[n].stage = k /\ ReadBack(attempts'[n])) <=>
               (\E n \in DOMAIN attempts : attempts[n].stage = k /\ ReadBack(attempts[n]))
    <3>1. \A n \in DOMAIN attempts : attempts[n].stage = k => n # last
      BY <1>1, <2>1
    <3>2. \A n \in DOMAIN attempts : attempts[n].stage = k => attempts'[n] = attempts[n]
      BY <1>5, <3>1
    <3> QED BY <1>5, <1>6, <3>2
  <2>2. \E n \in DOMAIN attempts' : attempts'[n].stage = i /\ ReadBack(attempts'[n])
    BY <1>2, <1>4, <1>5
  <2>3. Known' = {k \in DOMAIN Stages :
                    \E n \in DOMAIN attempts' : attempts'[n].stage = k /\ ReadBack(attempts'[n])}
    BY <1>7 DEF Known
  <2> QED BY <1>2, <2>1, <2>2, <2>3 DEF Known, ReadBack
<1>10. ~ \E n \in DOMAIN attempts : attempts[n].stage = i /\ ReadBack(attempts[n])
  BY <1>2 DEF Known
<1>11. OneAnswer'
  <2> SUFFICES ASSUME NEW m \in DOMAIN attempts', NEW n \in DOMAIN attempts',
                      ReadBack(attempts'[m]), ReadBack(attempts'[n]),
                      attempts'[m].stage = attempts'[n].stage
               PROVE  m = n
    BY DEF OneAnswer
  <2>1. CASE m # last /\ n # last
    BY <1>5, <2>1 DEF OneAnswer
  <2>2. CASE m = last /\ n # last
    BY <1>4, <1>5, <1>10, <2>2
  <2>3. CASE m # last /\ n = last
    BY <1>4, <1>5, <1>10, <2>3
  <2> QED BY <2>1, <2>2, <2>3
<1>12. \A k : FirstTry(k)' = FirstTry(k)
  BY <1>5, <1>6 DEF FirstTry
<1>13. ASSUME NEW k \in Known PROVE FirstTry(k) < FirstTry(i)
  <2>1. /\ FirstTry(k) \in DOMAIN attempts /\ attempts[FirstTry(k)].stage = k
        /\ FirstTry(i) \in DOMAIN attempts /\ attempts[FirstTry(i)].stage = i
    BY <1>1, <1>2, FirstOf DEF Known
  <2>2. \A n \in DOMAIN attempts : n \in Nat
    BY DEF TriesTyped
  <2>3. FirstTry(i) < FirstTry(k) => k = i
    BY <1>2, <2>1 DEF Pending
  <2>4. FirstTry(k) # FirstTry(i)
    BY <1>2, <2>1
  <2>5. FirstTry(k) \in Nat /\ FirstTry(i) \in Nat
    BY <2>1, <2>2
  <2> QED BY <1>2, <2>3, <2>4, <2>5
<1>14. PICK c : c = Cardinality(Known)
  OBVIOUS
<1>15. c \in Nat /\ IsFiniteSet(Known) /\ Cardinality(Known \cup {i}) = c + 1
  BY <1>2, <1>14, KnownFinite, FS_AddElement
<1>16. \A k \in Known : FirstTry(k) \in Nat
  BY FirstOf DEF Known, TriesTyped
<1>17. FirstTry(i) \in Nat
  BY <1>1, <1>2, FirstOf DEF TriesTyped
<1>18. ASSUME NEW k \in Known
       PROVE  Place(k)' = Place(k) /\ Place(k) \in Nat /\ Place(k) =< c
  <2>1. {x \in Known \cup {i} : FirstTry(x) =< FirstTry(k)} =
          {x \in Known : FirstTry(x) =< FirstTry(k)}
    BY <1>13, <1>16, <1>17
  <2>2. Place(k)' = Place(k)
    BY <1>9, <1>12, <2>1 DEF Place
  <2>3. {x \in Known : FirstTry(x) =< FirstTry(k)} \in SUBSET Known
    OBVIOUS
  <2> QED BY <1>14, <1>15, <2>2, <2>3, FS_Subset, FS_CardinalityType DEF Place
<1>19. Place(i)' = c + 1
  <2>1. {x \in Known \cup {i} : FirstTry(x) =< FirstTry(i)} = Known \cup {i}
    BY <1>13, <1>16, <1>17
  <2> QED BY <1>9, <1>12, <1>15, <2>1 DEF Place
<1>20. \A p \in 1..c : At(p)' = At(p)
  BY <1>9, <1>15, <1>18, <1>19 DEF At
<1>21. At(c + 1)' = i
  BY <1>9, <1>15, <1>18, <1>19 DEF At
<1>22. Cardinality(Known)' = c + 1
  BY <1>9, <1>15
<1>23. Enumerates'
  <2>1. \A p \in 1..(c + 1) : p \in 1..c \/ p = c + 1
    BY <1>15
  <2>2. \A p \in 1..(c + 1) : At(p)' \in Known \cup {i}
    BY <1>14, <1>20, <1>21, <2>1 DEF Enumerates
  <2>3. ASSUME NEW k \in Known \cup {i} PROVE \E p \in 1..(c + 1) : At(p)' = k
    <3>1. CASE k \in Known
      <4>1. PICK p \in 1..c : At(p) = k
        BY <1>14, <3>1 DEF Enumerates
      <4> QED BY <1>15, <1>20, <4>1
    <3>2. CASE k = i
      BY <1>15, <1>21, <3>2
    <3> QED BY <3>1, <3>2
  <2> QED BY <1>9, <1>22, <2>2, <2>3 DEF Enumerates
<1>24. ASSUME NEW k \in Known
       PROVE  (attempts[LastRead(k)].answer)' = attempts[LastRead(k)].answer
  <2>1. PICK n : n = LastRead(k)
    OBVIOUS
  <2>2. n \in DOMAIN attempts /\ attempts[n].stage = k /\ ReadBack(attempts[n])
    BY <2>1, ReadOf
  <2>3. n # last
    BY <1>1, <1>2, <2>2
  <2>4. n \in DOMAIN attempts' /\ attempts'[n].stage = k /\ ReadBack(attempts'[n])
    BY <1>5, <2>2, <2>3
  <2>5. \A m \in DOMAIN attempts' : attempts'[m].stage = k /\ ReadBack(attempts'[m]) => m = n
    BY <1>11, <2>4 DEF OneAnswer
  <2>6. n \in Nat
    BY <2>2 DEF TriesTyped
  <2>7. \A m \in DOMAIN attempts' : attempts'[m].stage = k /\ ReadBack(attempts'[m]) => m =< n
    BY <2>5, <2>6
  <2>8. LastRead(k)' = n
    BY <2>4, <2>5, <2>7 DEF LastRead
  <2> QED BY <1>5, <2>1, <2>2, <2>3, <2>8
<1>25. (attempts[LastRead(i)].answer)' = answer
  <2>1. \A m \in DOMAIN attempts' : attempts'[m].stage = i /\ ReadBack(attempts'[m]) => m = last
    BY <1>5, <1>6, <1>10
  <2>2. LastRead(i)' = last
    BY <1>1, <1>2, <1>4, <1>5, <2>1 DEF LastRead
  <2> QED BY <1>4, <1>5, <2>2
<1>26. Recovered' = Append(Recovered, OutcomeFrom(i, answer))
  <2>1. Recovered' = [p \in 1..(c + 1) |->
                        OutcomeFrom(At(p), attempts[LastRead(At(p))].answer)']
    BY <1>22 DEF Recovered, Known, At, Place
  <2>2. ASSUME NEW p \in 1..c PROVE Recovered'[p] = Recovered[p]
    <3>1. PICK k \in Known : k = At(p) /\ At(p)' = k
      BY <1>14, <1>20 DEF Enumerates
    <3>2. PICK a : a = attempts[LastRead(k)].answer /\ a = (attempts[LastRead(k)].answer)'
      BY <1>24
    <3>3. Recovered[p] = OutcomeFrom(k, a)
      BY <1>14, <3>1, <3>2, RecoveredIs
    <3>4. Recovered'[p] = OutcomeFrom(k, a)'
      BY <1>15, <2>1, <3>1, <3>2
    <3> QED BY <1>7, <3>3, <3>4
  <2>3. Recovered'[c + 1] = OutcomeFrom(i, answer)
    BY <1>7, <1>15, <1>21, <1>25, <2>1
  <2>4. Recovered \in Seq(Outcome) /\ Len(Recovered) = c
    BY <1>14, RecoveredStands
  <2>5. DOMAIN Recovered' = 1..(c + 1) /\ Recovered' = [p \in 1..(c + 1) |-> Recovered'[p]]
    BY <2>1
  <2> HIDE DEF Recovered
  <2> QED BY <1>15, <2>2, <2>3, <2>4, <2>5
<1> QED BY <1>1, <1>8, <1>9, <1>11, <1>23, <1>26

-----------------------------------------------------------------------------
\* Counting.

LEMMA CountedTyped ==
  ASSUME WalkAssumption, TriesTyped
  PROVE  Counted \in [DOMAIN Stages -> Nat]
<1>1. ASSUME NEW i PROVE Cardinality({n \in DOMAIN attempts : attempts[n].stage = i}) \in Nat
  <2>1. PICK l \in Nat : DOMAIN attempts = 1..l
    BY DEF TriesTyped
  <2>2. IsFiniteSet(1..l)
    <3>1. \A a, b \in Int : IsFiniteSet(a..b)
      BY FS_Interval
    <3> QED BY <3>1
  <2>3. IsFiniteSet({n \in DOMAIN attempts : attempts[n].stage = i})
    BY <2>1, <2>2, FS_Subset
  <2> QED BY <2>3, FS_CardinalityType
<1> QED BY <1>1 DEF Counted

LEMMA CountedStays ==
  ASSUME kind' = kind, DOMAIN attempts' = DOMAIN attempts,
         \A n \in DOMAIN attempts : attempts'[n].stage = attempts[n].stage
  PROVE  Counted' = Counted
<1>1. \A i : {n \in DOMAIN attempts' : attempts'[n].stage = i} =
             {n \in DOMAIN attempts : attempts[n].stage = i}
  OBVIOUS
<1> QED BY <1>1, StagesStay DEF Counted

LEMMA CountedGrows ==
  ASSUME WalkAssumption, TriesTyped, kind' = kind, NEW try \in Try, try.stage \in DOMAIN Stages,
         attempts' = Append(attempts, try)
  PROVE  Counted' = [Counted EXCEPT ![try.stage] = @ + 1]
<1>1. PICK l \in Nat : l = Len(attempts) /\ DOMAIN attempts = 1..l
  BY DEF TriesTyped
<1>2. /\ DOMAIN attempts' = 1..(l + 1) /\ attempts'[l + 1] = try
      /\ \A n \in 1..l : attempts'[n] = attempts[n]
  BY <1>1 DEF TriesTyped
<1>3. IsFiniteSet(1..l)
  <2>1. \A a, b \in Int : IsFiniteSet(a..b)
    BY FS_Interval
  <2> QED BY <2>1
<1> DEFINE Of(i) == {n \in DOMAIN attempts : attempts[n].stage = i}
           New(i) == {n \in DOMAIN attempts' : attempts'[n].stage = i}
<1>4. \A i : IsFiniteSet(Of(i)) /\ l + 1 \notin Of(i)
  <2>1. \A i : Of(i) \in SUBSET (1..l)
    BY <1>1
  <2>2. l + 1 \notin 1..l
    OBVIOUS
  <2> QED BY <1>3, <2>1, <2>2, FS_Subset
<1>5. New(try.stage) = Of(try.stage) \cup {l + 1}
  BY <1>1, <1>2
<1>6. \A i : i # try.stage => New(i) = Of(i)
  BY <1>1, <1>2
<1>7. Cardinality(New(try.stage)) = Cardinality(Of(try.stage)) + 1
  <2>1. PICK S, T : S = Of(try.stage) /\ T = New(try.stage)
    OBVIOUS
  <2> HIDE DEF Of, New
  <2>2. IsFiniteSet(S) /\ l + 1 \notin S /\ T = S \cup {l + 1}
    BY <1>4, <1>5, <2>1
  <2>3. Cardinality(T) = Cardinality(S) + 1
    BY <2>2, FS_AddElement
  <2> QED BY <2>1, <2>3
<1>8. Counted = [i \in DOMAIN Stages |-> Cardinality(Of(i))]
  BY DEF Counted
<1>9. Counted' = [i \in DOMAIN Stages |-> Cardinality(New(i))]
  BY StagesStay DEF Counted
<1> HIDE DEF Of, New
<1> QED BY <1>6, <1>7, <1>8, <1>9

Capped == \A i \in DOMAIN Stages : Counted[i] =< Stages[i].cap

\* As many attempts as there are of the stages together.
LEMMA CappedIsBudgeted ==
  ASSUME WalkAssumption, TriesTyped, Capped
  PROVE  CallsWithinBudget
<1>1. PICK l \in Nat : l = Len(attempts) /\ DOMAIN attempts = 1..l
  BY DEF TriesTyped
<1>2. IsFiniteSet(1..l) /\ Cardinality(1..l) = l
  <2>1. \A a, b \in Int : /\ IsFiniteSet(a..b)
                          /\ Cardinality(a..b) = IF a > b THEN 0 ELSE b - a + 1
    BY FS_Interval
  <2> QED BY <2>1
<1> DEFINE Of(i) == {n \in DOMAIN attempts : attempts[n].stage = i}
<1>3. ASSUME NEW i \in DOMAIN Stages
      PROVE  /\ IsFiniteSet(Of(i)) /\ Cardinality(Of(i)) \in Nat
             /\ Cardinality(Of(i)) =< Stages[i].cap
  <2>1. Of(i) \in SUBSET (1..l)
    BY <1>1
  <2>2. Cardinality(Of(i)) = Counted[i]
    BY DEF Counted
  <2> QED BY <1>2, <2>1, <2>2, FS_Subset, FS_CardinalityType DEF Capped
<1>4. \A n \in DOMAIN attempts : n \in Of(attempts[n].stage) /\ attempts[n].stage \in DOMAIN Stages
  BY DEF TriesTyped
<1>5. \A S, T : IsFiniteSet(S) /\ IsFiniteSet(T) =>
        /\ IsFiniteSet(S \cup T) /\ Cardinality(S \cup T) \in Nat
        /\ Cardinality(S \cup T) =< Cardinality(S) + Cardinality(T)
  <2> SUFFICES ASSUME NEW S, NEW T, IsFiniteSet(S), IsFiniteSet(T)
               PROVE  /\ IsFiniteSet(S \cup T) /\ Cardinality(S \cup T) \in Nat
                      /\ Cardinality(S \cup T) =< Cardinality(S) + Cardinality(T)
    OBVIOUS
  <2>1. /\ IsFiniteSet(S \cup T)
        /\ Cardinality(S \cup T) = Cardinality(S) + Cardinality(T) - Cardinality(S \cap T)
    BY FS_Union
  <2>2. IsFiniteSet(S \cap T)
    BY FS_Intersection
  <2>3. Cardinality(S) \in Nat /\ Cardinality(T) \in Nat /\ Cardinality(S \cap T) \in Nat
        /\ Cardinality(S \cup T) \in Nat
    BY <2>1, <2>2, FS_CardinalityType
  <2> QED BY <2>1, <2>3
<1>6. /\ Invocations \in Nat /\ Len(Stages) \in {2, 5} /\ DOMAIN Stages = 1..Len(Stages)
      /\ Stages[1].cap = Invocations /\ \A i \in 2..Len(Stages) : Stages[i].cap = 1
  <2>1. CASE kind = "beat_write_judge"
    BY <2>1 DEF Stages, BeatStages, Stage, Always, ParseRepair, WalkAssumption
  <2>2. CASE kind # "beat_write_judge"
    BY <2>2 DEF Stages, SingleStages, Stage, Always, ParseRepair, WalkAssumption
  <2> QED BY <2>1, <2>2
<1>7. Budget = Invocations + Len(Stages) - 1
  BY BudgetIs
<1>8. CASE Len(Stages) = 2
  <2>1. DOMAIN Stages = {1, 2}
    BY <1>6, <1>8
  <2>2. 1..l = Of(1) \cup Of(2)
    BY <1>1, <1>4, <2>1
  <2>3. Stages[2].cap = 1
    BY <1>6, <1>8
  <2> HIDE DEF Of
  <2>4. l =< Cardinality(Of(1)) + Cardinality(Of(2))
    BY <1>2, <1>3, <1>5, <2>1, <2>2
  <2> QED BY <1>1, <1>3, <1>6, <1>7, <1>8, <2>1, <2>3, <2>4 DEF CallsWithinBudget
<1>9. CASE Len(Stages) = 5
  <2>1. DOMAIN Stages = {1, 2, 3, 4, 5}
    BY <1>6, <1>9
  <2> DEFINE A == Of(1) \cup Of(2)
             B == A \cup Of(3)
             C == B \cup Of(4)
  <2>2. 1..l = C \cup Of(5)
    BY <1>1, <1>4, <2>1
  <2>3. Stages[2].cap = 1 /\ Stages[3].cap = 1 /\ Stages[4].cap = 1 /\ Stages[5].cap = 1
    BY <1>6, <1>9
  <2> HIDE DEF Of
  <2>8. /\ Cardinality(Of(3)) \in Nat /\ Cardinality(Of(3)) =< 1
        /\ Cardinality(Of(4)) \in Nat /\ Cardinality(Of(4)) =< 1
    <3>1. 3 \in DOMAIN Stages /\ 4 \in DOMAIN Stages
      BY <2>1
    <3>2. /\ Cardinality(Of(3)) \in Nat /\ Cardinality(Of(3)) =< Stages[3].cap
          /\ Cardinality(Of(4)) \in Nat /\ Cardinality(Of(4)) =< Stages[4].cap
      BY <1>3, <3>1
    <3> QED BY <2>3, <3>2
  <2>4. IsFiniteSet(A) /\ Cardinality(A) \in Nat /\ Cardinality(A) =< Invocations + 1
    <3>1. Cardinality(A) =< Cardinality(Of(1)) + Cardinality(Of(2)) /\ IsFiniteSet(A)
          /\ Cardinality(A) \in Nat
      BY <1>3, <1>5, <2>1
    <3> HIDE DEF A
    <3> QED BY <1>3, <1>6, <2>1, <2>3, <3>1
  <2>5. IsFiniteSet(B) /\ Cardinality(B) \in Nat /\ Cardinality(B) =< Invocations + 2
    <3> HIDE DEF A
    <3>1. Cardinality(B) =< Cardinality(A) + Cardinality(Of(3)) /\ IsFiniteSet(B)
          /\ Cardinality(B) \in Nat
      BY <1>3, <1>5, <2>1, <2>4
    <3> HIDE DEF B
    <3> QED BY <1>6, <2>4, <2>8, <3>1
  <2>6. IsFiniteSet(C) /\ Cardinality(C) \in Nat /\ Cardinality(C) =< Invocations + 3
    <3> HIDE DEF A, B
    <3>1. Cardinality(C) =< Cardinality(B) + Cardinality(Of(4)) /\ IsFiniteSet(C)
          /\ Cardinality(C) \in Nat
      BY <1>3, <1>5, <2>1, <2>5
    <3> HIDE DEF C
    <3> QED BY <1>6, <2>5, <2>8, <3>1
  <2> HIDE DEF A, B, C
  <2>7. l =< Cardinality(C) + Cardinality(Of(5))
    BY <1>2, <1>3, <1>5, <2>1, <2>2, <2>6
  <2> QED BY <1>1, <1>3, <1>6, <1>7, <1>9, <2>1, <2>3, <2>6, <2>7 DEF CallsWithinBudget
<1> QED BY <1>6, <1>8, <1>9

-----------------------------------------------------------------------------
\* The plan decides by its kind.

LEMMA PicksStay ==
  ASSUME kind' = kind
  PROVE  /\ \A o : Due(o)' = Due(o) /\ (Rising(o)' <=> Rising(o)) /\ (Ahead(o)' <=> Ahead(o))
         /\ \A o, i : Picks(o, i)' <=> Picks(o, i)
         /\ \A o, used : NextAction(o, used)' = NextAction(o, used)
<1>1. Stages' = Stages
  BY StagesStay
<1>2. \A o, i : Has(o, i)' <=> Has(o, i)
  BY DEF Has
<1>3. \A o, i : Preceding(o, i)' = Preceding(o, i) /\ Nearest(o, i)' = Nearest(o, i)
  BY DEF Preceding, Nearest, Has
<1>4. \A o, i : OutcomeOf(o, i)' = OutcomeOf(o, i) /\ LatestOf(o)' = LatestOf(o)
  BY DEF OutcomeOf, LatestOf
<1>5. \A o, i : Triggered(o, i)' <=> Triggered(o, i)
  <2> SUFFICES ASSUME NEW o, NEW i PROVE Triggered(o, i)' <=> Triggered(o, i)
    OBVIOUS
  <2>1. PICK t : t = OutcomeOf(o, Nearest(o, i))
    OBVIOUS
  <2>2. OutcomeOf(o, Nearest(o, i))' = t
    BY <1>3, <2>1 DEF OutcomeOf
  <2> HIDE DEF OutcomeOf
  <2> QED BY <1>1, <1>3, <2>1, <2>2 DEF Triggered
<1>6. \A o : Due(o)' = Due(o)
  BY <1>1, <1>2, <1>5 DEF Due
<1>7. \A o, i : Blocked(o, i)' <=> Blocked(o, i)
  BY <1>1, <1>2, <1>4, <1>5 DEF Blocked
<1>8. \A o : Completes(o)' <=> Completes(o)
  BY <1>1, <1>2, <1>4 DEF Completes
<1>9. \A i, used : Exhausted(i, used)' <=> Exhausted(i, used)
  BY <1>1 DEF Exhausted
<1>10. \A o : (Rising(o)' <=> Rising(o)) /\ (Ahead(o)' <=> Ahead(o))
  BY <1>6 DEF Rising, Ahead
<1>11. \A o, i : Picks(o, i)' <=> Picks(o, i)
  BY <1>6, <1>7 DEF Picks
<1>12. \A o, used : NextAction(o, used)' = NextAction(o, used)
  <2> SUFFICES ASSUME NEW o, NEW used PROVE NextAction(o, used)' = NextAction(o, used)
    OBVIOUS
  <2>1. CASE Due(o) = {}
    <3>1. CASE Completes(o)
      <4>1. Completes(o)' /\ Due(o)' = {}
        BY <1>6, <1>8, <2>1, <3>1
      <4>2. NextAction(o, used) = 0
        BY <2>1, <3>1 DEF NextAction
      <4>3. NextAction(o, used)' = 0
        BY <4>1 DEF NextAction
      <4> QED BY <4>2, <4>3
    <3>2. CASE ~Completes(o)
      <4>1. ~Completes(o)' /\ Due(o)' = {}
        BY <1>6, <1>8, <2>1, <3>2
      <4>2. NextAction(o, used) = -1
        BY <2>1, <3>2 DEF NextAction
      <4>3. NextAction(o, used)' = -1
        BY <4>1 DEF NextAction
      <4> QED BY <4>2, <4>3
    <3> QED BY <3>1, <3>2
  <2>2. CASE Due(o) # {}
    <3>1. PICK d, i : d = Due(o) /\ i = CHOOSE k \in d : \A m \in d : k =< m
      OBVIOUS
    <3>2. Due(o)' = d
      BY <1>6, <3>1
    <3>3. (NextAction(o, used)) = IF Blocked(o, i) \/ Exhausted(i, used) THEN -1 ELSE i
      BY <2>2, <3>1 DEF NextAction
    <3>4. NextAction(o, used)' = (IF Blocked(o, i) \/ Exhausted(i, used) THEN -1 ELSE i)'
      BY <2>2, <3>1, <3>2 DEF NextAction
    <3>5. CASE Blocked(o, i) \/ Exhausted(i, used)
      <4>1. (Blocked(o, i) \/ Exhausted(i, used))'
        BY <1>7, <1>9, <3>5
      <4> QED BY <3>3, <3>4, <3>5, <4>1
    <3>6. CASE ~(Blocked(o, i) \/ Exhausted(i, used))
      <4>1. ~(Blocked(o, i) \/ Exhausted(i, used))'
        BY <1>7, <1>9, <3>6
      <4> QED BY <3>3, <3>4, <3>6, <4>1
    <3> QED BY <3>5, <3>6
  <2> QED BY <2>1, <2>2
<1> QED BY <1>6, <1>10, <1>11, <1>12

-----------------------------------------------------------------------------
\* The stages of the prose plan, and what completes a plan.

BeatPlan ==
  /\ Len(Stages) = 5 /\ DOMAIN Stages = 1..5
  /\ Stages[1].policy = "always" /\ Stages[1].key = "writer" /\ ~ReadsVerdict(Stages[1])
  /\ Stages[2].policy = "on_parse_failure" /\ Stages[2].key = "writer_repair"
  /\ ~ReadsVerdict(Stages[2])
  /\ Stages[3].policy = "always" /\ Stages[3].key = "judge"
  /\ Stages[4].policy = "on_parse_failure" /\ Stages[4].base = "judge"
  /\ Stages[4].key = "judge_fix"
  /\ Stages[5].policy = "on_judge_fail" /\ Stages[5].key = "judge_repair"

SinglePlan ==
  /\ Len(Stages) = 2 /\ DOMAIN Stages = 1..2
  /\ Stages[1].policy = "always" /\ Stages[1].key = "only"
  /\ Stages[2].policy = "on_parse_failure" /\ Stages[2].key = "only_repair"

LEMMA PlanIs == IF kind = "beat_write_judge" THEN BeatPlan ELSE SinglePlan
<1>1. CASE kind = "beat_write_judge"
  BY <1>1 DEF BeatPlan, Stages, BeatStages, Stage, Always, ParseRepair, ReadsVerdict
<1>2. CASE kind # "beat_write_judge"
  BY <1>2 DEF SinglePlan, Stages, SingleStages, Stage, Always, ParseRepair
<1> QED BY <1>1, <1>2

\* The latest outcome is of the latest stage.
LEMMA LatestIs ==
  ASSUME NEW o \in Seq(Outcome), Rising(o), o # <<>>
  PROVE  /\ Len(o) \in DOMAIN o /\ LatestOf(o) = o[Len(o)] /\ LatestOf(o) \in Outcome
         /\ \A k : Has(o, k) => k =< LatestOf(o).stage
<1>1. Len(o) \in DOMAIN o /\ Len(o) \in Nat /\ DOMAIN o = 1..Len(o)
  OBVIOUS
<1>2. \A p \in DOMAIN o : o[p] \in Outcome
  OBVIOUS
<1>3. \A y \in Outcome : y.stage \in Int
  BY DEF Outcome
<1>4. \A p \in DOMAIN o : o[p].stage =< o[Len(o)].stage
  BY <1>1, <1>2, <1>3 DEF Rising
<1> QED BY <1>1, <1>2, <1>4 DEF Has, LatestOf

\* A prose was written when some writer's outcome stands.
Wrote(o) == \E p \in DOMAIN o : o[p].stage \in {1, 2} /\ ~o[p].failed

\* The judge is picked only then: what a writer fails is repaired before, or ends
\* the job.
LEMMA WrittenFirst ==
  ASSUME WalkAssumption, kind = "beat_write_judge", NEW o \in Seq(Outcome), Rising(o), Ahead(o),
         \A p \in DOMAIN o : o[p].stage \in {1, 2} => ~o[p].unjudged,
         Picks(o, 3)
  PROVE  Wrote(o)
<1> USE PlanIs DEF BeatPlan
<1>1. 1 \notin Due(o)
  BY DEF Picks
<1>2. Has(o, 1)
  BY <1>1 DEF Due
<1>3. o # <<>>
  BY <1>2 DEF Has
<1>4. /\ Len(o) \in DOMAIN o /\ LatestOf(o) = o[Len(o)] /\ LatestOf(o) \in Outcome
      /\ \A k : Has(o, k) => k =< LatestOf(o).stage
  BY <1>3, LatestIs
<1>5. \A p \in DOMAIN o : o[p].stage < 3 /\ o[p] \in Outcome
  BY DEF Picks, Ahead
<1>6. \A y \in Outcome : y.stage \in 1..5
  BY DEF Outcome
<1>7. \A p \in DOMAIN o : o[p].stage \in {1, 2}
  BY <1>5, <1>6
<1>8. CASE ~LatestOf(o).failed
  BY <1>4, <1>7, <1>8 DEF Wrote
<1>9. CASE LatestOf(o).failed
  <2>1. PICK k \in DOMAIN Stages :
          /\ k > LatestOf(o).stage /\ Stages[k].policy # "always"
          /\ ~Has(o, k) /\ Triggered(o, k)
    BY <1>3, <1>9 DEF Picks, Blocked
  <2>2. k \in Due(o)
    BY <2>1 DEF Due
  <2>3. k \in {4, 5}
    <3>1. k \in 1..5 /\ 3 =< k
      BY <2>2 DEF Picks
    <3> QED BY <2>1, <3>1
  <2>4. Nearest(o, k) \in {1, 2} /\ Has(o, Nearest(o, k))
    <3>1. \A m : Has(o, m) => m \in {1, 2}
      BY <1>7 DEF Has
    <3>2. Preceding(o, k) = {m \in {1, 2} : Has(o, m)}
      BY <2>3, <3>1 DEF Preceding
    <3>3. \E n \in Preceding(o, k) : \A m \in Preceding(o, k) : m =< n
      <4>1. CASE Has(o, 2)
        BY <3>2, <4>1
      <4>2. CASE ~Has(o, 2)
        BY <1>2, <3>2, <4>2
      <4> QED BY <4>1, <4>2
    <3>4. Nearest(o, k) \in Preceding(o, k)
      BY <3>3 DEF Nearest
    <3> QED BY <3>2, <3>4
  <2>5. PICK t : t = OutcomeOf(o, Nearest(o, k))
    OBVIOUS
  <2>6. t.stage \in {1, 2} /\ ~t.unjudged
    <3>1. PICK p \in DOMAIN o : o[p].stage = Nearest(o, k) /\ t = o[p]
      BY <2>4, <2>5 DEF OutcomeOf, Has
    <3> QED BY <1>7, <3>1
  <2>7. \/ /\ Stages[k].policy = "on_parse_failure" /\ t.unparsed
           /\ Stages[k].base \in {"none", Stages[t.stage].key}
        \/ Stages[k].policy = "on_judge_fail" /\ t.unjudged
    BY <2>1, <2>5 DEF Triggered
  <2>8. k = 4 /\ Stages[k].base \in {"none", Stages[t.stage].key}
    BY <2>3, <2>6, <2>7
  <2> QED BY <2>6, <2>8
<1> QED BY <1>8, <1>9

-----------------------------------------------------------------------------
\* The inductive invariant.

Walks ==
  {Gone} \cup [at : {"deciding", "calling"}, outcomes : Seq(Outcome),
               used : [DOMAIN Stages -> Nat], sure : BOOLEAN]

\* A stage that was tried and not read back is the one the plan picks.
Picked ==
  \A n \in DOMAIN attempts :
    attempts[n].stage \notin Known => Picks(Recovered, attempts[n].stage)

\* The owner remembers what would be recovered, or was refused and will fail.
Memory ==
  /\ walk.at # "none" => walk.used = Counted
  /\ walk.at = "deciding" /\ walk.sure => walk.outcomes = Recovered
  /\ walk.at = "deciding" /\ ~walk.sure => Decision = -1
  /\ walk.at = "calling" =>
       /\ walk.outcomes = Recovered /\ attempts # <<>>
       /\ attempts[Len(attempts)].stage \notin Known
       /\ attempts[Len(attempts)].answer = "started"

\* The judge was called on a prose that was written.
Written ==
  kind = "beat_write_judge" =>
    \A n \in DOMAIN attempts : attempts[n].stage = 3 => Wrote(Recovered)

\* Of the attempts and of what is recovered from them.
Kept ==
  /\ TriesTyped /\ OneAnswer /\ Enumerates
  /\ Pending /\ Picked /\ Rising(Recovered) /\ Ahead(Recovered)
  /\ Capped /\ Written

WalkInv ==
  /\ Kept
  /\ walk \in Walks /\ final \in {"none", "published", "failed"}
  /\ Memory
  /\ final # "none" => walk = Gone
  /\ PublishedIsComplete

LEMMA WalksHave ==
  ASSUME walk \in Walks
  PROVE  /\ walk.at \in {"none", "deciding", "calling"}
         /\ walk.at = "none" => walk = Gone
         /\ walk.at # "none" =>
              walk \in [at : {"deciding", "calling"}, outcomes : Seq(Outcome),
                        used : [DOMAIN Stages -> Nat], sure : BOOLEAN]
  BY DEF Walks, Gone

\* All but what is begun and what can be read back leaves it standing.
LEMMA KeptStays ==
  ASSUME WalkAssumption, Kept, NothingRead, DOMAIN attempts' = DOMAIN attempts
  PROVE  Kept' /\ Known' = Known /\ Recovered' = Recovered /\ Counted' = Counted
<1> USE DEF Kept
<1>1. /\ TriesTyped' /\ OneAnswer' /\ Enumerates' /\ Known' = Known /\ Recovered' = Recovered
  BY RecoveredStays
<1>2. \A n \in DOMAIN attempts : attempts'[n].stage = attempts[n].stage
  BY DEF NothingRead
<1>3. kind' = kind
  BY DEF NothingRead
<1>4. Counted' = Counted
  BY <1>2, <1>3, CountedStays
<1>5. Pending'
  BY <1>1, <1>2 DEF Pending
<1>6. PICK r : r = Recovered /\ r = Recovered'
  BY <1>1
<1>7. Picked'
  <2>1. ASSUME NEW n \in DOMAIN attempts', attempts'[n].stage \notin Known'
        PROVE  Picks(Recovered, attempts[n].stage)'
    <3>1. PICK i : i = attempts[n].stage /\ i = attempts'[n].stage
      BY <1>2, <2>1
    <3>2. Picks(r, i)
      BY <1>1, <1>6, <2>1, <3>1 DEF Picked
    <3>3. Picks(r, i)'
      BY <1>3, <3>2, PicksStay
    <3> QED BY <1>6, <3>1, <3>3
  <2> QED BY <2>1 DEF Picked
<1>8. Rising(Recovered)' /\ Ahead(Recovered)'
  <2>1. Rising(r)' /\ Ahead(r)'
    BY <1>3, <1>6, PicksStay
  <2> QED BY <1>6, <2>1
<1>9. Capped'
  BY <1>3, <1>4, StagesStay DEF Capped
<1>10. Written'
  BY <1>1, <1>2, <1>3 DEF Written, Wrote
<1> QED BY <1>1, <1>4, <1>5, <1>7, <1>8, <1>9, <1>10
\* What is recovered of a writer was never judged.
LEMMA WritersUnjudged ==
  ASSUME WalkAssumption, TriesTyped, OneAnswer, Enumerates, kind = "beat_write_judge"
  PROVE  \A p \in DOMAIN Recovered : Recovered[p].stage \in {1, 2} => ~Recovered[p].unjudged
<1> SUFFICES ASSUME NEW p \in DOMAIN Recovered, Recovered[p].stage \in {1, 2}
             PROVE  ~Recovered[p].unjudged
  OBVIOUS
<1>1. PICK i, n : i = Recovered[p].stage /\ Recovered[p] = OutcomeFrom(i, attempts[n].answer)
  BY RecoveredStands
<1>2. ~ReadsVerdict(Stages[i])
  BY <1>1, PlanIs DEF BeatPlan
<1>3. \A a : ~VerdictFails(Stages[i], a)
  BY <1>2 DEF VerdictFails
<1>4. \A a : OutcomeFrom(i, a).unjudged = VerdictFails(Stages[i], a)
  BY DEF OutcomeFrom
<1> QED BY <1>1, <1>3, <1>4

LEMMA PickOnce ==
  ASSUME WalkAssumption, NEW o, NEW i, NEW k, Picks(o, i), Picks(o, k)
  PROVE  i = k /\ i \in DOMAIN Stages /\ ~Has(o, i)
<1>1. i \in DOMAIN Stages /\ k \in DOMAIN Stages /\ i =< k /\ k =< i /\ ~Has(o, i)
  BY DEF Picks, Due
<1> QED BY <1>1, PlanShape

\* A stage is begun.
LEMMA KeptBegins ==
  ASSUME WalkAssumption, Kept, kind' = kind, NEW i, Picks(Recovered, i),
         Counted[i] < Stages[i].cap,
         attempts' = Append(attempts, [stage |-> i, answer |-> "started"])
  PROVE  /\ Kept' /\ Known' = Known /\ Recovered' = Recovered /\ i \notin Known
         /\ Counted' = [Counted EXCEPT ![i] = @ + 1]
         /\ attempts' # <<>> /\ attempts'[Len(attempts')].stage = i
         /\ attempts'[Len(attempts')].answer = "started"
<1> USE DEF Kept
<1>1. PICK try : try = [stage |-> i, answer |-> "started"]
  OBVIOUS
<1>2. i \in DOMAIN Stages /\ ~Has(Recovered, i)
  BY PickOnce
<1>3. i \in 1..5
  BY <1>2, PlanShape
<1>4. try \in Try /\ try.stage = i /\ try.answer = "started" /\ ~ReadBack(try)
  BY <1>1, <1>3 DEF Try, ReadBack
<1>5. PICK l \in Nat : l = Len(attempts) /\ DOMAIN attempts = 1..l
  BY DEF TriesTyped
<1>6. /\ DOMAIN attempts' = 1..(l + 1) /\ attempts'[l + 1] = try /\ Len(attempts') = l + 1
      /\ \A n \in 1..l : attempts'[n] = attempts[n]
      /\ attempts' \in Seq(Try) /\ attempts' # <<>>
  BY <1>1, <1>4, <1>5 DEF TriesTyped
<1>7. NothingRead
  <2>1. \A n \in DOMAIN attempts' \ DOMAIN attempts : n = l + 1
    BY <1>5, <1>6
  <2>2. \A n \in DOMAIN attempts : n \in DOMAIN attempts' /\ attempts'[n] = attempts[n]
    BY <1>5, <1>6
  <2>3. \A n \in DOMAIN attempts' \ DOMAIN attempts :
          ~ReadBack(attempts'[n]) /\ attempts'[n].stage \in DOMAIN Stages
    BY <1>2, <1>4, <1>6, <2>1
  <2> QED BY <1>6, <2>2, <2>3 DEF NothingRead
<1>8. TriesTyped' /\ OneAnswer' /\ Enumerates' /\ Known' = Known /\ Recovered' = Recovered
  BY <1>7, RecoveredStays
<1>9. i \notin Known
  BY <1>2, RecoveredStands
<1>10. PICK r : r = Recovered /\ r = Recovered'
  BY <1>8
<1>11. Picks(r, i)
  BY <1>10
<1>12. \A n \in 1..l : attempts[n].stage \notin Known => attempts[n].stage = i
  BY <1>5, <1>10, <1>11, PickOnce DEF Picked
<1>13. Pending'
  <2> SUFFICES ASSUME NEW m \in 1..(l + 1), NEW n \in 1..(l + 1), m < n,
                      attempts'[m].stage \notin Known
               PROVE  attempts'[n].stage = attempts'[m].stage
    BY <1>6, <1>8 DEF Pending
  <2>1. m \in 1..l
    BY <1>5
  <2>2. CASE n \in 1..l
    BY <1>5, <1>6, <2>1, <2>2 DEF Pending
  <2>3. CASE n = l + 1
    BY <1>4, <1>6, <1>12, <2>1, <2>3
  <2> QED BY <1>5, <2>2, <2>3
<1>14. Picked'
  <2>1. ASSUME NEW n \in DOMAIN attempts', attempts'[n].stage \notin Known'
        PROVE  Picks(Recovered, attempts[n].stage)'
    <3>1. attempts'[n].stage = i
      <4>1. CASE n \in 1..l
        BY <1>6, <1>8, <1>12, <2>1, <4>1
      <4>2. CASE n = l + 1
        BY <1>4, <1>6, <4>2
      <4> QED BY <1>5, <1>6, <4>1, <4>2
    <3>2. Picks(r, i)'
      BY <1>11, PicksStay
    <3> QED BY <1>10, <3>1, <3>2
  <2> QED BY <2>1 DEF Picked
<1>15. Rising(Recovered)' /\ Ahead(Recovered)'
  <2>1. Rising(r)' /\ Ahead(r)'
    BY <1>10, PicksStay
  <2> QED BY <1>10, <2>1
<1>16. Counted' = [Counted EXCEPT ![i] = @ + 1]
  <2>1. Counted' = [Counted EXCEPT ![try.stage] = @ + 1]
    BY <1>1, <1>2, <1>4, CountedGrows
  <2> QED BY <1>4, <2>1
<1>17. Capped'
  <2>1. Counted \in [DOMAIN Stages -> Nat] /\ Stages' = Stages
    BY CountedTyped, StagesStay
  <2>2. Stages[i].cap \in Nat
    BY <1>2, PlanShape
  <2>3. ASSUME NEW k \in DOMAIN Stages PROVE Counted'[k] =< Stages[k].cap
    <3>1. CASE k = i
      BY <1>16, <2>1, <2>2, <2>3, <3>1
    <3>2. CASE k # i
      BY <1>16, <2>1, <2>3, <3>2 DEF Capped
    <3> QED BY <3>1, <3>2
  <2> QED BY <2>1, <2>3 DEF Capped
<1>18. Written'
  <2> SUFFICES ASSUME kind = "beat_write_judge", NEW n \in 1..(l + 1), attempts'[n].stage = 3
               PROVE  Wrote(r)
    BY <1>6, <1>10 DEF Written, Wrote
  <2>1. CASE n \in 1..l
    BY <1>5, <1>6, <1>10, <2>1 DEF Written
  <2>2. CASE n = l + 1
    <3>1. i = 3
      BY <1>4, <1>6, <2>2
    <3>2. r \in Seq(Outcome) /\ Rising(r) /\ Ahead(r)
      BY <1>10, RecoveredStands
    <3>3. \A p \in DOMAIN r : r[p].stage \in {1, 2} => ~r[p].unjudged
      BY <1>10, WritersUnjudged
    <3> QED BY <1>11, <3>1, <3>2, <3>3, WrittenFirst
  <2> QED BY <1>5, <2>1, <2>2
<1> QED BY <1>4, <1>6, <1>8, <1>9, <1>13, <1>14, <1>15, <1>16, <1>17, <1>18

\* The attempt that was begun last gets an answer that can be read back.
LEMMA KeptAnswers ==
  ASSUME WalkAssumption, Kept, kind' = kind,
         attempts # <<>>, attempts[Len(attempts)].stage \notin Known,
         NEW answer \in {"good", "failing", "unparsed"},
         attempts' = [attempts EXCEPT ![Len(attempts)].answer = answer]
  PROVE  /\ Kept' /\ Counted' = Counted
         /\ Recovered' = Append(Recovered, OutcomeFrom(attempts[Len(attempts)].stage, answer))
<1> USE DEF Kept
<1>1. PICK last \in Nat, i \in 1..5 : last = Len(attempts) /\ i = attempts[last].stage
  <2>1. attempts[Len(attempts)] \in Try
    BY DEF TriesTyped
  <2> QED BY <2>1 DEF TriesTyped, Try
<1>2. last \in DOMAIN attempts /\ i \in DOMAIN Stages /\ i \notin Known
  BY <1>1 DEF TriesTyped
<1>3. PICK x : x = OutcomeFrom(i, answer)
  OBVIOUS
<1>4. /\ TriesTyped' /\ OneAnswer' /\ Enumerates' /\ Known' = Known \cup {i}
      /\ Recovered' = Append(Recovered, x)
  BY <1>1, <1>3, RecoveredGrows
<1>5. x \in Outcome /\ x.stage = i
  BY <1>3 DEF OutcomeFrom, Outcome, VerdictFails
<1>6. DOMAIN attempts' = DOMAIN attempts /\ \A n \in DOMAIN attempts : attempts'[n].stage = attempts[n].stage
  <2>1. attempts[last] \in Try
    BY <1>2 DEF TriesTyped
  <2>2. attempts' = [attempts EXCEPT ![last] = [attempts[last] EXCEPT !.answer = answer]]
    BY <1>1
  <2>3. [attempts[last] EXCEPT !.answer = answer].stage = attempts[last].stage
    BY <2>1 DEF Try
  <2> QED BY <2>2, <2>3
<1>7. Counted' = Counted
  BY <1>6, CountedStays
<1>8. PICK r, s : r = Recovered /\ s = Recovered' /\ s = Append(r, x)
  BY <1>4
<1>9. r \in Seq(Outcome) /\ Rising(r) /\ Ahead(r) /\ Picks(r, i)
  BY <1>1, <1>2, <1>8, RecoveredStands DEF Picked
<1>10. \A p \in DOMAIN r : r[p].stage < x.stage
  BY <1>5, <1>9 DEF Picks, Ahead
<1>11. s \in Seq(Outcome) /\ Rising(s) /\ Ahead(s)
  BY <1>5, <1>8, <1>9, <1>10, Remembers, Advances
<1>12. Rising(Recovered)' /\ Ahead(Recovered)'
  <2>1. Rising(s)' /\ Ahead(s)'
    BY <1>11, PicksStay
  <2> QED BY <1>8, <2>1
<1>13. Pending'
  BY <1>4, <1>6 DEF Pending
<1>14. Picked'
  <2>1. ASSUME NEW n \in DOMAIN attempts, attempts[n].stage \notin Known, attempts[n].stage # i
        PROVE  FALSE
    <3>1. n # last
      BY <1>1, <2>1
    <3>2. n < last
      BY <1>1, <3>1 DEF TriesTyped
    <3> QED BY <1>1, <1>2, <2>1, <3>2 DEF Pending
  <2> QED BY <1>4, <1>6, <2>1 DEF Picked
<1>15. Capped'
  BY <1>7, StagesStay DEF Capped
<1>16. Written'
  <2>1. Wrote(r) => Wrote(s)
    <3>1. \A p \in DOMAIN r : p \in DOMAIN s /\ s[p] = r[p]
      BY <1>8, <1>9
    <3> QED BY <3>1 DEF Wrote
  <2> QED BY <1>6, <1>8, <2>1 DEF Written, Wrote
<1> QED BY <1>1, <1>3, <1>4, <1>7, <1>12, <1>13, <1>14, <1>15, <1>16
\* What is recovered and did not fail was delivered.
LEMMA DeliveredOf ==
  ASSUME WalkAssumption, TriesTyped, OneAnswer, Enumerates, NEW p \in DOMAIN Recovered,
         ~Recovered[p].failed, NEW keys, Stages[Recovered[p].stage].key \in keys
  PROVE  Delivered(keys)
<1>1. PICK n \in DOMAIN attempts :
        /\ attempts[n].stage = At(p) /\ ReadBack(attempts[n])
        /\ Recovered[p] = OutcomeFrom(At(p), attempts[n].answer) /\ Recovered[p].stage = At(p)
  BY RecoveredStands
<1> QED BY <1>1 DEF Delivered

\* A plan that has nothing left and completes delivered what it was for.
LEMMA CompleteIs ==
  ASSUME WalkAssumption, Kept, Due(Recovered) = {}, Completes(Recovered)
  PROVE  IF kind = "beat_write_judge"
         THEN /\ Delivered({"writer", "writer_repair"})
              /\ Delivered({"judge", "judge_fix", "judge_repair"})
         ELSE Delivered({"only", "only_repair"})
<1> USE DEF Kept
<1>1. PICK r : r = Recovered
  OBVIOUS
<1>2. r \in Seq(Outcome) /\ Rising(r)
  BY <1>1, RecoveredStands
<1>3. \A i \in DOMAIN Stages : Stages[i].policy = "always" => Has(r, i)
  BY <1>1 DEF Due
<1>4. \A p \in DOMAIN r : r[p] \in Outcome /\ r[p].stage \in DOMAIN Stages
  <2>1. \A p \in DOMAIN r : r[p] \in Outcome
    BY <1>2
  <2>2. \A p \in DOMAIN r : r[p].stage \in Known
    BY <1>1, RecoveredStands
  <2> QED BY <2>1, <2>2 DEF Known
<1>5. \E p \in DOMAIN r :
        /\ ~r[p].failed
        /\ \A i \in DOMAIN Stages : Stages[i].policy = "always" => i =< r[p].stage
  <2>1. CASE Has(r, Len(Stages)) /\ ~OutcomeOf(r, Len(Stages)).failed
    <3>1. PICK p \in DOMAIN r : r[p].stage = Len(Stages) /\ ~r[p].failed
      BY <2>1 DEF Has, OutcomeOf
    <3>2. \A i \in DOMAIN Stages : i =< Len(Stages)
      BY PlanShape
    <3> QED BY <3>1, <3>2
  <2>2. CASE r # <<>> /\ ~LatestOf(r).failed
    <3>1. /\ Len(r) \in DOMAIN r /\ LatestOf(r) = r[Len(r)]
          /\ \A k : Has(r, k) => k =< LatestOf(r).stage
      BY <1>2, <2>2, LatestIs
    <3> QED BY <1>3, <2>2, <3>1
  <2> QED BY <1>1, <2>1, <2>2 DEF Completes
<1>6. PICK p \in DOMAIN r :
        /\ ~r[p].failed
        /\ \A i \in DOMAIN Stages : Stages[i].policy = "always" => i =< r[p].stage
  BY <1>5
<1>7. CASE kind = "beat_write_judge"
  <2> USE <1>7, PlanIs DEF BeatPlan
  <2>1. Stages[r[p].stage].key \in {"judge", "judge_fix", "judge_repair"}
    <3>1. r[p].stage \in 1..5 /\ 3 =< r[p].stage
      BY <1>4, <1>6
    <3>2. r[p].stage \in {3, 4, 5}
      BY <3>1
    <3> QED BY <3>2
  <2>2. PICK q \in DOMAIN r : r[q].stage \in {1, 2} /\ ~r[q].failed
    <3>1. Has(r, 3)
      BY <1>3
    <3>2. \E n \in DOMAIN attempts : attempts[n].stage = 3
      <4>1. 3 \in Known
        BY <1>1, <3>1, RecoveredStands
      <4> QED BY <4>1 DEF Known
    <3> QED BY <1>1, <3>2 DEF Written, Wrote
  <2>3. Stages[r[q].stage].key \in {"writer", "writer_repair"}
    BY <2>2
  <2>4. Delivered({"writer", "writer_repair"})
    BY <1>1, <2>2, <2>3, DeliveredOf
  <2>5. Delivered({"judge", "judge_fix", "judge_repair"})
    BY <1>1, <1>6, <2>1, DeliveredOf
  <2> QED BY <2>4, <2>5
<1>8. CASE kind # "beat_write_judge"
  <2> USE <1>8, PlanIs DEF SinglePlan
  <2>1. Stages[r[p].stage].key \in {"only", "only_repair"}
    <3>1. r[p].stage \in {1, 2}
      BY <1>4
    <3> QED BY <3>1
  <2>2. Delivered({"only", "only_repair"})
    BY <1>1, <1>6, <2>1, DeliveredOf
  <2> QED BY <2>2
<1> QED BY <1>7, <1>8

-----------------------------------------------------------------------------
\* The steps.

LEMMA WalkInvInit ==
  ASSUME WalkAssumption, WalkInit
  PROVE  WalkInv
<1> USE DEF WalkInit
<1>1. attempts \in Seq(Try) /\ DOMAIN attempts = {} /\ Len(attempts) = 0
  OBVIOUS
<1>2. TriesTyped /\ OneAnswer /\ Pending /\ Picked /\ Written
  BY <1>1 DEF TriesTyped, OneAnswer, Pending, Picked, Written
<1>3. Known = {}
  BY <1>1 DEF Known
<1>4. Cardinality(Known) = 0
  BY <1>3, FS_EmptySet
<1>5. Enumerates
  BY <1>3, <1>4 DEF Enumerates
<1>6. Rising(Recovered) /\ Ahead(Recovered)
  <2>1. DOMAIN Recovered = {}
    BY <1>4, RecoveredIs
  <2> QED BY <2>1 DEF Rising, Ahead
<1>7. Capped
  <2>1. ASSUME NEW i \in DOMAIN Stages PROVE Counted[i] = 0
    <3>1. {n \in DOMAIN attempts : attempts[n].stage = i} = {}
      BY <1>1
    <3> QED BY <3>1, FS_EmptySet DEF Counted
  <2>2. \A i \in DOMAIN Stages : Stages[i].cap \in Nat
    BY PlanShape
  <2> QED BY <2>1, <2>2 DEF Capped
<1>8. walk \in Walks /\ walk.at = "none"
  BY DEF Walks, Gone
<1>9. Memory
  BY <1>8 DEF Memory
<1> QED BY <1>2, <1>5, <1>6, <1>7, <1>8, <1>9 DEF WalkInv, Kept, PublishedIsComplete

\* The owner is gone: nothing is remembered.
LEMMA GoneIs ==
  ASSUME WalkAssumption, Kept', walk' = Gone, final' = final, final = "none"
  PROVE  WalkInv'
<1>1. walk' \in Walks' /\ walk'.at = "none"
  BY DEF Walks, Gone
<1>2. Memory'
  BY <1>1 DEF Memory
<1>3. PublishedIsComplete'
  BY DEF PublishedIsComplete
<1> QED BY <1>1, <1>2, <1>3 DEF WalkInv
LEMMA StepRecover ==
  ASSUME WalkAssumption, WalkInv, Recover
  PROVE  WalkInv'
<1> USE DEF Recover
<1>1. Kept /\ TriesTyped /\ kind' = kind /\ final' = "none"
  BY DEF WalkInv, Kept
<1>2. PICK l \in Nat : DOMAIN attempts = 1..l
  BY <1>1 DEF TriesTyped
<1>3. DOMAIN attempts' = 1..l
  BY <1>2
<1>4. ASSUME NEW n \in 1..l
      PROVE  /\ attempts'[n] \in Try /\ attempts'[n].stage = attempts[n].stage
             /\ ReadBack(attempts'[n]) <=> ReadBack(attempts[n])
             /\ ReadBack(attempts[n]) => attempts'[n] = attempts[n]
  <2>1. PICK try \in Try : try = attempts[n]
    BY <1>1, <1>2 DEF TriesTyped
  <2>2. attempts'[n] = IF try.answer = "started" THEN [try EXCEPT !.answer = "abandoned"] ELSE try
    BY <1>2, <2>1
  <2>3. CASE try.answer = "started"
    <3>1. PICK new : new = [try EXCEPT !.answer = "abandoned"]
      OBVIOUS
    <3>2. new \in Try /\ new.stage = try.stage /\ new.answer = "abandoned"
      BY <3>1 DEF Try
    <3>3. ~ReadBack(new) /\ ~ReadBack(try)
      BY <2>3, <3>2 DEF ReadBack
    <3> QED BY <2>1, <2>2, <2>3, <3>1, <3>2, <3>3
  <2>4. CASE try.answer # "started"
    BY <2>1, <2>2, <2>4
  <2> QED BY <2>3, <2>4
<1>5. attempts' \in Seq(Try)
  <2>1. attempts' = [n \in 1..l |-> attempts'[n]]
    BY <1>2
  <2>2. attempts' \in [1..l -> Try]
    BY <1>4, <2>1
  <2>3. PICK a : a = attempts'
    OBVIOUS
  <2>4. a \in [1..l -> Try]
    BY <2>2, <2>3
  <2>5. a \in Seq(Try)
    BY <2>4
  <2> QED BY <2>3, <2>5
<1>6. NothingRead
  BY <1>1, <1>2, <1>3, <1>4, <1>5 DEF NothingRead
<1>7. Kept' /\ Recovered' = Recovered /\ Counted' = Counted
  BY <1>1, <1>2, <1>3, <1>6, KeptStays
<1>8. Recovered \in Seq(Outcome) /\ Counted \in [DOMAIN Stages -> Nat] /\ Stages' = Stages
  BY <1>1, RecoveredStands, CountedTyped, StagesStay DEF Kept
<1>9. PICK r, c : r = Recovered /\ c = Counted
  OBVIOUS
<1>10. walk' = [at |-> "deciding", outcomes |-> r, used |-> c, sure |-> TRUE]
  BY <1>9
<1>11. walk' \in Walks'
  BY <1>8, <1>9, <1>10 DEF Walks
<1>12. Memory'
  BY <1>7, <1>9, <1>10 DEF Memory
<1>13. PublishedIsComplete'
  BY <1>1 DEF PublishedIsComplete
<1> QED BY <1>1, <1>7, <1>11, <1>12, <1>13 DEF WalkInv

LEMMA StepBeginStage ==
  ASSUME WalkAssumption, WalkInv, BeginStage
  PROVE  WalkInv'
<1> USE DEF BeginStage
<1>1. Kept /\ TriesTyped /\ kind' = kind /\ final' = final /\ walk.at = "deciding" /\ Decision > 0
  BY DEF WalkInv, Kept
<1>2. PICK w \in [at : {"deciding", "calling"}, outcomes : Seq(Outcome),
                  used : [DOMAIN Stages -> Nat], sure : BOOLEAN] : w = walk
  BY <1>1, WalksHave DEF WalkInv
<1>3. final = "none"
  <2>1. final # "none" => walk.at = "none"
    BY DEF WalkInv, Gone
  <2> QED BY <1>1, <2>1
<1>4. walk.sure
  <2>1. ~walk.sure => Decision = -1
    BY <1>1 DEF WalkInv, Memory
  <2> QED BY <1>1, <2>1
<1>5. w.outcomes = Recovered /\ w.used = Counted
  BY <1>1, <1>2, <1>4 DEF WalkInv, Memory
<1>6. PICK i : i = Decision
  OBVIOUS
<1>7. Picks(Recovered, i) /\ ~Exhausted(i, Counted) /\ i \in DOMAIN Stages
  <2>1. i = NextAction(Recovered, Counted)
    BY <1>2, <1>5, <1>6 DEF Decision
  <2> QED BY <1>1, <1>6, <2>1, ActionPicks
<1>8. Counted[i] < Stages[i].cap
  <2>1. Counted[i] \in Nat /\ Stages[i].cap \in Nat
    BY <1>1, <1>7, CountedTyped, PlanShape
  <2> QED BY <1>7, <2>1 DEF Exhausted
<1>9. attempts' = Append(attempts, [stage |-> i, answer |-> "started"])
  BY <1>6
<1>10. /\ Kept' /\ Known' = Known /\ Recovered' = Recovered /\ i \notin Known
       /\ Counted' = [Counted EXCEPT ![i] = @ + 1]
       /\ attempts' # <<>> /\ attempts'[Len(attempts')].stage = i
       /\ attempts'[Len(attempts')].answer = "started"
  BY <1>1, <1>7, <1>8, <1>9, KeptBegins
<1>11. PICK c : c = [w.used EXCEPT ![i] = @ + 1]
  OBVIOUS
<1>12. walk' = [w EXCEPT !.at = "calling", !.used = c]
  BY <1>2, <1>6, <1>11
<1>13. c \in [DOMAIN Stages -> Nat]
  <2>1. w.used \in [DOMAIN Stages -> Nat]
    BY <1>2
  <2> QED BY <1>7, <1>11, <2>1
<1>14. /\ walk' \in [at : {"deciding", "calling"}, outcomes : Seq(Outcome),
                     used : [DOMAIN Stages -> Nat], sure : BOOLEAN]
       /\ walk'.at = "calling" /\ walk'.used = c /\ walk'.outcomes = w.outcomes
  BY <1>2, <1>12, <1>13
<1>15. walk' \in Walks'
  BY <1>1, <1>14, StagesStay DEF Walks
<1>16. Memory'
  BY <1>5, <1>10, <1>11, <1>14 DEF Memory
<1>17. PublishedIsComplete'
  BY <1>1, <1>3 DEF PublishedIsComplete
<1> QED BY <1>1, <1>3, <1>10, <1>15, <1>16, <1>17 DEF WalkInv

LEMMA StepAnswered ==
  ASSUME WalkAssumption, WalkInv, NEW answer \in Answers, Answered(answer)
  PROVE  WalkInv'
<1> USE DEF Answered
<1>1. Kept /\ TriesTyped /\ kind' = kind /\ final' = final /\ walk.at = "calling"
  BY DEF WalkInv, Kept
<1>2. PICK w \in [at : {"deciding", "calling"}, outcomes : Seq(Outcome),
                  used : [DOMAIN Stages -> Nat], sure : BOOLEAN] : w = walk
  BY <1>1, WalksHave DEF WalkInv
<1>3. final = "none"
  <2>1. final # "none" => walk.at = "none"
    BY DEF WalkInv, Gone
  <2> QED BY <1>1, <2>1
<1>4. /\ w.used = Counted /\ w.outcomes = Recovered /\ attempts # <<>>
      /\ attempts[Len(attempts)].stage \notin Known
      /\ attempts[Len(attempts)].answer = "started"
  BY <1>1, <1>2 DEF WalkInv, Memory
<1>5. PICK last, i : last \in DOMAIN attempts /\ last = Len(attempts) /\ i = attempts[last].stage
  BY <1>1, <1>4 DEF TriesTyped
<1>6. PICK x : x = OutcomeFrom(i, answer)
  OBVIOUS
<1>7. i \in 1..5 /\ i \in DOMAIN Stages /\ attempts[last] \in Try
  <2>1. attempts[last] \in Try
    BY <1>1, <1>5 DEF TriesTyped
  <2> QED BY <1>1, <1>5, <2>1 DEF Try, TriesTyped
<1>8. x \in Outcome /\ x.stage = i
  BY <1>6, <1>7 DEF OutcomeFrom, Outcome, VerdictFails
<1>9. PICK r, s : r = Recovered /\ s = Append(r, x)
  OBVIOUS
<1>10. walk' = [w EXCEPT !.at = "deciding", !.outcomes = s, !.sure = answer # "refused"]
  BY <1>2, <1>4, <1>5, <1>6, <1>9
<1>11. r \in Seq(Outcome) /\ Rising(r) /\ Ahead(r) /\ Picks(r, i)
  BY <1>1, <1>4, <1>5, <1>9, RecoveredStands DEF Kept, Picked
<1>12. s \in Seq(Outcome)
  BY <1>8, <1>9, <1>11
<1>13. /\ walk' \in [at : {"deciding", "calling"}, outcomes : Seq(Outcome),
                     used : [DOMAIN Stages -> Nat], sure : BOOLEAN]
       /\ walk'.at = "deciding" /\ walk'.used = w.used /\ walk'.outcomes = s
       /\ walk'.sure <=> answer # "refused"
  BY <1>2, <1>10, <1>12
<1>14. walk' \in Walks'
  BY <1>1, <1>13, StagesStay DEF Walks
<1>15. CASE answer = "refused"
  <2>1. PICK try : try = [attempts[last] EXCEPT !.answer = "refused"]
    OBVIOUS
  <2>2. try \in Try /\ try.stage = i /\ ~ReadBack(try) /\ ~ReadBack(attempts[last])
    <3>1. try \in Try /\ try.stage = i /\ try.answer = "refused"
      BY <1>5, <1>7, <2>1 DEF Try
    <3> QED BY <1>4, <1>5, <3>1 DEF ReadBack
  <2>3. attempts' = [attempts EXCEPT ![last] = try]
    BY <1>5, <1>15, <2>1
  <2>4. /\ attempts' \in Seq(Try) /\ DOMAIN attempts' = DOMAIN attempts /\ attempts'[last] = try
        /\ \A n \in DOMAIN attempts \ {last} : attempts'[n] = attempts[n]
    <3> HIDE DEF Answered
    <3>1. attempts \in Seq(Try)
      BY <1>1 DEF TriesTyped
    <3>2. PICK old, new : old = attempts /\ new = attempts'
      OBVIOUS
    <3>3. old \in Seq(Try) /\ new = [old EXCEPT ![last] = try] /\ last \in DOMAIN old
      BY <1>5, <2>3, <3>1, <3>2
    <3>4. /\ new \in Seq(Try) /\ DOMAIN new = DOMAIN old /\ new[last] = try
          /\ \A n \in DOMAIN old \ {last} : new[n] = old[n]
      BY <2>2, <3>3
    <3> QED BY <3>2, <3>4
  <2>5. NothingRead
    BY <1>1, <1>5, <2>2, <2>4 DEF NothingRead
  <2>6. Kept' /\ Recovered' = Recovered /\ Counted' = Counted
    BY <1>1, <2>4, <2>5, KeptStays
  <2>7. x.failed /\ ~x.unparsed /\ ~x.unjudged
    <3>1. \A k : ~VerdictFails(Stages[k], answer)
      BY <1>15 DEF VerdictFails
    <3>2. x.unjudged = VerdictFails(Stages[i], answer)
      BY <1>6 DEF OutcomeFrom
    <3>3. x.unparsed = FALSE /\ x.failed = TRUE
      BY <1>6, <1>15 DEF OutcomeFrom
    <3> QED BY <3>1, <3>2, <3>3
  <2>8. \A used : NextAction(s, used) = -1
    BY <1>8, <1>9, <1>11, <2>7, Advances
  <2>9. \A used : NextAction(s, used)' = -1
    BY <1>1, <2>8, PicksStay
  <2>10. Decision' = -1
    BY <1>13, <2>9 DEF Decision
  <2>11. Memory'
    BY <1>4, <1>13, <1>15, <2>6, <2>10 DEF Memory
  <2>12. PublishedIsComplete'
    BY <1>1, <1>3 DEF PublishedIsComplete
  <2> QED BY <1>1, <1>3, <1>14, <2>6, <2>11, <2>12 DEF WalkInv
<1>16. CASE answer # "refused"
  <2>1. answer \in {"good", "failing", "unparsed"}
    BY <1>16 DEF Answers
  <2>2. Kept' /\ Counted' = Counted /\ Recovered' = s
    BY <1>1, <1>4, <1>5, <1>6, <1>9, <2>1, KeptAnswers
  <2>3. Memory'
    BY <1>4, <1>13, <1>16, <2>2 DEF Memory
  <2>4. PublishedIsComplete'
    BY <1>1, <1>3 DEF PublishedIsComplete
  <2> QED BY <1>1, <1>3, <1>14, <2>2, <2>3, <2>4 DEF WalkInv
<1> QED BY <1>15, <1>16

LEMMA StepGone ==
  ASSUME WalkAssumption, WalkInv, Silent \/ Dies
  PROVE  WalkInv'
<1>1. Kept /\ walk' = Gone /\ kind' = kind /\ attempts' = attempts /\ final' = final /\ walk.at # "none"
  BY DEF WalkInv, Silent, Dies
<1>2. final = "none"
  <2>1. final # "none" => walk.at = "none"
    BY DEF WalkInv, Gone
  <2> QED BY <1>1, <2>1
<1>3. NothingRead
  BY <1>1 DEF NothingRead, Kept, TriesTyped
<1> QED BY <1>1, <1>2, <1>3, KeptStays, GoneIs

LEMMA StepEnded ==
  ASSUME WalkAssumption, WalkInv, Ended
  PROVE  WalkInv'
<1> USE DEF Ended
<1>1. /\ Kept /\ walk' = Gone /\ kind' = kind /\ attempts' = attempts /\ walk.at = "deciding"
      /\ final' \in {"published", "failed"}
  BY DEF WalkInv
<1>2. NothingRead
  BY <1>1 DEF NothingRead, Kept, TriesTyped
<1>3. Kept'
  BY <1>1, <1>2, KeptStays
<1>4. walk' \in Walks' /\ walk'.at = "none"
  BY <1>1 DEF Walks, Gone
<1>5. Memory'
  BY <1>4 DEF Memory
<1>6. PublishedIsComplete'
  <2> SUFFICES ASSUME Decision = 0
               PROVE  IF kind = "beat_write_judge"
                      THEN /\ Delivered({"writer", "writer_repair"})'
                           /\ Delivered({"judge", "judge_fix", "judge_repair"})'
                      ELSE Delivered({"only", "only_repair"})'
    BY <1>1 DEF PublishedIsComplete
  <2>1. walk.outcomes = Recovered
    BY <1>1 DEF WalkInv, Memory
  <2>2. Due(Recovered) = {} /\ Completes(Recovered)
    BY <2>1, ActionPicks DEF Decision
  <2>3. \A keys : Delivered(keys)' <=> Delivered(keys)
    BY <1>1, StagesStay DEF Delivered, ReadBack
  <2> QED BY <1>1, <2>2, <2>3, CompleteIs
<1> QED BY <1>1, <1>3, <1>4, <1>5, <1>6 DEF WalkInv

LEMMA StepWalk ==
  ASSUME WalkAssumption, WalkInv, WalkNext
  PROVE  WalkInv'
<1>1. CASE Recover
  BY <1>1, StepRecover
<1>2. CASE BeginStage
  BY <1>2, StepBeginStage
<1>3. CASE \E answer \in Answers : Answered(answer)
  BY <1>3, StepAnswered
<1>4. CASE Silent \/ Dies
  BY <1>4, StepGone
<1>5. CASE Ended
  BY <1>5, StepEnded
<1> QED BY <1>1, <1>2, <1>3, <1>4, <1>5 DEF WalkNext, Calls

LEMMA WalkStutters ==
  ASSUME WalkAssumption, WalkInv, UNCHANGED walkVars
  PROVE  WalkInv'
<1>1. /\ kind' = kind /\ attempts' = attempts /\ walk' = walk /\ final' = final
  BY DEF walkVars
<1>2. NothingRead
  BY <1>1 DEF NothingRead, WalkInv, Kept, TriesTyped
<1>3. Kept' /\ Known' = Known /\ Recovered' = Recovered /\ Counted' = Counted
  BY <1>1, <1>2, KeptStays DEF WalkInv
<1>4. Stages' = Stages
  BY <1>1, StagesStay
<1>5. Decision' = Decision
  <2>1. PICK o, u : o = walk.outcomes /\ u = walk.used
    OBVIOUS
  <2>2. NextAction(o, u)' = NextAction(o, u)
    BY <1>1, PicksStay
  <2> QED BY <1>1, <2>1, <2>2 DEF Decision
<1>6. Memory'
  BY <1>1, <1>3, <1>5 DEF WalkInv, Memory
<1>7. \A keys : Delivered(keys)' <=> Delivered(keys)
  BY <1>1, StagesStay DEF Delivered, ReadBack
<1>8. PublishedIsComplete'
  BY <1>1, <1>7 DEF WalkInv, PublishedIsComplete
<1> QED BY <1>1, <1>3, <1>4, <1>6, <1>8 DEF WalkInv, Walks

-----------------------------------------------------------------------------
\* What the worker remembers of a walk is what its successor would recover, and
\* stages rise in it: so recovery, budgets and completeness stand for every
\* number of invocations and every way in which workers die.
THEOREM WalkInvariant == WalkSpec => []WalkInv
<1>1. WalkInit => WalkInv
  BY WalkAssumption, WalkInvInit
<1>2. WalkInv /\ [WalkNext]_walkVars => WalkInv'
  BY WalkAssumption, StepWalk, WalkStutters
<1> QED BY <1>1, <1>2, PTL DEF WalkSpec

\* RecoveryAgrees: decideNextAction over loadStageWinners' outcomes decides as the
\* worker before would have, unless that one was just refused.
THEOREM RecoveryAlwaysAgrees == WalkSpec => []RecoveryAgrees
<1>1. WalkInv => RecoveryAgrees
  <2> SUFFICES ASSUME WalkInv, walk.at = "deciding", walk.sure
               PROVE  NextAction(Recovered, Counted) = Decision
    BY DEF RecoveryAgrees
  <2>1. walk.outcomes = Recovered /\ walk.used = Counted
    BY DEF WalkInv, Memory
  <2> QED BY <2>1 DEF Decision
<1> QED BY <1>1, WalkInvariant, PTL

\* PublishedIsComplete: a job is published only on the outputs its plan was for,
\* whatever failed, was repaired or was lost with a worker.
THEOREM PublishedStaysComplete == WalkSpec => []PublishedIsComplete
<1>1. WalkInv => PublishedIsComplete
  BY DEF WalkInv
<1> QED BY <1>1, WalkInvariant, PTL

\* CallsWithinBudget: the calls of all workers together stay within the budget of
\* the frozen plan.
THEOREM CallsStayWithinBudget == WalkSpec => []CallsWithinBudget
<1>1. WalkInv => CallsWithinBudget
  BY WalkAssumption, CappedIsBudgeted DEF WalkInv, Kept
<1> QED BY <1>1, WalkInvariant, PTL
-----------------------------------------------------------------------------
\* The order of the locks.

Rank == [row \in Row |->
          CASE row = "user" -> 1 [] row = "project" -> 2 [] row = "quote" -> 3
            [] row = "job" -> 4 [] row = "reservation" -> 5 [] row = "invocation" -> 6
            [] row = "attempt" -> 7]

Climbing(handler) ==
  \A i, k \in 1..Len(Locks(handler)) :
    i < k => Rank[Locks(handler)[i].row] < Rank[Locks(handler)[k].row]

-----------------------------------------------------------------------------
\* Every handler takes one to four locks on rows of the model.
LEMMA LocksShape ==
  ASSUME NEW handler \in Kind
  PROVE  /\ Len(Locks(handler)) \in 1..4
         /\ \A i \in 1..Len(Locks(handler)) : Locks(handler)[i] \in Lock
  <1>1. CASE handler = "confirmQuote"
    <2>1. Locks(handler) = <<Exclusive("user"), Exclusive("project"), Exclusive("quote")>>
      BY <1>1 DEF Locks, ConfirmLocks
    <2> QED
      BY <2>1 DEF Lock, Row, Mode, Exclusive, KeyShare, Skip
  <1>2. CASE handler = "createIntake"
    <2>1. Locks(handler) = <<Exclusive("project"), KeyShare("user")>>
      BY <1>2 DEF Locks, IntakeLocks
    <2> QED
      BY <2>1 DEF Lock, Row, Mode, Exclusive, KeyShare, Skip
  <1>3. CASE handler = "replayIntake"
    <2>1. Locks(handler) = <<Exclusive("reservation")>>
      BY <1>3 DEF Locks, ReplayLocks
    <2> QED
      BY <2>1 DEF Lock, Row, Mode, Exclusive, KeyShare, Skip
  <1>4. CASE handler = "beginAttempt"
    <2>1. Locks(handler) = <<Exclusive("project"), Exclusive("job"), Exclusive("invocation")>>
      BY <1>4 DEF Locks, BeginLocks
    <2> QED
      BY <2>1 DEF Lock, Row, Mode, Exclusive, KeyShare, Skip
  <1>5. CASE handler = "finalizeAttempt"
    <2>1. Locks(handler) = <<Exclusive("project"), Exclusive("job"), Exclusive("invocation"), Exclusive("attempt")>>
      BY <1>5 DEF Locks, FinalizeLocks
    <2> QED
      BY <2>1 DEF Lock, Row, Mode, Exclusive, KeyShare, Skip
  <1>6. CASE handler \in {"lateReconcile", "finish", "publish"}
    <2>1. Locks(handler) = <<Exclusive("project"), Exclusive("job"), Exclusive("reservation")>>
      BY <1>6 DEF Locks, LateLocks, FinishLocks, PublishLocks
    <2> QED
      BY <2>1 DEF Lock, Row, Mode, Exclusive, KeyShare, Skip
  <1>7. CASE handler = "reclaim"
    <2>1. Locks(handler) = <<Skip("job"), Exclusive("reservation")>>
      BY <1>7 DEF Locks, ReclaimLocks
    <2> QED
      BY <2>1 DEF Lock, Row, Mode, Exclusive, KeyShare, Skip
  <1>8. CASE handler = "closeOrphans"
    <2>1. Locks(handler) = <<Exclusive("attempt")>>
      BY <1>8 DEF Locks, OrphanLocks
    <2> QED
      BY <2>1 DEF Lock, Row, Mode, Exclusive, KeyShare, Skip
  <1>9. CASE handler = "cancelPaid"
    <2>1. Locks(handler) = <<Exclusive("job"), Exclusive("reservation")>>
      BY <1>9 DEF Locks, CancelPaidLocks
    <2> QED
      BY <2>1 DEF Lock, Row, Mode, Exclusive, KeyShare, Skip
  <1>10. CASE handler = "cancelSystem"
    <2>1. Locks(handler) = <<Exclusive("job"), Exclusive("reservation"), Exclusive("project")>>
      BY <1>10 DEF Locks, CancelSystemLocks
    <2> QED
      BY <2>1 DEF Lock, Row, Mode, Exclusive, KeyShare, Skip
  <1>11. CASE handler = "cancelRunning"
    <2>1. Locks(handler) = <<Exclusive("job")>>
      BY <1>11 DEF Locks, CancelRunningLocks
    <2> QED
      BY <2>1 DEF Lock, Row, Mode, Exclusive, KeyShare, Skip
  <1>12. CASE handler = "manualRetry"
    <2>1. Locks(handler) = <<Exclusive("job"), KeyShare("project")>>
      BY <1>12 DEF Locks, RetryLocks
    <2> QED
      BY <2>1 DEF Lock, Row, Mode, Exclusive, KeyShare, Skip
  <1> QED
    BY <1>1, <1>2, <1>3, <1>4, <1>5, <1>6, <1>7, <1>8, <1>9, <1>10, <1>11, <1>12 DEF Kind

\* All handlers but three take their locks in the order of the ranks.
LEMMA OrderedHandlersRise ==
  ASSUME NEW handler \in Kind \ Inverted
  PROVE  Climbing(handler)
  <1>1. CASE handler = "confirmQuote"
    <2>1. Locks(handler) = <<Exclusive("user"), Exclusive("project"), Exclusive("quote")>>
      BY <1>1 DEF Locks, ConfirmLocks
    <2> QED
      BY <2>1 DEF Climbing, Rank, Row, Exclusive, KeyShare, Skip
  <1>2. CASE handler = "replayIntake"
    <2>1. Locks(handler) = <<Exclusive("reservation")>>
      BY <1>2 DEF Locks, ReplayLocks
    <2> QED
      BY <2>1 DEF Climbing, Rank, Row, Exclusive, KeyShare, Skip
  <1>3. CASE handler = "beginAttempt"
    <2>1. Locks(handler) = <<Exclusive("project"), Exclusive("job"), Exclusive("invocation")>>
      BY <1>3 DEF Locks, BeginLocks
    <2> QED
      BY <2>1 DEF Climbing, Rank, Row, Exclusive, KeyShare, Skip
  <1>4. CASE handler = "finalizeAttempt"
    <2>1. Locks(handler) = <<Exclusive("project"), Exclusive("job"), Exclusive("invocation"), Exclusive("attempt")>>
      BY <1>4 DEF Locks, FinalizeLocks
    <2> QED
      BY <2>1 DEF Climbing, Rank, Row, Exclusive, KeyShare, Skip
  <1>5. CASE handler \in {"lateReconcile", "finish", "publish"}
    <2>1. Locks(handler) = <<Exclusive("project"), Exclusive("job"), Exclusive("reservation")>>
      BY <1>5 DEF Locks, LateLocks, FinishLocks, PublishLocks
    <2> QED
      BY <2>1 DEF Climbing, Rank, Row, Exclusive, KeyShare, Skip
  <1>6. CASE handler = "reclaim"
    <2>1. Locks(handler) = <<Skip("job"), Exclusive("reservation")>>
      BY <1>6 DEF Locks, ReclaimLocks
    <2> QED
      BY <2>1 DEF Climbing, Rank, Row, Exclusive, KeyShare, Skip
  <1>7. CASE handler = "closeOrphans"
    <2>1. Locks(handler) = <<Exclusive("attempt")>>
      BY <1>7 DEF Locks, OrphanLocks
    <2> QED
      BY <2>1 DEF Climbing, Rank, Row, Exclusive, KeyShare, Skip
  <1>8. CASE handler = "cancelPaid"
    <2>1. Locks(handler) = <<Exclusive("job"), Exclusive("reservation")>>
      BY <1>8 DEF Locks, CancelPaidLocks
    <2> QED
      BY <2>1 DEF Climbing, Rank, Row, Exclusive, KeyShare, Skip
  <1>9. CASE handler = "cancelRunning"
    <2>1. Locks(handler) = <<Exclusive("job")>>
      BY <1>9 DEF Locks, CancelRunningLocks
    <2> QED
      BY <2>1 DEF Climbing, Rank, Row, Exclusive, KeyShare, Skip
  <1> QED
    BY <1>1, <1>2, <1>3, <1>4, <1>5, <1>6, <1>7, <1>8, <1>9 DEF Kind, Inverted

\* A set of ranks that is not empty has a greatest member.
LEMMA RanksHaveGreatest ==
  ASSUME NEW S \in SUBSET (1..7), S # {}
  PROVE  \E m \in S : \A x \in S : x <= m
  <1> SUFFICES ASSUME \A m \in S : \E x \in S : x > m PROVE FALSE
    OBVIOUS
  <1>7. 7 \notin S
    OBVIOUS
  <1>6. 6 \notin S
    BY <1>7
  <1>5. 5 \notin S
    BY <1>6, <1>7
  <1>4. 4 \notin S
    BY <1>5, <1>6, <1>7
  <1>3. 3 \notin S
    BY <1>4, <1>5, <1>6, <1>7
  <1>2. 2 \notin S
    BY <1>3, <1>4, <1>5, <1>6, <1>7
  <1>1. 1 \notin S
    BY <1>2, <1>3, <1>4, <1>5, <1>6, <1>7
  <1>8. PICK x \in S : x \in 1..7
    OBVIOUS
  <1>9. x = 1 \/ x = 2 \/ x = 3 \/ x = 4 \/ x = 5 \/ x = 6 \/ x = 7
    BY <1>8
  <1> QED
    BY <1>1, <1>2, <1>3, <1>4, <1>5, <1>6, <1>7, <1>8, <1>9

-----------------------------------------------------------------------------
\* No handler is called "none".
LEMMA NoneIsNoKind == \A handler \in Kinds : handler \in Kind /\ handler # "none"
  BY KindsAssumption DEF Kind

\* The type invariant holds initially.
LEMMA LockInitTyped == LockInit => LockTypeOK
  BY MaxRetriesAssumption DEF LockInit, LockTypeOK, Active

\* The end of a transaction keeps the type invariant.
LEMMA EndTyped ==
  ASSUME LockTypeOK, NEW c \in Clients, End(c)
  PROVE  LockTypeOK'
  BY MaxRetriesAssumption DEF LockTypeOK, End, Active

\* Every step keeps the type invariant.
LEMMA LockStepTyped == LockTypeOK /\ [LockNext]_lockVars => LockTypeOK'
  <1> SUFFICES ASSUME LockTypeOK, [LockNext]_lockVars PROVE LockTypeOK'
    OBVIOUS
  <1>1. CASE UNCHANGED lockVars
    <2>1. txn' = txn /\ taken' = taken /\ tries' = tries
      BY <1>1 DEF lockVars
    <2> QED
      BY <2>1 DEF LockTypeOK, Active
  <1>2. ASSUME NEW c \in Clients, BeginTxn(c) PROVE LockTypeOK'
    <2>1. PICK handler \in Kinds : txn' = [txn EXCEPT ![c] = handler]
      BY <1>2 DEF BeginTxn
    <2>2. handler \in Kind
      BY NoneIsNoKind
    <2>3. Len(Locks(handler)) \in 1..4
      BY <2>2, LocksShape
    <2>4. taken' = taken /\ tries' = tries
      BY <1>2 DEF BeginTxn
    <2>5. taken[c] = 0
      BY <1>2 DEF BeginTxn, LockTypeOK
    <2> QED
      BY <2>1, <2>3, <2>4, <2>5 DEF LockTypeOK, Active
  <1>3. ASSUME NEW c \in Clients, Acquire(c) PROVE LockTypeOK'
    <2>1. txn[c] \in Kind
      BY <1>3, NoneIsNoKind DEF Acquire, Waitable, Active, LockTypeOK
    <2>2. Len(Locks(txn[c])) \in 1..4
      BY <2>1, LocksShape
    <2>3. /\ Active(c) /\ taken[c] < Len(Locks(txn[c]))
          /\ taken' = [taken EXCEPT ![c] = taken[c] + 1]
          /\ txn' = txn /\ tries' = tries
      BY <1>3 DEF Acquire, Waitable
    <2>4. taken[c] \in 0..4
      BY DEF LockTypeOK
    <2>5. taken[c] + 1 \in 0..4 /\ taken[c] + 1 <= Len(Locks(txn[c]))
      <3> DEFINE n == Len(Locks(txn[c]))
      <3>1. n \in 1..4 /\ taken[c] < n
        BY <2>2, <2>3
      <3> HIDE DEF n
      <3>2. taken[c] + 1 \in 0..4 /\ taken[c] + 1 <= n
        BY <2>4, <3>1
      <3> QED
        BY <3>2 DEF n
    <2>6. \A d \in Clients : IF Active(d) THEN taken'[d] <= Len(Locks(txn[d]))
                                          ELSE taken'[d] = 0
      <3> HIDE DEF Active
      <3> QED
        BY <2>3, <2>5 DEF LockTypeOK
    <2>7. taken' \in [Clients -> 0..4]
      BY <2>3, <2>5 DEF LockTypeOK
    <2>8. \A d \in Clients : Active(d)' = Active(d)
      BY <2>3 DEF Active
    <2> QED
      BY <2>3, <2>6, <2>7, <2>8 DEF LockTypeOK
  <1>4. ASSUME NEW c \in Clients, Advance(c) PROVE LockTypeOK'
    <2>1. CASE CommitTxn(c) \/ PassOver(c)
      BY <2>1, EndTyped DEF CommitTxn, PassOver
    <2>2. CASE AbortVictim(c)
      <3>1. CASE tries[c] = MaxRetries /\ End(c)
        BY <3>1, EndTyped
      <3>2. CASE /\ tries[c] < MaxRetries
                 /\ taken' = [taken EXCEPT ![c] = 0]
                 /\ tries' = [tries EXCEPT ![c] = @ + 1]
                 /\ UNCHANGED txn
        <4>1. \A d \in Clients : Active(d) => Len(Locks(txn[d])) \in 1..4
          BY LocksShape, NoneIsNoKind DEF Active, LockTypeOK
        <4> QED
          BY <3>2, <4>1, MaxRetriesAssumption DEF LockTypeOK, Active
      <3> QED
        BY <2>2, <3>1, <3>2 DEF AbortVictim
    <2> QED
      BY <1>4, <2>1, <2>2 DEF Advance
  <1> QED
    BY <1>1, <1>2, <1>3, <1>4 DEF LockNext

\* Clients, handlers and locks keep their shape.
THEOREM LocksTyped == LockSpec => []LockTypeOK
  BY LockInitTyped, LockStepTyped, PTL DEF LockSpec

-----------------------------------------------------------------------------
\* What a client waits for and what it holds are locks of its handler.
LEMMA LocksOfClient ==
  ASSUME LockTypeOK, NEW c \in Clients, Waitable(c)
  PROVE  /\ txn[c] \in Kind
         /\ taken[c] + 1 \in 1..Len(Locks(txn[c]))
         /\ Wanted(c) \in Lock
  <1>1. txn[c] \in Kind
    BY NoneIsNoKind DEF Waitable, Active, LockTypeOK
  <1>2. taken[c] \in 0..4 /\ taken[c] < Len(Locks(txn[c]))
    BY DEF Waitable, LockTypeOK
  <1>3. /\ Len(Locks(txn[c])) \in 1..4
        /\ \A i \in 1..Len(Locks(txn[c])) : Locks(txn[c])[i] \in Lock
    BY <1>1, LocksShape
  <1> QED
    BY <1>1, <1>2, <1>3 DEF Wanted

\* A client that takes its locks in order and holds a row waits for one of higher rank.
LEMMA WaitsHigher ==
  ASSUME LockTypeOK, NEW c \in Clients, Waitable(c), txn[c] \notin Inverted,
         NEW l \in HeldBy(c)
  PROVE  Rank[l.row] < Rank[Wanted(c).row]
  <1>1. txn[c] \in Kind \ Inverted /\ taken[c] + 1 \in 1..Len(Locks(txn[c]))
    BY LocksOfClient
  <1>2. Climbing(txn[c])
    BY <1>1, OrderedHandlersRise
  <1>3. PICK i \in 1..taken[c] : l = Locks(txn[c])[i]
    BY DEF HeldBy, Waitable
  <1>4. taken[c] \in 0..4 /\ Len(Locks(txn[c])) \in 1..4
    BY <1>1, LocksShape DEF LockTypeOK
  <1>5. i \in 1..Len(Locks(txn[c])) /\ i < taken[c] + 1
    BY <1>1, <1>3, <1>4
  <1> QED
    BY <1>1, <1>2, <1>3, <1>5 DEF Climbing, Wanted

\* In a set of ordered clients where everyone waits for another member, there would be
\* no highest rank among the rows they wait for.
LEMMA OrderedNeverDeadlock == LockTypeOK => CyclesNeedInversion
  <1> SUFFICES ASSUME LockTypeOK, NEW D \in SUBSET Clients, Deadlocked(D),
                      \A c \in D : txn[c] \notin Inverted
               PROVE  FALSE
    BY DEF CyclesNeedInversion
  <1> DEFINE ranks == {Rank[Wanted(c).row] : c \in D}
  <1>1. \A c \in D : Waitable(c) /\ \E d \in D : d \in Blockers(c)
    BY DEF Deadlocked, WaitsFor
  <1>2. \A c \in D : Wanted(c).row \in Row
    BY <1>1, LocksOfClient DEF Lock
  <1>3. ranks \in SUBSET (1..7)
    <2>1. \A row \in Row : Rank[row] \in 1..7
      BY DEF Rank, Row
    <2> QED
      BY <1>2, <2>1
  <1>4. ranks # {}
    BY DEF Deadlocked
  <1>5. PICK c \in D : \A d \in D : Rank[Wanted(d).row] <= Rank[Wanted(c).row]
    <2> HIDE DEF ranks
    <2>1. PICK m \in ranks : \A x \in ranks : x <= m
      BY <1>3, <1>4, RanksHaveGreatest
    <2> QED
      BY <2>1 DEF ranks
  <1>6. PICK d \in D : d \in Blockers(c)
    BY <1>1
  <1>7. PICK l \in HeldBy(d) : Wanted(c).row = l.row
    BY <1>6 DEF Blockers, Conflicts
  <1>8. Rank[Wanted(c).row] < Rank[Wanted(d).row]
    BY <1>1, <1>7, WaitsHigher
  <1>9. Rank[Wanted(c).row] \in 1..7 /\ Rank[Wanted(d).row] \in 1..7
    BY <1>3
  <1> QED
    BY <1>5, <1>8, <1>9

\* However many transactions run, those that keep the lock order never deadlock among
\* themselves: a wait cycle needs a queued cancellation of system-funded work, an intake
\* or a manual retry.
THEOREM OrderPreventsCycles == LockSpec => []CyclesNeedInversion
  BY LocksTyped, OrderedNeverDeadlock, PTL

=============================================================================
