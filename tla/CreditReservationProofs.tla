----------------------- MODULE CreditReservationProofs -----------------------
(***************************************************************************)
(* What the reconciliation operators return, for every amount and every    *)
(* number of unresolved attempts.                                          *)
(***************************************************************************)
EXTENDS CreditReservation, TLAPS

\* The three targets are amounts, and split the reservation exactly.
THEOREM TargetsConserve ==
  ASSUME NEW R \in Nat \ {0}, NEW charge \in Int, NEW n \in Nat
  PROVE  /\ Targets(R, charge, n) \in [settled : Nat, exposure : Nat, released : Nat]
         /\ Targets(R, charge, n).settled + Targets(R, charge, n).released
              + Targets(R, charge, n).exposure = R
         /\ Targets(R, charge, n).settled <= R
         /\ Targets(R, charge, n).exposure > 0 => Targets(R, charge, n).released = 0
         /\ n = 0 => Targets(R, charge, n).exposure = 0
<1> DEFINE S == Least(Most(charge, 0), R)
           E == IF n > 0 THEN Most(R - S, 0) ELSE 0
           L == Most(R - S - E, 0)
<1>1. S \in Nat /\ S <= R
  BY DEF Least, Most
<1>2. E \in Nat /\ E <= R - S /\ (E = 0 \/ E = R - S) /\ (n = 0 => E = 0)
  BY <1>1 DEF Most
<1> HIDE DEF S, E
<1>3. L \in Nat /\ S + L + E = R /\ (E > 0 => L = 0)
  BY <1>1, <1>2 DEF Most
<1> HIDE DEF L
<1>4. Targets(R, charge, n) = [settled |-> S, exposure |-> E, released |-> L]
  BY DEF Targets, S, E, L
<1> QED BY <1>1, <1>2, <1>3, <1>4

\* A new reservation with its empty ledger is sound.
LEMMA OpenIsSound ==
  ASSUME NEW R \in Nat \ {0}, NEW paid \in BOOLEAN
  PROVE  Sound(OpenReservation(R), EmptyLedger, paid)
  BY DEF Sound, OpenReservation, EmptyLedger, Reservation, Ledger, LedgerKind, ReleaseKind,
         ReservationStatus, ClosedStatus, Conserved, LedgerAgrees

\* Releasing a queued job's reservation keeps row and ledger in agreement.
THEOREM ReleaseQueuedSound ==
  ASSUME NEW res, NEW ledger, Sound(res, ledger, TRUE)
  PROVE  Sound(ReleaseQueued(res, ledger).res, ReleaseQueued(res, ledger).ledger, TRUE)
<1> DEFINE out == ReleaseQueued(res, ledger)
<1>0. res \in Reservation /\ ledger \in Ledger
  BY DEF Sound
<1>1. CASE res.status = "open" /\ AppendAccepted(ledger, "queued-cancel", res.reserved)
  <2> DEFINE r == [status |-> "cancelled", reserved |-> res.reserved, settled |-> 0,
                   released |-> res.reserved, exposure |-> 0]
             l == [ledger EXCEPT !["queued-cancel"] = res.reserved]
  <2>1. res.reserved \in Nat /\ res.reserved > 0
    BY <1>0 DEF Sound, Conserved, Reservation
  <2>2. out.res = r /\ out.ledger = l
    BY <1>1, <2>1 DEF ReleaseQueued, Appended
  <2>3. \A k \in LedgerKind : ledger[k] \in Nat
    BY <1>0 DEF Ledger
  <2>31. res.settled = 0 /\ res.released = 0
    BY <1>0, <1>1 DEF Sound, Conserved, Reservation
  <2>32. /\ ledger["settle"] = 0
        /\ ledger["invocation_completed"] + ledger["final-close"] + ledger["queued-cancel"] = 0
    BY <2>31 DEF Sound, LedgerAgrees
  <2>33. /\ ledger["invocation_completed"] \in Nat /\ ledger["final-close"] \in Nat
        /\ ledger["queued-cancel"] \in Nat
    BY <2>3 DEF LedgerKind, ReleaseKind
  <2>4. /\ ledger["settle"] = 0 /\ ledger["invocation_completed"] = 0
        /\ ledger["final-close"] = 0
    <3>1. \A a, b, c \in Nat : a + b + c = 0 => a = 0 /\ b = 0
      OBVIOUS
    <3> QED BY <2>32, <2>33, <3>1
  <2>5. /\ l \in Ledger /\ l["settle"] = 0 /\ l["invocation_completed"] = 0
        /\ l["final-close"] = 0 /\ l["queued-cancel"] = res.reserved
    BY <1>0, <2>1, <2>4 DEF Ledger, LedgerKind, ReleaseKind
  <2>6. r \in Reservation
    BY <2>1 DEF Reservation, ReservationStatus, ClosedStatus
  <2> HIDE DEF l
  <2>7. Conserved(r) /\ LedgerAgrees(r, l, TRUE)
    BY <2>1, <2>5 DEF Conserved, LedgerAgrees
  <2>8. Sound(r, l, TRUE)
    BY <2>5, <2>6, <2>7 DEF Sound
  <2> HIDE DEF r, out
  <2> QED BY <2>2, <2>8 DEF out
<1>2. CASE ~(res.status = "open" /\ AppendAccepted(ledger, "queued-cancel", res.reserved))
  <2>1. out.res = res /\ out.ledger = ledger
    BY <1>2 DEF ReleaseQueued
  <2> QED BY <2>1
<1> QED BY <1>1, <1>2

\* Terminal reconciliation (reconcileTerminalReservation) of a sound row is never refused,
\* whatever the charge, the number of unresolved attempts, the reason and the release kind,
\* provided a settlement already on the row is the one charged again; it keeps the row
\* and the ledger in agreement, never takes back a settlement or a release, and leaves
\* the row closed when no attempt is unresolved.
THEOREM ReconcileSound ==
  ASSUME NEW res, NEW ledger, NEW paid \in BOOLEAN, NEW charge \in Nat, NEW n \in Nat,
         NEW reason \in {"released", "cancelled"},
         NEW kind \in {"invocation_completed", "final-close"},
         Sound(res, ledger, paid),
         res.settled > 0 => paid /\ charge = res.settled,
         NEW out, out = Reconcile(res, ledger, paid, charge, n, reason, kind)
  PROVE  /\ out.ok
         /\ Sound(out.res, out.ledger, paid)
         /\ out.res.settled >= res.settled /\ out.res.released >= res.released
         /\ out.res.reserved = res.reserved
         /\ n = 0 => out.res.status \in ClosedStatus
         /\ \/ res.status \in ClosedStatus
            \/ out.res.settled = (IF paid THEN Least(charge, res.reserved) ELSE 0)
<1> DEFINE R == res.reserved
           c == IF paid THEN charge ELSE 0
           t == Targets(R, c, n)
           settle == IF paid THEN t.settled - res.settled ELSE 0
           release == IF paid THEN t.released - res.released ELSE 0
           r == TargetApplied(res, t, reason)
           l1 == Appended(ledger, "settle", settle)
           l == Appended(l1, kind, release)
<1>1. /\ res \in Reservation /\ ledger \in Ledger
      /\ R \in Nat \ {0} /\ res.settled \in Nat /\ res.released \in Nat /\ res.exposure \in Nat
  BY DEF Sound, Conserved, Reservation
<1>2. CASE res.status \in ClosedStatus
  <2>1. out = [ok |-> TRUE, res |-> res, ledger |-> ledger]
    BY <1>2 DEF Reconcile
  <2> QED BY <1>1, <1>2, <2>1
<1>3. CASE res.status \notin ClosedStatus
  <2>1. res.status \in {"open", "closing"}
    BY <1>1, <1>3 DEF Reservation, ReservationStatus
  <2>2. res.released = 0 /\ (res.status = "open" => res.settled = 0)
    BY <1>1, <2>1 DEF Sound, Conserved
  <2>3. c \in Nat /\ c \in Int
    OBVIOUS
  <2>4. /\ t.settled \in Nat /\ t.exposure \in Nat /\ t.released \in Nat
        /\ t.settled + t.released + t.exposure = R
        /\ t.exposure > 0 => t.released = 0
        /\ n = 0 => t.exposure = 0
    <3> HIDE DEF c, R
    <3>1. /\ t \in [settled : Nat, exposure : Nat, released : Nat]
          /\ t.settled + t.released + t.exposure = R
          /\ t.exposure > 0 => t.released = 0
          /\ n = 0 => t.exposure = 0
      BY <1>1, <2>3, TargetsConserve
    <3> HIDE DEF t
    <3> QED BY <3>1
  <2>5. t.settled = Least(c, R)
    <3>1. Most(c, 0) = c
      BY <2>3 DEF Most
    <3> QED BY <3>1 DEF Targets
  <2> HIDE DEF t
  <2>6. t.settled >= res.settled /\ (res.settled > 0 => t.settled = res.settled /\ settle = 0)
    <3>1. CASE res.settled > 0
      <4>1. c = res.settled /\ res.settled <= R /\ paid
        BY <1>1, <3>1 DEF Sound, Conserved
      <4> QED BY <1>1, <2>5, <4>1 DEF Least
    <3> QED BY <1>1, <2>4, <3>1
  <2>7. ~paid => res.settled = 0 /\ t.settled = 0
    BY <1>1, <2>5 DEF Least
  <2>8. /\ ledger["settle"] = (IF paid THEN res.settled ELSE 0)
        /\ ledger["invocation_completed"] = 0 /\ ledger["final-close"] = 0
        /\ ledger["queued-cancel"] = 0
    <3>1. /\ ledger["settle"] = (IF paid THEN res.settled ELSE 0)
          /\ ledger["invocation_completed"] + ledger["final-close"] + ledger["queued-cancel"] = 0
      BY <2>2 DEF Sound, LedgerAgrees
    <3>2. /\ ledger["invocation_completed"] \in Nat /\ ledger["final-close"] \in Nat
          /\ ledger["queued-cancel"] \in Nat
      BY <1>1 DEF Ledger, LedgerKind, ReleaseKind
    <3>3. \A a, b, d \in Nat : a + b + d = 0 => a = 0 /\ b = 0 /\ d = 0
      OBVIOUS
    <3> QED BY <3>1, <3>2, <3>3
  <2>9. settle \in Nat /\ release \in Nat
    BY <1>1, <2>2, <2>4, <2>6
  <2>10. /\ settle > 0 => AppendAccepted(ledger, "settle", settle)
         /\ release > 0 => AppendAccepted(ledger, kind, release)
    <3>1. settle > 0 => ledger["settle"] = 0
      BY <1>1, <2>6, <2>8
    <3>2. ledger[kind] = 0
      BY <2>8
    <3> QED BY <3>1, <3>2 DEF AppendAccepted
  <2>11. TargetAccepted(res, t, reason)
    BY <1>3, <2>2, <2>4, <2>6 DEF TargetAccepted
  <2>12. out = [ok |-> TRUE, res |-> r, ledger |-> l]
    BY <1>3, <2>2, <2>4, <2>6, <2>10, <2>11 DEF Reconcile, t
  <2>13. /\ r = [status |-> DerivedStatus(t, reason), reserved |-> R, settled |-> t.settled,
                 released |-> t.released, exposure |-> t.exposure]
         /\ r \in Reservation
         /\ Conserved(r)
         /\ r.status = "closing" => r.released = 0
         /\ n = 0 => r.status \in ClosedStatus
    <3>1. r = [status |-> DerivedStatus(t, reason), reserved |-> R, settled |-> t.settled,
               released |-> t.released, exposure |-> t.exposure]
      BY DEF TargetApplied
    <3>2. CASE t.exposure > 0
      BY <1>1, <2>4, <3>1, <3>2
      DEF DerivedStatus, Reservation, ReservationStatus, ClosedStatus, Conserved
    <3>3. CASE t.exposure = 0 /\ t.settled > 0
      BY <1>1, <2>4, <3>1, <3>3
      DEF DerivedStatus, Reservation, ReservationStatus, ClosedStatus, Conserved
    <3>4. CASE t.exposure = 0 /\ t.settled = 0
      BY <1>1, <2>4, <3>1, <3>4
      DEF DerivedStatus, Reservation, ReservationStatus, ClosedStatus, Conserved
    <3> QED BY <2>4, <3>2, <3>3, <3>4
  <2>14. l \in Ledger /\ LedgerAgrees(r, l, paid)
    <3> HIDE DEF settle, release
    <3>1. /\ l1 \in Ledger
          /\ l1["settle"] = (IF paid THEN t.settled ELSE 0)
          /\ l1["invocation_completed"] = 0 /\ l1["final-close"] = 0 /\ l1["queued-cancel"] = 0
      <4>1. CASE settle > 0
        <5>1. l1 = [ledger EXCEPT !["settle"] = settle]
          BY <4>1 DEF Appended
        <5>2. paid /\ res.settled = 0 /\ settle = t.settled
          BY <1>1, <2>4, <2>6, <4>1 DEF settle
        <5> QED BY <1>1, <2>8, <2>9, <5>1, <5>2 DEF Ledger, LedgerKind, ReleaseKind
      <4>2. CASE settle = 0
        <5>1. l1 = ledger
          BY <4>2 DEF Appended
        <5>2. paid => t.settled = res.settled
          <6>1. \A a, b \in Nat : a - b = 0 => a = b
            OBVIOUS
          <6>2. paid => t.settled - res.settled = 0
            BY <4>2 DEF settle
          <6> QED BY <1>1, <2>4, <6>1, <6>2
        <5> QED BY <1>1, <2>8, <5>1, <5>2
      <4> QED BY <2>9, <4>1, <4>2
    <3> HIDE DEF l1
    <3>2. release = IF paid THEN t.released ELSE 0
      BY <2>2, <2>4 DEF release
    <3>3. /\ l \in Ledger
          /\ l["settle"] = (IF paid THEN t.settled ELSE 0)
          /\ l["invocation_completed"] + l["final-close"] + l["queued-cancel"] = release
      <4>1. CASE release > 0
        <5>1. l = [l1 EXCEPT ![kind] = release]
          BY <4>1 DEF Appended
        <5>2. CASE kind = "invocation_completed"
          BY <2>9, <3>1, <5>1, <5>2 DEF Ledger, LedgerKind, ReleaseKind
        <5>3. CASE kind = "final-close"
          BY <2>9, <3>1, <5>1, <5>3 DEF Ledger, LedgerKind, ReleaseKind
        <5> QED BY <5>2, <5>3
      <4>2. CASE release = 0
        BY <3>1, <4>2 DEF Appended
      <4> QED BY <2>9, <4>1, <4>2
    <3> QED BY <2>13, <3>2, <3>3 DEF LedgerAgrees
  <2> HIDE DEF r, l
  <2>15. Sound(r, l, paid)
    BY <2>13, <2>14 DEF Sound
  <2>16. r.settled = t.settled /\ r.released = t.released /\ r.reserved = R
    BY <2>13
  <2>17. t.settled = (IF paid THEN Least(charge, res.reserved) ELSE 0)
    BY <2>5, <2>7
  <2>18. /\ out.ok /\ out.res = r /\ out.ledger = l
    BY <2>12
  <2> HIDE DEF settle, release, l1, R, c
  <2>19. t.settled >= res.settled /\ t.released >= res.released
    BY <1>1, <2>2, <2>4, <2>6
  <2> QED BY <2>13, <2>15, <2>16, <2>17, <2>18, <2>19 DEF R
<1> QED BY <1>2, <1>3

\* The same as a quantified fact about the outcome, to be instantiated with rows.
Keeps(res, ledger, paid, charge, out) ==
  /\ out.ok
  /\ Sound(out.res, out.ledger, paid)
  /\ \/ out.res = res
     \/ out.res.settled = (IF paid THEN Least(charge, res.reserved) ELSE 0)

\* The same fact as one formula, to be cited for the rows of a job.
LEMMA ReconcileKeeps ==
  \A res, ledger, paid, charge, n, reason, kind :
    /\ paid \in BOOLEAN /\ charge \in Nat /\ n \in Nat
    /\ reason \in {"released", "cancelled"}
    /\ kind \in {"invocation_completed", "final-close"}
    /\ Sound(res, ledger, paid)
    /\ res.settled > 0 => paid /\ charge = res.settled
    => Keeps(res, ledger, paid, charge,
             Reconcile(res, ledger, paid, charge, n, reason, kind))
<1> SUFFICES ASSUME NEW res, NEW ledger, NEW paid \in BOOLEAN, NEW charge \in Nat, NEW n \in Nat,
                    NEW reason \in {"released", "cancelled"},
                    NEW kind \in {"invocation_completed", "final-close"},
                    Sound(res, ledger, paid),
                    res.settled > 0 => paid /\ charge = res.settled
             PROVE  Keeps(res, ledger, paid, charge,
                          Reconcile(res, ledger, paid, charge, n, reason, kind))
  OBVIOUS
<1> DEFINE out == Reconcile(res, ledger, paid, charge, n, reason, kind)
<1>1. res.status \in ClosedStatus => out.res = res
  BY DEF Reconcile
<1> HIDE DEF out
<1>2. /\ out.ok /\ Sound(out.res, out.ledger, paid)
      /\ \/ res.status \in ClosedStatus
         \/ out.res.settled = (IF paid THEN Least(charge, res.reserved) ELSE 0)
  BY ReconcileSound DEF out
<1> QED BY <1>1, <1>2 DEF Keeps, out
=============================================================================
