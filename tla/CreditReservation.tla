-------------------------- MODULE CreditReservation --------------------------
(***************************************************************************)
(* The money side of one generation job, as pure operators on a            *)
(* reservation row and the ledger rows that carry its dedupe keys: the     *)
(* reconciliation target, the status derived from it, the two appends and  *)
(* the state transition that applies them in one transaction.              *)
(*                                                                         *)
(* A ledger row is identified by its dedupe key, and within one            *)
(* reservation the key is its kind (one allocation per reservation), so    *)
(* the ledger maps each kind to the amount of its row, 0 for no row: the   *)
(* table accepts positive amounts only and zero deltas are not inserted.   *)
(* Rollback of the surrounding transaction is ok = FALSE.                  *)
(***************************************************************************)
EXTENDS Integers

ClosedStatus == {"settled", "released", "cancelled", "expired"}
ReservationStatus == {"open", "closing"} \cup ClosedStatus
ReleaseKind == {"invocation_completed", "final-close", "queued-cancel"}
LedgerKind == {"settle"} \cup ReleaseKind

Reservation == [status : ReservationStatus, reserved : Nat, settled : Nat,
                released : Nat, exposure : Nat]
Ledger == [LedgerKind -> Nat]

OpenReservation(amount) ==
  [status |-> "open", reserved |-> amount, settled |-> 0, released |-> 0,
   exposure |-> amount]
EmptyLedger == [k \in LedgerKind |-> 0]

-----------------------------------------------------------------------------
Least(a, b) == IF a < b THEN a ELSE b
Most(a, b) == IF a > b THEN a ELSE b

\* S_target, L_target and E_target of reserved amount R
Targets(R, charge, unresolved) ==
  LET S == Least(Most(charge, 0), R)
      E == IF unresolved > 0 THEN Most(R - S, 0) ELSE 0
  IN  [settled |-> S, exposure |-> E, released |-> Most(R - S - E, 0)]

\* Mutant: a reservation with exposure left is closed.
DerivedClosed(t, reason) == IF t.settled > 0 THEN "settled" ELSE reason

DerivedStatus(t, reason) ==
  IF t.exposure > 0 THEN "closing" ELSE IF t.settled > 0 THEN "settled" ELSE reason

\* An append inserts the row, replays the same row, or is refused.
AppendAccepted(ledger, kind, amount) == ledger[kind] \in {0, amount}

Appended(ledger, kind, amount) ==
  IF amount > 0 THEN [ledger EXCEPT ![kind] = amount] ELSE ledger

-----------------------------------------------------------------------------
(***************************************************************************)
(* applyReconciliationTarget: a closed row accepts only its own tuple and  *)
(* disposition, amounts never shrink and their sum stays the reservation.  *)
(***************************************************************************)
TargetAccepted(res, t, reason) ==
  LET same == /\ t.settled = res.settled /\ t.released = res.released
              /\ t.exposure = res.exposure
  IN  /\ res.status \in ClosedStatus => same /\ DerivedStatus(t, reason) = res.status
      /\ t.settled >= res.settled /\ t.released >= res.released
      /\ t.settled + t.released + t.exposure = res.reserved

TargetApplied(res, t, reason) ==
  [status |-> DerivedStatus(t, reason), reserved |-> res.reserved,
   settled |-> t.settled, released |-> t.released, exposure |-> t.exposure]

\* Mutant: the whole target is appended, whatever the row has settled before.
ReconcileWhole(res, ledger, paid, charge, unresolved, reason, releaseKind) ==
  LET t == Targets(res.reserved, IF paid THEN charge ELSE 0, unresolved)
  IN  [ok |-> TRUE, res |-> TargetApplied(res, t, reason),
       ledger |-> IF paid
                  THEN Appended(Appended(ledger, "settle", t.settled), releaseKind, t.released)
                  ELSE ledger]

(***************************************************************************)
(* reconcileTerminalReservation.  "paid" is the user_paid funding model    *)
(* (system_funded reservations write no ledger row); "charge" is the       *)
(* user's settlement, 0 without a usable output.  A closed reservation is  *)
(* left as it is before anything is computed.                              *)
(***************************************************************************)
Reconcile(res, ledger, paid, charge, unresolved, reason, releaseKind) ==
  LET t == Targets(res.reserved, IF paid THEN charge ELSE 0, unresolved)
      settle == IF paid THEN t.settled - res.settled ELSE 0
      release == IF paid THEN t.released - res.released ELSE 0
      accepted ==
        /\ t.settled >= res.settled /\ t.released >= res.released
        /\ settle > 0 => AppendAccepted(ledger, "settle", settle)
        /\ release > 0 => AppendAccepted(ledger, releaseKind, release)
        /\ TargetAccepted(res, t, reason)
  IN  IF res.status \in ClosedStatus
      THEN [ok |-> TRUE, res |-> res, ledger |-> ledger]
      ELSE IF accepted
           THEN [ok |-> TRUE, res |-> TargetApplied(res, t, reason),
                 ledger |-> Appended(Appended(ledger, "settle", settle),
                                     releaseKind, release)]
           ELSE [ok |-> FALSE, res |-> res, ledger |-> ledger]

\* releaseQueuedCancellation: an open reservation is released whole.
ReleaseQueued(res, ledger) ==
  IF res.status = "open" /\ AppendAccepted(ledger, "queued-cancel", res.reserved)
  THEN [ok |-> TRUE,
        res |-> [status |-> "cancelled", reserved |-> res.reserved, settled |-> 0,
                 released |-> res.reserved, exposure |-> 0],
        ledger |-> Appended(ledger, "queued-cancel", res.reserved)]
  ELSE [ok |-> /\ res.status = "cancelled"
               /\ ledger["queued-cancel"] = res.reserved,
        res |-> res, ledger |-> ledger]

-----------------------------------------------------------------------------
(* The row's amounts and lifecycle CHECK constraints.                      *)
Conserved(res) ==
  /\ res.reserved > 0
  /\ res.settled + res.released + res.exposure = res.reserved
  /\ res.status = "open" => res.exposure = res.reserved
  /\ res.status = "closing" => res.exposure > 0
  /\ res.status = "settled" => res.settled > 0 /\ res.exposure = 0
  /\ res.status \in {"released", "cancelled", "expired"} =>
       res.released = res.reserved

(* Double entry: the ledger rows of the reservation add up to what the row *)
(* says was settled and released.                                          *)
LedgerAgrees(res, ledger, paid) ==
  /\ ledger["settle"] = (IF paid THEN res.settled ELSE 0)
  /\ ledger["invocation_completed"] + ledger["final-close"] + ledger["queued-cancel"]
       = (IF paid THEN res.released ELSE 0)

Sound(res, ledger, paid) ==
  /\ res \in Reservation /\ ledger \in Ledger
  /\ Conserved(res)
  /\ LedgerAgrees(res, ledger, paid)
  /\ res.status = "closing" => res.released = 0
=============================================================================
