------------------------------ MODULE LockOrder ------------------------------
(***************************************************************************)
(* Row locks of the transactions that share one user, one project, one job *)
(* and its rows.  A transaction takes its locks in the order its handler   *)
(* does, waits while another transaction holds a conflicting one, and      *)
(* releases all of them at its end.  PostgreSQL aborts one transaction of  *)
(* a wait cycle; the unit of work starts it again until MaxRetries.        *)
(*                                                                         *)
(* FOR UPDATE and an UPDATE of a row are "update"; the check of a foreign  *)
(* key by an INSERT is "keyshare" on the row referred to (left out where   *)
(* the same transaction already holds that row); SKIP LOCKED is "skip".    *)
(* A handler's early returns only make its list of locks shorter, and the  *)
(* intake's fair-use counter is left out: no other handler takes it.       *)
(***************************************************************************)
EXTENDS Naturals, Sequences, FiniteSets

CONSTANTS
  Clients,      \* connections that may hold a transaction at the same time
  Kinds,        \* handlers they run
  MaxRetries    \* DEFAULT_MAX_RETRIES of the unit of work

ASSUME MaxRetriesAssumption == MaxRetries \in Nat

Row == {"user", "project", "quote", "job", "reservation", "invocation", "attempt"}
Mode == {"update", "keyshare", "skip"}
Lock == [row : Row, mode : Mode]

Exclusive(row) == [row |-> row, mode |-> "update"]
KeyShare(row) == [row |-> row, mode |-> "keyshare"]
Skip(row) == [row |-> row, mode |-> "skip"]

Kind == {"confirmQuote", "createIntake", "replayIntake", "beginAttempt", "finalizeAttempt",
         "lateReconcile", "finish", "publish", "reclaim", "closeOrphans", "cancelPaid",
         "cancelSystem", "cancelRunning", "manualRetry"}

ASSUME KindsAssumption == Kinds \subseteq Kind

\* The rows each handler locks, in its order.  New rows are not listed: nobody else
\* can wait for them.
ConfirmLocks == <<Exclusive("user"), Exclusive("project"), Exclusive("quote")>>
IntakeLocks == <<Exclusive("project"), KeyShare("user")>>
ReplayLocks == <<Exclusive("reservation")>>
BeginLocks == <<Exclusive("project"), Exclusive("job"), Exclusive("invocation")>>
FinalizeLocks ==
  <<Exclusive("project"), Exclusive("job"), Exclusive("invocation"), Exclusive("attempt")>>
LateLocks == <<Exclusive("project"), Exclusive("job"), Exclusive("reservation")>>

\* Mutant: the job is locked before its project.
JobFirstLocks == <<Exclusive("job"), Exclusive("project"), Exclusive("reservation")>>

FinishLocks == <<Exclusive("project"), Exclusive("job"), Exclusive("reservation")>>
PublishLocks == <<Exclusive("project"), Exclusive("job"), Exclusive("reservation")>>
ReclaimLocks == <<Skip("job"), Exclusive("reservation")>>
OrphanLocks == <<Exclusive("attempt")>>
CancelPaidLocks == <<Exclusive("job"), Exclusive("reservation")>>
CancelSystemLocks == <<Exclusive("job"), Exclusive("reservation"), Exclusive("project")>>
CancelRunningLocks == <<Exclusive("job")>>
RetryLocks == <<Exclusive("job"), KeyShare("project")>>

Locks(kind) ==
  CASE kind = "confirmQuote" -> ConfirmLocks
    [] kind = "createIntake" -> IntakeLocks
    [] kind = "replayIntake" -> ReplayLocks
    [] kind = "beginAttempt" -> BeginLocks
    [] kind = "finalizeAttempt" -> FinalizeLocks
    [] kind = "lateReconcile" -> LateLocks
    [] kind = "finish" -> FinishLocks
    [] kind = "publish" -> PublishLocks
    [] kind = "reclaim" -> ReclaimLocks
    [] kind = "closeOrphans" -> OrphanLocks
    [] kind = "cancelPaid" -> CancelPaidLocks
    [] kind = "cancelSystem" -> CancelSystemLocks
    [] kind = "cancelRunning" -> CancelRunningLocks
    [] kind = "manualRetry" -> RetryLocks

VARIABLES
  txn,     \* the handler each client runs, "none" when it has no transaction
  taken,   \* how many of its locks it holds
  tries    \* how often the unit of work has started it again

lockVars == <<txn, taken, tries>>

-----------------------------------------------------------------------------
Active(c) == txn[c] # "none"
Waitable(c) == Active(c) /\ taken[c] < Len(Locks(txn[c]))
Wanted(c) == Locks(txn[c])[taken[c] + 1]
HeldBy(c) == IF Active(c) THEN {Locks(txn[c])[i] : i \in 1..taken[c]} ELSE {}

Conflicts(l1, l2) ==
  l1.row = l2.row /\ ~(l1.mode = "keyshare" /\ l2.mode = "keyshare")

\* the transactions that hold what c asks for
Blockers(c) ==
  {d \in Clients \ {c} : \E l \in HeldBy(d) : Conflicts(Wanted(c), l)}

WaitsFor(c) == IF Waitable(c) /\ Wanted(c).mode # "skip" THEN Blockers(c) ELSE {}

\* every member waits for another member
Deadlocked(D) == D # {} /\ \A c \in D : WaitsFor(c) \cap D # {}

OnCycle(c) ==
  \E D \in SUBSET Clients :
    c \in D /\ Deadlocked(D) /\ \A C \in SUBSET D : Deadlocked(C) => C = D

-----------------------------------------------------------------------------
LockInit ==
  /\ txn = [c \in Clients |-> "none"]
  /\ taken = [c \in Clients |-> 0]
  /\ tries = [c \in Clients |-> 0]

BeginTxn(c) ==
  /\ ~Active(c)
  /\ \E kind \in Kinds : txn' = [txn EXCEPT ![c] = kind]
  /\ UNCHANGED <<taken, tries>>

Acquire(c) ==
  /\ Waitable(c) /\ Blockers(c) = {}
  /\ taken' = [taken EXCEPT ![c] = @ + 1]
  /\ UNCHANGED <<txn, tries>>

End(c) ==
  /\ txn' = [txn EXCEPT ![c] = "none"]
  /\ taken' = [taken EXCEPT ![c] = 0]
  /\ tries' = [tries EXCEPT ![c] = 0]

CommitTxn(c) ==
  /\ Active(c) /\ taken[c] = Len(Locks(txn[c]))
  /\ End(c)

\* SKIP LOCKED passes over a locked row: there was nothing to reclaim.
PassOver(c) ==
  /\ Waitable(c) /\ Wanted(c).mode = "skip" /\ Blockers(c) # {}
  /\ End(c)

\* Mutant: the retry has no limit.
RetryForEver(c) ==
  /\ OnCycle(c)
  /\ taken' = [taken EXCEPT ![c] = 0]
  /\ UNCHANGED <<txn, tries>>

\* The victim of a deadlock is started again, or its caller gets RETRY_EXHAUSTED.
AbortVictim(c) ==
  /\ OnCycle(c)
  /\ \/ /\ tries[c] < MaxRetries
        /\ taken' = [taken EXCEPT ![c] = 0]
        /\ tries' = [tries EXCEPT ![c] = @ + 1]
        /\ UNCHANGED txn
     \/ /\ tries[c] = MaxRetries
        /\ End(c)

Advance(c) == CommitTxn(c) \/ PassOver(c) \/ AbortVictim(c)

LockNext == \E c \in Clients : BeginTxn(c) \/ Acquire(c) \/ Advance(c)

\* Handlers go on, the deadlock detector runs, and waiters for a row queue up: nobody
\* is overtaken for ever.
LockSpec ==
  /\ LockInit /\ [][LockNext]_lockVars
  /\ \A c \in Clients : SF_lockVars(Acquire(c)) /\ WF_lockVars(Advance(c))

-----------------------------------------------------------------------------
(* The type invariant: no client holds more locks than its handler takes.  *)
LockTypeOK ==
  /\ txn \in [Clients -> Kinds \cup {"none"}]
  /\ taken \in [Clients -> 0..4]
  /\ tries \in [Clients -> 0..MaxRetries]
  /\ \A c \in Clients :
       IF Active(c) THEN taken[c] <= Len(Locks(txn[c])) ELSE taken[c] = 0

(* The lock order of the job lifecycle, as the credit-engine plan states   *)
(* it: no set of transactions waits in a cycle, and the deadlock retry of  *)
(* the unit of work is a fallback only.                                    *)
NoWaitCycle == \A D \in SUBSET Clients : ~Deadlocked(D)

\* the three handlers that take a row after one that the others take later
Inverted == {"cancelSystem", "createIntake", "manualRetry"}

(* Every wait cycle contains a queued cancellation of system-funded work,  *)
(* an intake or a manual retry: worker transactions, paid cancellations,   *)
(* the sweeper and quote confirmations never deadlock among themselves.    *)
CyclesNeedInversion ==
  \A D \in SUBSET Clients : Deadlocked(D) => \E c \in D : txn[c] \in Inverted

(* Every transaction ends: it commits, passes over a locked row, or is     *)
(* given up after its last retry; nobody waits for ever.                   *)
TransactionsEnd == \A c \in Clients : Active(c) ~> ~Active(c)
=============================================================================
