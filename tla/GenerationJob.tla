---------------------------- MODULE GenerationJob ----------------------------
(***************************************************************************)
(* The generation_jobs table and the job service: rows move                *)
(* queued -> running -> queued or terminal, workers hold the lease         *)
(* identity they were given at the claim, and every write of a worker is   *)
(* compared with the row's lease token, fence version and lease deadline.  *)
(* Each action is one transaction (READ COMMITTED with the row locked).    *)
(*                                                                         *)
(* A lease token is a fresh UUID: here the number of tokens issued so far. *)
(* The lease deadline is the number of ticks left before it has passed, so *)
(* "lease_expires_at > clock_timestamp()" is lease > 0.  available_at      *)
(* delays and the claim's ORDER BY are dropped: SKIP LOCKED may already    *)
(* hand out any queued row.                                                *)
(***************************************************************************)
EXTENDS Naturals

CONSTANTS
  Jobs,        \* job ids that may be inserted
  Workers,     \* worker processes
  NoJob,       \* the job field of a worker that holds no lease
  LeaseTerm,   \* ticks a fresh lease lasts (leaseDurationMs)
  MaxFence     \* bound: a row whose fence reached it is not claimed again

ASSUME NoJobAssumption == NoJob \notin Jobs
ASSUME LeaseTermAssumption == LeaseTerm \in Nat \ {0}
ASSUME MaxFenceAssumption == MaxFence \in Nat

VARIABLES
  job,         \* generation_jobs: one row per id
  held,        \* the lease identity each worker process remembers
  issued,      \* lease tokens handed out so far
  published    \* fenced publications committed for each job

jobVars == <<job, held, issued, published>>

TerminalStatus == {"succeeded", "failed", "dead", "cancelled"}
JobStatus == {"absent", "queued", "running"} \cup TerminalStatus

JobRow == [status : JobStatus, token : Nat, fence : Nat,
           lease : 0..LeaseTerm, cancel : BOOLEAN]
Identity == [job : Jobs \cup {NoJob}, token : Nat, fence : Nat]

NoRow == [status |-> "absent", token |-> 0, fence |-> 0, lease |-> 0, cancel |-> FALSE]
NoIdentity == [job |-> NoJob, token |-> 0, fence |-> 0]

(* One type invariant: rows, identities and counters have their shape.     *)
TypeOK ==
  /\ job \in [Jobs -> JobRow]
  /\ held \in [Workers -> Identity]
  /\ issued \in Nat
  /\ published \in [Jobs -> Nat]

-----------------------------------------------------------------------------
Terminal(j) == job[j].status \in TerminalStatus
Holds(w) == held[w].job # NoJob

\* Mutant: the identity is not compared with the row's token and fence.
MatchesAnyRun(w) == Holds(w) /\ job[held[w].job].status = "running"

\* token and fence of the identity are those of the row, which is running
Matches(w) ==
  /\ Holds(w)
  /\ job[held[w].job].status = "running"
  /\ job[held[w].job].token = held[w].token
  /\ job[held[w].job].fence = held[w].fence

\* the WHERE clause every worker write repeats
OwnsLive(w) == Matches(w) /\ job[held[w].job].lease > 0

\* and the one of lockLiveOwnerForAttempt, lockForFencedPublish, requeueRunning
OwnsUncancelled(w) == OwnsLive(w) /\ ~job[held[w].job].cancel

\* The lease columns are cleared and the fence moves on; a terminal transition
\* also clears the cancellation request.
Unleased(row, s) == [status |-> s, token |-> 0, fence |-> row.fence + 1,
                     lease |-> 0, cancel |-> row.cancel]

Terminated(row, s) == [status |-> s, token |-> 0, fence |-> row.fence + 1,
                       lease |-> 0, cancel |-> FALSE]

\* claimNext leaves cancel_requested_at alone.
Claimed(row, token) == [status |-> "running", token |-> token, fence |-> row.fence + 1,
                        lease |-> LeaseTerm, cancel |-> row.cancel]

Drop(w) == held' = [held EXCEPT ![w] = NoIdentity]

-----------------------------------------------------------------------------
Init ==
  /\ job = [j \in Jobs |-> NoRow]
  /\ held = [w \in Workers |-> NoIdentity]
  /\ issued = 0
  /\ published = [j \in Jobs |-> 0]

Insert(j) ==
  /\ job[j].status = "absent"
  /\ job' = [job EXCEPT ![j].status = "queued"]
  /\ UNCHANGED <<held, issued, published>>

\* A retry is a new row with the source's kind and payload; the source stays.
ManualRetry(source, j) ==
  /\ job[source].status \in TerminalStatus \ {"succeeded"}
  /\ Insert(j)

Claim(w, j) ==
  /\ ~Holds(w)
  /\ job[j].status = "queued"
  /\ job[j].fence < MaxFence
  /\ issued' = issued + 1
  /\ job' = [job EXCEPT ![j] = Claimed(@, issued + 1)]
  /\ held' = [held EXCEPT ![w] = [job |-> j, token |-> issued + 1,
                                  fence |-> job[j].fence + 1]]
  /\ UNCHANGED published

Heartbeat(w) ==
  /\ OwnsLive(w)
  /\ job' = [job EXCEPT ![held[w].job].lease = LeaseTerm]
  /\ UNCHANGED <<held, issued, published>>

Requeue(w) ==
  /\ OwnsUncancelled(w)
  /\ job' = [job EXCEPT ![held[w].job] = Unleased(@, "queued")]
  /\ Drop(w)
  /\ UNCHANGED <<issued, published>>

\* The shutdown path requeues while the processor is still running: the process
\* keeps acting under the identity it has just given back until it exits.
ShutdownRequeue(w) ==
  /\ OwnsUncancelled(w)
  /\ job' = [job EXCEPT ![held[w].job] = Unleased(@, "queued")]
  /\ UNCHANGED <<held, issued, published>>

\* A pending cancellation blocks success; "cancelled" requires one.
Finish(w, s) ==
  /\ OwnsLive(w)
  /\ s = "succeeded" => ~job[held[w].job].cancel
  /\ s = "cancelled" => job[held[w].job].cancel
  /\ job' = [job EXCEPT ![held[w].job] = Terminated(@, s)]
  /\ Drop(w)
  /\ UNCHANGED <<issued, published>>

\* Mutant: the publication does not look at the cancellation request.
PublishAsked(w) ==
  /\ OwnsLive(w)
  /\ published' = [published EXCEPT ![held[w].job] = @ + 1]
  /\ job' = [job EXCEPT ![held[w].job] = Terminated(@, "succeeded")]
  /\ Drop(w)
  /\ UNCHANGED issued

\* The product rows, the sentinel and the terminal status commit together.
Publish(w) ==
  /\ OwnsUncancelled(w)
  /\ published' = [published EXCEPT ![held[w].job] = @ + 1]
  /\ job' = [job EXCEPT ![held[w].job] = Terminated(@, "succeeded")]
  /\ Drop(w)
  /\ UNCHANGED issued

\* Every refused call (lost_ownership, not_allowed, lost, ...) changes no row
\* and ends the worker's stage; a crash of the process does the same.
GiveUp(w) ==
  /\ Holds(w)
  /\ Drop(w)
  /\ UNCHANGED <<job, issued, published>>

RequestRunningCancellation(j) ==
  /\ job[j].status = "running" /\ ~job[j].cancel
  /\ job' = [job EXCEPT ![j].cancel = TRUE]
  /\ UNCHANGED <<held, issued, published>>

CancelQueued(j) ==
  /\ job[j].status = "queued"
  /\ job' = [job EXCEPT ![j].status = "cancelled"]
  /\ UNCHANGED <<held, issued, published>>

\* The sweeper: an expired lease is cancelled if that was asked, else requeued.
Reclaim(j) ==
  /\ job[j].status = "running" /\ job[j].lease = 0
  /\ job' = [job EXCEPT ![j] =
               IF @.cancel THEN Terminated(@, "cancelled") ELSE Unleased(@, "queued")]
  /\ UNCHANGED <<held, issued, published>>

Tick(j) ==
  /\ job[j].lease > 0
  /\ job' = [job EXCEPT ![j].lease = @ - 1]
  /\ UNCHANGED <<held, issued, published>>

-----------------------------------------------------------------------------
WorkerStep(w) ==
  \/ \E j \in Jobs : Claim(w, j)
  \/ Heartbeat(w)
  \/ Requeue(w)
  \/ ShutdownRequeue(w)
  \/ \E s \in TerminalStatus : Finish(w, s)
  \/ Publish(w)
  \/ GiveUp(w)

RowStep(j) ==
  \/ Insert(j)
  \/ \E source \in Jobs : ManualRetry(source, j)
  \/ RequestRunningCancellation(j)
  \/ CancelQueued(j)
  \/ Reclaim(j)
  \/ Tick(j)

Next == (\E w \in Workers : WorkerStep(w)) \/ (\E j \in Jobs : RowStep(j))

Spec == Init /\ [][Next]_jobVars

-----------------------------------------------------------------------------
(* The CHECK constraints of the table: exactly the running rows carry a    *)
(* lease, and a cancellation request lives only on a running row, so a     *)
(* requeued or cancelled row never carries an old lease or request along.  *)
RowChecks ==
  \A j \in Jobs :
    /\ job[j].status = "running" <=> job[j].token # 0
    /\ job[j].lease > 0 => job[j].status = "running"
    /\ job[j].cancel => job[j].status = "running"

(* However often a job was claimed, lost and reclaimed, at most one worker *)
(* process remembers an identity the row still accepts.                    *)
SingleOwner ==
  \A w1, w2 \in Workers :
    Matches(w1) /\ Matches(w2) /\ held[w1].job = held[w2].job => w1 = w2

(* A job's output is committed at most once, and only by the transaction   *)
(* that made the job succeed.                                              *)
PublishedOnce ==
  \A j \in Jobs :
    /\ published[j] <= 1
    /\ published[j] = 1 => job[j].status = "succeeded"

(* No step changes a terminal row or publishes for it again: a late worker, *)
(* a late cancellation and the sweeper all leave it alone.                 *)
TerminalIsFinal ==
  [][\A j \in Jobs : Terminal(j) =>
        job'[j] = job[j] /\ published'[j] = published[j]]_jobVars

(* The fence goes up by exactly one whenever the row is granted, given back *)
(* or taken away, and never otherwise; so an identity that lost the row can *)
(* never match it again.                                                   *)
FenceCountsOwnership ==
  [][\A j \in Jobs :
        job'[j].fence = IF job'[j].token # job[j].token
                        THEN job[j].fence + 1 ELSE job[j].fence]_jobVars

(* Once cancellation is requested the job never goes back to the queue and *)
(* never succeeds: it stays running under the request until it ends.       *)
CancelSticks ==
  [][\A j \in Jobs : job[j].cancel =>
        \/ job'[j].status = "running" /\ job'[j].cancel
        \/ job'[j].status \in TerminalStatus \ {"succeeded"}]_jobVars

(* A running job whose cancellation was requested reaches a terminal state, *)
(* even when its worker has died.                                          *)
CancellationEnds == \A j \in Jobs : job[j].cancel ~> Terminal(j)
-----------------------------------------------------------------------------
(* The abstract job: the workers whose identity the row accepts own it.    *)
PhaseOf(s) ==
  CASE s = "absent" -> "absent"
    [] s = "queued" -> "waiting"
    [] s = "running" -> "owned"
    [] OTHER -> "done"

PhaseMap == [j \in Jobs |-> PhaseOf(job[j].status)]
OwnersOf(j) == {w \in Workers : Matches(w) /\ held[w].job = j}
OwnerMap == [j \in Jobs |-> OwnersOf(j)]
BarMap == [j \in Jobs |-> job[j].cancel]

Ownership == INSTANCE JobOwnership WITH
  phase <- PhaseMap, owner <- OwnerMap, barred <- BarMap, output <- published

(* The rows, tokens and fences implement exclusive ownership with at most  *)
(* one delivery, by the owner, and none after a cancellation request.      *)
ImplementsOwnership == Ownership!Spec
=============================================================================
