------------------------- MODULE GenerationRunProofs -------------------------
(***************************************************************************)
(* Proofs about GenerationJob and GenerationRun for every set of jobs and  *)
(* workers and every bound.  Of the job service the inductive invariant is *)
(* IInv: with the table's CHECK constraints and PublishedOnce it says that *)
(* the tokens workers remember were all issued and are pairwise different. *)
(* A run's step is a step of the job service, so what is shown of jobs     *)
(* holds of runs too; the money invariant is inductive together with the   *)
(* range of the attempt numbers that workers and rows remember.            *)
(***************************************************************************)
EXTENDS GenerationRun, CreditReservationProofs, FiniteSetTheorems, TLAPS

-----------------------------------------------------------------------------
(* Jobs.                                                                   *)

TokensIssued == \A w \in Workers : Holds(w) => held[w].token \in 1..issued

TokensDiffer ==
  \A w1, w2 \in Workers :
    Holds(w1) /\ Holds(w2) /\ held[w1].token = held[w2].token => w1 = w2

IInv == TypeOK /\ RowChecks /\ TokensIssued /\ TokensDiffer /\ PublishedOnce

\* Init establishes every conjunct: nothing is issued, held or published.
LEMMA InitIInv == Init => IInv
  BY NoJobAssumption, LeaseTermAssumption
  DEF Init, IInv, TypeOK, RowChecks, TokensIssued, TokensDiffer, PublishedOnce,
      Holds, JobRow, Identity, NoRow, NoIdentity, JobStatus, TerminalStatus

\* The CHECK constraints of one row.
RowOK(r) ==
  /\ r.status = "running" <=> r.token # 0
  /\ r.lease > 0 => r.status = "running"
  /\ r.cancel => r.status = "running"

\* A row whose lease is taken away stays a row, keeps no token and no lease.
LEMMA UnleasedRow ==
  ASSUME NEW row \in JobRow, NEW s \in JobStatus \ {"running"}
  PROVE  /\ Unleased(row, s) \in JobRow /\ Terminated(row, s) \in JobRow
         /\ Terminated(row, s).status = s
         /\ RowOK(Terminated(row, s))
         /\ ~row.cancel => RowOK(Unleased(row, s))
  BY LeaseTermAssumption DEF Unleased, Terminated, JobRow, RowOK

\* A row that satisfies the CHECK constraints, and is "succeeded" if the job had
\* published, keeps the row part of the invariant when it is written.
LEMMA RowWrite ==
  ASSUME IInv, NEW j \in Jobs, NEW r \in JobRow, RowOK(r),
         job' = [job EXCEPT ![j] = r], UNCHANGED published,
         published[j] = 1 => r.status = "succeeded"
  PROVE  /\ job' \in [Jobs -> JobRow] /\ published' \in [Jobs -> Nat]
         /\ RowChecks' /\ PublishedOnce'
<1>1. job' \in [Jobs -> JobRow] /\ published' \in [Jobs -> Nat]
  BY DEF IInv, TypeOK
<1>2. \A k \in Jobs : job'[k] = IF k = j THEN r ELSE job[k]
  BY DEF IInv, TypeOK
<1>3. RowChecks'
  BY <1>2 DEF IInv, RowChecks, RowOK
<1>4. PublishedOnce'
  BY <1>2 DEF IInv, PublishedOnce
<1> QED BY <1>1, <1>3, <1>4

\* Forgetting an identity keeps the remaining tokens issued and different.
LEMMA DropKeepsTokens ==
  ASSUME IInv, NEW w \in Workers, Drop(w), UNCHANGED issued
  PROVE  /\ held' \in [Workers -> Identity] /\ issued' \in Nat
         /\ TokensIssued' /\ TokensDiffer'
<1>1. NoIdentity \in Identity /\ NoIdentity.job = NoJob
  BY DEF NoIdentity, Identity
<1>2. held' \in [Workers -> Identity] /\ issued' \in Nat
  BY <1>1 DEF IInv, TypeOK, Drop
<1>3. \A v \in Workers : held'[v] = IF v = w THEN NoIdentity ELSE held[v]
  BY DEF IInv, TypeOK, Drop
<1>4. \A v \in Workers : Holds(v)' => Holds(v) /\ held'[v] = held[v]
  BY <1>1, <1>3 DEF Holds
<1> QED BY <1>2, <1>4 DEF IInv, TokensIssued, TokensDiffer

\* So does leaving every identity alone.
LEMMA KeepTokens ==
  ASSUME IInv, UNCHANGED <<held, issued>>
  PROVE  /\ held' \in [Workers -> Identity] /\ issued' \in Nat
         /\ TokensIssued' /\ TokensDiffer'
  BY DEF IInv, TypeOK, TokensIssued, TokensDiffer, Holds

\* The job of a worker that owns a row is a real job, running and unpublished.
LEMMA OwnedRow ==
  ASSUME IInv, NEW w \in Workers, OwnsLive(w)
  PROVE  /\ held[w].job \in Jobs
         /\ job[held[w].job] \in JobRow
         /\ job[held[w].job].status = "running"
         /\ published[held[w].job] = 0
<1>1. held[w].job \in Jobs /\ job[held[w].job].status = "running"
  BY DEF OwnsLive, Matches, Holds, IInv, TypeOK, Identity
<1>2. published[held[w].job] = 0
  BY <1>1 DEF IInv, TypeOK, PublishedOnce
<1> QED BY <1>1, <1>2 DEF IInv, TypeOK

-----------------------------------------------------------------------------
\* A new row is queued: it carries no token, no lease and no request.
LEMMA InsertIInv == ASSUME IInv, NEW j \in Jobs, Insert(j) PROVE IInv'
<1> DEFINE r == [job[j] EXCEPT !.status = "queued"]
<1>1. job[j] \in JobRow
  BY DEF IInv, TypeOK
<1>2. /\ r \in JobRow /\ r.status = "queued" /\ r.token = job[j].token
      /\ r.lease = job[j].lease /\ r.cancel = job[j].cancel
  BY <1>1 DEF JobRow, JobStatus
<1>3. RowOK(r) /\ (published[j] = 1 => r.status = "succeeded")
  BY <1>1, <1>2 DEF RowOK, IInv, RowChecks, PublishedOnce, Insert, JobRow
<1>4. job' = [job EXCEPT ![j] = r] /\ UNCHANGED <<held, issued, published>>
  BY DEF Insert
<1> HIDE DEF r
<1>5. job' \in [Jobs -> JobRow] /\ published' \in [Jobs -> Nat] /\ RowChecks' /\ PublishedOnce'
  BY <1>2, <1>3, <1>4, RowWrite
<1> QED BY <1>4, <1>5, KeepTokens DEF IInv, TypeOK

\* A claim writes a token nobody holds: it is larger than all issued before.
LEMMA ClaimIInv ==
  ASSUME IInv, NEW w \in Workers, NEW j \in Jobs, Claim(w, j) PROVE IInv'
<1> DEFINE r == Claimed(job[j], issued + 1)
           id == [job |-> j, token |-> issued + 1, fence |-> job[j].fence + 1]
<1>1. job[j] \in JobRow /\ issued \in Nat /\ job[j].status = "queued"
  BY DEF IInv, TypeOK, Claim
<1>2. r \in JobRow
  BY <1>1, LeaseTermAssumption DEF Claimed, JobRow, JobStatus
<1>3. RowOK(r) /\ (published[j] = 1 => r.status = "succeeded")
  BY <1>1 DEF RowOK, Claimed, IInv, PublishedOnce
<1>4. job' = [job EXCEPT ![j] = r] /\ UNCHANGED published
  BY DEF Claim
<1>5. held' = [held EXCEPT ![w] = id] /\ issued' = issued + 1
  BY DEF Claim
<1>6. id \in Identity
  BY <1>1 DEF Identity, JobRow
<1>7. held' \in [Workers -> Identity] /\ issued' \in Nat
  BY <1>1, <1>5, <1>6 DEF IInv, TypeOK
<1>8. \A v \in Workers : held'[v] = IF v = w THEN id ELSE held[v]
  BY <1>5 DEF IInv, TypeOK
<1>9. TokensIssued'
  BY <1>1, <1>5, <1>8 DEF IInv, TokensIssued, Holds
<1>10. \A v \in Workers : Holds(v) => held[v].token # issued + 1
  BY <1>1 DEF IInv, TokensIssued
<1>11. TokensDiffer'
  BY <1>8, <1>10 DEF IInv, TokensDiffer, Holds
<1> HIDE DEF r
<1>12. job' \in [Jobs -> JobRow] /\ published' \in [Jobs -> Nat] /\ RowChecks' /\ PublishedOnce'
  BY <1>2, <1>3, <1>4, RowWrite
<1> QED BY <1>7, <1>9, <1>11, <1>12 DEF IInv, TypeOK

\* A heartbeat moves only the deadline of a running row.
LEMMA HeartbeatIInv == ASSUME IInv, NEW w \in Workers, Heartbeat(w) PROVE IInv'
<1> DEFINE j == held[w].job
           r == [job[j] EXCEPT !.lease = LeaseTerm]
<1>1. OwnsLive(w) /\ job' = [job EXCEPT ![j] = r] /\ UNCHANGED <<held, issued, published>>
  BY DEF Heartbeat
<1>2. j \in Jobs /\ job[j] \in JobRow /\ job[j].status = "running" /\ published[j] = 0
  BY <1>1, OwnedRow
<1>3. /\ r \in JobRow /\ r.status = "running" /\ r.token = job[j].token
      /\ r.cancel = job[j].cancel
  BY <1>2, LeaseTermAssumption DEF JobRow
<1>4. RowOK(r)
  BY <1>2, <1>3 DEF RowOK, IInv, RowChecks
<1> HIDE DEF j, r
<1>5. (published[j] = 1 => r.status = "succeeded") /\ published' = published
  BY <1>1, <1>2
<1>6. job' = [job EXCEPT ![j] = r]
  BY <1>1
<1>7. job' \in [Jobs -> JobRow] /\ published' \in [Jobs -> Nat] /\ RowChecks' /\ PublishedOnce'
  BY <1>2, <1>3, <1>4, <1>5, <1>6, RowWrite
<1> QED BY <1>1, <1>7, KeepTokens DEF IInv, TypeOK

\* A requeue takes the lease from an uncancelled row, so the queued row has no request.
LEMMA RequeueIInv == ASSUME IInv, NEW w \in Workers, Requeue(w) PROVE IInv'
<1> DEFINE j == held[w].job
           r == Unleased(job[j], "queued")
<1>1. /\ OwnsLive(w) /\ ~job[j].cancel /\ job' = [job EXCEPT ![j] = r]
      /\ Drop(w) /\ UNCHANGED <<issued, published>>
  BY DEF Requeue, OwnsUncancelled
<1>2. j \in Jobs /\ job[j] \in JobRow /\ published[j] = 0
  BY <1>1, OwnedRow
<1>3. r \in JobRow /\ RowOK(r)
  BY <1>1, <1>2, UnleasedRow DEF JobStatus, TerminalStatus
<1> HIDE DEF j, r
<1>4. (published[j] = 1 => r.status = "succeeded") /\ published' = published
  BY <1>1, <1>2
<1>5. job' = [job EXCEPT ![j] = r]
  BY <1>1
<1>6. job' \in [Jobs -> JobRow] /\ published' \in [Jobs -> Nat] /\ RowChecks' /\ PublishedOnce'
  BY <1>2, <1>3, <1>4, <1>5, RowWrite
<1> QED BY <1>1, <1>6, DropKeepsTokens DEF IInv, TypeOK

\* So does the requeue at shutdown; the identity kept by the process is an old one.
LEMMA ShutdownRequeueIInv == ASSUME IInv, NEW w \in Workers, ShutdownRequeue(w) PROVE IInv'
<1> DEFINE j == held[w].job
           r == Unleased(job[j], "queued")
<1>1. /\ OwnsLive(w) /\ ~job[j].cancel /\ job' = [job EXCEPT ![j] = r]
      /\ UNCHANGED <<held, issued, published>>
  BY DEF ShutdownRequeue, OwnsUncancelled
<1>2. j \in Jobs /\ job[j] \in JobRow /\ published[j] = 0
  BY <1>1, OwnedRow
<1>3. r \in JobRow /\ RowOK(r)
  BY <1>1, <1>2, UnleasedRow DEF JobStatus, TerminalStatus
<1> HIDE DEF j, r
<1>4. (published[j] = 1 => r.status = "succeeded") /\ published' = published
  BY <1>1, <1>2
<1>5. job' = [job EXCEPT ![j] = r]
  BY <1>1
<1>6. job' \in [Jobs -> JobRow] /\ published' \in [Jobs -> Nat] /\ RowChecks' /\ PublishedOnce'
  BY <1>2, <1>3, <1>4, <1>5, RowWrite
<1> QED BY <1>1, <1>6, KeepTokens DEF IInv, TypeOK

\* A finish writes a terminal row without lease and request.
LEMMA FinishIInv ==
  ASSUME IInv, NEW w \in Workers, NEW s \in TerminalStatus, Finish(w, s) PROVE IInv'
<1> DEFINE j == held[w].job
           r == Terminated(job[j], s)
<1>1. /\ OwnsLive(w) /\ job' = [job EXCEPT ![j] = r]
      /\ Drop(w) /\ UNCHANGED <<issued, published>>
  BY DEF Finish
<1>2. j \in Jobs /\ job[j] \in JobRow /\ published[j] = 0
  BY <1>1, OwnedRow
<1>3. r \in JobRow /\ RowOK(r)
  BY <1>2, UnleasedRow DEF JobStatus, TerminalStatus
<1> HIDE DEF j, r
<1>4. (published[j] = 1 => r.status = "succeeded") /\ published' = published
  BY <1>1, <1>2
<1>5. job' = [job EXCEPT ![j] = r]
  BY <1>1
<1>6. job' \in [Jobs -> JobRow] /\ published' \in [Jobs -> Nat] /\ RowChecks' /\ PublishedOnce'
  BY <1>2, <1>3, <1>4, <1>5, RowWrite
<1> QED BY <1>1, <1>6, DropKeepsTokens DEF IInv, TypeOK

\* A publication finds a running row, hence one without a publication.
LEMMA PublishIInv == ASSUME IInv, NEW w \in Workers, Publish(w) PROVE IInv'
<1> DEFINE j == held[w].job
           r == Terminated(job[j], "succeeded")
<1>1. /\ OwnsLive(w) /\ job' = [job EXCEPT ![j] = r]
      /\ published' = [published EXCEPT ![j] = published[j] + 1]
      /\ Drop(w) /\ UNCHANGED issued
  BY DEF Publish, OwnsUncancelled
<1>2. j \in Jobs /\ job[j] \in JobRow /\ published[j] = 0
  BY <1>1, OwnedRow
<1>3. r \in JobRow /\ RowOK(r) /\ r.status = "succeeded"
  BY <1>2, UnleasedRow DEF JobStatus, TerminalStatus
<1>4. \A k \in Jobs : /\ job'[k] = IF k = j THEN r ELSE job[k]
                      /\ published'[k] = IF k = j THEN 1 ELSE published[k]
  BY <1>1, <1>2 DEF IInv, TypeOK
<1>5. job' \in [Jobs -> JobRow] /\ published' \in [Jobs -> Nat]
  BY <1>1, <1>2, <1>3 DEF IInv, TypeOK
<1>6. RowChecks' /\ PublishedOnce'
  BY <1>3, <1>4 DEF IInv, RowChecks, PublishedOnce, RowOK
<1> QED BY <1>1, <1>5, <1>6, DropKeepsTokens DEF IInv, TypeOK

\* Giving up forgets an identity and writes no row.
LEMMA GiveUpIInv == ASSUME IInv, NEW w \in Workers, GiveUp(w) PROVE IInv'
<1>1. Drop(w) /\ UNCHANGED <<job, issued, published>>
  BY DEF GiveUp
<1> QED BY <1>1, DropKeepsTokens DEF IInv, TypeOK, RowChecks, PublishedOnce

\* The request is put on a running row only.
LEMMA RequestCancellationIInv ==
  ASSUME IInv, NEW j \in Jobs, RequestRunningCancellation(j) PROVE IInv'
<1> DEFINE r == [job[j] EXCEPT !.cancel = TRUE]
<1>1. job[j] \in JobRow
  BY DEF IInv, TypeOK
<1>2. /\ r \in JobRow /\ r.status = job[j].status /\ r.token = job[j].token
      /\ r.lease = job[j].lease /\ r.cancel = TRUE
  BY <1>1 DEF JobRow
<1>3. RowOK(r) /\ (published[j] = 1 => r.status = "succeeded")
  BY <1>1, <1>2 DEF RowOK, IInv, RowChecks, PublishedOnce, RequestRunningCancellation
<1>4. job' = [job EXCEPT ![j] = r] /\ UNCHANGED <<held, issued, published>>
  BY DEF RequestRunningCancellation
<1> HIDE DEF r
<1>5. job' \in [Jobs -> JobRow] /\ published' \in [Jobs -> Nat] /\ RowChecks' /\ PublishedOnce'
  BY <1>2, <1>3, <1>4, RowWrite
<1> QED BY <1>4, <1>5, KeepTokens DEF IInv, TypeOK

\* A queued row carries neither lease nor request into its cancellation.
LEMMA CancelQueuedIInv == ASSUME IInv, NEW j \in Jobs, CancelQueued(j) PROVE IInv'
<1> DEFINE r == [job[j] EXCEPT !.status = "cancelled"]
<1>1. job[j] \in JobRow
  BY DEF IInv, TypeOK
<1>2. /\ r \in JobRow /\ r.status = "cancelled" /\ r.token = job[j].token
      /\ r.lease = job[j].lease /\ r.cancel = job[j].cancel
  BY <1>1 DEF JobRow, JobStatus, TerminalStatus
<1>3. RowOK(r) /\ (published[j] = 1 => r.status = "succeeded")
  BY <1>1, <1>2 DEF RowOK, IInv, RowChecks, PublishedOnce, CancelQueued
<1>4. job' = [job EXCEPT ![j] = r] /\ UNCHANGED <<held, issued, published>>
  BY DEF CancelQueued
<1> HIDE DEF r
<1>5. job' \in [Jobs -> JobRow] /\ published' \in [Jobs -> Nat] /\ RowChecks' /\ PublishedOnce'
  BY <1>2, <1>3, <1>4, RowWrite
<1> QED BY <1>4, <1>5, KeepTokens DEF IInv, TypeOK

\* The sweeper takes lease and request off the row it ends or requeues.
LEMMA ReclaimIInv == ASSUME IInv, NEW j \in Jobs, Reclaim(j) PROVE IInv'
<1> DEFINE r == IF job[j].cancel THEN Terminated(job[j], "cancelled")
                ELSE Unleased(job[j], "queued")
<1>1. job[j] \in JobRow /\ published[j] # 1
  BY DEF IInv, TypeOK, PublishedOnce, Reclaim
<1>2. r \in JobRow /\ RowOK(r)
  BY <1>1, UnleasedRow DEF JobStatus, TerminalStatus
<1>3. job' = [job EXCEPT ![j] = r] /\ UNCHANGED <<held, issued, published>>
  BY DEF Reclaim
<1> HIDE DEF r
<1>4. job' \in [Jobs -> JobRow] /\ published' \in [Jobs -> Nat] /\ RowChecks' /\ PublishedOnce'
  BY <1>1, <1>2, <1>3, RowWrite
<1> QED BY <1>3, <1>4, KeepTokens DEF IInv, TypeOK

\* Time passes on a running row only, the others have no lease left.
LEMMA TickIInv == ASSUME IInv, NEW j \in Jobs, Tick(j) PROVE IInv'
<1> DEFINE r == [job[j] EXCEPT !.lease = job[j].lease - 1]
<1>1. job[j] \in JobRow /\ job[j].status = "running" /\ published[j] # 1
  BY DEF IInv, TypeOK, RowChecks, PublishedOnce, Tick
<1>2. /\ r \in JobRow /\ r.status = "running" /\ r.token = job[j].token
      /\ r.cancel = job[j].cancel
  BY <1>1, LeaseTermAssumption DEF JobRow, Tick
<1>3. RowOK(r)
  BY <1>1, <1>2 DEF RowOK, IInv, RowChecks
<1>4. job' = [job EXCEPT ![j] = r] /\ UNCHANGED <<held, issued, published>>
  BY DEF Tick
<1> HIDE DEF r
<1>5. job' \in [Jobs -> JobRow] /\ published' \in [Jobs -> Nat] /\ RowChecks' /\ PublishedOnce'
  BY <1>1, <1>2, <1>3, <1>4, RowWrite
<1> QED BY <1>4, <1>5, KeepTokens DEF IInv, TypeOK

\* Every step keeps the invariant: one case per action.
LEMMA NextIInv == IInv /\ [Next]_jobVars => IInv'
<1> SUFFICES ASSUME IInv, [Next]_jobVars PROVE IInv'
  OBVIOUS
<1>1. ASSUME NEW w \in Workers, WorkerStep(w) PROVE IInv'
  BY <1>1, ClaimIInv, HeartbeatIInv, RequeueIInv, ShutdownRequeueIInv,
     FinishIInv, PublishIInv, GiveUpIInv
  DEF WorkerStep
<1>2. ASSUME NEW j \in Jobs, RowStep(j) PROVE IInv'
  BY <1>2, InsertIInv, RequestCancellationIInv, CancelQueuedIInv, ReclaimIInv, TickIInv
  DEF RowStep, ManualRetry
<1>3. CASE UNCHANGED jobVars
  BY <1>3 DEF jobVars, IInv, TypeOK, RowChecks, TokensIssued, TokensDiffer, PublishedOnce, Holds
<1> QED BY <1>1, <1>2, <1>3 DEF Next

\* The inductive invariant holds in every reachable state.
THEOREM Invariance == Spec => []IInv
  BY InitIInv, NextIInv, PTL DEF Spec

\* Type correctness of rows, identities, token counter and publications.
THEOREM TypeCorrect == Spec => []TypeOK
  BY Invariance, PTL DEF IInv

\* The table's CHECK constraints are never violated by any handler.
THEOREM RowChecksHold == Spec => []RowChecks
  BY Invariance, PTL DEF IInv

\* A job is published at most once, and then it has succeeded.
THEOREM PublishedAtMostOnce == Spec => []PublishedOnce
  BY Invariance, PTL DEF IInv

\* Tokens differ, so two workers cannot both match one row.
THEOREM OwnerIsUnique == Spec => []SingleOwner
<1>1. IInv => SingleOwner
  BY DEF IInv, TokensDiffer, SingleOwner, Matches
<1> QED BY <1>1, Invariance, PTL

-----------------------------------------------------------------------------
(***************************************************************************)
(* A step leaves a row alone, changes a live row under the same ownership, *)
(* or moves its ownership on; the action properties follow from that.      *)
(***************************************************************************)
Untouched(k) == job'[k] = job[k] /\ published'[k] = published[k]

SameOwner(k) ==
  /\ ~Terminal(k)
  /\ job'[k].token = job[k].token /\ job'[k].fence = job[k].fence
  /\ job[k].cancel => job'[k].status = "running" /\ job'[k].cancel

OwnerMoves(k) ==
  /\ ~Terminal(k)
  /\ job'[k].token # job[k].token /\ job'[k].fence = job[k].fence + 1
  /\ job[k].cancel => job'[k].status \in TerminalStatus \ {"succeeded"}

RowMove(k) == Untouched(k) \/ SameOwner(k) \/ OwnerMoves(k)

\* A worker that owns a row and gives it up moves its ownership on.
LEMMA OwnedMoves ==
  ASSUME IInv, NEW w \in Workers, OwnsLive(w), NEW r \in JobRow,
         r.token = 0, r.fence = job[held[w].job].fence + 1,
         job[held[w].job].cancel => r.status \in TerminalStatus \ {"succeeded"},
         job' = [job EXCEPT ![held[w].job] = r]
  PROVE  OwnerMoves(held[w].job)
<1>1. /\ held[w].job \in Jobs /\ job[held[w].job] \in JobRow
      /\ job[held[w].job].status = "running"
  BY OwnedRow
<1>2. job'[held[w].job] = r
  BY <1>1 DEF IInv, TypeOK
<1>3. job[held[w].job].token # 0
  BY <1>1 DEF IInv, RowChecks
<1> QED BY <1>1, <1>2, <1>3 DEF OwnerMoves, Terminal, TerminalStatus

\* Every worker step leaves a row alone, keeps its owner or moves its ownership on.
LEMMA WorkerMove ==
  ASSUME IInv, NEW w \in Workers, WorkerStep(w), NEW k \in Jobs PROVE RowMove(k)
<1> DEFINE j == held[w].job
<1>1. ASSUME NEW i \in Jobs, Claim(w, i) PROVE RowMove(k)
  <2>1. job[i] \in JobRow /\ job[i].status = "queued" /\ job[i].token = 0 /\ ~job[i].cancel
    BY <1>1 DEF Claim, IInv, TypeOK, RowChecks
  <2>2. job'[i] = Claimed(job[i], issued + 1) /\ issued \in Nat
    BY <1>1 DEF Claim, IInv, TypeOK
  <2>3. OwnerMoves(i)
    BY <2>1, <2>2 DEF OwnerMoves, Claimed, Terminal, TerminalStatus
  <2> QED BY <1>1, <2>3 DEF Claim, IInv, TypeOK, RowMove, Untouched
<1>2. CASE Heartbeat(w)
  <2>1. OwnsLive(w) /\ j \in Jobs /\ job[j] \in JobRow /\ job[j].status = "running"
    BY <1>2, OwnedRow DEF Heartbeat
  <2>2. /\ job'[j].token = job[j].token /\ job'[j].fence = job[j].fence
        /\ job'[j].status = job[j].status /\ job'[j].cancel = job[j].cancel
    BY <1>2, <2>1 DEF Heartbeat, IInv, TypeOK, JobRow
  <2>3. SameOwner(j)
    BY <2>1, <2>2 DEF SameOwner, Terminal, TerminalStatus
  <2> QED BY <1>2, <2>1, <2>3 DEF Heartbeat, IInv, TypeOK, RowMove, Untouched
<1>3. CASE Requeue(w) \/ ShutdownRequeue(w)
  <2>1. OwnsLive(w) /\ ~job[j].cancel /\ j \in Jobs /\ job[j] \in JobRow
    BY <1>3, OwnedRow DEF Requeue, ShutdownRequeue, OwnsUncancelled
  <2>2. /\ Unleased(job[j], "queued") \in JobRow
        /\ Unleased(job[j], "queued").token = 0
        /\ Unleased(job[j], "queued").fence = job[j].fence + 1
    BY <2>1, UnleasedRow DEF JobStatus, TerminalStatus, Unleased
  <2>3. job' = [job EXCEPT ![j] = Unleased(job[j], "queued")] /\ published' = published
    BY <1>3 DEF Requeue, ShutdownRequeue
  <2>4. OwnerMoves(j)
    BY <2>1, <2>2, <2>3, OwnedMoves
  <2> QED BY <2>1, <2>3, <2>4 DEF IInv, TypeOK, RowMove, Untouched
<1>4. ASSUME NEW s \in TerminalStatus, Finish(w, s) PROVE RowMove(k)
  <2>1. OwnsLive(w) /\ j \in Jobs /\ job[j] \in JobRow /\ (job[j].cancel => s # "succeeded")
    BY <1>4, OwnedRow DEF Finish
  <2>2. /\ Terminated(job[j], s) \in JobRow
        /\ Terminated(job[j], s).token = 0
        /\ Terminated(job[j], s).fence = job[j].fence + 1
        /\ Terminated(job[j], s).status = s
    BY <2>1, UnleasedRow DEF JobStatus, TerminalStatus, Terminated
  <2>3. job' = [job EXCEPT ![j] = Terminated(job[j], s)]
    BY <1>4 DEF Finish
  <2>4. OwnerMoves(j)
    BY <2>1, <2>2, <2>3, OwnedMoves
  <2> QED BY <1>4, <2>1, <2>3, <2>4 DEF Finish, IInv, TypeOK, RowMove, Untouched
<1>5. CASE Publish(w)
  <2>1. OwnsLive(w) /\ j \in Jobs /\ job[j] \in JobRow /\ ~job[j].cancel
    BY <1>5, OwnedRow DEF Publish, OwnsUncancelled
  <2>2. /\ Terminated(job[j], "succeeded") \in JobRow
        /\ Terminated(job[j], "succeeded").token = 0
        /\ Terminated(job[j], "succeeded").fence = job[j].fence + 1
    BY <2>1, UnleasedRow DEF JobStatus, TerminalStatus, Terminated
  <2>3. /\ job' = [job EXCEPT ![j] = Terminated(job[j], "succeeded")]
        /\ published' = [published EXCEPT ![j] = published[j] + 1]
    BY <1>5 DEF Publish
  <2>4. OwnerMoves(j)
    BY <2>1, <2>2, <2>3, OwnedMoves
  <2> QED BY <2>1, <2>3, <2>4 DEF IInv, TypeOK, RowMove, Untouched
<1>6. CASE GiveUp(w)
  BY <1>6 DEF GiveUp, RowMove, Untouched
<1> QED BY <1>1, <1>2, <1>3, <1>4, <1>5, <1>6 DEF WorkerStep

\* So does every step of a user, the sweeper or the clock.
LEMMA RowStepMove ==
  ASSUME IInv, NEW j \in Jobs, RowStep(j), NEW k \in Jobs PROVE RowMove(k)
<1>1. job[j] \in JobRow /\ published' = published
  BY DEF IInv, TypeOK, RowStep, Insert, ManualRetry, RequestRunningCancellation,
         CancelQueued, Reclaim, Tick
<1>2. CASE Insert(j)
  BY <1>1, <1>2 DEF Insert, IInv, TypeOK, RowChecks, RowMove, Untouched, SameOwner,
                    Terminal, TerminalStatus, JobRow
<1>3. CASE RequestRunningCancellation(j)
  BY <1>1, <1>3 DEF RequestRunningCancellation, IInv, TypeOK, RowMove, Untouched,
                    SameOwner, Terminal, TerminalStatus, JobRow
<1>4. CASE CancelQueued(j)
  BY <1>1, <1>4 DEF CancelQueued, IInv, TypeOK, RowChecks, RowMove, Untouched,
                    SameOwner, Terminal, TerminalStatus, JobRow
<1>5. CASE Reclaim(j)
  <2>1. job[j].token # 0 /\ ~Terminal(j)
    BY <1>5 DEF Reclaim, IInv, RowChecks, Terminal, TerminalStatus
  <2>2. job'[j] = IF job[j].cancel THEN Terminated(job[j], "cancelled")
                  ELSE Unleased(job[j], "queued")
    BY <1>5 DEF Reclaim, IInv, TypeOK
  <2>3. OwnerMoves(j)
    BY <2>1, <2>2 DEF OwnerMoves, Terminated, Unleased, TerminalStatus
  <2> QED BY <1>1, <1>5, <2>3 DEF Reclaim, IInv, TypeOK, RowMove, Untouched
<1>6. CASE Tick(j)
  <2>1. job[j].status = "running"
    BY <1>1, <1>6 DEF Tick, IInv, RowChecks
  <2> QED BY <1>1, <1>6, <2>1 DEF Tick, IInv, TypeOK, RowMove, Untouched, SameOwner,
                                 Terminal, TerminalStatus, JobRow
<1> QED BY <1>2, <1>3, <1>4, <1>5, <1>6 DEF RowStep, ManualRetry

\* Every step of the job service makes one of the three moves on each row.
LEMMA StepMoves == ASSUME IInv, Next, NEW k \in Jobs PROVE RowMove(k)
  BY WorkerMove, RowStepMove DEF Next

\* No step changes a terminal row or publishes for it.
THEOREM TerminalRowsAreFinal == Spec => TerminalIsFinal
<1>1. IInv /\ [Next]_jobVars =>
        [\A j \in Jobs : Terminal(j) => job'[j] = job[j] /\ published'[j] = published[j]]_jobVars
  BY StepMoves DEF RowMove, Untouched, SameOwner, OwnerMoves
<1> QED BY <1>1, Invariance, PTL DEF Spec, TerminalIsFinal

\* The fence counts the changes of ownership, one by one.
THEOREM FenceCounts == Spec => FenceCountsOwnership
<1>1. IInv /\ [Next]_jobVars =>
        [\A j \in Jobs : job'[j].fence = IF job'[j].token # job[j].token
                                         THEN job[j].fence + 1 ELSE job[j].fence]_jobVars
  BY StepMoves DEF RowMove, Untouched, SameOwner, OwnerMoves
<1> QED BY <1>1, Invariance, PTL DEF Spec, FenceCountsOwnership

\* A requested cancellation is never forgotten before the job ends without success.
THEOREM CancellationSticks == Spec => CancelSticks
<1>1. IInv /\ [Next]_jobVars =>
        [\A j \in Jobs : job[j].cancel =>
            \/ job'[j].status = "running" /\ job'[j].cancel
            \/ job'[j].status \in TerminalStatus \ {"succeeded"}]_jobVars
  BY StepMoves DEF RowMove, Untouched, SameOwner, OwnerMoves, IInv, RowChecks
<1> QED BY <1>1, Invariance, PTL DEF Spec, CancelSticks

-----------------------------------------------------------------------------
(* The rows, tokens and fences of GenerationJob implement JobOwnership, for *)
(* every set of jobs and workers: every step of a handler is a step of the *)
(* abstract job it works on, or leaves the abstract state as it is.        *)

\* Rows other than j are left alone, and of identities at most one that names j.
OnlyAt(j) ==
  /\ \A k \in Jobs \ {j} : job'[k] = job[k]
  /\ \A w \in Workers : held'[w] = held[w] \/ (held[w].job = j /\ held'[w] = NoIdentity)

\* The owners of a job that is not running are none, before and after a step.
LEMMA NobodyOwns ==
  ASSUME NEW j \in Jobs
  PROVE  /\ job[j].status # "running" => OwnersOf(j) = {}
         /\ job'[j].status # "running" => OwnersOf(j)' = {}
  BY DEF OwnersOf, Matches

\* Owners of the jobs a step leaves alone stay.
LEMMA OwnersElsewhere ==
  ASSUME IInv, NEW j \in Jobs, OnlyAt(j), NEW k \in Jobs \ {j}
  PROVE  OwnersOf(k)' = OwnersOf(k)
<1>1. NoIdentity.job = NoJob /\ k # NoJob
  BY NoJobAssumption DEF NoIdentity
<1>2. ASSUME NEW w \in Workers
      PROVE  (Matches(w) /\ held[w].job = k)' <=> Matches(w) /\ held[w].job = k
  <2>1. CASE held'[w] = held[w]
    BY <2>1 DEF OnlyAt, Matches, Holds
  <2>2. CASE held[w].job = j /\ held'[w] = NoIdentity
    BY <2>2, <1>1
  <2> QED BY <2>1, <2>2 DEF OnlyAt
<1> QED BY <1>2 DEF OwnersOf

\* What a step does to the abstract job is what it does to j.
LEMMA MapsAt ==
  ASSUME IInv, NEW j \in Jobs, OnlyAt(j)
  PROVE  /\ PhaseMap' = [PhaseMap EXCEPT ![j] = PhaseOf(job'[j].status)]
         /\ OwnerMap' = [OwnerMap EXCEPT ![j] = OwnersOf(j)']
         /\ BarMap' = [BarMap EXCEPT ![j] = job'[j].cancel]
         /\ PhaseMap[j] = PhaseOf(job[j].status)
         /\ OwnerMap[j] = OwnersOf(j) /\ BarMap[j] = job[j].cancel
         /\ OwnerMap = [OwnerMap EXCEPT ![j] = OwnersOf(j)]
         /\ BarMap = [BarMap EXCEPT ![j] = job[j].cancel]
<1>1. \A k \in Jobs \ {j} : OwnersOf(k)' = OwnersOf(k) /\ job'[k] = job[k]
  BY OwnersElsewhere DEF OnlyAt
<1>2. PhaseMap' = [PhaseMap EXCEPT ![j] = PhaseOf(job'[j].status)]
  BY <1>1 DEF PhaseMap
<1>3. OwnerMap' = [OwnerMap EXCEPT ![j] = OwnersOf(j)']
  BY <1>1 DEF OwnerMap
<1>4. BarMap' = [BarMap EXCEPT ![j] = job'[j].cancel]
  BY <1>1 DEF BarMap
<1> QED BY <1>2, <1>3, <1>4 DEF PhaseMap, OwnerMap, BarMap

\* The abstract state does not change when the row of j keeps what is mapped.
LEMMA StuttersAt ==
  ASSUME IInv, NEW j \in Jobs, OnlyAt(j), UNCHANGED published,
         PhaseOf(job'[j].status) = PhaseOf(job[j].status), job'[j].cancel = job[j].cancel,
         OwnersOf(j)' = OwnersOf(j)
  PROVE  UNCHANGED <<PhaseMap, OwnerMap, BarMap, published>>
<1>1. \A k \in Jobs : OwnersOf(k)' = OwnersOf(k)
  BY OwnersElsewhere
<1>2. \A k \in Jobs : /\ PhaseOf(job'[k].status) = PhaseOf(job[k].status)
                      /\ job'[k].cancel = job[k].cancel
  BY DEF OnlyAt
<1> QED BY <1>1, <1>2 DEF PhaseMap, OwnerMap, BarMap

\* A worker that matches a row is its one owner.
LEMMA OneOwns ==
  ASSUME IInv, NEW w \in Workers, Matches(w)
  PROVE  /\ held[w].job \in Jobs /\ job[held[w].job].status = "running"
         /\ OwnersOf(held[w].job) = {w}
<1>1. held[w].job \in Jobs /\ job[held[w].job].status = "running"
  BY DEF Matches, Holds, IInv, TypeOK, Identity
<1>2. \A v \in Workers : Matches(v) /\ held[v].job = held[w].job => v = w
  BY DEF Matches, IInv, TokensDiffer
<1> QED BY <1>1, <1>2 DEF OwnersOf

-----------------------------------------------------------------------------
\* A new row waits; nobody owned the row that was not there.
LEMMA InsertSubmits == ASSUME IInv, NEW j \in Jobs, Insert(j) PROVE Ownership!Submit(j)
<1>1. OnlyAt(j) /\ job[j].status = "absent" /\ job'[j].status = "queued"
      /\ job'[j].cancel = job[j].cancel
  BY DEF Insert, OnlyAt, IInv, TypeOK, JobRow
<1>2. OwnersOf(j) = {} /\ OwnersOf(j)' = {}
  BY <1>1, NobodyOwns
<1>3. OwnerMap' = OwnerMap /\ BarMap' = BarMap
  <2>1. OwnerMap' = OwnerMap
    BY <1>1, <1>2, MapsAt
  <2>2. BarMap' = BarMap
    BY <1>1, MapsAt
  <2> QED BY <2>1, <2>2
<1>4. PhaseMap[j] = "absent" /\ PhaseMap' = [PhaseMap EXCEPT ![j] = "waiting"]
  BY <1>1, MapsAt DEF PhaseOf
<1> QED BY <1>3, <1>4 DEF Ownership!Submit, Insert

\* A claim grants the job to a worker that owns none: its token is new.
LEMMA ClaimGrants ==
  ASSUME IInv, NEW w \in Workers, NEW j \in Jobs, Claim(w, j) PROVE Ownership!Grant(j, w)
<1> DEFINE id == [job |-> j, token |-> issued + 1, fence |-> job[j].fence + 1]
<1>1. /\ job[j] \in JobRow /\ issued \in Nat /\ job[j].status = "queued" /\ ~Holds(w)
      /\ job' = [job EXCEPT ![j] = Claimed(job[j], issued + 1)]
      /\ held' = [held EXCEPT ![w] = id] /\ published' = published
  BY DEF IInv, TypeOK, Claim
<1>2. /\ \A k \in Jobs : job'[k] = IF k = j THEN Claimed(job[j], issued + 1) ELSE job[k]
      /\ \A v \in Workers : held'[v] = IF v = w THEN id ELSE held[v]
  BY <1>1 DEF IInv, TypeOK
<1>3. \A k \in Jobs : w \notin OwnersOf(k)
  BY <1>1 DEF OwnersOf, Matches
<1>4. \A k \in Jobs \ {j} : OwnersOf(k)' = OwnersOf(k)
  <2> SUFFICES ASSUME NEW k \in Jobs \ {j}, NEW v \in Workers
               PROVE  (Matches(v) /\ held[v].job = k)' <=> Matches(v) /\ held[v].job = k
    BY DEF OwnersOf
  <2>1. CASE v = w
    BY <2>1, <1>1, <1>2 DEF Matches
  <2>2. CASE v # w
    BY <2>2, <1>2 DEF Matches, Holds
  <2> QED BY <2>1, <2>2
<1>5. OwnersOf(j)' = {w}
  <2>1. Matches(w)' /\ held'[w].job = j
    BY <1>1, <1>2, NoJobAssumption DEF Matches, Holds, Claimed
  <2>2. ASSUME NEW v \in Workers, v # w PROVE ~(Matches(v)' /\ held'[v].job = j)
    <3>1. Holds(v) => held[v].token # issued + 1
      BY <1>1 DEF IInv, TokensIssued
    <3> QED BY <2>2, <3>1, <1>2 DEF Matches, Holds, Claimed
  <2> QED BY <2>1, <2>2 DEF OwnersOf
<1>6. OwnerMap' = [OwnerMap EXCEPT ![j] = {w}]
  BY <1>4, <1>5 DEF OwnerMap
<1>7. PhaseMap[j] = "waiting" /\ PhaseMap' = [PhaseMap EXCEPT ![j] = "owned"]
  <2>1. PhaseOf(job'[j].status) = "owned" /\ PhaseOf(job[j].status) = "waiting"
    BY <1>1, <1>2 DEF PhaseOf, Claimed
  <2>2. \A k \in Jobs \ {j} : job'[k] = job[k]
    BY <1>2
  <2>3. \A k \in Jobs : PhaseOf(job'[k].status) = IF k = j THEN "owned"
                                                 ELSE PhaseOf(job[k].status)
    BY <2>1, <2>2
  <2>4. PhaseMap[j] = "waiting"
    BY <2>1 DEF PhaseMap
  <2>5. PhaseMap' = [PhaseMap EXCEPT ![j] = "owned"]
    BY <2>3 DEF PhaseMap
  <2> QED BY <2>4, <2>5
<1>8. BarMap' = BarMap
  BY <1>2 DEF BarMap, Claimed
<1>9. \A k \in Jobs : w \notin OwnerMap[k]
  BY <1>3 DEF OwnerMap
<1> QED BY <1>1, <1>6, <1>7, <1>8, <1>9 DEF Ownership!Grant

\* A row that is given back or taken away waits again, without an owner.
LEMMA UnleasedReturns ==
  ASSUME IInv, NEW j \in Jobs, OnlyAt(j), UNCHANGED published,
         job[j].status = "running", ~job[j].cancel, job'[j] = Unleased(job[j], "queued")
  PROVE  Ownership!Return(j)
<1>1. job'[j].status = "queued" /\ job'[j].cancel = job[j].cancel
  BY DEF Unleased
<1>2. OwnersOf(j)' = {}
  BY <1>1, NobodyOwns
<1>3. /\ PhaseMap[j] = "owned" /\ PhaseMap' = [PhaseMap EXCEPT ![j] = "waiting"]
      /\ OwnerMap' = [OwnerMap EXCEPT ![j] = {}] /\ ~BarMap[j]
  BY <1>1, <1>2, MapsAt DEF PhaseOf
<1>4. BarMap' = BarMap
  BY <1>1, MapsAt
<1> QED BY <1>3, <1>4 DEF Ownership!Return

\* A live row that becomes terminal ends the job, and with it the request.
LEMMA TerminalEnds ==
  ASSUME IInv, NEW j \in Jobs, OnlyAt(j), UNCHANGED published,
         job[j].status \in {"queued", "running"}, job'[j].status \in TerminalStatus,
         job'[j].cancel = FALSE
  PROVE  Ownership!End(j)
<1>1. OwnersOf(j)' = {}
  BY NobodyOwns DEF TerminalStatus
<1>2. /\ PhaseMap[j] \in {"waiting", "owned"}
      /\ PhaseMap' = [PhaseMap EXCEPT ![j] = "done"]
      /\ OwnerMap' = [OwnerMap EXCEPT ![j] = {}] /\ BarMap' = [BarMap EXCEPT ![j] = FALSE]
  BY <1>1, MapsAt DEF PhaseOf, TerminalStatus
<1> QED BY <1>2 DEF Ownership!End

\* A worker's writes are to the row it owns; what it forgets is that identity.
LEMMA WorkerWritesItsRow ==
  ASSUME IInv, NEW w \in Workers, OwnsLive(w), NEW r,
         job' = [job EXCEPT ![held[w].job] = r], Drop(w) \/ UNCHANGED held
  PROVE  /\ held[w].job \in Jobs /\ job[held[w].job] \in JobRow
         /\ job[held[w].job].status = "running" /\ OwnersOf(held[w].job) = {w}
         /\ job'[held[w].job] = r /\ OnlyAt(held[w].job)
<1>1. /\ held[w].job \in Jobs /\ job[held[w].job].status = "running"
      /\ OwnersOf(held[w].job) = {w}
  BY OneOwns DEF OwnsLive
<1>2. \A k \in Jobs : job'[k] = IF k = held[w].job THEN r ELSE job[k]
  BY DEF IInv, TypeOK
<1>3. \A v \in Workers : held'[v] = held[v] \/ (v = w /\ held'[v] = NoIdentity)
  BY DEF IInv, TypeOK, Drop
<1> QED BY <1>1, <1>2, <1>3 DEF OnlyAt, IInv, TypeOK

\* A heartbeat changes nothing the abstract job has.
LEMMA HeartbeatStutters ==
  ASSUME IInv, NEW w \in Workers, Heartbeat(w)
  PROVE  UNCHANGED <<PhaseMap, OwnerMap, BarMap, published>>
<1> DEFINE j == held[w].job
           r == [job[j] EXCEPT !.lease = LeaseTerm]
<1>1. OwnsLive(w) /\ job' = [job EXCEPT ![j] = r] /\ UNCHANGED <<held, published>>
  BY DEF Heartbeat
<1>2. /\ j \in Jobs /\ job[j] \in JobRow /\ job'[j] = r /\ OnlyAt(j)
      /\ OwnersOf(j) = {w}
  BY <1>1, WorkerWritesItsRow
<1>3. /\ job'[j].status = job[j].status /\ job'[j].token = job[j].token
      /\ job'[j].fence = job[j].fence /\ job'[j].cancel = job[j].cancel
  BY <1>2 DEF JobRow
<1>4. OwnersOf(j)' = OwnersOf(j)
  BY <1>1, <1>3 DEF OwnersOf, Matches, Holds
<1> QED BY <1>1, <1>2, <1>3, <1>4, StuttersAt

\* A requeue, at shutdown too, returns the job.
LEMMA RequeueReturns ==
  ASSUME IInv, NEW w \in Workers, Requeue(w) \/ ShutdownRequeue(w)
  PROVE  Ownership!Return(held[w].job)
<1> DEFINE j == held[w].job
<1>1. /\ OwnsLive(w) /\ ~job[j].cancel /\ published' = published
      /\ job' = [job EXCEPT ![j] = Unleased(job[j], "queued")]
      /\ Drop(w) \/ UNCHANGED held
  BY DEF Requeue, ShutdownRequeue, OwnsUncancelled
<1>2. /\ j \in Jobs /\ job[j].status = "running" /\ OnlyAt(j)
      /\ job'[j] = Unleased(job[j], "queued")
  BY <1>1, WorkerWritesItsRow
<1> QED BY <1>1, <1>2, UnleasedReturns

\* Whatever a worker finishes its job with, it ends it.
LEMMA FinishEnds ==
  ASSUME IInv, NEW w \in Workers, NEW s \in TerminalStatus, Finish(w, s)
  PROVE  Ownership!End(held[w].job)
<1> DEFINE j == held[w].job
<1>1. /\ OwnsLive(w) /\ published' = published /\ Drop(w)
      /\ job' = [job EXCEPT ![j] = Terminated(job[j], s)]
  BY DEF Finish
<1>2. /\ j \in Jobs /\ job[j].status = "running" /\ OnlyAt(j)
      /\ job'[j] = Terminated(job[j], s)
  BY <1>1, WorkerWritesItsRow
<1>3. job'[j].status \in TerminalStatus /\ job'[j].cancel = FALSE
  BY <1>2 DEF Terminated
<1> QED BY <1>1, <1>2, <1>3, TerminalEnds

\* A publication delivers the output of the one owner, of a job that was not barred.
LEMMA PublishDelivers ==
  ASSUME IInv, NEW w \in Workers, Publish(w)
  PROVE  Ownership!Deliver(held[w].job, w)
<1> DEFINE j == held[w].job
<1>1. /\ OwnsLive(w) /\ ~job[j].cancel /\ Drop(w)
      /\ published' = [published EXCEPT ![j] = published[j] + 1]
      /\ job' = [job EXCEPT ![j] = Terminated(job[j], "succeeded")]
  BY DEF Publish, OwnsUncancelled
<1>2. /\ j \in Jobs /\ job[j].status = "running" /\ OnlyAt(j) /\ OwnersOf(j) = {w}
      /\ job[j] \in JobRow /\ job'[j] = Terminated(job[j], "succeeded")
  BY <1>1, WorkerWritesItsRow
<1>3. published[j] = 0
  BY <1>2 DEF IInv, PublishedOnce, TypeOK
<1>4. job'[j].status = "succeeded" /\ job'[j].cancel = FALSE /\ job[j].cancel = FALSE
  BY <1>1, <1>2 DEF Terminated, JobRow
<1> SUFFICES ASSUME NEW k \in Jobs, k = j PROVE Ownership!Deliver(k, w)
  BY <1>2
<1> HIDE DEF j
<1>5. OwnersOf(k)' = {}
  BY <1>4, NobodyOwns
<1>6. OnlyAt(k)
  BY <1>2
<1>7. PhaseMap[k] = "owned" /\ PhaseMap' = [PhaseMap EXCEPT ![k] = "done"]
  <2>1. PhaseOf(job'[k].status) = "done" /\ PhaseOf(job[k].status) = "owned"
    BY <1>2, <1>4 DEF PhaseOf
  <2> QED BY <1>6, <2>1, MapsAt
<1>8. OwnerMap[k] = {w} /\ OwnerMap' = [OwnerMap EXCEPT ![k] = {}]
  BY <1>2, <1>5, <1>6, MapsAt
<1>9. BarMap[k] = FALSE
  BY <1>4, <1>6, MapsAt
<1>10. BarMap' = BarMap
  <2>1. job'[k].cancel = job[k].cancel
    BY <1>4
  <2>2. BarMap' = [BarMap EXCEPT ![k] = job'[k].cancel]
    BY <1>6, MapsAt
  <2>3. BarMap = [BarMap EXCEPT ![k] = job[k].cancel]
    BY <1>6, MapsAt
  <2> QED BY <2>1, <2>2, <2>3
<1>11. published' = [published EXCEPT ![k] = 1]
  BY <1>1, <1>3
<1> QED BY <1>3, <1>7, <1>8, <1>9, <1>10, <1>11 DEF Ownership!Deliver

\* A worker that gives up forgets a job it owns, or one it lost before.
LEMMA GiveUpForgets ==
  ASSUME IInv, NEW w \in Workers, GiveUp(w)
  PROVE  \/ held[w].job \in Jobs /\ Ownership!Forget(held[w].job)
         \/ UNCHANGED <<PhaseMap, OwnerMap, BarMap, published>>
<1>1. Holds(w) /\ Drop(w) /\ UNCHANGED <<job, published>>
  BY DEF GiveUp
<1>2. held[w].job \in Jobs
  BY <1>1 DEF Holds, IInv, TypeOK, Identity
<1> SUFFICES ASSUME NEW j \in Jobs, held[w].job = j
             PROVE  Ownership!Forget(j) \/ UNCHANGED <<PhaseMap, OwnerMap, BarMap, published>>
  BY <1>2
<1>3. \A v \in Workers : held'[v] = IF v = w THEN NoIdentity ELSE held[v]
  BY <1>1 DEF IInv, TypeOK, Drop
<1>4. OnlyAt(j)
  BY <1>1, <1>3 DEF OnlyAt
<1>5. NoIdentity.job = NoJob /\ NoJob # j
  BY NoJobAssumption DEF NoIdentity
<1>6. OwnersOf(j)' = OwnersOf(j) \ {w}
  <2>1. ASSUME NEW v \in Workers
        PROVE  (Matches(v) /\ held[v].job = j)' <=> Matches(v) /\ held[v].job = j /\ v # w
    <3>1. CASE v = w
      BY <3>1, <1>3, <1>5 DEF Matches, Holds
    <3>2. CASE v # w
      BY <3>2, <1>1, <1>3 DEF Matches, Holds
    <3> QED BY <3>1, <3>2
  <2> QED BY <2>1 DEF OwnersOf
<1>7. CASE Matches(w)
  <2>1. job[j].status = "running" /\ OwnersOf(j) = {w} /\ OwnersOf(j)' = {}
    BY <1>6, <1>7, OneOwns
  <2>2. PhaseMap' = PhaseMap /\ BarMap' = BarMap
    BY <1>1 DEF PhaseMap, BarMap
  <2>3. PhaseMap[j] = "owned"
    BY <2>1 DEF PhaseMap, PhaseOf
  <2>4. OwnerMap[j] # {}
    BY <2>1 DEF OwnerMap
  <2>5. OwnerMap' = [OwnerMap EXCEPT ![j] = {}]
    BY <1>4, <2>1, MapsAt
  <2> QED BY <1>1, <2>2, <2>3, <2>4, <2>5 DEF Ownership!Forget
<1>8. CASE ~Matches(w)
  <2>1. OwnersOf(j)' = OwnersOf(j)
    BY <1>6, <1>8 DEF OwnersOf
  <2>2. job' = job /\ published' = published
    BY <1>1
  <2> QED BY <1>4, <2>1, <2>2, StuttersAt
<1> QED BY <1>7, <1>8

-----------------------------------------------------------------------------
\* A request for cancellation bars the job and leaves its owner.
LEMMA RequestBars ==
  ASSUME IInv, NEW j \in Jobs, RequestRunningCancellation(j) PROVE Ownership!Bar(j)
<1>1. /\ job[j] \in JobRow /\ job[j].status = "running" /\ UNCHANGED <<held, published>>
      /\ job' = [job EXCEPT ![j] = [job[j] EXCEPT !.cancel = TRUE]]
  BY DEF RequestRunningCancellation, IInv, TypeOK
<1>2. /\ OnlyAt(j) /\ job'[j].status = job[j].status /\ job'[j].token = job[j].token
      /\ job'[j].fence = job[j].fence /\ job'[j].cancel = TRUE
  BY <1>1 DEF OnlyAt, IInv, TypeOK, JobRow
<1>3. OwnersOf(j)' = OwnersOf(j)
  BY <1>1, <1>2 DEF OwnersOf, Matches, Holds
<1>4. PhaseMap[j] = "owned" /\ PhaseMap' = PhaseMap
  <2>1. \A k \in Jobs : job'[k].status = job[k].status
    BY <1>2 DEF OnlyAt
  <2> QED BY <1>1, <2>1 DEF PhaseMap, PhaseOf
<1>5. OwnerMap' = OwnerMap
  BY <1>2, <1>3, MapsAt
<1>6. BarMap' = [BarMap EXCEPT ![j] = TRUE]
  BY <1>2, MapsAt
<1> QED BY <1>1, <1>4, <1>5, <1>6 DEF Ownership!Bar

\* A queued job that is cancelled ends; nobody owned it or had asked before.
LEMMA CancelQueuedEnds ==
  ASSUME IInv, NEW j \in Jobs, CancelQueued(j) PROVE Ownership!End(j)
<1>1. /\ job[j] \in JobRow /\ job[j].status = "queued" /\ UNCHANGED <<held, published>>
      /\ job' = [job EXCEPT ![j] = [job[j] EXCEPT !.status = "cancelled"]]
  BY DEF CancelQueued, IInv, TypeOK
<1>2. OnlyAt(j) /\ job'[j].status = "cancelled" /\ job'[j].cancel = job[j].cancel
  BY <1>1 DEF OnlyAt, IInv, TypeOK, JobRow
<1>3. job[j].cancel = FALSE
  BY <1>1 DEF IInv, RowChecks, JobRow
<1> QED BY <1>1, <1>2, <1>3, TerminalEnds DEF TerminalStatus

\* The sweeper ends a job that was to be cancelled and returns the others.
LEMMA ReclaimEndsOrReturns ==
  ASSUME IInv, NEW j \in Jobs, Reclaim(j) PROVE Ownership!End(j) \/ Ownership!Return(j)
<1>1. /\ job[j].status = "running" /\ UNCHANGED <<held, published>>
      /\ job' = [job EXCEPT ![j] = IF job[j].cancel THEN Terminated(job[j], "cancelled")
                                   ELSE Unleased(job[j], "queued")]
  BY DEF Reclaim
<1>2. OnlyAt(j) /\ job'[j] = IF job[j].cancel THEN Terminated(job[j], "cancelled")
                             ELSE Unleased(job[j], "queued")
  BY <1>1 DEF OnlyAt, IInv, TypeOK
<1>3. CASE job[j].cancel
  <2>1. job'[j].status = "cancelled" /\ job'[j].cancel = FALSE
    BY <1>2, <1>3 DEF Terminated
  <2> QED BY <1>1, <1>2, <2>1, TerminalEnds DEF TerminalStatus
<1>4. CASE ~job[j].cancel
  BY <1>1, <1>2, <1>4, UnleasedReturns
<1> QED BY <1>3, <1>4

\* Time passes unseen.
LEMMA TickStutters ==
  ASSUME IInv, NEW j \in Jobs, Tick(j)
  PROVE  UNCHANGED <<PhaseMap, OwnerMap, BarMap, published>>
<1>1. /\ job[j] \in JobRow /\ UNCHANGED <<held, published>>
      /\ job' = [job EXCEPT ![j] = [job[j] EXCEPT !.lease = job[j].lease - 1]]
  BY DEF Tick, IInv, TypeOK
<1>2. /\ OnlyAt(j) /\ job'[j].status = job[j].status /\ job'[j].token = job[j].token
      /\ job'[j].fence = job[j].fence /\ job'[j].cancel = job[j].cancel
  BY <1>1 DEF OnlyAt, IInv, TypeOK, JobRow
<1>3. OwnersOf(j)' = OwnersOf(j)
  BY <1>1, <1>2 DEF OwnersOf, Matches, Holds
<1> QED BY <1>1, <1>2, <1>3, StuttersAt

-----------------------------------------------------------------------------
\* At first there is no job, and nobody owns one.
LEMMA InitMaps == Init => Ownership!Init
<1> SUFFICES ASSUME Init PROVE Ownership!Init
  OBVIOUS
<1>1. \A j \in Jobs : /\ job[j].status = "absent" /\ job[j].cancel = FALSE
                      /\ OwnersOf(j) = {}
  BY DEF Init, NoRow, OwnersOf, Matches
<1>2. PhaseMap = [j \in Jobs |-> "absent"]
  BY <1>1 DEF PhaseMap, PhaseOf
<1>3. OwnerMap = [j \in Jobs |-> {}]
  BY <1>1 DEF OwnerMap
<1>4. BarMap = [j \in Jobs |-> FALSE]
  BY <1>1 DEF BarMap
<1> QED BY <1>2, <1>3, <1>4 DEF Ownership!Init, Init

\* Every step is a step of the abstract job it works on, or none.
LEMMA NextMaps == IInv /\ [Next]_jobVars => [Ownership!Next]_Ownership!vars
<1> SUFFICES ASSUME IInv, [Next]_jobVars PROVE [Ownership!Next]_Ownership!vars
  OBVIOUS
<1>1. ASSUME NEW w \in Workers, WorkerStep(w)
      PROVE  Ownership!Next \/ UNCHANGED <<PhaseMap, OwnerMap, BarMap, published>>
  <2>1. ASSUME NEW j \in Jobs, Claim(w, j) PROVE Ownership!Next
    BY <2>1, ClaimGrants DEF Ownership!Next
  <2>2. CASE Heartbeat(w)
    BY <2>2, HeartbeatStutters
  <2>3. CASE Requeue(w) \/ ShutdownRequeue(w)
    <3>1. held[w].job \in Jobs
      BY <2>3, OwnedRow DEF Requeue, ShutdownRequeue, OwnsUncancelled
    <3> QED BY <2>3, <3>1, RequeueReturns DEF Ownership!Next
  <2>4. ASSUME NEW s \in TerminalStatus, Finish(w, s) PROVE Ownership!Next
    <3>1. held[w].job \in Jobs
      BY <2>4, OwnedRow DEF Finish
    <3> QED BY <2>4, <3>1, FinishEnds DEF Ownership!Next
  <2>5. CASE Publish(w)
    <3>1. held[w].job \in Jobs
      BY <2>5, OwnedRow DEF Publish, OwnsUncancelled
    <3> QED BY <2>5, <3>1, PublishDelivers DEF Ownership!Next
  <2>6. CASE GiveUp(w)
    BY <2>6, GiveUpForgets DEF Ownership!Next
  <2> QED BY <1>1, <2>1, <2>2, <2>3, <2>4, <2>5, <2>6 DEF WorkerStep
<1>2. ASSUME NEW j \in Jobs, RowStep(j)
      PROVE  Ownership!Next \/ UNCHANGED <<PhaseMap, OwnerMap, BarMap, published>>
  <2>1. CASE Insert(j)
    BY <2>1, InsertSubmits DEF Ownership!Next
  <2>2. CASE RequestRunningCancellation(j)
    BY <2>2, RequestBars DEF Ownership!Next
  <2>3. CASE CancelQueued(j)
    BY <2>3, CancelQueuedEnds DEF Ownership!Next
  <2>4. CASE Reclaim(j)
    BY <2>4, ReclaimEndsOrReturns DEF Ownership!Next
  <2>5. CASE Tick(j)
    BY <2>5, TickStutters
  <2> QED BY <1>2, <2>1, <2>2, <2>3, <2>4, <2>5 DEF RowStep, ManualRetry
<1>3. CASE UNCHANGED jobVars
  <2>1. UNCHANGED <<job, held, published>>
    BY <1>3 DEF jobVars
  <2>2. \A j \in Jobs : OwnersOf(j)' = OwnersOf(j)
    BY <2>1 DEF OwnersOf, Matches, Holds
  <2>3. UNCHANGED <<PhaseMap, OwnerMap, BarMap, published>>
    BY <2>1, <2>2 DEF PhaseMap, OwnerMap, BarMap
  <2> QED BY <2>3 DEF Ownership!vars
<1>4. ASSUME Ownership!Next \/ UNCHANGED <<PhaseMap, OwnerMap, BarMap, published>>
      PROVE  [Ownership!Next]_Ownership!vars
  BY <1>4 DEF Ownership!vars
<1> QED BY <1>1, <1>2, <1>3, <1>4 DEF Next

\* The job service implements exclusive ownership with one delivery.
THEOREM JobsImplementOwnership == Spec => ImplementsOwnership
  BY InitMaps, NextMaps, Invariance, PTL DEF Spec, ImplementsOwnership, Ownership!Spec

-----------------------------------------------------------------------------
(* Runs.                                                                   *)

\* Attempt numbers point into the job's attempts.
AttemptInv ==
  /\ attempts \in [Jobs -> Seq(Attempt)]
  /\ winner \in [Jobs -> Nat]
  /\ \A j \in Jobs : winner[j] <= Len(attempts[j])
  /\ run \in [Workers -> RunState]
  /\ \A w \in Workers : run[w].pc \in {"calling", "responded"} =>
       JobOf(w) \in Jobs /\ run[w].att \in 1..Len(attempts[JobOf(w)])

\* The money of one job; the allocation is what the reservation settled.
MoneyOf(j) ==
  /\ job[j].status # "absent" => Sound(res[j], ledger[j], terms[j].paid)
  /\ job[j].status = "absent" => res[j] = NoReservation /\ ledger[j] = EmptyLedger
  /\ charge[j] = res[j].settled
  /\ res[j].settled > 0 => terms[j].paid

MoneyInv ==
  /\ terms \in [Jobs -> [paid : BOOLEAN, lawful : BOOLEAN]]
  /\ res \in [Jobs -> Reservation \cup {NoReservation}]
  /\ ledger \in [Jobs -> Ledger]
  /\ charge \in [Jobs -> Nat]
  /\ \A j \in Jobs : MoneyOf(j)

RunInv == IInv /\ AttemptInv /\ MoneyInv

-----------------------------------------------------------------------------
\* Every step of a run is a step of the job service or leaves its tables alone.
LEMMA RunStepIsJobStep == [RunNext]_runVars => [Next]_jobVars
<1>1. ASSUME NEW w \in Workers, ProcessStep(w) PROVE [Next]_jobVars
  <2>1. CASE \E j \in Jobs : Take(w, j)
    BY <2>1 DEF Take, Next, WorkerStep
  <2>2. CASE Beat(w) \/ GiveBack(w) \/ Crash(w)
    BY <2>2 DEF Beat, GiveBack, Crash, Next, WorkerStep
  <2>3. CASE FinishFailed(w)
    BY <2>3 DEF FinishFailed, Next, WorkerStep, TerminalStatus
  <2>4. CASE Begin(w) \/ PublishPlan(w) \/ RequeuePlan(w)
    BY <2>4 DEF Begin, PublishPlan, RequeuePlan, Next, WorkerStep
  <2>5. CASE \/ CloseOrphans(w) \/ LoadWinners(w) \/ CountAttempts(w) \/ Respond(w)
             \/ FinalizeTx(w) \/ LateReconcile(w)
    BY <2>5 DEF CloseOrphans, LoadWinners, CountAttempts, Respond, FinalizeTx, LateReconcile
  <2> QED BY <1>1, <2>1, <2>2, <2>3, <2>4, <2>5
          DEF ProcessStep, Progress, RefusePolicy, FailPlan
<1>2. ASSUME NEW j \in Jobs, JobStep(j) PROVE [Next]_jobVars
  BY <1>2 DEF JobStep, Submit, UserCancelRunning, UserCancelQueued, Sweep, Elapse, Next, RowStep
<1>3. CASE UNCHANGED runVars
  BY <1>3 DEF runVars, jobVars
<1> QED BY <1>1, <1>2, <1>3 DEF RunNext

\* A run behaves, in the job tables, as the job service alone says: reservations,
\* attempts and provider calls add no transition of a row.
THEOREM RunsImplementJobs == RunSpec => ImplementsJob
<1>1. RunInit => Init
  BY DEF RunInit
<1> QED BY <1>1, RunStepIsJobStep, PTL DEF RunSpec, Spec, ImplementsJob

-----------------------------------------------------------------------------
\* Only an insertion makes a row appear, and no row disappears.
RowsKept == \A k \in Jobs : job'[k].status = "absent" <=> job[k].status = "absent"

\* No worker transaction inserts a row.
LEMMA WorkersKeepRows ==
  ASSUME IInv, NEW w \in Workers,
         \/ \E j \in Jobs : Claim(w, j)
         \/ Heartbeat(w) \/ Requeue(w) \/ ShutdownRequeue(w)
         \/ Finish(w, "failed") \/ Publish(w) \/ GiveUp(w)
  PROVE  RowsKept
<1>1. job \in [Jobs -> JobRow]
  BY DEF IInv, TypeOK
<1>2. CASE \E j \in Jobs : Claim(w, j)
  BY <1>1, <1>2 DEF Claim, Claimed, RowsKept
<1>3. CASE Heartbeat(w) \/ Requeue(w) \/ ShutdownRequeue(w) \/ Finish(w, "failed") \/ Publish(w)
  <2>1. held[w].job \in Jobs /\ job[held[w].job].status = "running"
    BY <1>3, OwnedRow
    DEF Heartbeat, Requeue, ShutdownRequeue, Finish, Publish, OwnsUncancelled
  <2>2. CASE Heartbeat(w)
    BY <1>1, <2>1, <2>2 DEF Heartbeat, JobRow, RowsKept
  <2>3. CASE Requeue(w) \/ ShutdownRequeue(w)
    BY <1>1, <2>1, <2>3 DEF Requeue, ShutdownRequeue, Unleased, RowsKept
  <2>4. CASE Finish(w, "failed") \/ Publish(w)
    BY <1>1, <2>1, <2>4 DEF Finish, Publish, Terminated, RowsKept
  <2> QED BY <1>3, <2>2, <2>3, <2>4
<1>4. CASE GiveUp(w)
  BY <1>4 DEF GiveUp, RowsKept
<1> QED BY <1>2, <1>3, <1>4

\* Nor does a cancellation, the sweeper or the clock.
LEMMA HandlersKeepRows ==
  ASSUME IInv, NEW j \in Jobs,
         RequestRunningCancellation(j) \/ CancelQueued(j) \/ Reclaim(j) \/ Tick(j)
  PROVE  RowsKept
<1>1. job \in [Jobs -> JobRow]
  BY DEF IInv, TypeOK
<1>2. CASE RequestRunningCancellation(j) \/ CancelQueued(j) \/ Tick(j)
  <2>1. Tick(j) => job[j].status = "running"
    BY DEF Tick, IInv, RowChecks
  <2> QED BY <1>1, <1>2, <2>1
          DEF RequestRunningCancellation, CancelQueued, Tick, JobRow, RowsKept
<1>3. CASE Reclaim(j)
  <2>1. job'[j].status \in {"cancelled", "queued"} /\ \A k \in Jobs \ {j} : job'[k] = job[k]
    BY <1>1, <1>3 DEF Reclaim, Terminated, Unleased
  <2> QED BY <1>3, <2>1 DEF Reclaim, RowsKept
<1> QED BY <1>2, <1>3

-----------------------------------------------------------------------------
\* The number of unresolved attempts is a number.
LEMMA UnresolvedNat ==
  ASSUME AttemptInv, NEW j \in Jobs PROVE Unresolved(j) \in Nat
<1> DEFINE S == {i \in 1..Len(attempts[j]) : attempts[j][i].status = "started"}
<1>1. Len(attempts[j]) \in Nat
  BY DEF AttemptInv
<1>2. IsFiniteSet(1..Len(attempts[j]))
  BY <1>1, FS_Interval
<1>3. IsFiniteSet(S)
  BY <1>2, FS_Subset
<1> QED BY <1>3, FS_CardinalityType DEF Unresolved

\* The projection of a reconciliation whose settlement is the one already recorded:
\* accepted, sound, and the settled amount stays what the allocation says.
LEMMA ReconcileRecorded ==
  ASSUME AttemptInv, MoneyInv, NEW j \in Jobs, job[j].status # "absent",
         NEW reason \in {"released", "cancelled"}, NEW out,
         out = Reconciled(j, charge[j], reason, "final-close")
  PROVE  /\ out.ok
         /\ Sound(out.res, out.ledger, terms[j].paid)
         /\ out.res.settled = charge[j]
<1>1. Unresolved(j) \in Nat
  BY UnresolvedNat
<1>2. /\ Sound(res[j], ledger[j], terms[j].paid) /\ charge[j] \in Nat
      /\ charge[j] = res[j].settled /\ terms[j].paid \in BOOLEAN
      /\ res[j].settled > 0 => terms[j].paid
  BY DEF MoneyInv, MoneyOf
<1>3. Keeps(res[j], ledger[j], terms[j].paid, charge[j], out)
  BY <1>1, <1>2, ReconcileKeeps DEF Reconciled
<1>4. res[j].settled \in Nat /\ res[j].reserved \in Nat /\ res[j].settled <= res[j].reserved
  BY <1>2 DEF Sound, Conserved, Reservation
<1>5. Least(charge[j], res[j].reserved) = charge[j]
  BY <1>2, <1>4 DEF Least
<1>6. ~terms[j].paid => charge[j] = 0
  BY <1>2, <1>4
<1> QED BY <1>2, <1>3, <1>5, <1>6 DEF Keeps

\* Writing sound money to the row of an existing job keeps the invariant.
LEMMA MoneyWrite ==
  ASSUME MoneyInv, NEW j \in Jobs, job[j].status # "absent", NEW out, NEW c \in Nat,
         res' = [res EXCEPT ![j] = out.res], ledger' = [ledger EXCEPT ![j] = out.ledger],
         charge' = [charge EXCEPT ![j] = c], UNCHANGED terms,
         RowsKept,
         Sound(out.res, out.ledger, terms[j].paid),
         out.res.settled = c, c > 0 => terms[j].paid
  PROVE  MoneyInv'
<1>1. out.res \in Reservation /\ out.ledger \in Ledger
  BY DEF Sound
<1>2. /\ res' \in [Jobs -> Reservation \cup {NoReservation}]
      /\ ledger' \in [Jobs -> Ledger] /\ charge' \in [Jobs -> Nat]
      /\ terms' \in [Jobs -> [paid : BOOLEAN, lawful : BOOLEAN]]
  BY <1>1 DEF MoneyInv
<1>3. /\ res'[j] = out.res /\ ledger'[j] = out.ledger /\ charge'[j] = c
      /\ \A k \in Jobs \ {j} :
           res'[k] = res[k] /\ ledger'[k] = ledger[k] /\ charge'[k] = charge[k]
  BY DEF MoneyInv
<1>4. MoneyOf(j)'
  BY <1>3 DEF MoneyOf, RowsKept
<1>5. ASSUME NEW k \in Jobs \ {j} PROVE MoneyOf(k)'
  <2>1. MoneyOf(k)
    BY DEF MoneyInv
  <2> QED BY <1>3, <2>1 DEF MoneyOf, RowsKept
<1> QED BY <1>2, <1>4, <1>5 DEF MoneyInv

\* So does leaving the money alone.
LEMMA MoneyKeep ==
  ASSUME MoneyInv, UNCHANGED <<terms, res, ledger, charge>>,
         RowsKept
  PROVE  MoneyInv'
<1>1. ASSUME NEW k \in Jobs PROVE MoneyOf(k)'
  <2>1. MoneyOf(k)
    BY DEF MoneyInv
  <2> QED BY <2>1 DEF MoneyOf, RowsKept
<1> QED BY <1>1 DEF MoneyInv

\* A committed reconciliation with the recorded settlement keeps the invariant.
LEMMA CommitRecorded ==
  ASSUME AttemptInv, MoneyInv, NEW j \in Jobs, job[j].status # "absent",
         NEW reason \in {"released", "cancelled"},
         Commit(j, Reconciled(j, charge[j], reason, "final-close")),
         UNCHANGED <<terms, charge>>,
         RowsKept
  PROVE  MoneyInv'
<1> DEFINE out == Reconciled(j, charge[j], reason, "final-close")
<1>1. res' = [res EXCEPT ![j] = out.res] /\ ledger' = [ledger EXCEPT ![j] = out.ledger]
  BY DEF Commit
<1> HIDE DEF out
<1>2. Sound(out.res, out.ledger, terms[j].paid) /\ out.res.settled = charge[j]
  BY ReconcileRecorded DEF out
<1>3. charge' = [charge EXCEPT ![j] = charge[j]] /\ charge[j] \in Nat
  BY DEF MoneyInv
<1>4. charge[j] > 0 => terms[j].paid
  BY DEF MoneyInv, MoneyOf
<1> QED BY <1>1, <1>2, <1>3, <1>4, MoneyWrite

\* The publishing transaction charges what the reservation then settles.
LEMMA PublishMoney ==
  ASSUME AttemptInv, MoneyInv, NEW w \in Workers, JobOf(w) \in Jobs,
         job[JobOf(w)].status # "absent", PublishUsable(w), UNCHANGED terms,
         RowsKept
  PROVE  MoneyInv'
<1> DEFINE j == JobOf(w)
           u == UserCharge(j)
           c == IF terms[j].paid THEN u ELSE 0
           kind == IF terms[j].paid THEN "invocation_completed" ELSE "final-close"
           out == Reconciled(j, u, "released", kind)
<1>1. /\ Sound(res[j], ledger[j], terms[j].paid) /\ terms[j].paid \in BOOLEAN
      /\ charge \in [Jobs -> Nat] /\ j \in Jobs
  BY DEF MoneyInv, MoneyOf
<1>2. /\ Settleable(j) /\ charge' = [charge EXCEPT ![j] = c]
      /\ res' = [res EXCEPT ![j] = out.res] /\ ledger' = [ledger EXCEPT ![j] = out.ledger]
  BY DEF PublishUsable, Commit
<1>3. res[j].status = "open" /\ res[j].settled = 0 /\ res[j].reserved \in Nat
  <2>1. res[j] \in Reservation /\ Conserved(res[j]) /\ res[j].status = "open"
    BY <1>1, <1>2 DEF Sound, Settleable
  <2>2. \A x \in Reservation : Conserved(x) /\ x.status = "open" =>
          x.settled = 0 /\ x.reserved \in Nat
    BY DEF Reservation, Conserved
  <2> QED BY <2>1, <2>2
<1>4. attempts[j][winner[j]].cost \in Nat
  <2>1. winner[j] \in 1..Len(attempts[j])
    BY <1>1, <1>2 DEF Settleable, AttemptInv
  <2>2. attempts[j] \in Seq(Attempt)
    BY <1>1 DEF AttemptInv
  <2>3. attempts[j][winner[j]] \in Attempt
    BY <2>1, <2>2
  <2>4. \A x \in Attempt : x.cost \in Nat
    BY DEF Attempt
  <2> QED BY <2>3, <2>4
<1>5. u \in Nat /\ u <= res[j].reserved
  BY <1>3, <1>4 DEF UserCharge, Least
<1>6. Unresolved(j) \in Nat
  BY <1>1, UnresolvedNat
<1> HIDE DEF u
<1>7. Keeps(res[j], ledger[j], terms[j].paid, u, out)
  BY <1>1, <1>3, <1>5, <1>6, ReconcileKeeps DEF Reconciled
<1>8. out.res # res[j] \/ ~terms[j].paid \/ u = 0
  <2> DEFINE R == res[j].reserved
             t == Targets(R, IF terms[j].paid THEN u ELSE 0, Unresolved(j))
  <2>1. out.ok => out.res = TargetApplied(res[j], t, "released") \/ out.res = res[j]
    BY DEF Reconciled, Reconcile
  <2>2. out.res = TargetApplied(res[j], t, "released")
    <3>1. res[j].status \notin ClosedStatus
      BY <1>3 DEF ClosedStatus
    <3>2. out.ok
      BY <1>7 DEF Keeps
    <3> QED BY <3>1, <3>2 DEF Reconciled, Reconcile
  <2>3. TargetApplied(res[j], t, "released").status # "open"
    BY DEF TargetApplied, DerivedStatus
  <2> QED BY <1>3, <2>2, <2>3
<1> HIDE DEF out
<1>9. out.res.settled = c
  <2>1. Least(u, res[j].reserved) = u
    BY <1>3, <1>5 DEF Least
  <2> QED BY <1>3, <1>7, <1>8, <2>1 DEF Keeps
<1>10. c \in Nat /\ (c > 0 => terms[j].paid)
  BY <1>5
<1>11. Sound(out.res, out.ledger, terms[j].paid)
  BY <1>7 DEF Keeps
<1> HIDE DEF c, j
<1> QED BY <1>1, <1>2, <1>9, <1>10, <1>11, MoneyWrite DEF j

-----------------------------------------------------------------------------
\* A worker that moves on, without entering or prolonging a call of another job,
\* keeps the attempt numbers in range.
LEMMA AttemptRun ==
  ASSUME AttemptInv, NEW w \in Workers, NEW r \in RunState, run' = [run EXCEPT ![w] = r],
         UNCHANGED attemptVars,
         \A v \in Workers \ {w} : held'[v] = held[v],
         r.pc \in {"calling", "responded"} =>
           /\ run[w].pc \in {"calling", "responded"} /\ r.att = run[w].att
           /\ held'[w] = held[w]
  PROVE  AttemptInv'
<1>1. run' \in [Workers -> RunState]
  BY DEF AttemptInv
<1>2. attempts' = attempts /\ winner' = winner
  BY DEF attemptVars
<1>3. ASSUME NEW v \in Workers, run'[v].pc \in {"calling", "responded"}
      PROVE  JobOf(v)' \in Jobs /\ run'[v].att \in 1..Len(attempts'[JobOf(v)'])
  <2>1. run[v].pc \in {"calling", "responded"} /\ run'[v].att = run[v].att /\ held'[v] = held[v]
    <3>1. CASE v = w
      BY <1>3, <3>1 DEF AttemptInv
    <3>2. CASE v # w
      BY <1>3, <3>2 DEF AttemptInv
    <3> QED BY <3>1, <3>2
  <2> QED BY <1>2, <2>1 DEF AttemptInv, JobOf
<1> QED BY <1>1, <1>2, <1>3 DEF AttemptInv

\* Giving an identity up resets the worker.
LEMMA AttemptReset ==
  ASSUME AttemptInv, IInv, NEW w \in Workers, Reset(w), UNCHANGED attemptVars,
         Drop(w) \/ UNCHANGED held
  PROVE  AttemptInv'
<1>1. IdleRun \in RunState /\ IdleRun.pc = "idle"
  BY DEF IdleRun, RunState, Step, Reply
<1>2. \A v \in Workers \ {w} : held'[v] = held[v]
  BY DEF Drop, IInv, TypeOK
<1> QED BY <1>1, <1>2, AttemptRun DEF Reset

\* Steps of users, the sweeper and the clock do not touch attempts or workers.
LEMMA AttemptIdle ==
  ASSUME AttemptInv, UNCHANGED <<attempts, winner, run, held>> PROVE AttemptInv'
  BY DEF AttemptInv, JobOf

\* Finalizing writes one attempt in range and may make it the winner.
LEMMA AttemptFinalize ==
  ASSUME AttemptInv, NEW w \in Workers, FinalizeTx(w) PROVE AttemptInv'
<1> DEFINE j == JobOf(w)
           a == run[w].att
           r == run'[w]
<1>1. j \in Jobs /\ a \in 1..Len(attempts[j]) /\ UNCHANGED held
  BY DEF FinalizeTx, At, AttemptInv, jobVars
<1>2. CASE attempts[j][a].status # "started" /\ Goto(w, "failing") /\ UNCHANGED attemptVars
  <2> DEFINE q == [run[w] EXCEPT !.pc = "failing"]
  <2>1. q \in RunState /\ q.pc = "failing" /\ run' = [run EXCEPT ![w] = q]
    BY <1>2 DEF AttemptInv, RunState, Step, Goto
  <2> HIDE DEF q
  <2> QED BY <1>1, <1>2, <2>1, AttemptRun
<1>3. CASE ~(attempts[j][a].status # "started" /\ Goto(w, "failing") /\ UNCHANGED attemptVars)
  <2>1. PICK s \in AttemptStatus, c \in Costs, o \in {"succeeded", "failed"} :
          /\ attempts' = [attempts EXCEPT ![j][a] = [status |-> s, cost |-> c]]
          /\ winner' = [winner EXCEPT ![j] =
                          IF OwnsUncancelled(w) /\ s = "succeeded" /\ @ = 0 THEN a ELSE @]
          /\ run' = [run EXCEPT ![w].pc = "late", ![w].outcome = o]
    BY <1>3 DEF FinalizeTx, AttemptStatus
  <2>2. [status |-> s, cost |-> c] \in Attempt
    BY CostsAssumption DEF Attempt
  <2>3. /\ attempts' \in [Jobs -> Seq(Attempt)]
        /\ \A k \in Jobs : Len(attempts'[k]) = Len(attempts[k])
    <3>1. attempts[j] \in Seq(Attempt)
      BY <1>1 DEF AttemptInv
    <3>2. /\ [attempts[j] EXCEPT ![a] = [status |-> s, cost |-> c]] \in Seq(Attempt)
          /\ Len([attempts[j] EXCEPT ![a] = [status |-> s, cost |-> c]]) = Len(attempts[j])
      BY <1>1, <2>2, <3>1
    <3>3. attempts' = [attempts EXCEPT ![j] =
                         [attempts[j] EXCEPT ![a] = [status |-> s, cost |-> c]]]
      BY <2>1
    <3> QED BY <1>1, <3>2, <3>3 DEF AttemptInv
  <2>4. winner' \in [Jobs -> Nat] /\ \A k \in Jobs : winner'[k] <= Len(attempts[k])
    <3>1. winner'[j] \in {a, winner[j]} /\ \A k \in Jobs \ {j} : winner'[k] = winner[k]
      BY <1>1, <2>1 DEF AttemptInv
    <3>2. a \in Nat /\ a <= Len(attempts[j])
      BY <1>1
    <3>3. winner' \in [Jobs -> Nat]
      BY <1>1, <2>1, <3>2 DEF AttemptInv
    <3> QED BY <3>1, <3>2, <3>3 DEF AttemptInv
  <2>5. /\ run' \in [Workers -> RunState] /\ run'[w].pc = "late"
        /\ \A v \in Workers \ {w} : run'[v] = run[v]
    <3> DEFINE q == [run[w] EXCEPT !.pc = "late", !.outcome = o]
    <3>1. run \in [Workers -> RunState] /\ run[w] \in RunState
      BY DEF AttemptInv
    <3>2. q \in RunState /\ q.pc = "late"
      BY <3>1 DEF RunState, Step
    <3>3. run' = [run EXCEPT ![w] = q]
      BY <2>1
    <3> HIDE DEF q
    <3> QED BY <3>1, <3>2, <3>3
  <2>6. ASSUME NEW v \in Workers, run'[v].pc \in {"calling", "responded"}
        PROVE  JobOf(v)' \in Jobs /\ run'[v].att \in 1..Len(attempts'[JobOf(v)'])
    <3>1. run[v].pc \in {"calling", "responded"} /\ run'[v].att = run[v].att
      BY <2>5, <2>6
    <3>2. JobOf(v) \in Jobs /\ run[v].att \in 1..Len(attempts[JobOf(v)]) /\ JobOf(v)' = JobOf(v)
      BY <1>1, <3>1 DEF AttemptInv, JobOf
    <3> QED BY <2>3, <3>1, <3>2
  <2> QED BY <2>3, <2>4, <2>5, <2>6 DEF AttemptInv
<1> QED BY <1>2, <1>3

\* Tx A appends the attempt its worker then remembers.
LEMMA AttemptBegin ==
  ASSUME AttemptInv, IInv, NEW w \in Workers, Begin(w) PROVE AttemptInv'
<1> DEFINE j == JobOf(w)
           e == [status |-> "started", cost |-> 0]
<1>1. CASE GiveUp(w) /\ Reset(w) /\ UNCHANGED attempts
  BY <1>1, AttemptReset DEF Begin, GiveUp, attemptVars
<1>2. CASE ~(GiveUp(w) /\ Reset(w) /\ UNCHANGED attempts)
  <2>1. /\ OwnsUncancelled(w) /\ UNCHANGED jobVars /\ UNCHANGED winner
        /\ attempts' = [attempts EXCEPT ![j] = Append(@, e)]
        /\ run' = [run EXCEPT ![w].pc = "calling", ![w].used = @ + 1,
                              ![w].att = Len(attempts[j]) + 1]
    BY <1>2 DEF Begin
  <2>2. j \in Jobs /\ UNCHANGED held
    BY <2>1, OwnedRow DEF OwnsUncancelled, JobOf, jobVars
  <2>3. e \in Attempt /\ attempts[j] \in Seq(Attempt)
    BY <2>2 DEF Attempt, AttemptStatus, AttemptInv
  <2>4. /\ attempts' \in [Jobs -> Seq(Attempt)]
        /\ Len(attempts'[j]) = Len(attempts[j]) + 1
        /\ \A k \in Jobs \ {j} : attempts'[k] = attempts[k]
    BY <2>1, <2>2, <2>3 DEF AttemptInv
  <2>5. Len(attempts[j]) \in Nat
    BY <2>3
  <2>6. /\ run' \in [Workers -> RunState] /\ run'[w].att = Len(attempts[j]) + 1
        /\ \A v \in Workers \ {w} : run'[v] = run[v]
    BY <2>1, <2>5 DEF AttemptInv, RunState, Step
  <2>7. \A k \in Jobs : Len(attempts[k]) \in Nat /\ Len(attempts'[k]) \in Nat
                        /\ Len(attempts[k]) <= Len(attempts'[k])
    <3>1. ASSUME NEW k \in Jobs PROVE Len(attempts[k]) \in Nat /\ Len(attempts'[k]) \in Nat
      BY <2>4 DEF AttemptInv
    <3>2. \A k \in Jobs : k = j \/ attempts'[k] = attempts[k]
      BY <2>4
    <3> QED BY <2>4, <3>1, <3>2
  <2>8. ASSUME NEW v \in Workers, run'[v].pc \in {"calling", "responded"}
        PROVE  JobOf(v)' \in Jobs /\ run'[v].att \in 1..Len(attempts'[JobOf(v)'])
    <3>1. JobOf(v)' = JobOf(v)
      BY <2>2 DEF JobOf
    <3>2. CASE v = w
      BY <2>2, <2>4, <2>5, <2>6, <3>1, <3>2
    <3>3. CASE v # w
      <4>1. JobOf(v) \in Jobs /\ run[v].att \in 1..Len(attempts[JobOf(v)])
        BY <2>6, <2>8, <3>3 DEF AttemptInv
      <4> QED BY <2>6, <2>7, <3>1, <3>3, <4>1
    <3> QED BY <3>2, <3>3
  <2>9. winner' \in [Jobs -> Nat] /\ \A k \in Jobs : winner'[k] <= Len(attempts'[k])
    BY <2>1, <2>7 DEF AttemptInv
  <2> QED BY <2>4, <2>6, <2>8, <2>9 DEF AttemptInv
<1> QED BY <1>1, <1>2

\* Closing orphans changes no length, so every remembered number stays in range.
LEMMA AttemptClose ==
  ASSUME AttemptInv, NEW w \in Workers, CloseOrphans(w) PROVE AttemptInv'
<1> DEFINE j == JobOf(w)
           closed == [i \in DOMAIN attempts[j] |->
                        IF attempts[j][i].status = "started"
                        THEN [attempts[j][i] EXCEPT !.status = "failed"] ELSE attempts[j][i]]
           q == [run[w] EXCEPT !.pc = "closed"]
<1>1. /\ attempts' = [attempts EXCEPT ![j] = closed] /\ run' = [run EXCEPT ![w] = q]
      /\ UNCHANGED <<winner, held>>
  BY DEF CloseOrphans, Goto, jobVars
<1>2. q \in RunState /\ q.pc = "closed"
  BY DEF AttemptInv, RunState, Step
<1>3. ASSUME j \in Jobs PROVE closed \in Seq(Attempt) /\ Len(closed) = Len(attempts[j])
  <2>1. attempts[j] \in Seq(Attempt) /\ DOMAIN attempts[j] = 1..Len(attempts[j])
    BY <1>3 DEF AttemptInv
  <2>2. \A i \in 1..Len(attempts[j]) : attempts[j][i] \in Attempt
    BY <2>1
  <2>3. \A x \in Attempt : [x EXCEPT !.status = "failed"] \in Attempt
    BY DEF Attempt, AttemptStatus
  <2>4. \A i \in 1..Len(attempts[j]) : closed[i] \in Attempt
    BY <2>1, <2>2, <2>3
  <2>5. closed \in [1..Len(attempts[j]) -> Attempt]
    BY <2>1, <2>4
  <2>6. Len(attempts[j]) \in Nat
    BY <2>1
  <2>7. \A n \in Nat : \A f \in [1..n -> Attempt] : f \in Seq(Attempt) /\ Len(f) = n
    OBVIOUS
  <2> HIDE DEF closed
  <2> QED BY <2>5, <2>6, <2>7
<1> HIDE DEF closed, q
<1>4. /\ attempts' \in [Jobs -> Seq(Attempt)]
      /\ \A k \in Jobs : Len(attempts'[k]) = Len(attempts[k])
  BY <1>1, <1>3 DEF AttemptInv
<1>5. run' \in [Workers -> RunState] /\ run'[w].pc = "closed" /\
      \A v \in Workers \ {w} : run'[v] = run[v]
  BY <1>1, <1>2 DEF AttemptInv
<1>6. ASSUME NEW v \in Workers, run'[v].pc \in {"calling", "responded"}
      PROVE  JobOf(v)' \in Jobs /\ run'[v].att \in 1..Len(attempts'[JobOf(v)'])
  <2>1. run'[v] = run[v] /\ JobOf(v)' = JobOf(v)
    BY <1>1, <1>5, <1>6 DEF JobOf
  <2> QED BY <1>4, <1>6, <2>1 DEF AttemptInv
<1>7. winner' \in [Jobs -> Nat] /\ \A k \in Jobs : winner'[k] <= Len(attempts'[k])
  BY <1>1, <1>4 DEF AttemptInv
<1> QED BY <1>4, <1>5, <1>6, <1>7 DEF AttemptInv

\* A worker step that neither begins, closes nor finalizes an attempt.
LEMMA AttemptOther ==
  ASSUME AttemptInv, IInv, NEW w \in Workers,
         \/ \E j \in Jobs : Take(w, j)
         \/ LoadWinners(w) \/ CountAttempts(w) \/ Respond(w) \/ LateReconcile(w)
  PROVE  AttemptInv'
<1>0. run[w] \in RunState
  BY DEF AttemptInv
<1>1. CASE \E j \in Jobs : Take(w, j)
  <2> DEFINE q == [run[w] EXCEPT !.pc = "claimed"]
  <2>1. q \in RunState /\ q.pc = "claimed"
    BY <1>0 DEF RunState, Step
  <2>2. \A v \in Workers \ {w} : held'[v] = held[v]
    BY <1>1 DEF Take, Claim, IInv, TypeOK
  <2>3. run' = [run EXCEPT ![w] = q] /\ UNCHANGED attemptVars
    BY <1>1 DEF Take, Goto
  <2> HIDE DEF q
  <2> QED BY <2>1, <2>2, <2>3, AttemptRun
<1>2. CASE LoadWinners(w)
  <2>1. PICK o \in {"none", "succeeded", "failed"} :
          run' = [run EXCEPT ![w].pc = "loaded", ![w].outcome = o]
    BY <1>2 DEF LoadWinners
  <2> DEFINE q == [run[w] EXCEPT !.pc = "loaded", !.outcome = o]
  <2>2. q \in RunState /\ q.pc = "loaded"
    BY <1>0 DEF RunState, Step
  <2>3. run' = [run EXCEPT ![w] = q] /\ UNCHANGED <<attemptVars, held>>
    BY <1>2, <2>1 DEF LoadWinners, jobVars
  <2> HIDE DEF q
  <2> QED BY <2>2, <2>3, AttemptRun
<1>3. CASE CountAttempts(w)
  <2> DEFINE n == Len(attempts[JobOf(w)])
             q == [run[w] EXCEPT !.pc = "deciding", !.used = n]
  <2>1. run' = [run EXCEPT ![w] = q] /\ UNCHANGED <<attemptVars, held>>
    BY <1>3 DEF CountAttempts, jobVars
  <2>2. CASE n \in Nat
    <3>1. q \in RunState /\ q.pc = "deciding"
      BY <1>0, <2>2 DEF RunState, Step
    <3> HIDE DEF q
    <3> QED BY <2>1, <3>1, AttemptRun
  <2>3. n \in Nat
    BY DEF AttemptInv
  <2> QED BY <2>2, <2>3
<1>4. CASE Respond(w)
  <2>1. PICK p \in {"requeue", "responded"}, reply \in Reply :
          run' = [run EXCEPT ![w].pc = p, ![w].reply = reply]
    BY <1>4, RepliesAssumption DEF Respond
  <2> DEFINE q == [run[w] EXCEPT !.pc = p, !.reply = reply]
  <2>2. q \in RunState /\ q.att = run[w].att
    BY <1>0 DEF RunState, Step
  <2>3. run' = [run EXCEPT ![w] = q] /\ UNCHANGED <<attemptVars, held>> /\ run[w].pc = "calling"
    BY <1>4, <2>1 DEF Respond, jobVars, At
  <2> HIDE DEF q
  <2> QED BY <2>2, <2>3, AttemptRun
<1>5. CASE LateReconcile(w)
  <2> DEFINE q == [run[w] EXCEPT !.pc = "deciding"]
  <2>1. q \in RunState /\ q.pc = "deciding"
    BY <1>0 DEF RunState, Step
  <2>2. run' = [run EXCEPT ![w] = q] /\ UNCHANGED <<attemptVars, held>>
    BY <1>5 DEF LateReconcile, Goto, jobVars
  <2> HIDE DEF q
  <2> QED BY <2>1, <2>2, AttemptRun
<1> QED BY <1>1, <1>2, <1>3, <1>4, <1>5

-----------------------------------------------------------------------------
\* Before anything is submitted there is no attempt, no money and no running worker.
LEMMA InitRunInv == RunInit => RunInv
<1> SUFFICES ASSUME RunInit PROVE RunInv
  OBVIOUS
<1>1. IInv
  BY InitIInv DEF RunInit
<1>2. AttemptInv
  <2>1. IdleRun \in RunState /\ IdleRun.pc = "idle"
    BY DEF IdleRun, RunState, Step, Reply
  <2>2. run = [w \in Workers |-> IdleRun]
    BY DEF RunInit
  <2>3. run \in [Workers -> RunState] /\ \A w \in Workers : run[w].pc = "idle"
    BY <2>1, <2>2
  <2> QED BY <2>3 DEF RunInit, AttemptInv
<1>3. MoneyInv
  <2>1. EmptyLedger \in Ledger
    BY DEF EmptyLedger, Ledger
  <2>2. NoReservation.settled = 0
    BY DEF NoReservation
  <2>3. \A j \in Jobs : /\ job[j].status = "absent" /\ res[j] = NoReservation
                        /\ ledger[j] = EmptyLedger /\ charge[j] = 0
    BY DEF RunInit, Init, NoRow
  <2>4. \A j \in Jobs : MoneyOf(j)
    <3>1. ~(0 > 0)
      OBVIOUS
    <3>2. \A j \in Jobs : res[j].settled = 0
      BY <2>2, <2>3
    <3> QED BY <2>3, <3>1, <3>2 DEF MoneyOf
  <2> QED BY <2>1, <2>4 DEF RunInit, MoneyInv
<1> QED BY <1>1, <1>2, <1>3 DEF RunInv

\* Submission gives the new job an open reservation and an empty ledger.
LEMMA SubmitMoney ==
  ASSUME IInv, MoneyInv, NEW j \in Jobs, Submit(j) PROVE MoneyInv'
<1>1. PICK t \in [paid : BOOLEAN, lawful : BOOLEAN] : terms' = [terms EXCEPT ![j] = t]
  BY DEF Submit
<1>2. /\ job[j].status = "absent" /\ job' = [job EXCEPT ![j].status = "queued"]
      /\ res' = [res EXCEPT ![j] = OpenReservation(Reserved)]
      /\ UNCHANGED <<ledger, charge>> /\ job \in [Jobs -> JobRow]
  BY DEF Submit, Insert, IInv, TypeOK
<1>3. Sound(OpenReservation(Reserved), EmptyLedger, t.paid)
  BY <1>1, ReservedAssumption, OpenIsSound
<1>4. OpenReservation(Reserved) \in Reservation /\ OpenReservation(Reserved).settled = 0
  BY <1>3 DEF Sound, OpenReservation
<1>5. ledger[j] = EmptyLedger /\ charge[j] = 0
  BY <1>2 DEF MoneyInv, MoneyOf, NoReservation
<1>6. /\ terms' \in [Jobs -> [paid : BOOLEAN, lawful : BOOLEAN]]
      /\ res' \in [Jobs -> Reservation \cup {NoReservation}]
      /\ ledger' \in [Jobs -> Ledger] /\ charge' \in [Jobs -> Nat]
  BY <1>1, <1>2, <1>4 DEF MoneyInv
<1>7. MoneyOf(j)'
  <2>1. job'[j].status = "queued" /\ res'[j] = OpenReservation(Reserved) /\ terms'[j] = t
    BY <1>1, <1>2 DEF MoneyInv, JobRow
  <2> QED BY <1>2, <1>3, <1>4, <1>5, <2>1 DEF MoneyOf
<1>8. ASSUME NEW k \in Jobs \ {j} PROVE MoneyOf(k)'
  <2>1. job'[k] = job[k] /\ res'[k] = res[k] /\ terms'[k] = terms[k] /\ MoneyOf(k)
    BY <1>1, <1>2 DEF MoneyInv
  <2> QED BY <1>2, <2>1 DEF MoneyOf
<1> QED BY <1>6, <1>7, <1>8 DEF MoneyInv

\* A failing finish reconciles the job it terminates, or changes nothing.
LEMMA FinishFailedMoney ==
  ASSUME IInv, AttemptInv, MoneyInv, NEW w \in Workers, FinishFailed(w) PROVE MoneyInv'
<1>1. CASE /\ Finish(w, "failed")
           /\ Commit(JobOf(w), Reconciled(JobOf(w), charge[JobOf(w)], "released", "final-close"))
  <2>1. JobOf(w) \in Jobs /\ job[JobOf(w)].status # "absent"
    BY <1>1, OwnedRow DEF Finish, JobOf
  <2>2. RowsKept
    BY <1>1, WorkersKeepRows
  <2>3. UNCHANGED <<terms, charge>>
    BY DEF FinishFailed
  <2> QED BY <1>1, <2>1, <2>2, <2>3, CommitRecorded
<1>2. CASE GiveUp(w) /\ UNCHANGED <<res, ledger>>
  BY <1>2, MoneyKeep DEF FinishFailed, GiveUp, RowsKept
<1> QED BY <1>1, <1>2 DEF FinishFailed

\* The late reconciliation settles a terminal job, or changes nothing.
LEMMA LateMoney ==
  ASSUME IInv, AttemptInv, MoneyInv, NEW w \in Workers, LateReconcile(w) PROVE MoneyInv'
<1> DEFINE j == JobOf(w)
           reason == IF job[j].status = "cancelled" THEN "cancelled" ELSE "released"
<1>1. UNCHANGED <<terms, charge>> /\ UNCHANGED job
  BY DEF LateReconcile, jobVars
<1>2. CASE Terminal(j) /\ Commit(j, Reconciled(j, charge[j], reason, "final-close"))
  <2>1. CASE j \in Jobs
    <3>1. job[j].status # "absent" /\ reason \in {"released", "cancelled"}
      BY <1>2 DEF Terminal, TerminalStatus
    <3> HIDE DEF reason, j
    <3> QED BY <1>1, <1>2, <2>1, <3>1, CommitRecorded DEF RowsKept
  <2>2. CASE j \notin Jobs
    <3>1. res' = res /\ ledger' = ledger
      BY <1>2, <2>2 DEF Commit, MoneyInv
    <3> QED BY <1>1, <3>1, MoneyKeep DEF RowsKept
  <2> QED BY <2>1, <2>2
<1>3. CASE UNCHANGED <<res, ledger>>
  BY <1>1, <1>3, MoneyKeep DEF RowsKept
<1> QED BY <1>2, <1>3 DEF LateReconcile

\* The publishing transaction charges or releases, or loses the row and changes nothing.
LEMMA PublishPlanMoney ==
  ASSUME IInv, AttemptInv, MoneyInv, NEW w \in Workers, PublishPlan(w) PROVE MoneyInv'
<1>0. UNCHANGED terms
  BY DEF PublishPlan
<1>1. CASE Publish(w) /\ (PublishUsable(w) \/ PublishWithoutOutput(w))
  <2>1. JobOf(w) \in Jobs /\ job[JobOf(w)].status # "absent"
    BY <1>1, OwnedRow DEF Publish, OwnsUncancelled, JobOf
  <2>2. RowsKept
    BY <1>1, WorkersKeepRows
  <2>3. CASE PublishUsable(w)
    BY <1>0, <2>1, <2>2, <2>3, PublishMoney
  <2>4. CASE PublishWithoutOutput(w)
    BY <1>0, <2>1, <2>2, <2>4, CommitRecorded DEF PublishWithoutOutput
  <2> QED BY <1>1, <2>3, <2>4
<1>2. CASE GiveUp(w) /\ UNCHANGED moneyVars
  BY <1>0, <1>2, MoneyKeep DEF GiveUp, moneyVars, RowsKept
<1> QED BY <1>1, <1>2 DEF PublishPlan

\* Users and the sweeper.
LEMMA JobStepMoney ==
  ASSUME IInv, AttemptInv, MoneyInv, NEW j \in Jobs,
         UserCancelRunning(j) \/ UserCancelQueued(j) \/ Sweep(j) \/ Elapse(j)
  PROVE  MoneyInv'
<1>1. /\ UNCHANGED <<terms, charge>>
      /\ RowsKept
  BY HandlersKeepRows DEF UserCancelRunning, UserCancelQueued, Sweep, Elapse, moneyVars
<1>2. CASE UNCHANGED <<res, ledger>>
  BY <1>1, <1>2, MoneyKeep
<1>3. CASE Commit(j, Reconciled(j, charge[j], "cancelled", "final-close"))
           /\ job[j].status # "absent"
  BY <1>1, <1>3, CommitRecorded
<1>4. CASE CancelQueued(j) /\ terms[j].paid /\ Commit(j, ReleaseQueued(res[j], ledger[j]))
  <2> DEFINE out == ReleaseQueued(res[j], ledger[j])
  <2>1. job[j].status # "absent"
    BY <1>4 DEF CancelQueued
  <2>2. Sound(res[j], ledger[j], terms[j].paid) /\ terms[j].paid = TRUE
    BY <1>4, <2>1 DEF MoneyInv, MoneyOf
  <2>3. Sound(res[j], ledger[j], TRUE)
    BY <2>2
  <2>4. Sound(out.res, out.ledger, TRUE)
    BY <2>3, ReleaseQueuedSound
  <2>5. out.res.settled = res[j].settled
    <3>1. \A x \in Reservation : Conserved(x) /\ x.status = "open" => x.settled = 0
      BY DEF Reservation, Conserved
    <3>2. res[j].status = "open" => res[j].settled = 0
      BY <2>3, <3>1 DEF Sound
    <3> QED BY <3>2 DEF ReleaseQueued
  <2>6. charge[j] = res[j].settled /\ charge[j] \in Nat
    BY DEF MoneyInv, MoneyOf
  <2>7. charge' = [charge EXCEPT ![j] = charge[j]]
    BY <1>1 DEF MoneyInv
  <2>8. res' = [res EXCEPT ![j] = out.res] /\ ledger' = [ledger EXCEPT ![j] = out.ledger]
    BY <1>4 DEF Commit
  <2> HIDE DEF out
  <2>9. Sound(out.res, out.ledger, terms[j].paid)
    BY <2>2, <2>4
  <2>10. out.res.settled = charge[j] /\ (charge[j] > 0 => terms[j].paid)
    BY <2>2, <2>5, <2>6
  <2>11. charge[j] \in Nat /\ UNCHANGED terms
    BY <1>1, <2>6
  <2> QED BY <1>1, <2>1, <2>7, <2>8, <2>9, <2>10, <2>11, MoneyWrite
<1> QED BY <1>2, <1>3, <1>4
    DEF UserCancelRunning, UserCancelQueued, Sweep, Elapse, moneyVars, CancelQueued, Reclaim

\* Every step keeps the invariant: one step per group of actions.
LEMMA NextRunInv == RunInv /\ [RunNext]_runVars => RunInv'
<1> SUFFICES ASSUME RunInv, [RunNext]_runVars PROVE RunInv'
  OBVIOUS
<1>0. IInv /\ AttemptInv /\ MoneyInv
  BY DEF RunInv
<1>1. IInv'
  BY <1>0, RunStepIsJobStep, NextIInv
<1>2. ASSUME NEW w \in Workers, ProcessStep(w) PROVE AttemptInv' /\ MoneyInv'
  <2>1. CASE \E j \in Jobs : Take(w, j)
    <3>1. UNCHANGED <<terms, res, ledger, charge>> /\ RowsKept
      BY <1>0, <2>1, WorkersKeepRows DEF Take, moneyVars
    <3> QED BY <1>0, <2>1, <3>1, AttemptOther, MoneyKeep
  <2>2. CASE Beat(w) \/ GiveBack(w) \/ Crash(w) \/ RequeuePlan(w)
    <3>1. UNCHANGED <<terms, res, ledger, charge>>
      BY <2>2 DEF Beat, GiveBack, Crash, RequeuePlan, moneyVars
    <3>2. \/ Heartbeat(w) \/ ShutdownRequeue(w) \/ GiveUp(w) \/ Requeue(w)
      BY <2>2 DEF Beat, GiveBack, Crash, RequeuePlan
    <3>3. RowsKept
      BY <1>0, <3>2, WorkersKeepRows
    <3>4. AttemptInv'
      <4>1. CASE Beat(w) \/ GiveBack(w)
        BY <1>0, <4>1, AttemptIdle DEF Beat, GiveBack, Heartbeat, ShutdownRequeue, attemptVars
      <4>2. CASE Crash(w) \/ RequeuePlan(w)
        BY <1>0, <4>2, AttemptReset DEF Crash, RequeuePlan, GiveUp, Requeue
      <4> QED BY <2>2, <4>1, <4>2
    <3> QED BY <1>0, <3>1, <3>3, <3>4, MoneyKeep
  <2>3. CASE FinishFailed(w)
    <3>1. AttemptInv'
      BY <1>0, <2>3, AttemptReset DEF FinishFailed, GiveUp, Finish
    <3> QED BY <1>0, <2>3, <3>1, FinishFailedMoney
  <2>4. CASE PublishPlan(w)
    <3>1. AttemptInv'
      BY <1>0, <2>4, AttemptReset DEF PublishPlan, GiveUp, Publish
    <3> QED BY <1>0, <2>4, <3>1, PublishPlanMoney
  <2>5. CASE LateReconcile(w)
    <3>1. AttemptInv'
      BY <1>0, <2>5, AttemptOther
    <3> QED BY <1>0, <2>5, <3>1, LateMoney
  <2>6. CASE CloseOrphans(w) \/ Begin(w) \/ FinalizeTx(w)
    <3>1. AttemptInv'
      BY <1>0, <2>6, AttemptClose, AttemptBegin, AttemptFinalize
    <3>2. UNCHANGED <<terms, res, ledger, charge>> /\ UNCHANGED job
      BY <2>6 DEF CloseOrphans, Begin, FinalizeTx, GiveUp, moneyVars, jobVars
    <3> QED BY <1>0, <3>1, <3>2, MoneyKeep DEF RowsKept
  <2>7. CASE LoadWinners(w) \/ CountAttempts(w) \/ Respond(w)
    <3>1. UNCHANGED <<terms, res, ledger, charge>> /\ UNCHANGED job
      BY <2>7 DEF LoadWinners, CountAttempts, Respond, moneyVars, jobVars
    <3>2. MoneyInv'
      BY <1>0, <3>1, MoneyKeep DEF RowsKept
    <3> QED BY <1>0, <2>7, <3>2, AttemptOther
  <2> QED BY <1>2, <2>1, <2>2, <2>3, <2>4, <2>5, <2>6, <2>7
          DEF ProcessStep, Progress, RefusePolicy, FailPlan
<1>3. ASSUME NEW j \in Jobs, JobStep(j) PROVE AttemptInv' /\ MoneyInv'
  <2>1. AttemptInv'
    BY <1>0, <1>3, AttemptIdle
    DEF JobStep, Submit, UserCancelRunning, UserCancelQueued, Sweep, Elapse,
        Insert, RequestRunningCancellation, CancelQueued, Reclaim, Tick, attemptVars
  <2>2. CASE Submit(j)
    BY <1>0, <2>1, <2>2, SubmitMoney
  <2>3. CASE UserCancelRunning(j) \/ UserCancelQueued(j) \/ Sweep(j) \/ Elapse(j)
    BY <1>0, <2>1, <2>3, JobStepMoney
  <2> QED BY <1>3, <2>2, <2>3 DEF JobStep
<1>4. CASE UNCHANGED runVars
  <2>1. UNCHANGED <<terms, res, ledger, charge, job, attempts, winner, run, held>>
    BY <1>4 DEF runVars, moneyVars, attemptVars, jobVars
  <2>2. AttemptInv' /\ MoneyInv'
    BY <1>0, <2>1, MoneyKeep, AttemptIdle DEF RowsKept
  <2> QED BY <1>1, <2>2 DEF RunInv
<1>5. AttemptInv' /\ MoneyInv'
  BY <1>2, <1>3, <1>4 DEF RunNext, RunInv
<1> QED BY <1>1, <1>5 DEF RunInv

\* The inductive invariant of runs holds in every reachable state.
THEOREM RunInvariance == RunSpec => []RunInv
  BY InitRunInv, NextRunInv, PTL DEF RunSpec

\* Rows, attempts, money and processors keep their types.
THEOREM RunTypeCorrect == RunSpec => []RunTypeOK
<1>1. RunInv => RunTypeOK
  BY DEF RunInv, IInv, AttemptInv, MoneyInv, RunTypeOK
<1> QED BY <1>1, RunInvariance, PTL

\* For every job, reservation row and ledger rows agree and satisfy the table's checks in
\* every reachable state, whatever cancellations, lost leases and late answers race.
THEOREM MoneyStaysSound == RunSpec => []MoneySound
<1>1. RunInv => MoneySound
  BY DEF RunInv, MoneyInv, MoneyOf, MoneySound
<1> QED BY <1>1, RunInvariance, PTL

\* The terminal reconciliation of an existing job is accepted in every reachable state.
THEOREM ReconciliationNeverConflicts == RunSpec => []NeverConflicts
<1>1. RunInv => NeverConflicts
  BY ReconcileRecorded DEF RunInv, NeverConflicts
<1> QED BY <1>1, RunInvariance, PTL

-----------------------------------------------------------------------------
(* What a run leaves behind: PaidAsQuoted and ClosedIsFinal.  Two facts    *)
(* carry the argument.  A worker never regains a job it no longer owns, so *)
(* what it read in an earlier transaction is still true while it owns the  *)
(* job (Informed); and one step moves the money of a job in one of four    *)
(* ways (Moves): not at all, by opening the hold, by returning it at the   *)
(* end of the job, or by settling it with the publication.                 *)

\* A worker owns a job without a cancellation request only if it did so before the
\* step, under the same identity, or has just claimed the job.
LEMMA OwnershipNotRegained ==
  ASSUME IInv, [Next]_jobVars, NEW v \in Workers, OwnsUncancelled(v)',
         ~\E j \in Jobs : Claim(v, j)
  PROVE  held'[v] = held[v] /\ OwnsUncancelled(v)
<1> DEFINE Goal == held'[v] = held[v] /\ OwnsUncancelled(v)
<1>1. PICK k : k = held'[v].job
  OBVIOUS
<1>2. /\ k # NoJob /\ job'[k].status = "running" /\ job'[k].token = held'[v].token
      /\ job'[k].fence = held'[v].fence /\ job'[k].lease > 0 /\ ~job'[k].cancel
  BY <1>1 DEF OwnsUncancelled, OwnsLive, Matches, Holds
<1>3. job \in [Jobs -> JobRow] /\ held \in [Workers -> Identity] /\ issued \in Nat
  BY DEF IInv, TypeOK
<1>4. ASSUME held'[v] = held[v], job'[k] = job[k] PROVE Goal
  BY <1>1, <1>2, <1>4 DEF OwnsUncancelled, OwnsLive, Matches, Holds
<1>5. ASSUME held'[v] = held[v]
      PROVE  k \in Jobs /\ held[v].token \in 1..issued /\ held[v].job = k
  BY <1>1, <1>2, <1>3, <1>5 DEF Identity, IInv, TokensIssued, Holds
<1>6. ASSUME NEW w \in Workers, Drop(w) PROVE w # v /\ held'[v] = held[v]
  <2>1. NoIdentity.job = NoJob
    BY DEF NoIdentity
  <2>2. w # v
    BY <1>1, <1>2, <1>3, <1>6, <2>1 DEF Drop
  <2> QED BY <1>3, <1>6, <2>2 DEF Drop
<1>7. CASE UNCHANGED jobVars
  BY <1>4, <1>7 DEF jobVars
<1>8. ASSUME NEW w \in Workers, WorkerStep(w) PROVE Goal
  <2>1. CASE \E j \in Jobs : Claim(w, j)
    <3>1. PICK j \in Jobs : Claim(w, j)
      BY <2>1
    <3>2. w # v /\ held'[v] = held[v]
      BY <1>3, <3>1 DEF Claim
    <3>3. j # k
      <4>1. j = k => job'[k].token = issued + 1
        BY <1>3, <3>1 DEF Claim, Claimed
      <4> QED BY <1>2, <1>3, <1>5, <3>2, <4>1
    <3>4. job'[k] = job[k]
      BY <1>3, <1>5, <3>1, <3>2, <3>3 DEF Claim
    <3> QED BY <1>4, <3>2, <3>4
  <2>2. CASE GiveUp(w)
    BY <1>4, <1>6, <2>2 DEF GiveUp
  <2>3. CASE Heartbeat(w)
    <3>1. held' = held
      BY <2>3 DEF Heartbeat
    <3>2. CASE held[w].job = k
      <4>1. job'[k] = [job[k] EXCEPT !.lease = LeaseTerm]
        BY <1>3, <1>5, <2>3, <3>1, <3>2 DEF Heartbeat
      <4>2. job[k] \in JobRow
        BY <1>3, <1>5, <3>1
      <4>3. /\ job'[k].status = job[k].status /\ job'[k].token = job[k].token
            /\ job'[k].fence = job[k].fence /\ job'[k].cancel = job[k].cancel
        BY <4>1, <4>2 DEF JobRow
      <4>4. job[k].lease > 0
        BY <2>3, <3>2 DEF Heartbeat, OwnsLive
      <4> QED BY <1>1, <1>2, <3>1, <4>3, <4>4 DEF OwnsUncancelled, OwnsLive, Matches, Holds
    <3>3. CASE held[w].job # k
      <4>1. job'[k] = job[k]
        BY <1>3, <1>5, <2>3, <3>1, <3>3 DEF Heartbeat
      <4> QED BY <1>4, <3>1, <4>1
    <3> QED BY <3>2, <3>3
  <2>4. ASSUME NEW r, r.status # "running", job' = [job EXCEPT ![held[w].job] = r],
               held' = held \/ Drop(w)
        PROVE  Goal
    <3>1. held'[v] = held[v]
      BY <1>6, <2>4
    <3>2. held[w].job # k
      BY <1>2, <1>3, <1>5, <2>4, <3>1
    <3>3. job'[k] = job[k]
      BY <1>3, <1>5, <2>4, <3>1, <3>2
    <3> QED BY <1>4, <3>1, <3>3
  <2>5. CASE Requeue(w) \/ ShutdownRequeue(w)
    BY <2>4, <2>5 DEF Requeue, ShutdownRequeue, Unleased
  <2>6. CASE Publish(w) \/ \E s \in TerminalStatus : Finish(w, s)
    BY <2>4, <2>6 DEF Publish, Finish, Terminated, TerminalStatus
  <2> QED BY <1>8, <2>1, <2>2, <2>3, <2>5, <2>6 DEF WorkerStep
<1>9. ASSUME NEW j \in Jobs, RowStep(j) PROVE Goal
  <2>1. held' = held
    BY <1>9 DEF RowStep, Insert, ManualRetry, RequestRunningCancellation, CancelQueued,
                Reclaim, Tick
  <2>2. CASE j # k
    <3>1. job'[k] = job[k]
      BY <1>3, <1>5, <1>9, <2>1, <2>2
      DEF RowStep, Insert, ManualRetry, RequestRunningCancellation, CancelQueued, Reclaim, Tick
    <3> QED BY <1>4, <2>1, <3>1
  <2>3. CASE j = k
    <3>1. job[k] \in JobRow
      BY <1>3, <1>5, <2>1
    <3>2. ~Insert(k) /\ ~RequestRunningCancellation(k) /\ ~CancelQueued(k) /\ ~Reclaim(k)
      BY <1>2, <1>3, <1>5, <2>1, <3>1
      DEF Insert, RequestRunningCancellation, CancelQueued, Reclaim, Terminated, Unleased, JobRow
    <3>3. Tick(k)
      BY <1>9, <2>3, <3>2 DEF RowStep, ManualRetry
    <3>4. /\ job'[k].status = job[k].status /\ job'[k].token = job[k].token
          /\ job'[k].fence = job[k].fence /\ job'[k].cancel = job[k].cancel /\ job[k].lease > 0
      BY <1>3, <1>5, <2>1, <3>1, <3>3 DEF Tick, JobRow
    <3> QED BY <1>1, <1>2, <2>1, <3>4 DEF OwnsUncancelled, OwnsLive, Matches, Holds
  <2> QED BY <2>2, <2>3
<1> QED BY <1>7, <1>8, <1>9 DEF Next
-----------------------------------------------------------------------------
\* What the owner of a job knows of its attempts: how many there are, that none but its
\* own call is in flight, and that the success it remembers has a winner.
Informed(w) ==
  OwnsUncancelled(w) =>
    /\ run[w].pc \in {"deciding", "calling", "responded", "late"} =>
         run[w].used = Len(attempts[JobOf(w)])
    /\ \A i \in 1..Len(attempts[JobOf(w)]) :
         attempts[JobOf(w)][i].status = "started" =>
           /\ run[w].pc \notin {"closed", "loaded", "deciding", "late"}
           /\ run[w].pc \in {"calling", "responded"} => i = run[w].att
    /\ run[w].pc \in {"loaded", "deciding", "late"} /\ run[w].outcome = "succeeded" =>
         winner[JobOf(w)] # 0

WinnerSucceeded ==
  \A j \in Jobs : winner[j] # 0 => attempts[j][winner[j]].status = "succeeded"

PlanInv == (\A w \in Workers : Informed(w)) /\ WinnerSucceeded /\ CapHolds

\* What a step that starts no attempt does to the attempts of k.
Settled(k) ==
  /\ Len(attempts'[k]) = Len(attempts[k])
  /\ \A i \in 1..Len(attempts[k]) :
       attempts[k][i].status # "started" => attempts'[k][i] = attempts[k][i]
  /\ winner[k] # 0 => winner'[k] = winner[k]
  /\ winner'[k] # winner[k] =>
       winner'[k] \in 1..Len(attempts[k]) /\ attempts'[k][winner'[k]].status = "succeeded"

\* Tx A of the owner, the only step that starts an attempt.
Starts(w) ==
  /\ At(w, "deciding") /\ run[w].outcome = "none" /\ run[w].used < Cap
  /\ OwnsUncancelled(w)
  /\ attempts' = [attempts EXCEPT ![JobOf(w)] =
                    Append(@, [status |-> "started", cost |-> 0])]
  /\ run' = [run EXCEPT ![w].pc = "calling", ![w].used = @ + 1,
                        ![w].att = Len(attempts[JobOf(w)]) + 1]
  /\ UNCHANGED <<jobVars, winner>>

\* Attempts that are left alone are settled.
LEMMA UntouchedSettled ==
  ASSUME UNCHANGED attemptVars PROVE \A k \in Jobs : Settled(k)
<1>1. attempts' = attempts /\ winner' = winner
  BY DEF attemptVars
<1> QED BY <1>1 DEF Settled

\* Closing orphans rewrites started attempts only, and leaves none.
LEMMA ClosedSettled ==
  ASSUME AttemptInv, NEW w \in Workers, CloseOrphans(w)
  PROVE  /\ \A k \in Jobs : Settled(k)
         /\ JobOf(w) \in Jobs =>
              \A i \in 1..Len(attempts'[JobOf(w)]) :
                attempts'[JobOf(w)][i].status # "started"
<1>1. PICK j : j = JobOf(w)
  OBVIOUS
<1> DEFINE closed == [i \in DOMAIN attempts[j] |->
                        IF attempts[j][i].status = "started"
                        THEN [attempts[j][i] EXCEPT !.status = "failed"] ELSE attempts[j][i]]
<1>2. attempts' = [attempts EXCEPT ![j] = closed] /\ winner' = winner
  BY <1>1 DEF CloseOrphans
<1>3. ASSUME NEW k \in Jobs
      PROVE  attempts[k] \in Seq(Attempt) /\ DOMAIN attempts[k] = 1..Len(attempts[k])
  BY DEF AttemptInv
<1>4. ASSUME j \in Jobs
      PROVE  /\ Len(closed) = Len(attempts[j])
             /\ \A i \in 1..Len(attempts[j]) :
                  /\ closed[i].status # "started"
                  /\ attempts[j][i].status # "started" => closed[i] = attempts[j][i]
  <2>1. attempts[j] \in Seq(Attempt) /\ DOMAIN attempts[j] = 1..Len(attempts[j])
    BY <1>3, <1>4
  <2>2. \A i \in 1..Len(attempts[j]) : attempts[j][i] \in Attempt
    BY <2>1
  <2>3. \A x \in Attempt : [x EXCEPT !.status = "failed"] \in Attempt
                           /\ [x EXCEPT !.status = "failed"].status = "failed"
    BY DEF Attempt, AttemptStatus
  <2>4. \A i \in 1..Len(attempts[j]) :
          /\ closed[i] \in Attempt /\ closed[i].status # "started"
          /\ attempts[j][i].status # "started" => closed[i] = attempts[j][i]
    BY <2>1, <2>2, <2>3
  <2>5. \A i \in 1..Len(attempts[j]) : closed[i] \in Attempt
    BY <2>4
  <2>6. closed \in [1..Len(attempts[j]) -> Attempt]
    BY <2>1, <2>5
  <2>7. Len(attempts[j]) \in Nat
    BY <2>1
  <2>8. \A n \in Nat : \A f \in [1..n -> Attempt] : Len(f) = n
    OBVIOUS
  <2> HIDE DEF closed
  <2> QED BY <2>4, <2>6, <2>7, <2>8
<1> HIDE DEF closed
<1>5. \A k \in Jobs : attempts'[k] = IF k = j THEN closed ELSE attempts[k]
  BY <1>2 DEF AttemptInv
<1>6. ASSUME NEW k \in Jobs PROVE Settled(k)
  BY <1>2, <1>4, <1>5 DEF Settled
<1>7. ASSUME j \in Jobs
      PROVE  \A i \in 1..Len(attempts'[j]) : attempts'[j][i].status # "started"
  BY <1>4, <1>5, <1>7
<1> QED BY <1>1, <1>6, <1>7

\* Finalizing rewrites the worker's own started attempt, and a winner it chooses succeeded.
LEMMA FinalizedSettled ==
  ASSUME IInv, AttemptInv, NEW w \in Workers, FinalizeTx(w)
  PROVE  /\ \A k \in Jobs : Settled(k)
         /\ run'[w].pc = "failing" \/
              /\ run'[w].pc = "late" /\ run'[w].used = run[w].used
              /\ attempts'[JobOf(w)][run[w].att].status # "started"
              /\ run'[w].outcome = "succeeded" /\ OwnsUncancelled(w) =>
                   winner'[JobOf(w)] # 0
<1>1. PICK j, a : j = JobOf(w) /\ a = run[w].att
  OBVIOUS
<1>2. j \in Jobs /\ a \in 1..Len(attempts[j])
  BY <1>1 DEF FinalizeTx, At, AttemptInv
<1>3. run[w] \in RunState /\ run \in [Workers -> RunState]
  BY DEF AttemptInv
<1>4. CASE Goto(w, "failing") /\ UNCHANGED attemptVars
  <2>1. run'[w].pc = "failing"
    BY <1>3, <1>4 DEF Goto, RunState
  <2> QED BY <1>4, <2>1, UntouchedSettled
<1>5. CASE ~(Goto(w, "failing") /\ UNCHANGED attemptVars)
  <2>1. PICK s \in {"succeeded", "rejected", "failed"}, c \in Costs :
          /\ attempts[j][a].status = "started"
          /\ attempts' = [attempts EXCEPT ![j][a] = [status |-> s, cost |-> c]]
          /\ winner' = [winner EXCEPT ![j] =
                          IF OwnsUncancelled(w) /\ s = "succeeded" /\ @ = 0 THEN a ELSE @]
          /\ run' = [run EXCEPT ![w].pc = "late",
                       ![w].outcome = IF s = "succeeded" THEN "succeeded" ELSE "failed"]
    BY <1>1, <1>5 DEF FinalizeTx
  <2> DEFINE e == [status |-> s, cost |-> c]
             o == IF s = "succeeded" THEN "succeeded" ELSE "failed"
  <2>2. e.status = s /\ e \in Attempt
    BY CostsAssumption DEF Attempt, AttemptStatus
  <2>3. attempts[j] \in Seq(Attempt)
    BY <1>2 DEF AttemptInv
  <2> HIDE DEF e
  <2>4. /\ Len([attempts[j] EXCEPT ![a] = e]) = Len(attempts[j])
        /\ \A i \in 1..Len(attempts[j]) :
             [attempts[j] EXCEPT ![a] = e][i] = IF i = a THEN e ELSE attempts[j][i]
    BY <1>2, <2>2, <2>3
  <2>5. \A k \in Jobs : attempts'[k] = IF k = j THEN [attempts[j] EXCEPT ![a] = e] ELSE attempts[k]
    BY <2>1 DEF AttemptInv, e
  <2>6. winner \in [Jobs -> Nat]
    BY DEF AttemptInv
  <2>7. \A k \in Jobs : winner'[k] = IF k = j /\ OwnsUncancelled(w) /\ s = "succeeded"
                                        /\ winner[j] = 0 THEN a ELSE winner[k]
    BY <2>1, <2>6
  <2>8. ASSUME NEW k \in Jobs PROVE Settled(k)
    BY <1>2, <2>1, <2>2, <2>4, <2>5, <2>7 DEF Settled
  <2>9. /\ run'[w].pc = "late" /\ run'[w].used = run[w].used
        /\ run'[w].outcome = o
    BY <1>3, <2>1 DEF RunState
  <2>10. attempts'[j][a].status = s
    BY <1>2, <2>2, <2>4, <2>5
  <2>11. run'[w].outcome = "succeeded" /\ OwnsUncancelled(w) => winner'[j] # 0
    BY <1>2, <2>7, <2>9
  <2> QED BY <1>1, <2>8, <2>9, <2>10, <2>11
<1> QED BY <1>4, <1>5


\* Tx A starts an attempt for the owner, or the worker gives up.
LEMMA BeginCases ==
  ASSUME NEW w \in Workers, Begin(w)
  PROVE  Starts(w) \/ (GiveUp(w) /\ Reset(w) /\ UNCHANGED attemptVars)
  BY DEF Begin, Starts, attemptVars

\* A step that starts no attempt settles the attempts of every job.
LEMMA StepSettles ==
  ASSUME IInv, AttemptInv, [RunNext]_runVars, ~\E w \in Workers : Starts(w)
  PROVE  \A k \in Jobs : Settled(k)
<1>1. ASSUME NEW w \in Workers, ProcessStep(w) PROVE \A k \in Jobs : Settled(k)
  <2>1. CASE CloseOrphans(w)
    BY <2>1, ClosedSettled
  <2>2. CASE FinalizeTx(w)
    BY <2>2, FinalizedSettled
  <2>3. CASE Begin(w)
    BY <2>3, BeginCases, UntouchedSettled
  <2>4. CASE \/ \E j \in Jobs : Take(w, j)
             \/ Beat(w) \/ FinishFailed(w) \/ LoadWinners(w) \/ CountAttempts(w) \/ Respond(w)
             \/ LateReconcile(w) \/ PublishPlan(w) \/ RequeuePlan(w) \/ GiveBack(w) \/ Crash(w)
    BY <2>4, UntouchedSettled
    DEF Take, Beat, FinishFailed, LoadWinners, CountAttempts, Respond, LateReconcile,
        PublishPlan, RequeuePlan, GiveBack, Crash
  <2> QED BY <1>1, <2>1, <2>2, <2>3, <2>4
          DEF ProcessStep, Progress, RefusePolicy, FailPlan
<1>2. ASSUME NEW j \in Jobs, JobStep(j) PROVE \A k \in Jobs : Settled(k)
  BY <1>2, UntouchedSettled
  DEF JobStep, Submit, UserCancelRunning, UserCancelQueued, Sweep, Elapse
<1>3. CASE UNCHANGED runVars
  BY <1>3, UntouchedSettled DEF runVars
<1> QED BY <1>1, <1>2, <1>3 DEF RunNext

\* Starting an attempt touches no other job, and no other worker owns the job.
LEMMA StartSettles ==
  ASSUME IInv, AttemptInv, NEW w \in Workers, Starts(w)
  PROVE  /\ JobOf(w) \in Jobs
         /\ \A k \in Jobs \ {JobOf(w)} : Settled(k)
         /\ \A v \in Workers \ {w} : OwnsUncancelled(v) => JobOf(v) # JobOf(w)
<1>1. OwnsUncancelled(w)
  BY DEF Starts
<1>2. JobOf(w) \in Jobs
  BY <1>1, OwnedRow DEF OwnsUncancelled, JobOf
<1>3. \A k \in Jobs \ {JobOf(w)} : attempts'[k] = attempts[k] /\ winner' = winner
  BY <1>2 DEF Starts, AttemptInv
<1>4. ASSUME NEW v \in Workers \ {w}, OwnsUncancelled(v), JobOf(v) = JobOf(w) PROVE FALSE
  <2>1. held[v].token = held[w].token /\ Holds(v) /\ Holds(w)
    BY <1>1, <1>4 DEF OwnsUncancelled, OwnsLive, Matches, JobOf
  <2> QED BY <2>1 DEF IInv, TokensDiffer
<1> QED BY <1>2, <1>3, <1>4 DEF Settled

\* A worker that still owns its job, and has not moved, knows what it knew.
LEMMA InformedKept ==
  ASSUME AttemptInv, NEW v \in Workers, Informed(v), run'[v] = run[v],
         OwnsUncancelled(v)' => /\ held'[v] = held[v] /\ OwnsUncancelled(v)
                                /\ Settled(JobOf(v)) /\ JobOf(v) \in Jobs
  PROVE  Informed(v)'
<1> SUFFICES ASSUME OwnsUncancelled(v)' PROVE Informed(v)'
  BY DEF Informed
<1>1. PICK k : k = JobOf(v)
  OBVIOUS
<1>2. k \in Jobs /\ JobOf(v)' = k /\ OwnsUncancelled(v) /\ Settled(k)
  BY <1>1 DEF JobOf
<1>3. \A i \in 1..Len(attempts'[k]) :
        attempts'[k][i].status = "started" =>
          i \in 1..Len(attempts[k]) /\ attempts[k][i].status = "started"
  BY <1>2 DEF Settled
<1>4. Len(attempts'[k]) = Len(attempts[k]) /\ (winner[k] # 0 => winner'[k] # 0)
  BY <1>2 DEF Settled
<1> QED BY <1>1, <1>2, <1>3, <1>4 DEF Informed

\* The owner of a running job.
LEMMA OwnerHasJob ==
  ASSUME IInv, NEW v \in Workers, OwnsUncancelled(v) PROVE JobOf(v) \in Jobs
  BY OwnedRow DEF OwnsUncancelled, JobOf

\* Whoever acts, the other workers know what they knew.
LEMMA BystandersInformed ==
  ASSUME IInv, AttemptInv, [RunNext]_runVars, NEW v \in Workers, Informed(v),
         run'[v] = run[v], ~\E j \in Jobs : Claim(v, j), ~Starts(v)
  PROVE  Informed(v)'
<1>1. OwnsUncancelled(v)' => held'[v] = held[v] /\ OwnsUncancelled(v)
  BY RunStepIsJobStep, OwnershipNotRegained
<1>2. OwnsUncancelled(v)' => JobOf(v) \in Jobs
  BY <1>1, OwnerHasJob
<1>3. ASSUME OwnsUncancelled(v)' PROVE Settled(JobOf(v))
  <2>1. CASE \E w \in Workers : Starts(w)
    <3>1. PICK w \in Workers : Starts(w)
      BY <2>1
    <3>2. w # v
      BY <3>1
    <3> QED BY <1>1, <1>2, <1>3, <3>1, <3>2, StartSettles
  <2>2. CASE ~\E w \in Workers : Starts(w)
    BY <1>2, <1>3, <2>2, StepSettles
  <2> QED BY <2>1, <2>2
<1> QED BY <1>1, <1>2, <1>3, InformedKept

\* A worker at a step where nothing is remembered knows enough.
LEMMA InformedIdle ==
  ASSUME NEW v \in Workers, run'[v].pc \in {"idle", "claimed", "failing", "requeue"}
  PROVE  Informed(v)'
  BY DEF Informed


\* The worker that starts an attempt counts it, and it is the only one in flight.
LEMMA StarterInformed ==
  ASSUME IInv, AttemptInv, NEW w \in Workers, Informed(w), Starts(w)
  PROVE  /\ Informed(w)'
         /\ Len(attempts'[JobOf(w)]) = Len(attempts[JobOf(w)]) + 1
         /\ \A i \in 1..Len(attempts[JobOf(w)]) :
              attempts'[JobOf(w)][i] = attempts[JobOf(w)][i]
         /\ Len(attempts[JobOf(w)]) < Cap
<1>1. PICK j : j = JobOf(w)
  OBVIOUS
<1> DEFINE e == [status |-> "started", cost |-> 0]
<1>2. j \in Jobs /\ OwnsUncancelled(w) /\ JobOf(w)' = j
  BY <1>1, StartSettles DEF Starts, jobVars, JobOf
<1>3. attempts[j] \in Seq(Attempt) /\ e \in Attempt
  BY <1>2 DEF AttemptInv, Attempt, AttemptStatus
<1>4. attempts'[j] = Append(attempts[j], e)
  BY <1>1, <1>2 DEF Starts, AttemptInv
<1> HIDE DEF e
<1>5. /\ Len(attempts'[j]) = Len(attempts[j]) + 1 /\ Len(attempts[j]) \in Nat
      /\ \A i \in 1..Len(attempts[j]) : attempts'[j][i] = attempts[j][i]
  BY <1>3, <1>4
<1>6. /\ run'[w].pc = "calling" /\ run'[w].used = run[w].used + 1
      /\ run'[w].att = Len(attempts[j]) + 1 /\ run[w].used < Cap
  BY <1>1 DEF Starts, AttemptInv, RunState
<1>7. /\ run[w].used = Len(attempts[j])
      /\ \A i \in 1..Len(attempts[j]) : attempts[j][i].status # "started"
  BY <1>1, <1>2 DEF Informed, Starts, At
<1>8. \A i \in 1..Len(attempts'[j]) : attempts'[j][i].status = "started" => i = run'[w].att
  BY <1>5, <1>6, <1>7
<1>9. Informed(w)'
  BY <1>2, <1>5, <1>6, <1>7, <1>8 DEF Informed
<1> QED BY <1>1, <1>5, <1>6, <1>7, <1>9

\* After every other step of a worker, what it remembers is still what the rows say.
LEMMA MoverInformed ==
  ASSUME IInv, AttemptInv, NEW w \in Workers, Informed(w), UNCHANGED jobVars,
         \/ CloseOrphans(w) \/ LoadWinners(w) \/ CountAttempts(w) \/ Respond(w)
         \/ FinalizeTx(w) \/ LateReconcile(w)
  PROVE  Informed(w)'
<1> SUFFICES ASSUME OwnsUncancelled(w)' PROVE Informed(w)'
  BY DEF Informed
<1>1. PICK j : j = JobOf(w)
  OBVIOUS
<1>2. OwnsUncancelled(w) /\ JobOf(w)' = j
  BY <1>1 DEF OwnsUncancelled, OwnsLive, Matches, Holds, JobOf, jobVars
<1>3. j \in Jobs
  BY <1>1, <1>2, OwnerHasJob
<1>4. run[w] \in RunState /\ run \in [Workers -> RunState]
  BY DEF AttemptInv
<1>5. CASE CloseOrphans(w)
  <2>1. \A i \in 1..Len(attempts'[j]) : attempts'[j][i].status # "started"
    BY <1>1, <1>3, <1>5, ClosedSettled
  <2>2. run'[w].pc = "closed"
    BY <1>4, <1>5 DEF CloseOrphans, Goto, RunState
  <2> QED BY <1>2, <2>1, <2>2 DEF Informed
<1>6. CASE LoadWinners(w)
  <2>1. attempts' = attempts /\ winner' = winner /\ At(w, "closed")
    BY <1>6 DEF LoadWinners, attemptVars
  <2>2. run'[w].pc = "loaded" /\ (run'[w].outcome = "succeeded" => winner[j] # 0)
    BY <1>1, <1>4, <1>6 DEF LoadWinners, RunState
  <2> QED BY <1>1, <1>2, <2>1, <2>2 DEF Informed, At
<1>7. CASE CountAttempts(w)
  <2>1. attempts' = attempts /\ winner' = winner /\ At(w, "loaded")
    BY <1>7 DEF CountAttempts, attemptVars
  <2>2. /\ run'[w].pc = "deciding" /\ run'[w].outcome = run[w].outcome
        /\ run'[w].used = Len(attempts[j])
    BY <1>1, <1>4, <1>7 DEF CountAttempts, RunState
  <2> QED BY <1>1, <1>2, <2>1, <2>2 DEF Informed, At
<1>8. CASE Respond(w)
  <2>1. attempts' = attempts /\ winner' = winner /\ At(w, "calling")
    BY <1>8 DEF Respond, attemptVars
  <2>2. PICK p \in {"requeue", "responded"}, reply \in Reply :
          run' = [run EXCEPT ![w].pc = p, ![w].reply = reply]
    BY <1>8, RepliesAssumption DEF Respond
  <2>3. run'[w].pc = p /\ run'[w].used = run[w].used /\ run'[w].att = run[w].att
    BY <1>4, <2>2 DEF RunState
  <2> QED BY <1>1, <1>2, <2>1, <2>3 DEF Informed, At
<1>9. CASE FinalizeTx(w)
  <2>1. CASE run'[w].pc = "failing"
    BY <2>1, InformedIdle
  <2>2. CASE run'[w].pc # "failing"
    <3>1. /\ run'[w].pc = "late" /\ run'[w].used = run[w].used
          /\ attempts'[j][run[w].att].status # "started"
          /\ run'[w].outcome = "succeeded" => winner'[j] # 0
      BY <1>1, <1>2, <1>9, <2>2, FinalizedSettled
    <3>2. Settled(j) /\ At(w, "responded")
      BY <1>3, <1>9, FinalizedSettled DEF FinalizeTx
    <3>3. /\ run[w].used = Len(attempts[j])
          /\ \A i \in 1..Len(attempts[j]) :
               attempts[j][i].status = "started" => i = run[w].att
      BY <1>1, <1>2, <3>2 DEF Informed, At
    <3>4. \A i \in 1..Len(attempts'[j]) : attempts'[j][i].status # "started"
      BY <3>1, <3>2, <3>3 DEF Settled
    <3>5. Len(attempts'[j]) = Len(attempts[j])
      BY <3>2 DEF Settled
    <3> QED BY <1>2, <3>1, <3>3, <3>4, <3>5 DEF Informed
  <2> QED BY <2>1, <2>2
<1>10. CASE LateReconcile(w)
  <2>1. attempts' = attempts /\ winner' = winner /\ At(w, "late")
    BY <1>10 DEF LateReconcile, attemptVars
  <2>2. run'[w].pc = "deciding" /\ run'[w].used = run[w].used /\ run'[w].outcome = run[w].outcome
    BY <1>4, <1>10 DEF LateReconcile, Goto, RunState
  <2> QED BY <1>1, <1>2, <2>1, <2>2 DEF Informed, At
<1> QED BY <1>5, <1>6, <1>7, <1>8, <1>9, <1>10

\* A chosen winner succeeded, and the ceiling holds, after every step.
LEMMA AttemptsBounded ==
  ASSUME IInv, AttemptInv, PlanInv, [RunNext]_runVars PROVE WinnerSucceeded' /\ CapHolds'
<1>1. ASSUME NEW k \in Jobs, Settled(k)
      PROVE  /\ winner'[k] # 0 => attempts'[k][winner'[k]].status = "succeeded"
             /\ Len(attempts'[k]) <= Cap
  <2>1. Len(attempts'[k]) <= Cap
    BY <1>1 DEF Settled, PlanInv, CapHolds
  <2>2. CASE winner'[k] = winner[k] /\ winner[k] # 0
    <3>1. attempts[k][winner[k]].status = "succeeded" /\ winner[k] \in 1..Len(attempts[k])
      BY <2>2 DEF PlanInv, WinnerSucceeded, AttemptInv
    <3> QED BY <1>1, <2>1, <2>2, <3>1 DEF Settled
  <2> QED BY <1>1, <2>1, <2>2 DEF Settled
<1>2. CASE ~\E w \in Workers : Starts(w)
  <2>1. \A k \in Jobs : Settled(k)
    BY <1>2, StepSettles
  <2> QED BY <1>1, <2>1 DEF WinnerSucceeded, CapHolds
<1>3. ASSUME NEW w \in Workers, Starts(w) PROVE WinnerSucceeded' /\ CapHolds'
  <2>1. PICK j : j = JobOf(w)
    OBVIOUS
  <2>2. j \in Jobs /\ \A k \in Jobs \ {j} : Settled(k)
    BY <1>3, <2>1, StartSettles
  <2>3. /\ Len(attempts'[j]) = Len(attempts[j]) + 1 /\ Len(attempts[j]) < Cap
        /\ \A i \in 1..Len(attempts[j]) : attempts'[j][i] = attempts[j][i]
    BY <1>3, <2>1, StarterInformed DEF PlanInv
  <2>4. Len(attempts[j]) \in Nat /\ winner[j] <= Len(attempts[j]) /\ winner[j] \in Nat
    BY <2>2 DEF AttemptInv
  <2>5. winner'[j] # 0 => attempts'[j][winner'[j]].status = "succeeded"
    <3>1. winner' = winner
      BY <1>3 DEF Starts
    <3>2. winner[j] # 0 => attempts[j][winner[j]].status = "succeeded"
      BY <2>2 DEF PlanInv, WinnerSucceeded
    <3> QED BY <2>3, <2>4, <3>1, <3>2
  <2>6. Len(attempts'[j]) <= Cap
    BY <2>3, <2>4, CapAssumption
  <2> QED BY <1>1, <2>2, <2>5, <2>6 DEF WinnerSucceeded, CapHolds
<1> QED BY <1>2, <1>3

\* Every step keeps what owners know, the winners and the ceiling.
LEMMA NextPlanInv ==
  ASSUME IInv, AttemptInv, PlanInv, [RunNext]_runVars PROVE PlanInv'
<1>1. WinnerSucceeded' /\ CapHolds'
  BY AttemptsBounded
<1>2. held \in [Workers -> Identity] /\ run \in [Workers -> RunState]
  BY DEF IInv, TypeOK, AttemptInv
<1>3. ASSUME NEW v \in Workers, run'[v] = run[v], held'[v] = held[v] PROVE Informed(v)'
  <2>1. ~\E j \in Jobs : Claim(v, j)
    <3>1. ASSUME NEW j \in Jobs, Claim(v, j) PROVE FALSE
      <4>1. held[v].job = NoJob /\ held'[v].job = j
        BY <1>2, <3>1 DEF Claim, Holds
      <4> QED BY <1>3, <4>1, NoJobAssumption
    <3> QED BY <3>1
  <2>2. ~Starts(v)
    <3>1. Starts(v) => run[v].pc = "deciding" /\ run'[v].pc = "calling"
      BY <1>2 DEF Starts, At, RunState
    <3> QED BY <1>3, <3>1
  <2> QED BY <1>3, <2>1, <2>2, BystandersInformed DEF PlanInv
<1>4. ASSUME UNCHANGED <<run, held>> PROVE \A v \in Workers : Informed(v)'
  BY <1>3, <1>4
<1>5. ASSUME NEW w \in Workers, ProcessStep(w) PROVE \A v \in Workers : Informed(v)'
  <2>1. ASSUME NEW r \in RunState, run' = [run EXCEPT ![w] = r],
               Drop(w) \/ UNCHANGED held \/ \E j \in Jobs : Claim(w, j), Informed(w)'
        PROVE  \A v \in Workers : Informed(v)'
    <3>1. ASSUME NEW v \in Workers \ {w} PROVE run'[v] = run[v] /\ held'[v] = held[v]
      BY <1>2, <2>1 DEF Drop, Claim
    <3> QED BY <1>3, <2>1, <3>1
  <2>2. CASE Beat(w) \/ GiveBack(w)
    BY <1>4, <2>2 DEF Beat, GiveBack, Heartbeat, ShutdownRequeue
  <2>3. ASSUME Reset(w), GiveUp(w) \/ Requeue(w) \/ Publish(w) \/ Finish(w, "failed")
        PROVE  \A v \in Workers : Informed(v)'
    <3>1. IdleRun \in RunState /\ IdleRun.pc = "idle" /\ run' = [run EXCEPT ![w] = IdleRun]
      BY <2>3 DEF IdleRun, RunState, Step, Reply, Reset
    <3>2. run'[w].pc = "idle"
      BY <1>2, <3>1
    <3> QED BY <2>1, <2>3, <3>1, <3>2, InformedIdle DEF GiveUp, Requeue, Publish, Finish
  <2>4. CASE FinishFailed(w) \/ RequeuePlan(w) \/ Crash(w) \/ PublishPlan(w)
    BY <2>3, <2>4 DEF FinishFailed, RequeuePlan, Crash, PublishPlan
  <2>5. CASE \E j \in Jobs : Take(w, j)
    <3> DEFINE q == [run[w] EXCEPT !.pc = "claimed"]
    <3>1. q \in RunState /\ q.pc = "claimed"
      BY <1>2 DEF RunState, Step
    <3>2. run' = [run EXCEPT ![w] = q] /\ \E j \in Jobs : Claim(w, j)
      BY <2>5 DEF Take, Goto
    <3> HIDE DEF q
    <3>3. run'[w].pc = "claimed"
      BY <1>2, <3>1, <3>2
    <3> QED BY <2>1, <3>1, <3>2, <3>3, InformedIdle
  <2>6. ASSUME UNCHANGED held, Informed(w)', \A v \in Workers \ {w} : run'[v] = run[v]
        PROVE  \A v \in Workers : Informed(v)'
    BY <1>3, <2>6
  <2>7. CASE Begin(w)
    <3>1. CASE Starts(w)
      <4>1. Informed(w)'
        BY <3>1, StarterInformed DEF PlanInv
      <4> QED BY <1>2, <2>6, <3>1, <4>1 DEF Starts, jobVars
    <3>2. CASE GiveUp(w) /\ Reset(w)
      BY <2>3, <3>2
    <3> QED BY <2>7, <3>1, <3>2, BeginCases
  <2>8. CASE \/ CloseOrphans(w) \/ LoadWinners(w) \/ CountAttempts(w) \/ Respond(w)
             \/ FinalizeTx(w) \/ LateReconcile(w)
    <3>1. UNCHANGED jobVars
      BY <2>8 DEF CloseOrphans, LoadWinners, CountAttempts, Respond, FinalizeTx, LateReconcile
    <3>2. Informed(w)'
      BY <2>8, <3>1, MoverInformed DEF PlanInv
    <3>3. \A v \in Workers \ {w} : run'[v] = run[v]
      BY <1>2, <2>8
      DEF CloseOrphans, LoadWinners, CountAttempts, Respond, FinalizeTx, LateReconcile, Goto
    <3> QED BY <2>6, <3>1, <3>2, <3>3 DEF jobVars
  <2> QED BY <1>5, <2>2, <2>4, <2>5, <2>7, <2>8
          DEF ProcessStep, Progress, RefusePolicy, FailPlan
<1>6. ASSUME NEW j \in Jobs, JobStep(j) PROVE UNCHANGED <<run, held>>
  BY <1>6 DEF JobStep, Submit, UserCancelRunning, UserCancelQueued, Sweep, Elapse, Insert,
              RequestRunningCancellation, CancelQueued, Reclaim, Tick
<1>7. ASSUME UNCHANGED runVars PROVE UNCHANGED <<run, held>>
  BY <1>7 DEF runVars, jobVars
<1> QED BY <1>1, <1>4, <1>5, <1>6, <1>7 DEF RunNext, PlanInv

-----------------------------------------------------------------------------
\* What the end of a job without output does to its money: nothing more is settled,
\* nothing released is taken back, and a closed reservation is left as it is.
Returned(old, oldLedger, new, newLedger) ==
  /\ new.status # "open"
  /\ new.settled = old.settled /\ new.reserved = old.reserved
  /\ new.released >= old.released
  /\ old.status \in ClosedStatus => new = old /\ newLedger = oldLedger

\* The terminal reconciliation with the recorded settlement does just that, and closes
\* an open reservation when no attempt is in flight.
LEMMA ReconcileReturns ==
  ASSUME AttemptInv, MoneyInv, NEW j \in Jobs, job[j].status # "absent",
         NEW reason \in {"released", "cancelled"}, NEW out,
         out = Reconciled(j, charge[j], reason, "final-close")
  PROVE  /\ Returned(res[j], ledger[j], out.res, out.ledger)
         /\ Unresolved(j) = 0 /\ reason = "released" /\ res[j].status = "open" =>
              out.res.status \in {"settled", "released"}
<1>1. Unresolved(j) \in Nat
  BY UnresolvedNat
<1>2. /\ Sound(res[j], ledger[j], terms[j].paid) /\ charge[j] \in Nat
      /\ charge[j] = res[j].settled /\ terms[j].paid \in BOOLEAN
      /\ res[j].settled > 0 => terms[j].paid
  BY DEF MoneyInv, MoneyOf
<1>3. PICK n : n = Unresolved(j)
  OBVIOUS
<1>4. out = Reconcile(res[j], ledger[j], terms[j].paid, charge[j], n, reason, "final-close")
  BY <1>3 DEF Reconciled
<1>5. out.ok /\ out.res.released >= res[j].released /\ out.res.reserved = res[j].reserved
  BY <1>1, <1>2, <1>3, <1>4, ReconcileSound
<1>6. out.res.settled = charge[j]
  BY ReconcileRecorded
<1> DEFINE t == Targets(res[j].reserved, IF terms[j].paid THEN charge[j] ELSE 0, n)
<1>7. res[j].status \in ClosedStatus => out.res = res[j] /\ out.ledger = ledger[j]
  BY <1>4 DEF Reconcile
<1>8. res[j].status \notin ClosedStatus => out.res = TargetApplied(res[j], t, reason)
  BY <1>4, <1>5 DEF Reconcile
<1>9. "open" \notin ClosedStatus
  BY DEF ClosedStatus
<1>10. DerivedStatus(t, reason) # "open"
  BY DEF DerivedStatus
<1>11. out.res.status # "open"
  BY <1>7, <1>8, <1>9, <1>10 DEF TargetApplied
<1>12. n = 0 => DerivedStatus(t, "released") \in {"settled", "released"}
  BY DEF Targets, DerivedStatus
<1>13. n = 0 /\ reason = "released" /\ res[j].status = "open" =>
         out.res.status \in {"settled", "released"}
  BY <1>8, <1>9, <1>12 DEF TargetApplied
<1> QED BY <1>2, <1>3, <1>5, <1>6, <1>7, <1>11, <1>13 DEF Returned

\* Releasing a queued job's open reservation returns all of it.
LEMMA ReleaseQueuedReturns ==
  ASSUME MoneyInv, NEW j \in Jobs, job[j].status # "absent", NEW out,
         out = ReleaseQueued(res[j], ledger[j]), out.ok
  PROVE  Returned(res[j], ledger[j], out.res, out.ledger)
<1>1. Sound(res[j], ledger[j], terms[j].paid)
  BY DEF MoneyInv, MoneyOf
<1>2. res[j] \in Reservation /\ Conserved(res[j])
  BY <1>1 DEF Sound
<1>3. \A x \in Reservation : Conserved(x) =>
        /\ x.released \in Nat /\ x.reserved \in Nat /\ x.released <= x.reserved
        /\ x.status = "open" => x.settled = 0
  BY DEF Reservation, Conserved
<1>4. "open" \notin ClosedStatus
  BY DEF ClosedStatus
<1> QED BY <1>2, <1>3, <1>4 DEF ReleaseQueued, Returned

\* Settling usable output closes the open reservation at the winner's cost.
LEMMA UsableSettles ==
  ASSUME AttemptInv, MoneyInv, NEW w \in Workers, JobOf(w) \in Jobs,
         job[JobOf(w)].status # "absent", PublishUsable(w), Unresolved(JobOf(w)) = 0,
         NEW j, j = JobOf(w)
  PROVE  /\ res[j].status = "open" /\ winner[j] # 0
         /\ res'[j].status \in {"settled", "released"}
         /\ res'[j].reserved = res[j].reserved
         /\ res'[j].settled >= res[j].settled /\ res'[j].released >= res[j].released
         /\ res'[j].settled > 0 => terms[j].paid /\ res'[j].settled = UserCharge(j)
         /\ \A k \in Jobs \ {j} : res'[k] = res[k] /\ ledger'[k] = ledger[k]
<1> DEFINE kind == IF terms[j].paid THEN "invocation_completed" ELSE "final-close"
<1>1. PICK u : u = UserCharge(j)
  OBVIOUS
<1>2. PICK out : out = Reconciled(j, u, "released", kind)
  OBVIOUS
<1>3. /\ Sound(res[j], ledger[j], terms[j].paid) /\ terms[j].paid \in BOOLEAN /\ j \in Jobs
      /\ res \in [Jobs -> Reservation \cup {NoReservation}] /\ ledger \in [Jobs -> Ledger]
  BY DEF MoneyInv, MoneyOf
<1>4. /\ Settleable(j) /\ out.ok
      /\ res' = [res EXCEPT ![j] = out.res] /\ ledger' = [ledger EXCEPT ![j] = out.ledger]
  BY <1>1, <1>2 DEF PublishUsable, Commit
<1>5. res[j].status = "open" /\ winner[j] # 0
  BY <1>4 DEF Settleable
<1>6. res[j].settled = 0 /\ res[j].reserved \in Nat
  <2>1. res[j] \in Reservation /\ Conserved(res[j])
    BY <1>3 DEF Sound
  <2>2. \A x \in Reservation : Conserved(x) /\ x.status = "open" =>
          x.settled = 0 /\ x.reserved \in Nat
    BY DEF Reservation, Conserved
  <2> QED BY <1>5, <2>1, <2>2
<1>7. u \in Nat /\ u <= res[j].reserved
  <2>1. winner[j] \in 1..Len(attempts[j]) /\ attempts[j] \in Seq(Attempt)
    BY <1>3, <1>5 DEF AttemptInv
  <2>2. attempts[j][winner[j]] \in Attempt
    BY <2>1
  <2>3. attempts[j][winner[j]].cost \in Nat
    BY <2>2 DEF Attempt
  <2> QED BY <1>1, <1>6, <2>3 DEF UserCharge, Least
<1>8. out = Reconcile(res[j], ledger[j], terms[j].paid, u, 0, "released", kind)
  BY <1>2 DEF Reconciled
<1>9. /\ out.res.settled >= res[j].settled /\ out.res.released >= res[j].released
      /\ out.res.reserved = res[j].reserved
      /\ res[j].status \in ClosedStatus \/
           out.res.settled = (IF terms[j].paid THEN Least(u, res[j].reserved) ELSE 0)
  BY <1>3, <1>6, <1>7, <1>8, ReconcileSound
<1>10. "open" \notin ClosedStatus
  BY DEF ClosedStatus
<1>11. Least(u, res[j].reserved) = u
  BY <1>6, <1>7 DEF Least
<1>12. out.res.settled > 0 => terms[j].paid /\ out.res.settled = u
  BY <1>5, <1>9, <1>10, <1>11
<1>13. out.res.status \in {"settled", "released"}
  <2> DEFINE t == Targets(res[j].reserved, IF terms[j].paid THEN u ELSE 0, 0)
  <2>1. out.res = TargetApplied(res[j], t, "released")
    BY <1>4, <1>5, <1>8, <1>10 DEF Reconcile
  <2>2. DerivedStatus(t, "released") \in {"settled", "released"}
    BY DEF Targets, DerivedStatus
  <2> QED BY <2>1, <2>2 DEF TargetApplied
<1>14. res'[j] = out.res /\ \A k \in Jobs \ {j} : res'[k] = res[k] /\ ledger'[k] = ledger[k]
  BY <1>3, <1>4
<1> QED BY <1>1, <1>5, <1>9, <1>12, <1>13, <1>14


\* What one step may do to a job, its hold and its publication: nothing but moving an
\* unfinished job between queue and worker,
Quiet(k) ==
  /\ res'[k] = res[k] /\ ledger'[k] = ledger[k]
  /\ published'[k] = published[k] /\ terms'[k] = terms[k]
  /\ \/ job'[k].status = job[k].status
     \/ {job[k].status, job'[k].status} \subseteq {"queued", "running"}

\* open the hold with the job,
Opens(k) ==
  /\ job[k].status = "absent" /\ job'[k].status = "queued"
  /\ res'[k] = OpenReservation(Reserved) /\ ledger'[k] = ledger[k]

\* end the job, or find it ended, without output,
Ends(k) ==
  /\ job[k].status # "absent" /\ job'[k].status \in TerminalStatus
  /\ job'[k].status = "succeeded" => job[k].status = "succeeded"
  /\ published'[k] = published[k] /\ terms'[k] = terms[k]
  /\ Returned(res[k], ledger[k], res'[k], ledger'[k])

\* or publish its output and close the hold.
Pays(k) ==
  /\ job'[k].status = "succeeded" /\ published'[k] = 1 /\ terms'[k] = terms[k]
  /\ res[k].status = "open" /\ res'[k].status \in {"settled", "released"}
  /\ res'[k].reserved = res[k].reserved
  /\ res'[k].settled >= res[k].settled /\ res'[k].released >= res[k].released
  /\ res'[k].settled > 0 =>
       terms[k].paid /\ winner[k] # 0 /\ res'[k].settled = UserCharge(k)

Moves(k) == Quiet(k) \/ Opens(k) \/ Ends(k) \/ Pays(k)

\* A step that leaves the money and the existence of an outcome alone is quiet.
LEMMA QuietMoves ==
  ASSUME UNCHANGED <<terms, res, ledger, published>>,
         \A k \in Jobs : \/ job'[k] = job[k]
                         \/ {job[k].status, job'[k].status} \subseteq {"queued", "running"}
  PROVE  \A k \in Jobs : Moves(k)
  BY DEF Moves, Quiet

\* A step that moves one job and leaves the others alone moves all of them.
LEMMA OneMoves ==
  ASSUME NEW j \in Jobs, Moves(j),
         \A k \in Jobs \ {j} :
           /\ job'[k] = job[k] /\ published'[k] = published[k] /\ terms'[k] = terms[k]
           /\ res'[k] = res[k] /\ ledger'[k] = ledger[k]
  PROVE  \A k \in Jobs : Moves(k)
  BY DEF Moves, Quiet

\* A committed reconciliation of a job that the same transaction ends.
LEMMA CommitMoves ==
  ASSUME MoneyInv, NEW j \in Jobs, job[j].status # "absent", NEW out, Commit(j, out),
         Returned(res[j], ledger[j], out.res, out.ledger),
         job'[j].status \in TerminalStatus,
         job'[j].status = "succeeded" => job[j].status = "succeeded",
         UNCHANGED <<terms, published>>, \A k \in Jobs \ {j} : job'[k] = job[k]
  PROVE  \A k \in Jobs : Moves(k)
<1>1. /\ res' = [res EXCEPT ![j] = out.res] /\ ledger' = [ledger EXCEPT ![j] = out.ledger]
      /\ res \in [Jobs -> Reservation \cup {NoReservation}] /\ ledger \in [Jobs -> Ledger]
  BY DEF Commit, MoneyInv
<1>2. /\ res'[j] = out.res /\ ledger'[j] = out.ledger
      /\ \A k \in Jobs \ {j} : res'[k] = res[k] /\ ledger'[k] = ledger[k]
  BY <1>1
<1>3. Ends(j)
  BY <1>2 DEF Ends
<1> QED BY <1>2, <1>3, OneMoves DEF Moves

\* The row that a terminal transition writes.
LEMMA TerminalWrite ==
  ASSUME IInv, NEW j \in Jobs, NEW s, job' = [job EXCEPT ![j] = Terminated(@, s)]
  PROVE  job'[j].status = s /\ \A k \in Jobs \ {j} : job'[k] = job[k]
  BY DEF IInv, TypeOK, Terminated

\* A failing finish ends the job and returns its hold.
LEMMA FinishFailedMoves ==
  ASSUME IInv, AttemptInv, MoneyInv, NEW w \in Workers, FinishFailed(w)
  PROVE  \A k \in Jobs : Moves(k)
<1>1. CASE /\ Finish(w, "failed")
           /\ Commit(JobOf(w), Reconciled(JobOf(w), charge[JobOf(w)], "released", "final-close"))
  <2>1. PICK j : j = JobOf(w)
    OBVIOUS
  <2>2. j \in Jobs /\ job[j].status = "running"
    BY <1>1, <2>1, OwnedRow DEF Finish, JobOf
  <2>3. PICK out : out = Reconciled(j, charge[j], "released", "final-close")
    OBVIOUS
  <2>4. Commit(j, out) /\ Returned(res[j], ledger[j], out.res, out.ledger)
    BY <1>1, <2>1, <2>2, <2>3, ReconcileReturns
  <2>5. job' = [job EXCEPT ![j] = Terminated(@, "failed")] /\ UNCHANGED <<terms, published>>
    BY <1>1, <2>1 DEF FinishFailed, Finish, JobOf
  <2>6. job'[j].status = "failed" /\ \A k \in Jobs \ {j} : job'[k] = job[k]
    BY <2>2, <2>5, TerminalWrite
  <2> QED BY <2>2, <2>4, <2>5, <2>6, CommitMoves DEF TerminalStatus
<1>2. CASE GiveUp(w) /\ UNCHANGED <<res, ledger>>
  BY <1>2, QuietMoves DEF FinishFailed, GiveUp
<1> QED BY <1>1, <1>2 DEF FinishFailed

\* A late reconciliation finds the job ended.
LEMMA LateMoves ==
  ASSUME IInv, AttemptInv, MoneyInv, NEW w \in Workers, LateReconcile(w)
  PROVE  \A k \in Jobs : Moves(k)
<1>1. PICK j : j = JobOf(w)
  OBVIOUS
<1>2. PICK reason \in {"released", "cancelled"} :
        reason = IF job[j].status = "cancelled" THEN "cancelled" ELSE "released"
  OBVIOUS
<1>3. PICK out : out = Reconciled(j, charge[j], reason, "final-close")
  OBVIOUS
<1>4. UNCHANGED <<terms, published, job>>
  BY DEF LateReconcile, jobVars
<1>5. CASE Terminal(j) /\ Commit(j, out)
  <2>1. CASE j \in Jobs
    <3>1. job[j].status # "absent" /\ job[j].status \in TerminalStatus
      BY <1>5 DEF Terminal, TerminalStatus
    <3>2. Returned(res[j], ledger[j], out.res, out.ledger)
      BY <1>3, <2>1, <3>1, ReconcileReturns
    <3> QED BY <1>4, <1>5, <2>1, <3>1, <3>2, CommitMoves
  <2>2. CASE j \notin Jobs
    <3>1. res' = res /\ ledger' = ledger
      BY <1>5, <2>2 DEF Commit, MoneyInv
    <3> QED BY <1>4, <3>1, QuietMoves
  <2> QED BY <2>1, <2>2
<1>6. CASE UNCHANGED <<res, ledger>>
  BY <1>4, <1>6, QuietMoves
<1> QED BY <1>1, <1>2, <1>3, <1>5, <1>6 DEF LateReconcile


\* The owner that completes the plan finds what settlement requires.
LEMMA OwnerCanSettle ==
  ASSUME IInv, AttemptInv, PlanInv, HoldFollowsJob, NEW w \in Workers,
         At(w, "deciding"), run[w].outcome = "succeeded", OwnsUncancelled(w)
  PROVE  /\ JobOf(w) \in Jobs /\ job[JobOf(w)].status = "running"
         /\ Settleable(JobOf(w)) /\ Unresolved(JobOf(w)) = 0
<1>1. PICK j : j = JobOf(w)
  OBVIOUS
<1>2. j \in Jobs /\ job[j].status = "running"
  BY <1>1, OwnedRow DEF OwnsUncancelled, JobOf
<1>3. winner[j] # 0 /\ \A i \in 1..Len(attempts[j]) : attempts[j][i].status # "started"
  BY <1>1 DEF PlanInv, Informed, At
<1>4. attempts[j][winner[j]].status = "succeeded"
  BY <1>2, <1>3 DEF PlanInv, WinnerSucceeded
<1>5. res[j].status = "open"
  BY <1>2 DEF HoldFollowsJob, OpenReservation
<1>6. Unresolved(j) = 0
  <2>1. {i \in 1..Len(attempts[j]) : attempts[j][i].status = "started"} = {}
    BY <1>3
  <2> QED BY <2>1, FS_EmptySet DEF Unresolved
<1> QED BY <1>1, <1>2, <1>3, <1>4, <1>5, <1>6 DEF Settleable

\* A publication closes the hold of the job that it ends, a lost row changes nothing.
LEMMA PublishMoves ==
  ASSUME IInv, AttemptInv, MoneyInv, PlanInv, HoldFollowsJob, NEW w \in Workers,
         PublishPlan(w)
  PROVE  \A k \in Jobs : Moves(k)
<1>1. PICK j : j = JobOf(w)
  OBVIOUS
<1>2. CASE GiveUp(w) /\ UNCHANGED moneyVars
  BY <1>2, QuietMoves DEF PublishPlan, GiveUp, moneyVars
<1>3. CASE Publish(w) /\ (PublishUsable(w) \/ PublishWithoutOutput(w))
  <2>1. /\ j \in Jobs /\ job[j].status = "running" /\ Unresolved(j) = 0
        /\ published[j] = 0 /\ published' = [published EXCEPT ![j] = @ + 1]
        /\ job' = [job EXCEPT ![j] = Terminated(@, "succeeded")] /\ UNCHANGED terms
    <3>1. OwnsUncancelled(w) /\ At(w, "deciding") /\ run[w].outcome = "succeeded"
      BY <1>3 DEF PublishPlan, Publish
    <3>2. published[j] = 0
      BY <1>1, <3>1, OwnedRow DEF OwnsUncancelled, JobOf
    <3> QED BY <1>1, <1>3, <3>1, <3>2, OwnerCanSettle DEF Publish, PublishPlan, JobOf
  <2>2. job'[j].status = "succeeded" /\ \A k \in Jobs \ {j} : job'[k] = job[k]
    BY <2>1, TerminalWrite
  <2>3. published'[j] = 1 /\ \A k \in Jobs \ {j} : published'[k] = published[k]
    BY <2>1 DEF IInv, TypeOK
  <2>4. CASE PublishUsable(w)
    <3>1. Pays(j) /\ \A k \in Jobs \ {j} : res'[k] = res[k] /\ ledger'[k] = ledger[k]
      BY <1>1, <2>1, <2>2, <2>3, <2>4, UsableSettles DEF Pays
    <3> QED BY <2>1, <2>2, <2>3, <3>1, OneMoves DEF Moves
  <2>5. CASE PublishWithoutOutput(w)
    <3>1. PICK out : out = Reconciled(j, charge[j], "released", "final-close")
      OBVIOUS
    <3>2. res[j].status = "open" /\ res[j].settled = 0
      BY <2>1 DEF HoldFollowsJob, OpenReservation
    <3>3. Returned(res[j], ledger[j], out.res, out.ledger)
          /\ out.res.status \in {"settled", "released"}
      BY <2>1, <3>1, <3>2, ReconcileReturns
    <3>4. /\ res' = [res EXCEPT ![j] = out.res] /\ ledger' = [ledger EXCEPT ![j] = out.ledger]
          /\ res \in [Jobs -> Reservation \cup {NoReservation}] /\ ledger \in [Jobs -> Ledger]
      BY <1>1, <2>5, <3>1 DEF PublishWithoutOutput, Commit, MoneyInv
    <3>5. res'[j] = out.res /\ \A k \in Jobs \ {j} : res'[k] = res[k] /\ ledger'[k] = ledger[k]
      BY <2>1, <3>4
    <3>6. Pays(j)
      BY <2>1, <2>2, <2>3, <3>2, <3>3, <3>5 DEF Pays, Returned
    <3> QED BY <2>1, <2>2, <2>3, <3>5, <3>6, OneMoves DEF Moves
  <2> QED BY <1>3, <2>4, <2>5
<1> QED BY <1>2, <1>3 DEF PublishPlan

\* Users, the sweeper and the clock open a hold, end a job or are quiet.
LEMMA JobStepMoves ==
  ASSUME IInv, AttemptInv, MoneyInv, NEW j \in Jobs, JobStep(j)
  PROVE  \A k \in Jobs : Moves(k)
<1>1. /\ job \in [Jobs -> JobRow] /\ res \in [Jobs -> Reservation \cup {NoReservation}]
      /\ ledger \in [Jobs -> Ledger] /\ UNCHANGED published
      /\ terms \in [Jobs -> [paid : BOOLEAN, lawful : BOOLEAN]]
  BY DEF IInv, TypeOK, MoneyInv, JobStep, Submit, UserCancelRunning, UserCancelQueued, Sweep,
         Elapse, Insert, RequestRunningCancellation, CancelQueued, Reclaim, Tick
<1>2. CASE Submit(j)
  <2>1. job'[j].status = "queued" /\ job[j].status = "absent"
        /\ \A k \in Jobs \ {j} : job'[k] = job[k]
    BY <1>1, <1>2 DEF Submit, Insert, JobRow
  <2>2. res'[j] = OpenReservation(Reserved) /\ \A k \in Jobs \ {j} : res'[k] = res[k]
    BY <1>1, <1>2 DEF Submit
  <2>3. ledger' = ledger /\ \A k \in Jobs \ {j} : terms'[k] = terms[k]
    BY <1>1, <1>2 DEF Submit
  <2>4. Opens(j)
    BY <2>1, <2>2, <2>3 DEF Opens
  <2> QED BY <1>1, <2>1, <2>2, <2>3, <2>4, OneMoves DEF Moves
<1>3. CASE UserCancelRunning(j) \/ Elapse(j)
  <2>1. Tick(j) => job[j].status = "running"
    BY DEF Tick, IInv, RowChecks
  <2>2. \A k \in Jobs : job'[k] = job[k]
                        \/ {job[k].status, job'[k].status} \subseteq {"queued", "running"}
    BY <1>1, <1>3, <2>1
    DEF UserCancelRunning, Elapse, RequestRunningCancellation, Tick, JobRow
  <2> QED BY <1>1, <1>3, <2>2, QuietMoves DEF UserCancelRunning, Elapse, moneyVars
<1>4. CASE UserCancelQueued(j)
  <2>1. /\ job[j].status = "queued" /\ job'[j].status = "cancelled"
        /\ \A k \in Jobs \ {j} : job'[k] = job[k]
    BY <1>1, <1>4 DEF UserCancelQueued, CancelQueued, JobRow
  <2>2. \/ Commit(j, ReleaseQueued(res[j], ledger[j]))
        \/ Commit(j, Reconciled(j, charge[j], "cancelled", "final-close"))
    BY <1>4 DEF UserCancelQueued
  <2>3. PICK out : /\ Commit(j, out)
                   /\ \/ out = ReleaseQueued(res[j], ledger[j])
                      \/ out = Reconciled(j, charge[j], "cancelled", "final-close")
    BY <2>2
  <2>4. Returned(res[j], ledger[j], out.res, out.ledger)
    BY <2>1, <2>3, ReconcileReturns, ReleaseQueuedReturns DEF Commit
  <2>5. UNCHANGED terms
    BY <1>4 DEF UserCancelQueued
  <2> QED BY <1>1, <2>1, <2>3, <2>4, <2>5, CommitMoves DEF TerminalStatus
<1>5. CASE Sweep(j)
  <2>1. UNCHANGED terms /\ Reclaim(j) /\ job[j].status = "running"
    BY <1>5 DEF Sweep, Reclaim
  <2>2. CASE job[j].cancel /\ Commit(j, Reconciled(j, charge[j], "cancelled", "final-close"))
    <3>1. PICK out : out = Reconciled(j, charge[j], "cancelled", "final-close")
      OBVIOUS
    <3>2. Returned(res[j], ledger[j], out.res, out.ledger)
      BY <2>1, <3>1, ReconcileReturns
    <3>3. job' = [job EXCEPT ![j] = Terminated(@, "cancelled")]
      BY <2>1, <2>2 DEF Reclaim
    <3>4. job'[j].status = "cancelled" /\ \A k \in Jobs \ {j} : job'[k] = job[k]
      BY <3>3, TerminalWrite
    <3> QED BY <1>1, <2>1, <2>2, <3>1, <3>2, <3>4, CommitMoves DEF TerminalStatus
  <2>3. CASE ~job[j].cancel /\ UNCHANGED <<res, ledger>>
    <3>1. job' = [job EXCEPT ![j] = Unleased(@, "queued")]
      BY <2>1, <2>3 DEF Reclaim
    <3>2. job'[j].status = "queued" /\ \A k \in Jobs \ {j} : job'[k] = job[k]
      BY <1>1, <3>1 DEF Unleased
    <3> QED BY <1>1, <2>1, <2>3, <3>2, QuietMoves
  <2> QED BY <1>5, <2>2, <2>3 DEF Sweep
<1> QED BY <1>2, <1>3, <1>4, <1>5 DEF JobStep

\* Every step moves every job in one of the four ways.
LEMMA StepMovesMoney ==
  ASSUME IInv, AttemptInv, MoneyInv, PlanInv, HoldFollowsJob, [RunNext]_runVars
  PROVE  \A k \in Jobs : Moves(k)
<1>1. ASSUME NEW w \in Workers, ProcessStep(w) PROVE \A k \in Jobs : Moves(k)
  <2>1. CASE FinishFailed(w)
    BY <2>1, FinishFailedMoves
  <2>2. CASE LateReconcile(w)
    BY <2>2, LateMoves
  <2>3. CASE PublishPlan(w)
    BY <2>3, PublishMoves
  <2>4. CASE CloseOrphans(w) \/ LoadWinners(w) \/ CountAttempts(w) \/ Begin(w) \/ Respond(w)
             \/ FinalizeTx(w) \/ Crash(w)
    BY <2>4, QuietMoves
    DEF CloseOrphans, LoadWinners, CountAttempts, Begin, Respond, FinalizeTx, Crash, GiveUp,
        jobVars, moneyVars
  <2>5. CASE (\E j \in Jobs : Take(w, j)) \/ Beat(w) \/ GiveBack(w) \/ RequeuePlan(w)
    <3>1. UNCHANGED <<terms, res, ledger>>
      BY <2>5 DEF Take, Beat, GiveBack, RequeuePlan, moneyVars
    <3>2. \/ \E j \in Jobs : Claim(w, j)
          \/ Heartbeat(w) \/ ShutdownRequeue(w) \/ Requeue(w) \/ GiveUp(w)
      BY <2>5 DEF Take, Beat, GiveBack, RequeuePlan
    <3>3. UNCHANGED published /\ job \in [Jobs -> JobRow]
      BY <3>2 DEF Claim, Heartbeat, ShutdownRequeue, Requeue, GiveUp, IInv, TypeOK
    <3>4. ASSUME NEW k \in Jobs
          PROVE  job'[k] = job[k] \/ {job[k].status, job'[k].status} \subseteq {"queued", "running"}
      <4>1. CASE \E j \in Jobs : Claim(w, j)
        BY <3>3, <4>1 DEF Claim, Claimed
      <4>2. CASE Heartbeat(w)
        <5>1. held[w].job \in Jobs /\ job[held[w].job].status = "running"
          BY <4>2, OwnedRow DEF Heartbeat
        <5> QED BY <3>3, <4>2, <5>1 DEF Heartbeat, JobRow
      <4>3. CASE ShutdownRequeue(w) \/ Requeue(w)
        <5>1. held[w].job \in Jobs /\ job[held[w].job].status = "running"
          BY <4>3, OwnedRow DEF ShutdownRequeue, Requeue, OwnsUncancelled
        <5> QED BY <3>3, <4>3, <5>1 DEF ShutdownRequeue, Requeue, Unleased
      <4>4. CASE GiveUp(w)
        BY <4>4 DEF GiveUp
      <4> QED BY <3>2, <4>1, <4>2, <4>3, <4>4
    <3> QED BY <3>1, <3>3, <3>4, QuietMoves
  <2> QED BY <1>1, <2>1, <2>2, <2>3, <2>4, <2>5
          DEF ProcessStep, Progress, RefusePolicy, FailPlan
<1>2. ASSUME NEW j \in Jobs, JobStep(j) PROVE \A k \in Jobs : Moves(k)
  BY <1>2, JobStepMoves
<1>3. CASE UNCHANGED runVars
  BY <1>3, QuietMoves DEF runVars, jobVars, moneyVars
<1> QED BY <1>1, <1>2, <1>3 DEF RunNext


-----------------------------------------------------------------------------
\* What a job was charged, with the winner that the charge is for.
Charged ==
  \A j \in Jobs : res[j].settled > 0 =>
    /\ terms[j].paid /\ published[j] = 1 /\ winner[j] # 0
    /\ res[j].settled = UserCharge(j)

OutcomeInv == RunInv /\ PlanInv /\ HoldFollowsJob /\ Charged

\* A chosen winner and the attempt it names are never written again.
LEMMA WinnerKept ==
  ASSUME IInv, AttemptInv, PlanInv, [RunNext]_runVars, NEW k \in Jobs, winner[k] # 0
  PROVE  winner'[k] = winner[k] /\ attempts'[k][winner[k]] = attempts[k][winner[k]]
<1>1. attempts[k][winner[k]].status = "succeeded" /\ winner[k] \in 1..Len(attempts[k])
  BY DEF PlanInv, WinnerSucceeded, AttemptInv
<1>2. CASE Settled(k)
  BY <1>1, <1>2 DEF Settled
<1>3. CASE \E w \in Workers : Starts(w) /\ ~Settled(k)
  <2>1. PICK w \in Workers : Starts(w) /\ ~Settled(k)
    BY <1>3
  <2>2. k = JobOf(w)
    BY <2>1, StartSettles
  <2>3. \A i \in 1..Len(attempts[k]) : attempts'[k][i] = attempts[k][i]
    BY <2>1, <2>2, StarterInformed DEF PlanInv
  <2> QED BY <1>1, <2>1, <2>3 DEF Starts
<1> QED BY <1>2, <1>3, StepSettles

\* The hold follows the job through every move.
LEMMA HoldKept ==
  ASSUME HoldFollowsJob, \A k \in Jobs : Moves(k) PROVE HoldFollowsJob'
<1> SUFFICES ASSUME NEW j \in Jobs
             PROVE  /\ job'[j].status \in {"queued", "running"} =>
                         res'[j] = OpenReservation(Reserved)
                    /\ job'[j].status \in TerminalStatus => res'[j].status # "open"
                    /\ job'[j].status = "succeeded" => res'[j].status \in {"settled", "released"}
  BY DEF HoldFollowsJob, Terminal
<1>1. /\ job[j].status \in {"queued", "running"} => res[j] = OpenReservation(Reserved)
      /\ job[j].status \in TerminalStatus => res[j].status # "open"
      /\ job[j].status = "succeeded" => res[j].status \in {"settled", "released"}
  BY DEF HoldFollowsJob, Terminal
<1>2. CASE Quiet(j)
  BY <1>1, <1>2 DEF Quiet, TerminalStatus
<1>3. CASE Opens(j)
  BY <1>3 DEF Opens, TerminalStatus
<1>4. CASE Ends(j)
  BY <1>1, <1>4 DEF Ends, Returned, TerminalStatus, ClosedStatus
<1>5. CASE Pays(j)
  BY <1>5 DEF Pays, TerminalStatus
<1> QED BY <1>2, <1>3, <1>4, <1>5 DEF Moves

\* What was charged stays the cost of the winner, and only a publication charges.
LEMMA ChargedKept ==
  ASSUME IInv, AttemptInv, MoneyInv, PlanInv, Charged, [RunNext]_runVars,
         \A k \in Jobs : Moves(k)
  PROVE  Charged'
<1> SUFFICES ASSUME NEW j \in Jobs, res'[j].settled > 0
             PROVE  /\ terms'[j].paid /\ published'[j] = 1 /\ winner'[j] # 0
                    /\ res'[j].settled = UserCharge(j)'
  BY DEF Charged
<1>1. ASSUME winner[j] # 0, res'[j].reserved = res[j].reserved
      PROVE  winner'[j] # 0 /\ UserCharge(j)' = UserCharge(j)
  <2>1. winner'[j] = winner[j] /\ attempts'[j][winner[j]] = attempts[j][winner[j]]
    BY <1>1, WinnerKept
  <2> QED BY <1>1, <2>1 DEF UserCharge
<1>2. res[j].settled > 0 => /\ terms[j].paid /\ published[j] = 1 /\ winner[j] # 0
                            /\ res[j].settled = UserCharge(j)
  BY DEF Charged
<1>3. CASE Quiet(j)
  BY <1>1, <1>2, <1>3 DEF Quiet
<1>4. CASE Opens(j)
  <2>1. res'[j].settled = 0
    BY <1>4 DEF Opens, OpenReservation
  <2> QED BY <2>1
<1>5. CASE Ends(j)
  BY <1>1, <1>2, <1>5 DEF Ends, Returned
<1>6. CASE Pays(j)
  BY <1>1, <1>6 DEF Pays
<1> QED BY <1>3, <1>4, <1>5, <1>6 DEF Moves

\* Before anything is submitted nothing is held, started or charged.
LEMMA InitOutcomeInv == RunInit => OutcomeInv
<1> SUFFICES ASSUME RunInit PROVE OutcomeInv
  OBVIOUS
<1>1. \A j \in Jobs : /\ job[j].status = "absent" /\ res[j] = NoReservation
                      /\ attempts[j] = <<>> /\ winner[j] = 0
  BY DEF RunInit, Init, NoRow
<1>2. HoldFollowsJob
  BY <1>1 DEF HoldFollowsJob, Terminal, TerminalStatus
<1>3. \A j \in Jobs : res[j].settled = 0
  <2>1. NoReservation.settled = 0
    BY DEF NoReservation
  <2> QED BY <1>1, <2>1
<1>4. Charged
  <2>1. ~(0 > 0)
    OBVIOUS
  <2> QED BY <1>3, <2>1 DEF Charged
<1>5. \A w \in Workers : run[w].pc = "idle" /\ run[w].outcome = "none"
  BY DEF RunInit, IdleRun
<1>6. \A w \in Workers : Informed(w)
  BY <1>5 DEF Informed
<1>7. WinnerSucceeded /\ CapHolds
  BY <1>1, CapAssumption DEF WinnerSucceeded, CapHolds
<1> QED BY <1>2, <1>4, <1>6, <1>7, InitRunInv DEF OutcomeInv, PlanInv

\* Every step keeps all of it.
LEMMA NextOutcomeInv == OutcomeInv /\ [RunNext]_runVars => OutcomeInv'
<1> SUFFICES ASSUME OutcomeInv, [RunNext]_runVars PROVE OutcomeInv'
  OBVIOUS
<1>1. RunInv /\ IInv /\ AttemptInv /\ MoneyInv /\ PlanInv /\ HoldFollowsJob /\ Charged
  BY DEF OutcomeInv, RunInv
<1>2. RunInv'
  BY <1>1, NextRunInv
<1>3. PlanInv'
  BY <1>1, NextPlanInv
<1>4. \A k \in Jobs : Moves(k)
  BY <1>1, StepMovesMoney
<1>5. HoldFollowsJob' /\ Charged'
  BY <1>1, <1>4, HoldKept, ChargedKept
<1> QED BY <1>2, <1>3, <1>5 DEF OutcomeInv

\* The invariant of attempts, holds and charges holds in every reachable state.
THEOREM OutcomeInvariance == RunSpec => []OutcomeInv
  BY InitOutcomeInv, NextOutcomeInv, PTL DEF RunSpec

\* Whatever races: the hold stands until its job ends, only published output is charged,
\* a completed plan can be settled, and no more calls are made than were quoted.
THEOREM RunsPaidAsQuoted == RunSpec => []PaidAsQuoted
<1>1. OutcomeInv => HoldFollowsJob /\ CapHolds /\ ChargedForOutput
  BY DEF OutcomeInv, PlanInv, Charged, ChargedForOutput
<1>2. OutcomeInv => PublishNeverThrows
  BY OwnerCanSettle DEF OutcomeInv, RunInv, PublishNeverThrows
<1>3. OutcomeInv => PaidAsQuoted
  BY <1>1, <1>2 DEF PaidAsQuoted
<1> QED BY <1>3, OutcomeInvariance, PTL

\* Closed reservations, settled amounts, winners and finished attempts are final for every
\* number of workers, however late an answer or a reconciliation comes.
THEOREM ClosedStaysFinal == RunSpec => ClosedIsFinal
<1>1. OutcomeInv /\ [RunNext]_runVars =>
        [\A j \in Jobs :
           /\ winner[j] # 0 => winner'[j] = winner[j]
           /\ \A i \in DOMAIN attempts[j] :
                attempts[j][i].status # "started" => attempts'[j][i] = attempts[j][i]
           /\ res[j].status \in ClosedStatus => res'[j] = res[j] /\ ledger'[j] = ledger[j]
           /\ res'[j].settled >= res[j].settled /\ res'[j].released >= res[j].released]_runVars
  <2> SUFFICES ASSUME OutcomeInv, [RunNext]_runVars, NEW j \in Jobs
               PROVE  /\ winner[j] # 0 => winner'[j] = winner[j]
                      /\ \A i \in DOMAIN attempts[j] :
                           attempts[j][i].status # "started" => attempts'[j][i] = attempts[j][i]
                      /\ res[j].status \in ClosedStatus =>
                           res'[j] = res[j] /\ ledger'[j] = ledger[j]
                      /\ res'[j].settled >= res[j].settled
                      /\ res'[j].released >= res[j].released
    OBVIOUS
  <2>1. IInv /\ AttemptInv /\ MoneyInv /\ PlanInv /\ HoldFollowsJob
    BY DEF OutcomeInv, RunInv
  <2>2. winner[j] # 0 => winner'[j] = winner[j]
    BY <2>1, WinnerKept
  <2>3. \A i \in 1..Len(attempts[j]) :
          attempts[j][i].status # "started" => attempts'[j][i] = attempts[j][i]
    <3>1. CASE Settled(j)
      BY <3>1 DEF Settled
    <3>2. CASE \E w \in Workers : Starts(w) /\ ~Settled(j)
      <4>1. PICK w \in Workers : Starts(w) /\ ~Settled(j)
        BY <3>2
      <4>2. j = JobOf(w)
        BY <2>1, <4>1, StartSettles
      <4> QED BY <2>1, <4>1, <4>2, StarterInformed DEF PlanInv
    <3> QED BY <2>1, <3>1, <3>2, StepSettles
  <2>4. DOMAIN attempts[j] = 1..Len(attempts[j])
    BY <2>1 DEF AttemptInv
  <2>5. res[j].settled \in Nat /\ res[j].released \in Nat
    <3>1. res[j] \in Reservation \cup {NoReservation}
      BY <2>1 DEF MoneyInv
    <3> QED BY <3>1 DEF Reservation, NoReservation
  <2>6. /\ res[j].status \in ClosedStatus => res'[j] = res[j] /\ ledger'[j] = ledger[j]
        /\ res'[j].settled >= res[j].settled /\ res'[j].released >= res[j].released
    <3>1. Moves(j)
      BY <2>1, StepMovesMoney
    <3>2. CASE Opens(j)
      <4>1. res[j] = NoReservation
        BY <2>1, <3>2 DEF Opens, MoneyInv, MoneyOf
      <4> QED BY <3>2, <4>1 DEF Opens, OpenReservation, NoReservation, ClosedStatus
    <3>3. CASE Quiet(j)
      BY <2>5, <3>3 DEF Quiet
    <3>4. CASE Ends(j)
      BY <2>5, <3>4 DEF Ends, Returned
    <3>5. CASE Pays(j)
      BY <3>5 DEF Pays, ClosedStatus
    <3> QED BY <3>1, <3>2, <3>3, <3>4, <3>5 DEF Moves
  <2> QED BY <2>2, <2>3, <2>4, <2>6
<1> QED BY <1>1, OutcomeInvariance, PTL DEF RunSpec, ClosedIsFinal

=============================================================================
