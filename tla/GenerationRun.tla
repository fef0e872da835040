---------------------------- MODULE GenerationRun ----------------------------
(***************************************************************************)
(* Worker processes running the frozen plan of a job, and the reservation  *)
(* that pays for it.  Each action is one committed transaction or one      *)
(* answer of the provider; what a worker read in an earlier step it keeps  *)
(* in run[w] and uses later, whatever has happened to the rows meanwhile.  *)
(*                                                                         *)
(* The plan has one stage; a job has one invocation, hence one winner.     *)
(* Every action that touches generation_jobs is an action of GenerationJob *)
(* joined with what the same transaction does to attempts and money.       *)
(***************************************************************************)
EXTENDS GenerationJob, CreditReservation, Sequences, FiniteSets

CONSTANTS
  Cap,           \* sum of the stage's maxInvocations
  Reserved,      \* amount reserved for a job
  Costs,         \* provider costs an attempt may report
  Replies,       \* what the provider may answer
  CrashSteps     \* the steps at which a worker process may die

Reply == {"ok", "rejected", "error", "none"}

ASSUME CapAssumption == Cap \in Nat \ {0}
ASSUME ReservedAssumption == Reserved \in Nat \ {0}
ASSUME CostsAssumption == Costs \subseteq Nat
ASSUME RepliesAssumption == Replies \subseteq Reply

VARIABLES
  terms,      \* what the job was submitted with: paid by the user, policy obeyed
  attempts,   \* generation_attempts of the job, by ordinal
  winner,     \* winner_attempt_id: an ordinal, 0 for NULL
  res,        \* the bound credit_reservations row
  ledger,     \* its ledger rows
  charge,     \* userSettlement of its allocation, 0 without one
  run         \* where each worker's processor is, and what it remembers

moneyVars == <<res, ledger, charge>>
attemptVars == <<attempts, winner>>
runVars == <<jobVars, terms, attemptVars, moneyVars, run>>

\* "rejected" is a failed attempt whose payload marks the output as unusable
AttemptStatus == {"started", "succeeded", "rejected", "failed"}
Attempt == [status : AttemptStatus, cost : Nat]
NoReservation == [status |-> "none", reserved |-> 0, settled |-> 0, released |-> 0,
                  exposure |-> 0]
Step == {"idle", "claimed", "closed", "loaded", "deciding", "calling", "responded",
         "late", "failing", "requeue"}
ASSUME CrashStepsAssumption == CrashSteps \subseteq Step

RunState == [pc : Step, outcome : {"none", "succeeded", "failed"}, used : Nat,
             att : Nat, reply : Reply]
IdleRun == [pc |-> "idle", outcome |-> "none", used |-> 0, att |-> 0, reply |-> "none"]

(* One type invariant over the rows, the money and the processors.         *)
RunTypeOK ==
  /\ TypeOK
  /\ terms \in [Jobs -> [paid : BOOLEAN, lawful : BOOLEAN]]
  /\ attempts \in [Jobs -> Seq(Attempt)]
  /\ winner \in [Jobs -> Nat]
  /\ res \in [Jobs -> Reservation \cup {NoReservation}]
  /\ ledger \in [Jobs -> Ledger]
  /\ charge \in [Jobs -> Nat]
  /\ run \in [Workers -> RunState]

-----------------------------------------------------------------------------
At(w, pc) == run[w].pc = pc
JobOf(w) == held[w].job
Goto(w, pc) == run' = [run EXCEPT ![w].pc = pc]
Reset(w) == run' = [run EXCEPT ![w] = IdleRun]

Unresolved(j) ==
  Cardinality({i \in 1..Len(attempts[j]) : attempts[j][i].status = "started"})

\* Mutant: the cost of the last attempt is charged, usable or not.
ReconciledByCost(j, settlement, reason, releaseKind) ==
  Reconcile(res[j], ledger[j], terms[j].paid,
            IF attempts[j] = <<>> THEN 0 ELSE attempts[j][Len(attempts[j])].cost,
            Unresolved(j), reason, releaseKind)

\* reconcileTerminalReservation of j's rows in the current transaction
Reconciled(j, settlement, reason, releaseKind) ==
  Reconcile(res[j], ledger[j], terms[j].paid, settlement, Unresolved(j), reason, releaseKind)

Commit(j, out) ==
  /\ out.ok
  /\ res' = [res EXCEPT ![j] = out.res]
  /\ ledger' = [ledger EXCEPT ![j] = out.ledger]

-----------------------------------------------------------------------------
RunInit ==
  /\ Init
  /\ terms = [j \in Jobs |-> [paid |-> FALSE, lawful |-> FALSE]]
  /\ attempts = [j \in Jobs |-> <<>>]
  /\ winner = [j \in Jobs |-> 0]
  /\ res = [j \in Jobs |-> NoReservation]
  /\ ledger = [j \in Jobs |-> EmptyLedger]
  /\ charge = [j \in Jobs |-> 0]
  /\ run = [w \in Workers |-> IdleRun]

\* The job and its bound reservation are created together; so is a retry.
Submit(j) ==
  /\ Insert(j)
  /\ \E t \in [paid : BOOLEAN, lawful : BOOLEAN] : terms' = [terms EXCEPT ![j] = t]
  /\ res' = [res EXCEPT ![j] = OpenReservation(Reserved)]
  /\ UNCHANGED <<ledger, charge, attemptVars, run>>

Take(w, j) ==
  /\ At(w, "idle")
  /\ Claim(w, j)
  /\ Goto(w, "claimed")
  /\ UNCHANGED <<terms, attemptVars, moneyVars>>

Beat(w) ==
  /\ Heartbeat(w)
  /\ UNCHANGED <<terms, attemptVars, moneyVars, run>>

\* finish(failed) and its reconciliation, or the CAS is lost and nothing changes
FinishFailed(w) ==
  /\ \/ /\ Finish(w, "failed")
        /\ Commit(JobOf(w), Reconciled(JobOf(w), charge[JobOf(w)], "released", "final-close"))
     \/ /\ ~OwnsLive(w)
        /\ GiveUp(w)
        /\ UNCHANGED <<res, ledger>>
  /\ Reset(w)
  /\ UNCHANGED <<terms, attemptVars, charge>>

RefusePolicy(w) ==
  /\ At(w, "claimed") /\ ~terms[JobOf(w)].lawful
  /\ FinishFailed(w)

\* Recovery is three transactions, and none of them checks the lease.
CloseOrphans(w) ==
  /\ At(w, "claimed") /\ terms[JobOf(w)].lawful
  /\ attempts' = [attempts EXCEPT ![JobOf(w)] =
       [i \in DOMAIN @ |-> IF @[i].status = "started" THEN [@[i] EXCEPT !.status = "failed"]
                                                      ELSE @[i]]]
  /\ Goto(w, "closed")
  /\ UNCHANGED <<jobVars, terms, winner, moneyVars>>

\* The winner of the stage, or else its latest attempt with unusable output.
LoadWinners(w) ==
  /\ At(w, "closed")
  /\ LET j == JobOf(w)
         found == IF winner[j] # 0 THEN "succeeded"
                  ELSE IF \E i \in DOMAIN attempts[j] : attempts[j][i].status = "rejected"
                       THEN "failed" ELSE "none"
     IN  run' = [run EXCEPT ![w].pc = "loaded", ![w].outcome = found]
  /\ UNCHANGED <<jobVars, terms, attemptVars, moneyVars>>

CountAttempts(w) ==
  /\ At(w, "loaded")
  /\ run' = [run EXCEPT ![w].pc = "deciding", ![w].used = Len(attempts[JobOf(w)])]
  /\ UNCHANGED <<jobVars, terms, attemptVars, moneyVars>>

\* Tx A: the live owner starts an attempt of the running invocation.
Begin(w) ==
  /\ At(w, "deciding") /\ run[w].outcome = "none" /\ run[w].used < Cap
  /\ \/ /\ OwnsUncancelled(w) /\ winner[JobOf(w)] = 0
        /\ attempts' = [attempts EXCEPT ![JobOf(w)] =
                          Append(@, [status |-> "started", cost |-> 0])]
        /\ run' = [run EXCEPT ![w].pc = "calling", ![w].used = @ + 1,
                              ![w].att = Len(attempts[JobOf(w)]) + 1]
        /\ UNCHANGED jobVars
     \/ /\ ~(OwnsUncancelled(w) /\ winner[JobOf(w)] = 0)
        /\ GiveUp(w) /\ Reset(w)
        /\ UNCHANGED attempts
  /\ UNCHANGED <<terms, winner, moneyVars>>

\* The provider call, outside any transaction; without an answer the attempt stays
\* started and the processor asks for a requeue.
Respond(w) ==
  /\ At(w, "calling")
  /\ \E r \in Replies :
       run' = [run EXCEPT ![w].pc = IF r = "none" THEN "requeue" ELSE "responded",
                          ![w].reply = r]
  /\ UNCHANGED <<jobVars, terms, attemptVars, moneyVars>>

\* Tx B: a started attempt is finalized whoever owns the job now; only the eligible
\* owner's usable attempt becomes the winner.  An attempt that is no longer started
\* is a conflict and rolls back.
FinalizeTx(w) ==
  /\ At(w, "responded")
  /\ LET j == JobOf(w)
         a == run[w].att
         status == CASE run[w].reply = "ok" -> "succeeded"
                     [] run[w].reply = "rejected" -> "rejected"
                     [] OTHER -> "failed"
     IN  \/ /\ attempts[j][a].status = "started"
            /\ \E c \in Costs :
                 attempts' = [attempts EXCEPT ![j][a] = [status |-> status, cost |-> c]]
            /\ winner' = [winner EXCEPT ![j] =
                 IF OwnsUncancelled(w) /\ status = "succeeded" /\ @ = 0 THEN a ELSE @]
            /\ run' = [run EXCEPT ![w].pc = "late",
                 ![w].outcome = IF status = "succeeded" THEN "succeeded" ELSE "failed"]
         \/ /\ attempts[j][a].status # "started"
            /\ Goto(w, "failing")
            /\ UNCHANGED attemptVars
  /\ UNCHANGED <<jobVars, terms, moneyVars>>

\* Mutant: a late answer leaves the reservation alone.
LateIgnored(w) ==
  /\ At(w, "late")
  /\ Goto(w, "deciding")
  /\ UNCHANGED <<jobVars, terms, attemptVars, moneyVars>>

\* A second transaction settles the reservation of a job that has ended meanwhile.
LateReconcile(w) ==
  /\ At(w, "late")
  /\ LET j == JobOf(w)
         reason == IF job[j].status = "cancelled" THEN "cancelled" ELSE "released"
     IN  \/ Terminal(j) /\ Commit(j, Reconciled(j, charge[j], reason, "final-close"))
         \/ ~Terminal(j) /\ UNCHANGED <<res, ledger>>
  /\ Goto(w, "deciding")
  /\ UNCHANGED <<jobVars, terms, attemptVars, charge>>

FailPlan(w) ==
  /\ \/ At(w, "failing")
     \/ At(w, "deciding") /\ run[w].outcome = "failed"
     \/ At(w, "deciding") /\ run[w].outcome = "none" /\ run[w].used >= Cap
  /\ FinishFailed(w)

-----------------------------------------------------------------------------
\* settleUsableOutput throws unless the reservation is open and the contributing
\* attempt is the winner.
Settleable(j) ==
  /\ res[j].status = "open"
  /\ winner[j] # 0 /\ attempts[j][winner[j]].status = "succeeded"

\* What the usable output costs the user: the winner's cost, up to the reservation.
UserCharge(j) == Least(attempts[j][winner[j]].cost, res[j].reserved)

PublishUsable(w) ==
  LET j == JobOf(w) IN
  /\ Settleable(j)
  /\ charge' = [charge EXCEPT ![j] = IF terms[j].paid THEN UserCharge(j) ELSE 0]
  /\ Commit(j, Reconciled(j, UserCharge(j), "released",
                          IF terms[j].paid THEN "invocation_completed" ELSE "final-close"))

PublishWithoutOutput(w) ==
  /\ Commit(JobOf(w), Reconciled(JobOf(w), charge[JobOf(w)], "released", "final-close"))
  /\ UNCHANGED charge

\* The plan is complete: product rows, money and the terminal row commit together.
PublishPlan(w) ==
  /\ At(w, "deciding") /\ run[w].outcome = "succeeded"
  /\ \/ Publish(w) /\ (PublishUsable(w) \/ PublishWithoutOutput(w))
     \/ ~OwnsUncancelled(w) /\ GiveUp(w) /\ UNCHANGED moneyVars
  /\ Reset(w)
  /\ UNCHANGED <<terms, attemptVars>>

\* Mutant: nobody acts on a processor that asked for a requeue.
RequeueClaimed(w) ==
  /\ At(w, "claimed")
  /\ Requeue(w) \/ (~OwnsUncancelled(w) /\ GiveUp(w))
  /\ Reset(w)
  /\ UNCHANGED <<terms, attemptVars, moneyVars>>

\* A processor without an answer, or a worker that was told to stop while it claimed.
RequeuePlan(w) ==
  /\ At(w, "requeue") \/ At(w, "claimed")
  /\ Requeue(w) \/ (~OwnsUncancelled(w) /\ GiveUp(w))
  /\ Reset(w)
  /\ UNCHANGED <<terms, attemptVars, moneyVars>>

\* The drain deadline has passed while the processor still runs.
GiveBack(w) ==
  /\ ~At(w, "idle")
  /\ ShutdownRequeue(w)
  /\ UNCHANGED <<terms, attemptVars, moneyVars, run>>

Crash(w) ==
  /\ run[w].pc \in CrashSteps
  /\ GiveUp(w) /\ Reset(w)
  /\ UNCHANGED <<terms, attemptVars, moneyVars>>

-----------------------------------------------------------------------------
\* Mutant: a running job is cancelled at once, under its owner.
UserCancelAtOnce(j) ==
  /\ job[j].status = "running"
  /\ job' = [job EXCEPT ![j] = Terminated(@, "cancelled")]
  /\ UNCHANGED <<held, issued, published, terms, attemptVars, moneyVars, run>>

UserCancelRunning(j) ==
  /\ RequestRunningCancellation(j)
  /\ UNCHANGED <<terms, attemptVars, moneyVars, run>>

\* A queued job's own money is released whole, a system-funded one is reconciled.
UserCancelQueued(j) ==
  /\ CancelQueued(j)
  /\ \/ terms[j].paid /\ Commit(j, ReleaseQueued(res[j], ledger[j]))
     \/ ~terms[j].paid /\ Commit(j, Reconciled(j, charge[j], "cancelled", "final-close"))
  /\ UNCHANGED <<terms, attemptVars, charge, run>>

\* Mutant: the sweeper forgets the rows with a cancellation request.
SweepUnasked(j) ==
  /\ ~job[j].cancel
  /\ Reclaim(j)
  /\ UNCHANGED <<terms, attemptVars, moneyVars, run>>

Sweep(j) ==
  /\ Reclaim(j)
  /\ \/ job[j].cancel /\ Commit(j, Reconciled(j, charge[j], "cancelled", "final-close"))
     \/ ~job[j].cancel /\ UNCHANGED <<res, ledger>>
  /\ UNCHANGED <<terms, attemptVars, charge, run>>

Elapse(j) ==
  /\ Tick(j)
  /\ UNCHANGED <<terms, attemptVars, moneyVars, run>>

-----------------------------------------------------------------------------
Progress(w) ==
  \/ RefusePolicy(w) \/ CloseOrphans(w) \/ LoadWinners(w) \/ CountAttempts(w)
  \/ Begin(w) \/ Respond(w) \/ FinalizeTx(w) \/ LateReconcile(w)
  \/ FailPlan(w) \/ PublishPlan(w) \/ RequeuePlan(w)

ProcessStep(w) ==
  \/ \E j \in Jobs : Take(w, j)
  \/ Beat(w) \/ Progress(w) \/ GiveBack(w) \/ Crash(w)

JobStep(j) ==
  \/ Submit(j) \/ UserCancelRunning(j) \/ UserCancelQueued(j) \/ Sweep(j) \/ Elapse(j)

RunNext == (\E w \in Workers : ProcessStep(w)) \/ (\E j \in Jobs : JobStep(j))

RunSpec == RunInit /\ [][RunNext]_runVars

\* Every provider call returns (it has a timeout), workers go on, time passes and the
\* sweeper runs.  Nobody has to submit, cancel, claim or crash.
RunFairness ==
  /\ \A w \in Workers : WF_runVars(Progress(w))
  /\ \A j \in Jobs : WF_runVars(Elapse(j)) /\ WF_runVars(Sweep(j))

FairRunSpec == RunSpec /\ RunFairness

-----------------------------------------------------------------------------
(* Money: whatever races, the ledger rows of a job add up to what its      *)
(* reservation row says was settled and released, and the row satisfies    *)
(* the table's amount and lifecycle checks.                                *)
MoneySound ==
  \A j \in Jobs : job[j].status # "absent" => Sound(res[j], ledger[j], terms[j].paid)

(* The user is charged only for output that was published, and then the    *)
(* cost of the winning attempt up to the reservation, not of any failed,   *)
(* orphaned or late attempt.                                               *)
ChargedForOutput ==
  \A j \in Jobs : res[j].settled > 0 =>
    /\ terms[j].paid /\ published[j] = 1
    /\ res[j].settled = UserCharge(j)

(* The hold lives as long as the job: an unfinished job keeps its whole    *)
(* reservation, a finished one never does, and one that succeeded has it   *)
(* closed by the transaction that published.                               *)
HoldFollowsJob ==
  \A j \in Jobs :
    /\ job[j].status \in {"queued", "running"} => res[j] = OpenReservation(Reserved)
    /\ Terminal(j) => res[j].status # "open"
    /\ job[j].status = "succeeded" => res[j].status \in {"settled", "released"}

(* No reconciliation of an existing job can be refused, so the incident    *)
(* path of reconciliation and the throws of the services stay unused.      *)
NeverConflicts ==
  \A j \in Jobs : job[j].status # "absent" =>
    \A reason \in {"released", "cancelled"} :
      Reconciled(j, charge[j], reason, "final-close").ok

(* A worker that completes the plan while it still owns the job always     *)
(* finds what settlement requires: an open reservation, the winner it      *)
(* reports, and no attempt of the job still in flight.                     *)
PublishNeverThrows ==
  \A w \in Workers :
    At(w, "deciding") /\ run[w].outcome = "succeeded" /\ OwnsUncancelled(w) =>
      Settleable(JobOf(w)) /\ Unresolved(JobOf(w)) = 0

(* However often a job is reclaimed and run again, it never starts more    *)
(* attempts than the stage's ceiling, although the count is read two       *)
(* transactions before it is used.                                         *)
CapHolds == \A j \in Jobs : Len(attempts[j]) <= Cap

(* What a quote promised its user while the job runs and after: the hold   *)
(* stands until the job ends and is used only for its output, a plan that  *)
(* completes can be settled, and no more calls are made than were quoted.  *)
PaidAsQuoted == HoldFollowsJob /\ ChargedForOutput /\ PublishNeverThrows /\ CapHolds

(* A closed reservation and its ledger are never touched again, and until  *)
(* then nothing settled or released is taken back; the winner is chosen    *)
(* once, and neither it nor any other finished attempt is rewritten by an  *)
(* answer that comes late.                                                 *)
ClosedIsFinal ==
  [][\A j \in Jobs :
       /\ winner[j] # 0 => winner'[j] = winner[j]
       /\ \A i \in DOMAIN attempts[j] :
            attempts[j][i].status # "started" => attempts'[j][i] = attempts[j][i]
       /\ res[j].status \in ClosedStatus => res'[j] = res[j] /\ ledger'[j] = ledger[j]
       /\ res'[j].settled >= res[j].settled /\ res'[j].released >= res[j].released]_runVars

(* What the credit plan says of a running cancellation: a reservation that *)
(* waits for an attempt still in flight is eventually closed.              *)
ClosingCloses ==
  \A j \in Jobs : res[j].status = "closing" ~> res[j].status \in ClosedStatus

\* the process w waits for the provider's answer to attempt i of j
Waiting(w, j, i) ==
  run[w].pc \in {"calling", "responded"} /\ JobOf(w) = j /\ run[w].att = i

\* an attempt in flight that no process waits for, or one whose process waits for an
\* attempt that another worker has closed as an orphan
Severed(j) ==
  \E i \in DOMAIN attempts[j] :
    attempts[j][i].status = "started" <=> ~\E w \in Workers : Waiting(w, j, i)

(* A reservation held back for an attempt that is still in flight is       *)
(* closed by the late answer, even if the worker lost the job long ago,    *)
(* unless the waiting process dies, the attempt gets no answer at all or   *)
(* another worker closes it as an orphan.  It holds only while no process  *)
(* dies between the transaction that records the answer and the next one.  *)
AnsweredHoldsClose ==
  \A j \in Jobs :
    res[j].status = "closing" /\ Unresolved(j) > 0
      ~> res[j].status \in ClosedStatus \/ Severed(j)

(* A job that a worker has taken does not stay running for ever, and the   *)
(* worker's processor comes back to idle.                                  *)
RunsEnd ==
  /\ \A j \in Jobs : job[j].status = "running" ~> job[j].status # "running"
  /\ \A w \in Workers : ~At(w, "idle") ~> At(w, "idle")

(* What attempt-orchestrator.ts:171-173 says of recovery: a started        *)
(* attempt it closes was left by a dead worker, so it never belongs to the *)
(* worker that owns the job and is waiting for the provider's answer.      *)
OrphansAreDead ==
  [][\A w \in Workers :
       At(w, "calling") /\ OwnsLive(w) /\ attempts[JobOf(w)][run[w].att].status = "started"
         => attempts'[JobOf(w)][run[w].att].status = "started"]_runVars

(* The transactions of the run are transactions of the job service: rows,  *)
(* identities and publications behave as GenerationJob alone says.         *)
ImplementsJob == Spec
=============================================================================
