----------------------------- MODULE StageWalk -----------------------------
(***************************************************************************)
(* A worker walking the stages of a frozen plan: decideNextAction over the *)
(* outcomes it remembers, the attempts it makes durable, and the recovery  *)
(* that rebuilds the outcomes from the attempts after a worker is gone.    *)
(*                                                                         *)
(* GenerationRun says who may own the job and what it costs; here one      *)
(* owner at a time walks plans of several stages.  An attempt is kept as   *)
(* what the provider answered; whether that is a failure is judged by the  *)
(* stage that asked.                                                       *)
(***************************************************************************)
EXTENDS Integers, Sequences, FiniteSets

CONSTANTS Workflows,    \* workflow kinds whose jobs are run
          Invocations   \* maxInvocations of the execution profile

ASSUME WalkAssumption == Invocations \in Nat \ {0}

VARIABLES kind,      \* the workflow kind of the job
          attempts,  \* generation_attempts, in the order they were begun
          walk,      \* the owner: where it is and what it remembers
          final      \* how the job ended

walkVars == <<kind, attempts, walk, final>>

-----------------------------------------------------------------------------
(* The frozen catalogue.                                                   *)

Stage(key, purpose, policy, base, cap) ==
  [key |-> key, purpose |-> purpose, policy |-> policy, base |-> base, cap |-> cap]

Always(key, purpose) == Stage(key, purpose, "always", "none", Invocations)
ParseRepair(key, base) == Stage(key, "parse_repair", "on_parse_failure", base, 1)

(* Six kinds have one stage and its parse repair.                          *)
SingleStages(purpose) == <<Always("only", purpose), ParseRepair("only_repair", "only")>>

BeatStages ==
  <<Always("writer", "generate"), ParseRepair("writer_repair", "writer"),
    Stage("judge", "judge", "always", "none", 1), ParseRepair("judge_fix", "judge"),
    Stage("judge_repair", "judge_output_repair", "on_judge_fail", "none", 1)>>

Stages == IF kind = "beat_write_judge" THEN BeatStages ELSE SingleStages("generate")
Budget == LET sum[i \in 0..Len(Stages)] ==
                IF i = 0 THEN 0 ELSE sum[i - 1] + Stages[i].cap
          IN sum[Len(Stages)]

-----------------------------------------------------------------------------
(* What an answer means to the stage that asked.                           *)

Answers == {"good", "failing", "unparsed", "refused"}

(* validateM4StageOutput: only a judge's own stages read the verdict.      *)
ReadsVerdict(stage) == stage.purpose \in {"judge", "judge_output_repair"}
VerdictFails(stage, answer) == answer = "failing" /\ ReadsVerdict(stage)

OutcomeFrom(i, answer) ==
  [stage |-> i,
   failed |-> answer \in {"unparsed", "refused"} \/ VerdictFails(Stages[i], answer),
   unparsed |-> answer = "unparsed",
   unjudged |-> VerdictFails(Stages[i], answer)]

(* What recovery can read back: a winner, or a failure marked as unparsed  *)
(* or as failing its validation.                                           *)
\* Mutant: the marker of a failed validation is not written.
ReadBackUnmarked(try) ==
  \/ try.answer \in {"good", "unparsed"}
  \/ try.answer = "failing" /\ ~ReadsVerdict(Stages[try.stage])
ReadBack(try) == try.answer \in {"good", "failing", "unparsed"}

FirstTry(i) == CHOOSE n \in DOMAIN attempts :
  attempts[n].stage = i /\ \A m \in DOMAIN attempts : attempts[m].stage = i => n =< m
LastRead(i) == CHOOSE n \in DOMAIN attempts :
  /\ attempts[n].stage = i /\ ReadBack(attempts[n])
  /\ \A m \in DOMAIN attempts : attempts[m].stage = i /\ ReadBack(attempts[m]) => m =< n

(* loadStageWinners: one outcome a stage, by creation of the invocation.   *)
Recovered ==
  LET known == {i \in DOMAIN Stages :
                  \E n \in DOMAIN attempts : attempts[n].stage = i /\ ReadBack(attempts[n])}
      place(i) == Cardinality({k \in known : FirstTry(k) =< FirstTry(i)})
      at(p) == CHOOSE i \in known : place(i) = p
  IN [p \in 1..Cardinality(known) |-> OutcomeFrom(at(p), attempts[LastRead(at(p))].answer)]

(* countStageAttempts: every attempt counts, abandoned ones too.           *)
Counted == [i \in DOMAIN Stages |->
              Cardinality({n \in DOMAIN attempts : attempts[n].stage = i})]

-----------------------------------------------------------------------------
(* decideNextAction.                                                       *)

Has(outcomes, i) == \E n \in DOMAIN outcomes : outcomes[n].stage = i
OutcomeOf(outcomes, i) == outcomes[CHOOSE n \in DOMAIN outcomes : outcomes[n].stage = i]
LatestOf(outcomes) == outcomes[Len(outcomes)]

(* The nearest earlier stage of the plan that was executed triggers it.    *)
(* (No plan of the catalogue has an on_repairable_failure stage.)          *)
Preceding(outcomes, i) == {k \in 1..(i - 1) : Has(outcomes, k)}
Nearest(outcomes, i) ==
  CHOOSE k \in Preceding(outcomes, i) : \A m \in Preceding(outcomes, i) : m =< k

Triggered(outcomes, i) ==
  /\ Preceding(outcomes, i) # {}
  /\ LET trigger == OutcomeOf(outcomes, Nearest(outcomes, i)) IN
     \/ /\ Stages[i].policy = "on_parse_failure" /\ trigger.unparsed
        /\ Stages[i].base \in {"none", Stages[trigger.stage].key}
     \/ Stages[i].policy = "on_judge_fail" /\ trigger.unjudged

Due(outcomes) ==
  {i \in DOMAIN Stages :
     ~Has(outcomes, i) /\ (Stages[i].policy = "always" \/ Triggered(outcomes, i))}

(* A failure blocks the next unconditional stage unless it triggers a      *)
(* repair later in the plan.                                               *)
Blocked(outcomes, i) ==
  /\ Stages[i].policy = "always"
  /\ outcomes # <<>> /\ LatestOf(outcomes).failed
  /\ ~ \E k \in DOMAIN Stages :
         /\ k > LatestOf(outcomes).stage /\ Stages[k].policy # "always"
         /\ ~Has(outcomes, k) /\ Triggered(outcomes, k)

\* Mutant: any stage that succeeded completes the plan.
CompletesOnAny(outcomes) == \E n \in DOMAIN outcomes : ~outcomes[n].failed
Completes(outcomes) ==
  LET last == Len(Stages) IN
  \/ Has(outcomes, last) /\ ~OutcomeOf(outcomes, last).failed
  \/ /\ Stages[last].policy # "always"
     /\ outcomes # <<>> /\ ~LatestOf(outcomes).failed

\* Mutant: the stage may be begun once more.
ExhaustedLate(i, used) == used[i] > Stages[i].cap
Exhausted(i, used) == used[i] >= Stages[i].cap

(* The stage to run, or 0 to complete, or -1 to fail.                      *)
NextAction(outcomes, used) ==
  IF Due(outcomes) = {}
  THEN IF Completes(outcomes) THEN 0 ELSE -1
  ELSE LET i == CHOOSE k \in Due(outcomes) : \A m \in Due(outcomes) : k =< m
       IN IF Blocked(outcomes, i) \/ Exhausted(i, used) THEN -1 ELSE i

-----------------------------------------------------------------------------
(* The walk.                                                               *)

Gone == [at |-> "none", outcomes |-> <<>>, used |-> <<>>, sure |-> TRUE]

WalkInit ==
  /\ kind \in Workflows
  /\ attempts = <<>>
  /\ walk = Gone
  /\ final = "none"

(* runPlan begins with recovery: orphans are closed, winners and counts    *)
(* are loaded.                                                             *)
Recover ==
  /\ walk.at = "none" /\ final = "none"
  /\ attempts' = [n \in DOMAIN attempts |->
       IF attempts[n].answer = "started" THEN [attempts[n] EXCEPT !.answer = "abandoned"]
       ELSE attempts[n]]
  /\ walk' = [at |-> "deciding", outcomes |-> Recovered, used |-> Counted, sure |-> TRUE]
  /\ UNCHANGED <<kind, final>>

Decision == NextAction(walk.outcomes, walk.used)

BeginStage ==
  /\ walk.at = "deciding" /\ Decision > 0
  /\ attempts' = Append(attempts, [stage |-> Decision, answer |-> "started"])
  /\ walk' = [walk EXCEPT !.at = "calling", !.used[Decision] = @ + 1]
  /\ UNCHANGED <<kind, final>>

(* The answer is finalized with its markers and becomes an outcome; a      *)
(* refusal carries no marker.                                              *)
Answered(answer) ==
  /\ walk.at = "calling"
  /\ answer = "failing" =>
       Stages[attempts[Len(attempts)].stage].key \in {"judge", "judge_fix", "judge_repair"}
  /\ attempts' = [attempts EXCEPT ![Len(attempts)].answer = answer]
  /\ walk' = [walk EXCEPT !.at = "deciding",
       !.outcomes = Append(@, OutcomeFrom(attempts[Len(attempts)].stage, answer)),
       !.sure = answer # "refused"]
  /\ UNCHANGED <<kind, final>>

(* No answer: the attempt stays started and the job is requeued.           *)
Silent ==
  /\ walk.at = "calling"
  /\ walk' = Gone
  /\ UNCHANGED <<kind, attempts, final>>

Dies ==
  /\ walk.at # "none" /\ final = "none"
  /\ walk' = Gone
  /\ UNCHANGED <<kind, attempts, final>>

\* Mutant: a plan that failed is requeued like one without an answer.
EndedRequeued ==
  /\ walk.at = "deciding" /\ Decision =< 0
  /\ final' = IF Decision = 0 THEN "published" ELSE final
  /\ walk' = Gone
  /\ UNCHANGED <<kind, attempts>>

Ended ==
  /\ walk.at = "deciding" /\ Decision =< 0
  /\ final' = IF Decision = 0 THEN "published" ELSE "failed"
  /\ walk' = Gone
  /\ UNCHANGED <<kind, attempts>>

Calls == Silent \/ \E answer \in Answers : Answered(answer)
WalkNext == Recover \/ BeginStage \/ Calls \/ Dies \/ Ended

(* A provider call ends within its timeout, a requeued or reclaimed job is *)
(* claimed again, and a worker is not killed at every decision.            *)
WalkSpec == /\ WalkInit /\ [][WalkNext]_walkVars
            /\ WF_walkVars(Recover) /\ WF_walkVars(Calls)
            /\ SF_walkVars(BeginStage) /\ SF_walkVars(Ended)

-----------------------------------------------------------------------------
(* A worker that takes a walk over decides as the one before it would      *)
(* have, unless that one had just been refused by the provider: a refusal  *)
(* is not read back, and the stage is tried again within its capacity.     *)
RecoveryAgrees ==
  walk.at = "deciding" /\ walk.sure
    => NextAction(Recovered, Counted) = Decision

(* Prose is published only on a writer's output and a judge's, each        *)
(* repaired or not, whatever failed and was lost on the way.               *)
Delivered(keys) ==
  \E n \in DOMAIN attempts :
    /\ Stages[attempts[n].stage].key \in keys
    /\ ReadBack(attempts[n]) /\ ~OutcomeFrom(attempts[n].stage, attempts[n].answer).failed

PublishedIsComplete ==
  final = "published" =>
    IF kind = "beat_write_judge"
    THEN /\ Delivered({"writer", "writer_repair"})
         /\ Delivered({"judge", "judge_fix", "judge_repair"})
    ELSE Delivered({"only", "only_repair"})

(* The calls made for a job stay within the budget it was quoted at, over  *)
(* all workers that died or were answered nothing.                         *)
CallsWithinBudget == Len(attempts) =< Budget

(* A job that a worker took ends, whoever dies or is answered nothing.     *)
WalkEnds == walk.at # "none" ~> final # "none"

=============================================================================
