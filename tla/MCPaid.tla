------------------------------- MODULE MCPaid -------------------------------
(***************************************************************************)
(* What an author pays for: the preparation of quotes, one workflow kind   *)
(* at a time, and the run of a job, each on an instance of its own.  part  *)
(* names the instance; the variables of the other keep their initial       *)
(* values.  The jobs of a run share nothing but the workers, so one is     *)
(* enough.                                                                 *)
(***************************************************************************)
EXTENDS MCGenerationRun, Preparation

VARIABLE part
paidVars == <<runVars, prepVars, part>>

PrepParts == {"concept", "beat", "publish", "repair", "scene", "chat"}

PaidInit == RunInit /\ PrepInit /\ part \in {"run"} \cup PrepParts

(* The kind asked for in a part, and how many quotes are issued in it.     *)
Kinds == {"none", KindOf(part)}
Issued == IF part = "beat" THEN MaxOffers ELSE 1

PrepPart ==
  /\ part \in PrepParts
  /\ PrepNext
  /\ \A a \in Askers : asks'[a].kind \in Kinds
  /\ Len(offers') =< Issued

PaidNext ==
  /\ UNCHANGED part
  /\ \/ part = "run" /\ RunNext /\ UNCHANGED prepVars
     \/ PrepPart /\ UNCHANGED runVars

PaidSpec == PaidInit /\ [][PaidNext]_paidVars
=============================================================================
