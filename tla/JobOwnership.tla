---------------------------- MODULE JobOwnership -----------------------------
(***************************************************************************)
(* What the job service promises, without tokens, fences and leases: a job *)
(* is owned by at most one worker, ownership may be lost at any time, only *)
(* the owner can deliver the output, it is delivered at most once, and a   *)
(* job barred by a cancellation is neither delivered nor queued again.     *)
(***************************************************************************)
EXTENDS Naturals

CONSTANTS Jobs, Workers

VARIABLES
  phase,    \* absent, waiting, owned or done
  owner,    \* the worker that owns the job: a set of at most one
  barred,   \* a cancellation of the owned job was requested
  output    \* outputs delivered

vars == <<phase, owner, barred, output>>

Init ==
  /\ phase = [j \in Jobs |-> "absent"]
  /\ owner = [j \in Jobs |-> {}]
  /\ barred = [j \in Jobs |-> FALSE]
  /\ output = [j \in Jobs |-> 0]

Submit(j) ==
  /\ phase[j] = "absent"
  /\ phase' = [phase EXCEPT ![j] = "waiting"]
  /\ UNCHANGED <<owner, barred, output>>

Grant(j, w) ==
  /\ phase[j] = "waiting"
  /\ \A other \in Jobs : w \notin owner[other]
  /\ phase' = [phase EXCEPT ![j] = "owned"]
  /\ owner' = [owner EXCEPT ![j] = {w}]
  /\ UNCHANGED <<barred, output>>

Forget(j) ==
  /\ phase[j] = "owned" /\ owner[j] # {}
  /\ owner' = [owner EXCEPT ![j] = {}]
  /\ UNCHANGED <<phase, barred, output>>

Bar(j) ==
  /\ phase[j] = "owned"
  /\ barred' = [barred EXCEPT ![j] = TRUE]
  /\ UNCHANGED <<phase, owner, output>>

Return(j) ==
  /\ phase[j] = "owned" /\ ~barred[j]
  /\ phase' = [phase EXCEPT ![j] = "waiting"]
  /\ owner' = [owner EXCEPT ![j] = {}]
  /\ UNCHANGED <<barred, output>>

Deliver(j, w) ==
  /\ phase[j] = "owned" /\ owner[j] = {w} /\ ~barred[j]
  /\ output[j] = 0
  /\ phase' = [phase EXCEPT ![j] = "done"]
  /\ owner' = [owner EXCEPT ![j] = {}]
  /\ output' = [output EXCEPT ![j] = 1]
  /\ UNCHANGED barred

End(j) ==
  /\ phase[j] \in {"waiting", "owned"}
  /\ phase' = [phase EXCEPT ![j] = "done"]
  /\ owner' = [owner EXCEPT ![j] = {}]
  /\ barred' = [barred EXCEPT ![j] = FALSE]
  /\ UNCHANGED output

Next ==
  \E j \in Jobs :
    \/ Submit(j) \/ Forget(j) \/ Bar(j) \/ Return(j) \/ End(j)
    \/ \E w \in Workers : Grant(j, w) \/ Deliver(j, w)

Spec == Init /\ [][Next]_vars
=============================================================================
