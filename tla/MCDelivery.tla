----------------------------- MODULE MCDelivery -----------------------------
(* What goes on in spite of processes that die and transactions that are   *)
(* aborted, each specification on an instance of its own: the delivery of  *)
(* outbox events, the walk through the stages of a plan, and the row locks *)
(* of concurrent handlers.  part names the instance; the variables of the  *)
(* others keep their initial values.                                       *)
EXTENDS OutboxDelivery, StageWalk, LockOrder

VARIABLE part
vars == <<outboxVars, walkVars, lockVars, part>>

MCInit == OutboxInit /\ WalkInit /\ LockInit /\ part \in {"outbox", "walk", "locks"}

InOutbox(A) == part = "outbox" /\ A /\ UNCHANGED <<walkVars, lockVars, part>>
InWalk(A)   == part = "walk" /\ A /\ UNCHANGED <<outboxVars, lockVars, part>>
InLocks(A)  == part = "locks" /\ A /\ UNCHANGED <<outboxVars, walkVars, part>>

MCNext == InOutbox(OutboxNext) \/ InWalk(WalkNext) \/ InLocks(LockNext)

(* The fairness of each specification, for the steps of its part.          *)
MCSpec ==
  /\ MCInit /\ [][MCNext]_vars
  /\ \A p \in Processes : WF_vars(InOutbox(Claim(p))) /\ WF_vars(InOutbox(Deliver(p)))
  /\ \A e \in Events : WF_vars(InOutbox(Elapse(e)))
  /\ WF_vars(InWalk(Recover)) /\ WF_vars(InWalk(Calls))
  /\ SF_vars(InWalk(BeginStage)) /\ SF_vars(InWalk(Ended))
  /\ \A c \in Clients : SF_vars(InLocks(Acquire(c))) /\ WF_vars(InLocks(Advance(c)))
=============================================================================
