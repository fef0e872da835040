--------------------------- MODULE OutboxDelivery ----------------------------
(***************************************************************************)
(* Delivery of outbox events to one consumer.  A delivery is a claiming    *)
(* transaction, the handler outside any transaction, and a finalizing      *)
(* transaction fenced by the generation and attempt that were claimed.     *)
(* Consumers share nothing but short locks on event rows, so one consumer  *)
(* key is enough; its processes are loops and operators that replay.       *)
(*                                                                         *)
(* A claim locks the event and decides under that lock, hence one action.  *)
(* It may take any eligible event: older ones that another transaction     *)
(* has locked are skipped.  The lease is kept as the ticks left of it.     *)
(***************************************************************************)
EXTENDS Naturals, Sequences

CONSTANTS
  Events,         \* rows of outbox_events of the consumer's event types
  Processes,      \* consumer loops and operators
  NoEvent,
  LeaseTerm,      \* ticks a fresh lease lasts
  MaxAttempt,     \* bound: a generation is not claimed again after so many attempts
  MaxGeneration   \* bound: generations opened for an event

ASSUME NoEventAssumption == NoEvent \notin Events
ASSUME OutboxLeaseAssumption == LeaseTerm \in Nat \ {0}
ASSUME OutboxBoundsAssumption == MaxAttempt \in Nat /\ MaxGeneration \in Nat

VARIABLES
  appended,   \* events whose transaction has committed
  receipts,   \* outbox_receipts of an event; generation g is the entry g + 1
  delivery,   \* the claim each process works on
  verdicts    \* what the handler answered to which claim

outboxVars == <<appended, receipts, delivery, verdicts>>

Verdict == {"completed", "uncertain", "dead"}
Receipt == [status : {"processing"} \cup Verdict, attempt : Nat \ {0}, lease : 0..LeaseTerm]
Claimed == [event : Events, generation : Nat \ {0}, attempt : Nat \ {0}]
Delivery == [pc : {"idle", "handling", "answered"}, event : Events \cup {NoEvent},
             generation : Nat, attempt : Nat, verdict : Verdict]
Idle == [pc |-> "idle", event |-> NoEvent, generation |-> 0, attempt |-> 0,
         verdict |-> "completed"]

(* One type invariant over rows and processes.                             *)
OutboxTypeOK ==
  /\ appended \subseteq Events
  /\ receipts \in [Events -> Seq(Receipt)]
  /\ delivery \in [Processes -> Delivery]
  /\ verdicts \subseteq [claim : Claimed, verdict : Verdict]

-----------------------------------------------------------------------------
Generation(e) == Len(receipts[e])
Latest(e) == receipts[e][Len(receipts[e])]
Busy(p) == delivery[p].pc # "idle"
ClaimOf(p) == [event |-> delivery[p].event, generation |-> delivery[p].generation,
               attempt |-> delivery[p].attempt]

FreshReceipt == [status |-> "processing", attempt |-> 1, lease |-> LeaseTerm]

\* Mutant: a reclaim keeps the attempt it takes over.
ReclaimedSameAttempt(r) == [r EXCEPT !.lease = LeaseTerm]

Reclaimed(r) == [r EXCEPT !.attempt = @ + 1, !.lease = LeaseTerm]

\* Mutant: only events never seen before are delivered.
EligibleFresh(e) == e \in appended /\ receipts[e] = <<>>

\* the event was never seen by the consumer, or its latest delivery was abandoned
Eligible(e) ==
  /\ e \in appended
  /\ \/ receipts[e] = <<>>
     \/ /\ receipts[e] # <<>>
        /\ Latest(e).status = "processing" /\ Latest(e).lease = 0
        /\ Latest(e).attempt < MaxAttempt

\* Mutant: the attempt is not part of the fence.
CurrentGeneration(p) ==
  LET c == ClaimOf(p) IN
  /\ Busy(p)
  /\ receipts[c.event][c.generation].status = "processing"

\* the CAS of every finalization, but for the lease
Current(p) ==
  LET c == ClaimOf(p) IN
  /\ Busy(p)
  /\ receipts[c.event][c.generation].status = "processing"
  /\ receipts[c.event][c.generation].attempt = c.attempt

Live(p) == Current(p) /\ receipts[delivery[p].event][delivery[p].generation].lease > 0

\* the outcome replaces the lease
Record(p) ==
  receipts' = [receipts EXCEPT ![delivery[p].event][delivery[p].generation] =
                 [@ EXCEPT !.status = delivery[p].verdict, !.lease = 0]]

Start(p, e, g, a) ==
  delivery' = [delivery EXCEPT ![p] = [pc |-> "handling", event |-> e, generation |-> g,
                                       attempt |-> a, verdict |-> "completed"]]

Stop(p) == delivery' = [delivery EXCEPT ![p] = Idle]

-----------------------------------------------------------------------------
OutboxInit ==
  /\ appended = {}
  /\ receipts = [e \in Events |-> <<>>]
  /\ delivery = [p \in Processes |-> Idle]
  /\ verdicts = {}

\* The dedupe key is unique: an event is appended once.
AppendEvent(e) ==
  /\ e \notin appended
  /\ appended' = appended \cup {e}
  /\ UNCHANGED <<receipts, delivery, verdicts>>

ClaimNext(p, e) ==
  /\ ~Busy(p) /\ Eligible(e)
  /\ \/ /\ receipts[e] = <<>>
        /\ receipts' = [receipts EXCEPT ![e] = <<FreshReceipt>>]
        /\ Start(p, e, 1, 1)
     \/ /\ receipts[e] # <<>>
        /\ receipts' = [receipts EXCEPT ![e][Generation(e)] = Reclaimed(@)]
        /\ Start(p, e, Generation(e), Reclaimed(Latest(e)).attempt)
  /\ UNCHANGED <<appended, verdicts>>

ReplayDead(p, e) ==
  /\ ~Busy(p)
  /\ receipts[e] # <<>> /\ Latest(e).status = "dead"
  /\ Generation(e) < MaxGeneration
  /\ receipts' = [receipts EXCEPT ![e] = Append(@, FreshReceipt)]
  /\ Start(p, e, Generation(e) + 1, 1)
  /\ UNCHANGED <<appended, verdicts>>

\* The handler answers, or throws (or answers a failure without a code): then nothing
\* is written and the lease is left to expire.
Handle(p) ==
  /\ delivery[p].pc = "handling"
  /\ \/ \E v \in Verdict :
          /\ delivery' = [delivery EXCEPT ![p] = [@ EXCEPT !.pc = "answered", !.verdict = v]]
          /\ verdicts' = verdicts \cup {[claim |-> ClaimOf(p), verdict |-> v]}
     \/ Stop(p) /\ UNCHANGED verdicts
  /\ UNCHANGED <<appended, receipts>>

\* complete, markUncertain, markDead: stale unless the claim is current and its lease live
Finalize(p) ==
  /\ delivery[p].pc = "answered"
  /\ IF Live(p) THEN Record(p) ELSE UNCHANGED receipts
  /\ Stop(p)
  /\ UNCHANGED <<appended, verdicts>>

\* the process dies, or detaches from the delivery at its shutdown deadline
Abandon(p) ==
  /\ Busy(p)
  /\ Stop(p)
  /\ UNCHANGED <<appended, receipts, verdicts>>

Elapse(e) ==
  /\ receipts[e] # <<>> /\ Latest(e).lease > 0
  /\ receipts' = [receipts EXCEPT ![e][Generation(e)].lease = @ - 1]
  /\ UNCHANGED <<appended, delivery, verdicts>>

-----------------------------------------------------------------------------
Claim(p) == \E e \in Events : ClaimNext(p, e)
Deliver(p) == Handle(p) \/ Finalize(p)

OutboxNext ==
  \/ \E p \in Processes :
       \/ Claim(p) \/ Deliver(p) \/ Abandon(p)
       \/ \E e \in Events : ReplayDead(p, e)
  \/ \E e \in Events : AppendEvent(e) \/ Elapse(e)

OutboxSpec == OutboxInit /\ [][OutboxNext]_outboxVars

\* Loops keep polling, handlers return or throw, and time passes.
FairOutboxSpec ==
  /\ OutboxSpec
  /\ \A p \in Processes : WF_outboxVars(Claim(p)) /\ WF_outboxVars(Deliver(p))
  /\ \A e \in Events : WF_outboxVars(Elapse(e))

-----------------------------------------------------------------------------
(* However often a lease lapses and the event is claimed again or          *)
(* replayed, at most one process holds a claim that a finalization accepts.*)
OneCurrentClaim ==
  \A p, q \in Processes :
    Current(p) /\ Current(q) /\ delivery[p].event = delivery[q].event => p = q

(* The recorded outcome of a generation is what the handler answered to    *)
(* the very attempt the receipt names: a superseded attempt that answers   *)
(* late never decides.                                                     *)
VerdictOfAttempt ==
  \A e \in Events : \A g \in 1..Generation(e) :
    receipts[e][g].status \in Verdict =>
      [claim |-> [event |-> e, generation |-> g, attempt |-> receipts[e][g].attempt],
       verdict |-> receipts[e][g].status] \in verdicts

(* A generation is opened only over a dead one, so of all generations only *)
(* the latest can be anything else, and two replays never open two.        *)
OnlyDeadIsReplayed ==
  \A e \in Events : \A g \in 1..Generation(e) :
    g < Generation(e) => receipts[e][g].status = "dead"

(* A finalized receipt is never touched again and no receipt disappears.   *)
ReceiptsAreFinal ==
  [][\A e \in Events : \A g \in 1..Generation(e) :
       /\ Generation(e) <= Len(receipts'[e])
       /\ receipts[e][g].status \in Verdict => receipts'[e][g] = receipts[e][g]]_outboxVars

(* At least once: an event whose transaction has committed is handed to    *)
(* handlers again and again, whoever crashes meanwhile, until a verdict is *)
(* recorded (or the bound on attempts is reached).                         *)
EventsEnd ==
  \A e \in Events :
    e \in appended ~> /\ receipts[e] # <<>>
                      /\ Latest(e).status \in Verdict \/ Latest(e).attempt = MaxAttempt
=============================================================================
