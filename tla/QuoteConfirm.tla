----------------------------- MODULE QuoteConfirm ----------------------------
(***************************************************************************)
(* One user's credit: quotes, their confirmation into reservations, and    *)
(* the balance the reservations are taken from.  A confirmation is one     *)
(* READ COMMITTED transaction of several statements; it holds the user's   *)
(* row from its first statement on, but settlements, grants, the clock and *)
(* the retention sweep do not take that row and go on between its          *)
(* statements.  What it wrote is visible to the others when it commits.    *)
(*                                                                         *)
(* A quote has at most one reservation (quote_id is UNIQUE), so the row    *)
(* and its ledger are kept by quote.  The reservation's job is the same    *)
(* for the same confirmation request, so it stands for both.               *)
(***************************************************************************)
EXTENDS CreditReservation, FiniteSets, Functions

CONSTANTS
  Quotes,       \* quotes issued to the user
  Amount,       \* maxAmountMicroIdr of each quote
  Requests,     \* confirmation request ids
  Clients,      \* connections confirming for the user
  NoRequest, NoQuote,
  GrantAmount,  \* the new-user grant
  Costs         \* provider cost of a usable output

ASSUME QuotesAssumption == IsFiniteSet(Quotes)
ASSUME AmountAssumption == Amount \in [Quotes -> Nat \ {0}]
ASSUME NoRequestAssumption == NoRequest \notin Requests
ASSUME NoQuoteAssumption == NoQuote \notin Quotes
ASSUME GrantAssumption == GrantAmount \in Nat \ {0}
ASSUME CostsAssumption == Costs \subseteq Nat

VARIABLES
  quote,      \* credit_quotes: "none" before it is issued and after it is purged
  expired,    \* expires_at has passed
  res,        \* the user_paid reservation made from the quote
  ledger,     \* its ledger rows
  request,    \* its confirmation_request_id
  grant,      \* amount of the grant row, 0 without one
  txn,        \* each client's open confirmation: where it is and its input
  answered    \* the quotes each request was told "confirmed" or "exact_replay" for

creditVars == <<quote, expired, res, ledger, request, grant, txn, answered>>
rowVars == <<quote, expired, res, ledger, request, grant>>

QuoteStatus == {"none", "issued", "consumed", "purged"}
NoReservation == [status |-> "none", reserved |-> 0, settled |-> 0, released |-> 0,
                  exposure |-> 0]
IdleTxn == [pc |-> "idle", quote |-> NoQuote, request |-> NoRequest, fresh |-> TRUE]

(* One type invariant over the rows and the open transactions.             *)
CreditTypeOK ==
  /\ quote \in [Quotes -> QuoteStatus]
  /\ expired \in [Quotes -> BOOLEAN]
  /\ res \in [Quotes -> Reservation \cup {NoReservation}]
  /\ ledger \in [Quotes -> Ledger]
  /\ request \in [Quotes -> Requests \cup {NoRequest}]
  /\ grant \in {0, GrantAmount}
  /\ txn \in [Clients -> [pc : {"idle", "locked", "quoted", "admitted"},
                          quote : Quotes \cup {NoQuote},
                          request : Requests \cup {NoRequest}, fresh : BOOLEAN]]
  /\ answered \in [Requests -> SUBSET Quotes]

-----------------------------------------------------------------------------
Reserved(q) == res[q].status # "none"

\* The balance summary is one statement, hence one snapshot of the committed rows.
Book == grant - SumFunction([q \in Quotes |-> ledger[q]["settle"]])
Exposed(status) ==
  SumFunction([q \in Quotes |-> IF res[q].status = status THEN res[q].exposure ELSE 0])
Available == Book - Exposed("open") - Exposed("closing")

At(c, pc) == txn[c].pc = pc
Goto(c, pc) == txn' = [txn EXCEPT ![c].pc = pc]
Done(c) == txn' = [txn EXCEPT ![c] = IdleTxn]

-----------------------------------------------------------------------------
CreditInit ==
  /\ quote = [q \in Quotes |-> "none"]
  /\ expired = [q \in Quotes |-> FALSE]
  /\ res = [q \in Quotes |-> NoReservation]
  /\ ledger = [q \in Quotes |-> EmptyLedger]
  /\ request = [q \in Quotes |-> NoRequest]
  /\ grant = 0
  /\ txn = [c \in Clients |-> IdleTxn]
  /\ answered = [r \in Requests |-> {}]

\* quote-service and the quote's ten minutes; an issuance replayed changes nothing
Issue(q) ==
  /\ quote[q] = "none"
  /\ quote' = [quote EXCEPT ![q] = "issued"]
  /\ UNCHANGED <<expired, res, ledger, request, grant, txn, answered>>

Expire(q) ==
  /\ quote[q] \in {"issued", "consumed"} /\ ~expired[q]
  /\ expired' = [expired EXCEPT ![q] = TRUE]
  /\ UNCHANGED <<quote, res, ledger, request, grant, txn, answered>>

\* Mutant: the sweep deletes consumed quotes too.
PurgeOld(q) ==
  /\ quote[q] \in {"issued", "consumed"} /\ expired[q]
  /\ quote' = [quote EXCEPT ![q] = "purged"]
  /\ UNCHANGED <<expired, res, ledger, request, grant, txn, answered>>

\* The retention sweep deletes old quotes nobody consumed, and skips a locked row.
Purge(q) ==
  /\ quote[q] = "issued" /\ expired[q] /\ ~Reserved(q)
  /\ ~\E c \in Clients : txn[c].quote = q /\ txn[c].pc \in {"quoted", "admitted"}
  /\ quote' = [quote EXCEPT ![q] = "purged"]
  /\ UNCHANGED <<expired, res, ledger, request, grant, txn, answered>>

Grant ==
  /\ grant = 0
  /\ grant' = GrantAmount
  /\ UNCHANGED <<quote, expired, res, ledger, request, txn, answered>>

-----------------------------------------------------------------------------
\* Mutant: the user's row is not locked.
ReadUserBalance(c) ==
  /\ At(c, "idle")
  /\ \E q \in Quotes, r \in Requests :
       txn' = [txn EXCEPT ![c] = [pc |-> "locked", quote |-> q, request |-> r, fresh |-> TRUE]]
  /\ UNCHANGED <<rowVars, answered>>

\* serializeUserBalance: the user's row is locked until the transaction ends.
SerializeUserBalance(c) ==
  /\ At(c, "idle")
  /\ \A d \in Clients : At(d, "idle")
  /\ \E q \in Quotes, r \in Requests, fresh \in BOOLEAN :
       txn' = [txn EXCEPT ![c] = [pc |-> "locked", quote |-> q, request |-> r,
                                  fresh |-> fresh]]
  /\ UNCHANGED <<rowVars, answered>>

\* findReplayByConfirmationRequestId
Replayed(r) == {q \in Quotes : Reserved(q) /\ request[q] = r}

\* Mutant: any reservation of the request answers it.
ReservationExists(r, q) == Replayed(r) # {}

ReservationMatchesInput(r, q) == Replayed(r) = {q}

\* The quote row is locked; a request already confirmed is answered again, any other
\* needs a quote that is unconsumed and unexpired.  "fresh": the project is active and
\* the quote has the expected hashes.
ConfirmLock(c) ==
  /\ At(c, "locked")
  /\ LET q == txn[c].quote
         r == txn[c].request
         found == quote[q] \in {"issued", "consumed"}
     IN  \/ /\ found /\ txn[c].fresh /\ ReservationMatchesInput(r, q)
            /\ answered' = [answered EXCEPT ![r] = @ \cup {q}]
            /\ Done(c)
         \/ /\ found /\ txn[c].fresh /\ Replayed(r) = {}
            /\ quote[q] = "issued" /\ ~expired[q]
            /\ Goto(c, "quoted")
            /\ UNCHANGED answered
         \/ /\ \/ ~found \/ ~txn[c].fresh
               \/ Replayed(r) # {} /\ ~ReservationMatchesInput(r, q)
               \/ Replayed(r) = {} /\ (quote[q] = "consumed" \/ expired[q])
            /\ Done(c)
            /\ UNCHANGED answered
  /\ UNCHANGED rowVars

CheckBalance(c) ==
  /\ At(c, "quoted")
  /\ \/ Available >= Amount[txn[c].quote] /\ Goto(c, "admitted")
     \/ Available < Amount[txn[c].quote] /\ Done(c)
  /\ UNCHANGED <<rowVars, answered>>

\* consumeQuote looks at the clock again; then reservation and job are written and the
\* transaction commits.
Confirm(c) ==
  /\ At(c, "admitted")
  /\ LET q == txn[c].quote
     IN  \/ /\ quote[q] = "issued" /\ ~expired[q]
            /\ quote' = [quote EXCEPT ![q] = "consumed"]
            /\ res' = [res EXCEPT ![q] = OpenReservation(Amount[q])]
            /\ request' = [request EXCEPT ![q] = txn[c].request]
            /\ answered' = [answered EXCEPT ![txn[c].request] = @ \cup {q}]
         \/ /\ ~(quote[q] = "issued" /\ ~expired[q])
            /\ UNCHANGED <<quote, res, request, answered>>
  /\ Done(c)
  /\ UNCHANGED <<expired, ledger, grant>>

\* A conflicting job id, an aborted transaction or a lost connection: all is undone.
Rollback(c) ==
  /\ ~At(c, "idle")
  /\ Done(c)
  /\ UNCHANGED <<rowVars, answered>>

-----------------------------------------------------------------------------
Apply(q, out) ==
  /\ out.ok
  /\ res' = [res EXCEPT ![q] = out.res]
  /\ ledger' = [ledger EXCEPT ![q] = out.ledger]
  /\ UNCHANGED <<quote, expired, request, grant, txn, answered>>

\* What the job of the reservation does to it, elsewhere and without the user's row:
\* published output, an end without output while n attempts are in flight, a queued
\* cancellation, and the late answer.
SettleUsable(q) ==
  /\ res[q].status = "open"
  /\ \E cost \in Costs :
       Apply(q, Reconcile(res[q], ledger[q], TRUE, cost, 0, "released", "invocation_completed"))

EndUnpaid(q) ==
  /\ res[q].status = "open"
  /\ \E n \in {0, 1} :
       Apply(q, Reconcile(res[q], ledger[q], TRUE, 0, n, "released", "final-close"))

CancelQueuedJob(q) ==
  /\ res[q].status = "open"
  /\ Apply(q, ReleaseQueued(res[q], ledger[q]))

CloseLate(q) ==
  /\ res[q].status = "closing"
  /\ Apply(q, Reconcile(res[q], ledger[q], TRUE, 0, 0, "released", "final-close"))

-----------------------------------------------------------------------------
ConfirmStep(c) ==
  \/ SerializeUserBalance(c) \/ ConfirmLock(c) \/ CheckBalance(c) \/ Confirm(c)
  \/ Rollback(c)

QuoteStep(q) ==
  \/ Issue(q) \/ Expire(q) \/ Purge(q)
  \/ SettleUsable(q) \/ EndUnpaid(q) \/ CancelQueuedJob(q) \/ CloseLate(q)

CreditNext == Grant \/ (\E c \in Clients : ConfirmStep(c)) \/ (\E q \in Quotes : QuoteStep(q))

CreditSpec == CreditInit /\ [][CreditNext]_creditVars

-----------------------------------------------------------------------------
(* The user never holds or spends more than was granted, and a balance     *)
(* that admitted a confirmation is still enough when the confirmation      *)
(* commits, whatever was settled, granted or released in between.          *)
NeverOverspent ==
  /\ Available >= 0
  /\ \A c \in Clients : At(c, "admitted") => Available >= Amount[txn[c].quote]

(* A quote is consumed exactly by the confirmation that made its one       *)
(* reservation, under a request no other reservation has, and the sweep    *)
(* never deletes it.                                                       *)
QuoteSpentOnce ==
  \A q \in Quotes :
    /\ Reserved(q) <=> quote[q] = "consumed"
    /\ Reserved(q) => /\ res[q].reserved = Amount[q]
                      /\ Replayed(request[q]) = {q}

(* However often a confirmation is repeated, with whatever quote, all      *)
(* positive answers to one request name the same reservation.              *)
AnswerIsStable ==
  \A r \in Requests : answered[r] # {} => answered[r] = Replayed(r)
=============================================================================
