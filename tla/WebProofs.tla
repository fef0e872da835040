------------------------------ MODULE WebProofs ------------------------------
(***************************************************************************)
(* Proofs about what the author meets: AuthTokens, DraftEditing and        *)
(* GenerationPanel, for every value of their constants.                    *)
(*                                                                         *)
(* Tokens: the inductive invariant AuthIInv follows a token from the       *)
(* request that has it issued to what it allowed: who asks for one has an  *)
(* account fit for it (Entitled), a spent token stays spent (Rests), and   *)
(* what a verification token opens is one request's and then one           *)
(* session's (OpenedOnce).                                                 *)
(*                                                                         *)
(* Drafts: the inductive invariant is DraftInv.  A revision only rises, so *)
(* a tab that knows the revision of the row has seen the row itself; and a *)
(* save that passed its reading step carries a revision its tab has seen.  *)
(*                                                                         *)
(* The panel: the inductive invariant is PanelInv.  The runs of the effect *)
(* share one flag; that a stopped loop never goes on beside a new one      *)
(* rests on what can bring back a running view: only the answer of a       *)
(* cancellation, and then every loop has ended.                            *)
(***************************************************************************)
EXTENDS AuthTokens, DraftEditing, GenerationPanel, FiniteSetTheorems, TLAPS

\* Tokens and sessions.

Vias == Tokens \cup {"password"}
Issuing == [op : Purposes, at : {"cooldown", "count", "select", "insert"},
            seen : SUBSET Tokens]
Sending == [op : Purposes, at : {"send"}, token : Tokens]
Registering == [op : {"register"}, at : {"create"}, password : Passwords]
Resetting == [op : {"reset"}, at : {"consume"}, token : Tokens, password : Passwords]
LoggingIn == [op : {"login"}, at : {"fail", "lock", "clear"}]
Opening == [op : {"open"}, at : {"session"}, via : Vias]
Request == {Unasked} \cup Registering \cup Issuing \cup Sending \cup Resetting
             \cup LoggingIn \cup Opening

Account == [status : {"absent", "pending", "active"}, password : Passwords \cup {"none"}]
TokenRow == [purpose : Purposes \cup {"none"},
             status : {"none", "live", "consumed", "revoked", "expired"}]
SessionRow == [status : {"none", "live", "revoked"}, via : Vias \cup {"none"}, after : Nat]
Limits == [cooling : SUBSET Purposes, sent : [Purposes -> Nat], fails : Nat,
           locked : BOOLEAN]

(* Type invariant: rows, limits and requests in flight.                    *)
AuthTypeOK ==
  /\ account \in Account
  /\ token \in [Tokens -> TokenRow]
  /\ issuedTokens \in Seq(Tokens) /\ mailed \subseteq Tokens
  /\ session \in [Sessions -> SessionRow]
  /\ limits \in Limits
  /\ resets \in Seq(Tokens \X Passwords)
  /\ asking \in [Callers -> Request]

Spent(t, purpose) == token[t] = [purpose |-> purpose, status |-> "consumed"]
Proven == \E t \in Tokens : Spent(t, "verify_email")

\* What a purpose asks of the account.
Fit(purpose) ==
  /\ purpose = "verify_email" => account.status # "absent"
  /\ purpose = "reset_password" => account.status = "active"

\* Tokens are asked for, and exist, only for an account fit for them; one that is
\* being redeemed for a reset is a reset token.
Entitled ==
  /\ \A t \in Tokens : Fit(token[t].purpose)
  /\ \A t \in Tokens : token[t].status = "none" => token[t].purpose = "none"
  /\ \A c \in Callers : Fit(asking[c].op)
  /\ \A c \in Callers : Asking(c, "consume") => token[asking[c].token].purpose = "reset_password"

\* An active account, a session and a request about to open one rest on a spent
\* verification token.
Rests ==
  /\ account.status = "active" => Proven
  /\ \A c \in Callers : asking[c].at \in {"clear", "session"} => Proven
  /\ \A s \in Sessions : session[s].status # "none" => Proven

\* Each reset spent a token of its own, and the last one chose the password.
ResetsSpend ==
  /\ \A i \in DOMAIN resets : Spent(resets[i][1], "reset_password")
  /\ \A i, j \in DOMAIN resets : resets[i][1] = resets[j][1] => i = j
  /\ resets # <<>> =>
       account.status # "absent" /\ account.password = resets[Len(resets)][2]

\* Whatever a token opened is one request or one session.
OpenedOnce ==
  /\ \A s \in Sessions : session[s].via \in Tokens => Spent(session[s].via, "verify_email")
  /\ \A c \in Callers :
       Asking(c, "session") /\ asking[c].via \in Tokens => Spent(asking[c].via, "verify_email")
  /\ \A s, u \in Sessions :
       session[s].via = session[u].via /\ session[s].via \in Tokens => s = u
  /\ \A c, d \in Callers :
       Asking(c, "session") /\ Asking(d, "session") /\ asking[c].via = asking[d].via
         /\ asking[c].via \in Tokens => c = d
  /\ \A c \in Callers, s \in Sessions :
       Asking(c, "session") /\ asking[c].via \in Tokens => session[s].via # asking[c].via

LiveIsAfter == \A s \in Sessions : session[s].status = "live" => session[s].after = Len(resets)

AuthSafe == Entitled /\ Rests /\ ResetsSpend /\ OpenedOnce /\ LiveIsAfter
AuthIInv == AuthTypeOK /\ AuthSafe


-----------------------------------------------------------------------------
(* Types.                                                                  *)

\* Another step of the same request keeps it a request.
LEMMA StepTyped ==
  ASSUME AuthTypeOK, NEW c \in Callers, NEW q \in Request,
         asking' = [asking EXCEPT ![c] = q]
  PROVE  asking' \in [Callers -> Request]
  BY DEF AuthTypeOK

LEMMA UnaskedTyped == Unasked \in Request
  BY DEF Request

\* What is left of the request of a caller at a step of its own.
LEMMA RequestAt ==
  ASSUME AuthTypeOK, NEW c \in Callers
  PROVE  /\ asking[c].at \in {"cooldown", "count", "select", "insert"} => asking[c] \in Issuing
         /\ asking[c].at = "send" => asking[c] \in Sending
         /\ asking[c].at = "create" => asking[c] \in Registering
         /\ asking[c].at = "consume" => asking[c] \in Resetting
         /\ asking[c].at \in {"fail", "lock", "clear"} => asking[c] \in LoggingIn
         /\ asking[c].at = "session" => asking[c] \in Opening
<1> DEFINE r == asking[c]
<1>1. r \in Request
  BY DEF AuthTypeOK
<1>2. CASE r = Unasked
  BY <1>2 DEF Unasked
<1>3. CASE r \in Registering
  BY <1>3 DEF Registering
<1>4. CASE r \in Issuing
  BY <1>4 DEF Issuing
<1>5. CASE r \in Sending
  BY <1>5 DEF Sending
<1>6. CASE r \in Resetting
  BY <1>6 DEF Resetting
<1>7. CASE r \in LoggingIn
  BY <1>7 DEF LoggingIn
<1>8. CASE r \in Opening
  BY <1>8 DEF Opening
<1> QED BY <1>1, <1>2, <1>3, <1>4, <1>5, <1>6, <1>7, <1>8 DEF Request

\* A request that begins to have a token sent.
LEMMA BeginsSending ==
  ASSUME AuthTypeOK, NEW c \in Callers, NEW purpose \in Purposes, Sends(c, purpose)
  PROVE  \E q \in Issuing : /\ asking' = [asking EXCEPT ![c] = q]
                            /\ q.op = purpose /\ q.at = "cooldown"
<1> DEFINE q == [op |-> purpose, at |-> "cooldown", seen |-> {}]
<1>1. q \in Issuing /\ q.op = purpose /\ q.at = "cooldown"
  BY DEF Issuing
<1> QED BY <1>1 DEF Sends

\* A request that goes on to another step.
LEMMA GoesOn ==
  ASSUME AuthTypeOK, NEW c \in Callers, NEW step, To(c, step),
         \/ asking[c] \in Issuing /\ step \in {"count", "select"}
         \/ asking[c] \in LoggingIn /\ step = "lock"
  PROVE  \E q \in Request : /\ asking' = [asking EXCEPT ![c] = q]
                            /\ q.op = asking[c].op /\ q.at = step
<1> DEFINE q == [asking[c] EXCEPT !.at = step]
<1>1. CASE asking[c] \in Issuing /\ step \in {"count", "select"}
  <2>1. q \in Issuing /\ q.op = asking[c].op /\ q.at = step
    BY <1>1 DEF Issuing
  <2> QED BY <2>1 DEF To, Request, AuthTypeOK
<1>2. CASE asking[c] \in LoggingIn /\ step = "lock"
  <2>1. q \in LoggingIn /\ q.op = asking[c].op /\ q.at = step
    BY <1>2 DEF LoggingIn
  <2> QED BY <2>1 DEF To, Request, AuthTypeOK
<1> QED BY <1>1, <1>2

-----------------------------------------------------------------------------
(* Steps that only move a request.                                         *)

\* Rows that no request step writes.
RowsStay == UNCHANGED <<account, token, session, resets>>

\* What a request may become without a row changing.
Safe(q) ==
  /\ q \in Request
  /\ Fit(q.op)
  /\ q.at = "consume" => token[q.token].purpose = "reset_password"
  /\ q.at \in {"clear", "session"} => Proven
  /\ q.at = "session" => q.via \notin Tokens

LEMMA AskingStep ==
  ASSUME AuthTypeOK, AuthSafe, RowsStay, NEW c \in Callers, NEW q, Safe(q),
         asking' = [asking EXCEPT ![c] = q]
  PROVE  asking' \in [Callers -> Request] /\ AuthSafe'
<1>1. asking' \in [Callers -> Request]
  BY DEF AuthTypeOK, Safe
<1>2. asking \in [Callers -> Request]
  BY DEF AuthTypeOK
<1>3. asking'[c] = q /\ \A d \in Callers \ {c} : asking'[d] = asking[d]
  BY <1>2
<1>4. \A purpose : Fit(purpose)' <=> Fit(purpose)
  BY DEF Fit, RowsStay
<1>5. Proven' <=> Proven
  BY DEF Proven, Spent, RowsStay
<1>6. Entitled'
  <2>1. \A t \in Tokens : Fit(token[t].purpose)'
    BY <1>4 DEF AuthSafe, Entitled, RowsStay
  <2>2. \A t \in Tokens : token'[t].status = "none" => token'[t].purpose = "none"
    BY DEF AuthSafe, Entitled, RowsStay
  <2>3. ASSUME NEW d \in Callers
        PROVE  /\ Fit(asking[d].op)'
               /\ asking'[d].at = "consume" => token'[asking'[d].token].purpose = "reset_password"
    <3>1. CASE d = c
      BY <3>1, <1>3, <1>4 DEF Safe, RowsStay
    <3>2. CASE d # c
      BY <3>2, <1>3, <1>4 DEF AuthSafe, Entitled, RowsStay, Asking
    <3> QED BY <3>1, <3>2
  <2> QED BY <2>1, <2>2, <2>3 DEF Entitled, Asking
<1>7. Rests'
  <2>1. ASSUME NEW d \in Callers, asking'[d].at \in {"clear", "session"} PROVE Proven
    BY <2>1, <1>3 DEF Safe, AuthSafe, Rests
  <2> QED BY <2>1, <1>5 DEF Rests, AuthSafe, RowsStay
<1>8. ResetsSpend'
  BY DEF ResetsSpend, AuthSafe, RowsStay, Spent
<1>9. OpenedOnce'
  <2>1. ASSUME NEW d \in Callers, asking'[d].at = "session", asking'[d].via \in Tokens
        PROVE  d # c /\ asking'[d] = asking[d]
    BY <2>1, <1>3 DEF Safe
  <2>2. /\ \A s \in Sessions :
             session'[s].via \in Tokens => Spent(session[s].via, "verify_email")'
        /\ \A s, u \in Sessions :
             session'[s].via = session'[u].via /\ session'[s].via \in Tokens => s = u
    BY DEF AuthSafe, OpenedOnce, RowsStay, Spent
  <2>3. \A d \in Callers : asking'[d].at = "session" /\ asking'[d].via \in Tokens =>
          Spent(asking[d].via, "verify_email")'
    BY <2>1 DEF AuthSafe, OpenedOnce, RowsStay, Spent, Asking
  <2>4. \A d, e \in Callers :
          asking'[d].at = "session" /\ asking'[e].at = "session"
            /\ asking'[d].via = asking'[e].via /\ asking'[d].via \in Tokens => d = e
    BY <2>1 DEF AuthSafe, OpenedOnce, Asking
  <2>5. \A d \in Callers, s \in Sessions :
          asking'[d].at = "session" /\ asking'[d].via \in Tokens =>
            session'[s].via # asking'[d].via
    BY <2>1 DEF AuthSafe, OpenedOnce, RowsStay, Asking
  <2> QED BY <2>2, <2>3, <2>4, <2>5 DEF OpenedOnce, Asking
<1>10. LiveIsAfter'
  BY DEF LiveIsAfter, AuthSafe, RowsStay
<1> QED BY <1>1, <1>6, <1>7, <1>8, <1>9, <1>10 DEF AuthSafe

LEMMA OverIsSafe == Safe(Unasked)
  BY UnaskedTyped DEF Safe, Unasked, Fit

\* What the callers' steps that leave the rows alone keep beside the request.
MetersTyped == issuedTokens' \in Seq(Tokens) /\ mailed' \subseteq Tokens /\ limits' \in Limits

\* The steps of a request that write no row of the account.
LEMMA RequestStep ==
  ASSUME AuthTypeOK, AuthSafe, NEW c \in Callers,
         \/ \E password \in Passwords : Register(c, password)
         \/ AskVerification(c) \/ AskReset(c)
         \/ IssueCooldown(c) \/ IssueCount(c) \/ IssueSelect(c) \/ IssueSend(c)
         \/ \E t \in Tokens, password \in Passwords : ResetFind(c, t, password)
         \/ \E password \in Passwords : LoginRead(c, password)
         \/ LoginFail(c) \/ LoginLock(c) \/ LoginClear(c) \/ Dies(c)
  PROVE  RowsStay /\ MetersTyped /\ \E q : Safe(q) /\ asking' = [asking EXCEPT ![c] = q]
<1> DEFINE Goal == RowsStay /\ MetersTyped
                     /\ \E q : Safe(q) /\ asking' = [asking EXCEPT ![c] = q]
<1> USE DEF RowsStay, MetersTyped
<1>0. /\ issuedTokens \in Seq(Tokens) /\ mailed \subseteq Tokens /\ limits \in Limits
      /\ limits.cooling \subseteq Purposes /\ limits.sent \in [Purposes -> Nat]
      /\ limits.fails \in Nat /\ limits.locked \in BOOLEAN
  BY DEF AuthTypeOK, Limits
<1>a. \A purpose \in Purposes : Sends(c, purpose) /\ Fit(purpose) =>
        \E q : Safe(q) /\ asking' = [asking EXCEPT ![c] = q]
  <2> SUFFICES ASSUME NEW purpose \in Purposes, Sends(c, purpose), Fit(purpose)
               PROVE  \E q : Safe(q) /\ asking' = [asking EXCEPT ![c] = q]
    OBVIOUS
  <2>1. PICK q \in Issuing : /\ asking' = [asking EXCEPT ![c] = q]
                             /\ q.op = purpose /\ q.at = "cooldown"
    BY BeginsSending
  <2> QED BY <2>1 DEF Safe, Request
<1>b. Over(c) => \E q : Safe(q) /\ asking' = [asking EXCEPT ![c] = q]
  BY OverIsSafe DEF Over
<1>c. \A step : To(c, step) /\ step \in {"count", "select"} /\ asking[c] \in Issuing =>
        \E q : Safe(q) /\ asking' = [asking EXCEPT ![c] = q]
  <2> SUFFICES ASSUME NEW step, To(c, step), step \in {"count", "select"}, asking[c] \in Issuing
               PROVE  \E q : Safe(q) /\ asking' = [asking EXCEPT ![c] = q]
    OBVIOUS
  <2>1. PICK q \in Request : /\ asking' = [asking EXCEPT ![c] = q]
                             /\ q.op = asking[c].op /\ q.at = step
    BY GoesOn
  <2> QED BY <2>1 DEF Safe, AuthSafe, Entitled
<1>1. ASSUME NEW password \in Passwords, Register(c, password) PROVE Goal
  <2>1. RowsStay /\ MetersTyped
    BY <1>1, <1>0 DEF Register
  <2>2. CASE account.status = "absent" /\ asking' = [asking EXCEPT ![c] =
               [op |-> "register", at |-> "create", password |-> password]]
    <3> DEFINE q == [op |-> "register", at |-> "create", password |-> password]
    <3>1. q \in Registering
      BY DEF Registering
    <3>2. Safe(q)
      BY <3>1 DEF Safe, Request, Fit
    <3> QED BY <2>1, <2>2, <3>2
  <2>3. CASE account.status = "pending" /\ Sends(c, "verify_email")
    <3>1. "verify_email" \in Purposes /\ Fit("verify_email")
      BY <2>3 DEF Purposes, Fit
    <3> QED BY <2>1, <2>3, <3>1, <1>a
  <2> QED BY <1>1, <2>2, <2>3 DEF Register
<1>2. ASSUME AskVerification(c) PROVE Goal
  <2>1. "verify_email" \in Purposes /\ Fit("verify_email")
    BY <1>2 DEF Purposes, Fit, AskVerification
  <2> QED BY <1>2, <2>1, <1>0, <1>a DEF AskVerification
<1>3. ASSUME AskReset(c) PROVE Goal
  <2>1. "reset_password" \in Purposes /\ Fit("reset_password")
    BY <1>3 DEF Purposes, Fit, AskReset
  <2> QED BY <1>3, <2>1, <1>0, <1>a DEF AskReset
<1>4. ASSUME IssueCooldown(c) PROVE Goal
  <2>1. asking[c] \in Issuing
    BY <1>4, RequestAt DEF IssueCooldown, Asking
  <2> QED BY <1>4, <2>1, <1>0, <1>b, <1>c DEF IssueCooldown
<1>5. ASSUME IssueCount(c) PROVE Goal
  <2>1. asking[c] \in Issuing
    BY <1>5, RequestAt DEF IssueCount, Asking
  <2>2. asking[c].op \in Purposes
    BY <2>1 DEF Issuing
  <2>3. PICK n : n = limits.sent[asking[c].op] + 1
    OBVIOUS
  <2>4. n \in Nat
    BY <2>2, <2>3, <1>0
  <2>5. limits' = [limits EXCEPT !.sent = [limits.sent EXCEPT ![asking[c].op] = n]]
    BY <1>5, <2>3 DEF IssueCount
  <2>6. limits' \in Limits
    BY <2>2, <2>4, <2>5, <1>0 DEF Limits
  <2>7. \E q : Safe(q) /\ asking' = [asking EXCEPT ![c] = q]
    BY <1>5, <2>1, <1>b, <1>c DEF IssueCount
  <2> QED BY <1>5, <2>6, <2>7, <1>0 DEF IssueCount
<1>6. ASSUME IssueSelect(c) PROVE Goal
  <2>1. asking[c] \in Issuing
    BY <1>6, RequestAt DEF IssueSelect, Asking
  <2> DEFINE q == [asking[c] EXCEPT !.at = "insert", !.seen = LiveFor(asking[c].op)]
  <2>2. LiveFor(asking[c].op) \in SUBSET Tokens
    BY DEF LiveFor
  <2>3. q \in Issuing /\ q.op = asking[c].op /\ q.at = "insert"
    BY <2>1, <2>2 DEF Issuing
  <2>4. asking' = [asking EXCEPT ![c] = q]
    BY <1>6 DEF IssueSelect
  <2>5. Fit(asking[c].op)
    BY DEF AuthSafe, Entitled
  <2> HIDE DEF q
  <2>6. Safe(q)
    BY <2>3, <2>5 DEF Safe, Request
  <2> QED BY <1>6, <2>4, <2>6, <1>0 DEF IssueSelect
<1>7. ASSUME IssueSend(c) PROVE Goal
  <2>1. asking[c] \in Sending
    BY <1>7, RequestAt DEF IssueSend, Asking
  <2>2. asking[c].op \in Purposes /\ asking[c].token \in Tokens
    BY <2>1 DEF Sending
  <2>3. limits' \in Limits
    BY <1>7, <2>2, <1>0 DEF IssueSend, Limits
  <2> QED BY <1>7, <2>2, <2>3, <1>0, <1>b DEF IssueSend
<1>8. ASSUME NEW t \in Tokens, NEW password \in Passwords, ResetFind(c, t, password) PROVE Goal
  <2> DEFINE q == [op |-> "reset", at |-> "consume", token |-> t, password |-> password]
  <2>1. q \in Resetting
    BY DEF Resetting
  <2>2. Safe(q)
    BY <1>8, <2>1 DEF Safe, Request, Fit, ResetFind
  <2> QED BY <1>8, <2>2, <1>0 DEF ResetFind
<1>9. ASSUME NEW password \in Passwords, LoginRead(c, password) PROVE Goal
  <2>1. RowsStay /\ MetersTyped
    BY <1>9, <1>0 DEF LoginRead
  <2>2. CASE asking' = [asking EXCEPT ![c] = [op |-> "login", at |-> "fail"]]
    <3>1. [op |-> "login", at |-> "fail"] \in LoggingIn
      BY DEF LoggingIn
    <3>2. Safe([op |-> "login", at |-> "fail"])
      BY <3>1 DEF Safe, Request, Fit
    <3> QED BY <2>1, <2>2, <3>2
  <2>3. CASE MayEnter(password) /\ asking' = [asking EXCEPT ![c] = [op |-> "login", at |-> "clear"]]
    <3>1. [op |-> "login", at |-> "clear"] \in LoggingIn
      BY DEF LoggingIn
    <3>2. Safe([op |-> "login", at |-> "clear"])
      BY <2>3, <3>1 DEF Safe, Request, Fit, MayEnter, AuthSafe, Rests
    <3> QED BY <2>1, <2>3, <3>2
  <2> QED BY <1>9, <2>2, <2>3 DEF LoginRead
<1>10. ASSUME LoginFail(c) PROVE Goal
  <2>1. asking[c] \in LoggingIn
    BY <1>10, RequestAt DEF LoginFail, Asking
  <2>2. limits' \in Limits
    <3>1. PICK n : n = limits.fails + 1
      OBVIOUS
    <3>2. n \in Nat /\ limits' = [limits EXCEPT !.fails = n]
      BY <1>10, <3>1, <1>0 DEF LoginFail
    <3> QED BY <3>2, <1>0 DEF Limits
  <2>3. CASE Over(c)
    BY <1>10, <2>2, <2>3, <1>0, <1>b DEF LoginFail
  <2>4. CASE To(c, "lock")
    <3>1. PICK q \in Request : /\ asking' = [asking EXCEPT ![c] = q]
                               /\ q.op = asking[c].op /\ q.at = "lock"
      BY <2>1, <2>4, GoesOn
    <3>2. Safe(q)
      BY <3>1 DEF Safe, AuthSafe, Entitled
    <3> QED BY <1>10, <2>2, <3>1, <3>2, <1>0 DEF LoginFail
  <2> QED BY <1>10, <2>3, <2>4 DEF LoginFail
<1>11. ASSUME LoginLock(c) PROVE Goal
  <2>1. limits' \in Limits
    BY <1>11, <1>0 DEF LoginLock, Limits
  <2> QED BY <1>11, <2>1, <1>0, <1>b DEF LoginLock
<1>12. ASSUME LoginClear(c) PROVE Goal
  <2>1. limits' \in Limits
    BY <1>12, <1>0 DEF LoginClear, Limits
  <2> DEFINE q == [op |-> "open", at |-> "session", via |-> "password"]
  <2>2. q \in Opening
    BY DEF Opening, Vias
  <2>3. Safe(q)
    BY <1>12, <2>2, TokensAssumption DEF Safe, Request, Fit, LoginClear, AuthSafe, Rests, Asking
  <2> QED BY <1>12, <2>1, <2>3, <1>0 DEF LoginClear, Opens
<1>13. ASSUME Dies(c) PROVE Goal
  BY <1>13, <1>0, <1>b DEF Dies
<1> QED BY <1>1, <1>2, <1>3, <1>4, <1>5, <1>6, <1>7, <1>8, <1>9, <1>10, <1>11, <1>12, <1>13

-----------------------------------------------------------------------------
(* Steps that write rows.                                                  *)

\* Tokens other than t keep their purpose, and leave it only if they were live.
OnlyToken(t) ==
  \A u \in Tokens \ {t} :
    /\ token'[u].purpose = token[u].purpose
    /\ \/ token'[u] = token[u]
       \/ token[u].status = "live" /\ token'[u].status # "none"

LEMMA ConsumedMoves ==
  ASSUME AuthTypeOK, NEW t \in Tokens, Live(t), Consumed(t)
  PROVE  /\ token' \in [Tokens -> TokenRow]
         /\ token'[t] = [purpose |-> token[t].purpose, status |-> "consumed"]
         /\ OnlyToken(t)
<1>1. \A u \in Tokens : token[u] \in TokenRow
  BY DEF AuthTypeOK
<1>2. token'[t] = [token[t] EXCEPT !.status = "consumed"]
  BY DEF Consumed
<1>3. token'[t] = [purpose |-> token[t].purpose, status |-> "consumed"] /\ token'[t] \in TokenRow
  BY <1>1, <1>2 DEF TokenRow
<1>4. ASSUME NEW u \in Tokens \ {t}
      PROVE  /\ token'[u] \in TokenRow
             /\ token'[u].purpose = token[u].purpose
             /\ \/ token'[u] = token[u]
                \/ token[u].status = "live" /\ token'[u].status # "none"
  <2>1. \/ u \in LiveFor(token[t].purpose) /\ token'[u] = [token[u] EXCEPT !.status = "revoked"]
        \/ token'[u] = token[u]
    BY DEF Consumed
  <2>2. ASSUME u \in LiveFor(token[t].purpose),
               token'[u] = [token[u] EXCEPT !.status = "revoked"]
        PROVE  /\ token'[u] \in TokenRow
               /\ token'[u].purpose = token[u].purpose
               /\ token[u].status = "live" /\ token'[u].status # "none"
    BY <2>2, <1>1 DEF TokenRow, LiveFor, Live
  <2> QED BY <2>1, <2>2, <1>1
<1>5. \E f : token' = [u \in Tokens |-> f[u]]
  <2>1. token' = [u \in Tokens |-> token'[u]]
    BY DEF Consumed
  <2> QED BY <2>1
<1>6. token' \in [Tokens -> TokenRow]
  BY <1>3, <1>4, <1>5
<1> QED BY <1>3, <1>4, <1>6 DEF OnlyToken

\* A spent token stays spent.
LEMMA SpentStays ==
  ASSUME NEW t \in Tokens, OnlyToken(t),
         token[t].status = "consumed" => token'[t] = token[t]
  PROVE  /\ \A u \in Tokens : \A purpose : Spent(u, purpose) => Spent(u, purpose)'
         /\ Proven => Proven'
<1>1. ASSUME NEW u \in Tokens, NEW purpose, Spent(u, purpose)
      PROVE  Spent(u, purpose)'
  <2>1. token[u].status = "consumed"
    BY <1>1 DEF Spent
  <2>2. token'[u] = token[u]
    BY <2>1 DEF OnlyToken
  <2> QED BY <1>1, <2>2 DEF Spent
<1> QED BY <1>1 DEF Proven

\* Registration writes the row of an address that has none.
LEMMA RegisterKeeps ==
  ASSUME AuthTypeOK, AuthSafe, NEW c \in Callers, RegisterCreate(c)
  PROVE  AuthTypeOK' /\ AuthSafe'
<1>1. asking[c] \in Registering /\ asking \in [Callers -> Request]
  BY RequestAt DEF RegisterCreate, Asking, AuthTypeOK
<1>2. CASE account.status # "absent" /\ Over(c) /\ UNCHANGED account
  <2>1. RowsStay
    BY <1>2 DEF RegisterCreate, RowsStay
  <2>2. asking' \in [Callers -> Request] /\ AuthSafe'
    BY <1>2, <2>1, OverIsSafe, AskingStep DEF Over
  <2> QED BY <2>1, <2>2 DEF AuthTypeOK, RegisterCreate, RowsStay
<1>3. CASE /\ account.status = "absent"
           /\ account' = [status |-> "pending", password |-> asking[c].password]
           /\ Sends(c, "verify_email")
  <2>0. "verify_email" \in Purposes
    BY DEF Purposes
  <2>1. PICK q \in Issuing : /\ asking' = [asking EXCEPT ![c] = q]
                             /\ q.op = "verify_email" /\ q.at = "cooldown"
    BY <1>3, <2>0, BeginsSending
  <2>2. /\ asking' \in [Callers -> Request] /\ asking'[c] = q
        /\ \A d \in Callers \ {c} : asking'[d] = asking[d]
    BY <1>1, <2>1 DEF Request
  <2>3. account' \in Account /\ account'.status = "pending"
    BY <1>1, <1>3 DEF Account, Registering
  <2>4. AuthTypeOK'
    BY <2>2, <2>3 DEF AuthTypeOK, RegisterCreate
  <2>5. UNCHANGED <<token, session, resets>>
    BY DEF RegisterCreate
  <2>6. \A purpose : Fit(purpose) => Fit(purpose)'
    BY <1>3, <2>3 DEF Fit
  <2>7. Entitled'
    <3>1. ASSUME NEW d \in Callers
          PROVE  /\ Fit(asking[d].op)'
                 /\ Asking(d, "consume")' => token'[asking'[d].token].purpose = "reset_password"
      <4>1. CASE d = c
        BY <4>1, <2>1, <2>2, <2>3 DEF Fit, Asking
      <4>2. CASE d # c
        BY <4>2, <2>2, <2>5, <2>6 DEF AuthSafe, Entitled, Asking
      <4> QED BY <4>1, <4>2
    <3> QED BY <3>1, <2>5, <2>6 DEF AuthSafe, Entitled
  <2>8. Rests'
    BY <2>1, <2>2, <2>3, <2>5 DEF Rests, AuthSafe, Proven, Spent
  <2>9. ResetsSpend' /\ LiveIsAfter'
    BY <1>3, <2>5 DEF ResetsSpend, LiveIsAfter, AuthSafe, Spent
  <2>10. OpenedOnce'
    BY <2>1, <2>2, <2>5 DEF OpenedOnce, AuthSafe, Spent, Asking
  <2> QED BY <2>4, <2>7, <2>8, <2>9, <2>10 DEF AuthSafe
<1> QED BY <1>2, <1>3 DEF RegisterCreate

\* An issue writes an unused token for a purpose the account is fit for.
LEMMA InsertKeeps ==
  ASSUME AuthTypeOK, AuthSafe, NEW c \in Callers, NEW t \in Tokens, IssueInsert(c, t)
  PROVE  AuthTypeOK' /\ AuthSafe'
<1>1. asking[c] \in Issuing /\ asking \in [Callers -> Request]
  BY RequestAt DEF IssueInsert, Asking, AuthTypeOK
<1>2. PICK purpose : purpose = asking[c].op
  OBVIOUS
<1>3. purpose \in Purposes /\ Fit(purpose)
  BY <1>1, <1>2 DEF Issuing, AuthSafe, Entitled
<1>4. \A u \in Tokens : token[u] \in TokenRow
  BY DEF AuthTypeOK
<1>5. PICK out : /\ out \subseteq LiveFor(purpose)
                 /\ token' = [u \in Tokens |->
                      IF u = t THEN [purpose |-> purpose, status |-> "live"]
                      ELSE IF u \in out THEN [token[u] EXCEPT !.status = "revoked"]
                      ELSE token[u]]
  <2> DEFINE live == asking[c].seen \cap LiveFor(asking[c].op)
  <2>1. Oldest(live, Surplus(live)) \subseteq LiveFor(purpose)
    BY <1>2 DEF Oldest
  <2> QED BY <1>2, <2>1 DEF IssueInsert
<1>6. token[t].status = "none" /\ token'[t] = [purpose |-> purpose, status |-> "live"]
  BY <1>5 DEF IssueInsert
<1>7. ASSUME NEW u \in Tokens \ {t}
      PROVE  /\ token'[u] \in TokenRow
             /\ token'[u].purpose = token[u].purpose
             /\ \/ token'[u] = token[u]
                \/ token[u].status = "live" /\ token'[u].status # "none"
  <2>1. CASE u \in out
    <3>1. token'[u] = [token[u] EXCEPT !.status = "revoked"] /\ token[u].status = "live"
      BY <2>1, <1>5 DEF LiveFor, Live
    <3> QED BY <3>1, <1>4 DEF TokenRow
  <2>2. CASE u \notin out
    BY <2>2, <1>4, <1>5
  <2> QED BY <2>1, <2>2
<1>8. OnlyToken(t) /\ token' \in [Tokens -> TokenRow]
  <2>1. token'[t] \in TokenRow
    BY <1>3, <1>6 DEF TokenRow
  <2>2. token' = [u \in Tokens |-> token'[u]]
    BY <1>5
  <2>3. \A u \in Tokens : token'[u] \in TokenRow
    BY <2>1, <1>7
  <2> QED BY <2>2, <2>3, <1>7 DEF OnlyToken
<1>9. /\ \A u \in Tokens : \A p : Spent(u, p) => Spent(u, p)'
      /\ Proven => Proven'
  BY <1>6, <1>8, SpentStays
<1> DEFINE q == [op |-> asking[c].op, at |-> "send", token |-> t]
<1>10. q \in Request /\ q.op = purpose /\ q.at = "send"
  BY <1>2, <1>3 DEF Request, Sending
<1>11. asking' = [asking EXCEPT ![c] = q]
  BY DEF IssueInsert
<1> HIDE DEF q
<1>12. /\ asking' \in [Callers -> Request] /\ asking'[c] = q
       /\ \A d \in Callers \ {c} : asking'[d] = asking[d]
  BY <1>1, <1>10, <1>11
<1>13. UNCHANGED <<account, mailed, session, limits, resets>>
       /\ issuedTokens' \in Seq(Tokens)
  BY DEF IssueInsert, AuthTypeOK
<1>14. AuthTypeOK'
  BY <1>8, <1>12, <1>13 DEF AuthTypeOK
<1>15. \A p : Fit(p)' <=> Fit(p)
  BY <1>13 DEF Fit
<1>16. Entitled'
  <2>1. ASSUME NEW u \in Tokens
        PROVE  Fit(token[u].purpose)' /\ (token'[u].status = "none" => token'[u].purpose = "none")
    <3>1. CASE u = t
      BY <3>1, <1>3, <1>6, <1>15
    <3>2. CASE u # t
      BY <3>2, <1>7, <1>15 DEF AuthSafe, Entitled
    <3> QED BY <3>1, <3>2
  <2>2. ASSUME NEW d \in Callers PROVE Fit(asking[d].op)'
    <3>1. CASE d = c
      BY <3>1, <1>3, <1>10, <1>12, <1>15
    <3>2. CASE d # c
      BY <3>2, <1>12, <1>15 DEF AuthSafe, Entitled
    <3> QED BY <3>1, <3>2
  <2>3. ASSUME NEW d \in Callers, asking'[d].at = "consume"
        PROVE  token'[asking'[d].token].purpose = "reset_password"
    <3>1. d # c /\ asking'[d] = asking[d]
      BY <2>3, <1>10, <1>12
    <3>2. asking[d].token \in Tokens /\ token[asking[d].token].purpose = "reset_password"
      BY <2>3, <3>1, RequestAt DEF AuthSafe, Entitled, Asking, Resetting
    <3>3. asking[d].token # t
      BY <3>2, <1>6 DEF AuthSafe, Entitled
    <3> QED BY <3>1, <3>2, <3>3, <1>7
  <2> QED BY <2>1, <2>2, <2>3 DEF Entitled, Asking
<1>17. Rests'
  BY <1>9, <1>10, <1>12, <1>13 DEF Rests, AuthSafe
<1>18. ResetsSpend'
  <2>1. \A i \in DOMAIN resets : resets[i][1] \in Tokens
    BY DEF AuthTypeOK
  <2> QED BY <2>1, <1>9, <1>13 DEF ResetsSpend, AuthSafe
<1>19. OpenedOnce'
  BY <1>9, <1>10, <1>12, <1>13 DEF OpenedOnce, AuthSafe, Asking
<1>20. LiveIsAfter'
  BY <1>13 DEF LiveIsAfter, AuthSafe
<1> QED BY <1>14, <1>16, <1>17, <1>18, <1>19, <1>20 DEF AuthSafe

\* A verification spends a live token of that purpose and opens for it alone.
LEMMA VerifyKeeps ==
  ASSUME AuthTypeOK, AuthSafe, NEW c \in Callers, NEW t \in Tokens, Verify(c, t)
  PROVE  AuthTypeOK' /\ AuthSafe'
<1>1. Live(t) /\ Consumed(t) /\ token[t].purpose = "verify_email"
  BY DEF Verify, Consumable
<1>2. /\ token' \in [Tokens -> TokenRow] /\ OnlyToken(t)
      /\ token'[t] = [purpose |-> "verify_email", status |-> "consumed"]
  BY <1>1, ConsumedMoves
<1>3. token[t].status = "live"
  BY <1>1 DEF Live
<1>4. /\ \A u \in Tokens : \A p : Spent(u, p) => Spent(u, p)'
      /\ Spent(t, "verify_email")' /\ Proven'
  BY <1>2, <1>3, SpentStays DEF Spent, Proven
<1>5. account.status \in {"pending", "active"} /\ account \in Account
  BY <1>1 DEF AuthSafe, Entitled, Fit, AuthTypeOK, Account
<1>6. account' \in Account /\ account'.status = "active" /\ account'.password = account.password
  BY <1>5 DEF Verify, Account
<1>7. UNCHANGED <<issuedTokens, mailed, session, limits, resets>>
  BY DEF Verify
<1> DEFINE q == [op |-> "open", at |-> "session", via |-> t]
<1>8. q \in Request /\ q.op = "open" /\ q.at = "session" /\ q.via = t
  BY DEF Request, Opening, Vias
<1>9. asking' = [asking EXCEPT ![c] = q] /\ asking \in [Callers -> Request]
  BY DEF Verify, Opens, AuthTypeOK
<1> HIDE DEF q
<1>10. /\ asking' \in [Callers -> Request] /\ asking'[c] = q
       /\ \A d \in Callers \ {c} : asking'[d] = asking[d]
  BY <1>8, <1>9
<1>11. AuthTypeOK'
  BY <1>2, <1>6, <1>7, <1>10 DEF AuthTypeOK
<1>12. \A p : Fit(p)'
  BY <1>6 DEF Fit
<1>13. \A u \in Tokens : /\ token'[u].purpose = token[u].purpose
                         /\ token'[u].status = "none" => token[u].status = "none"
  BY <1>1, <1>2 DEF OnlyToken
<1>14. Entitled'
  <2>1. \A u \in Tokens : token'[u].status = "none" => token'[u].purpose = "none"
    BY <1>13 DEF AuthSafe, Entitled
  <2>2. ASSUME NEW d \in Callers, asking'[d].at = "consume"
        PROVE  token'[asking'[d].token].purpose = "reset_password"
    <3>1. d # c /\ asking'[d] = asking[d]
      BY <2>2, <1>8, <1>10
    <3>2. asking[d].token \in Tokens /\ token[asking[d].token].purpose = "reset_password"
      BY <2>2, <3>1, RequestAt DEF AuthSafe, Entitled, Asking, Resetting
    <3> QED BY <3>1, <3>2, <1>13
  <2> QED BY <2>1, <2>2, <1>12 DEF Entitled, Asking
<1>15. Rests'
  BY <1>4 DEF Rests
<1>16. ResetsSpend'
  <2>1. \A i \in DOMAIN resets : resets[i][1] \in Tokens
    BY DEF AuthTypeOK
  <2> QED BY <2>1, <1>4, <1>6, <1>7 DEF ResetsSpend, AuthSafe
<1>17. OpenedOnce'
  <2>1. \A s \in Sessions : session[s].via # t
    BY <1>3 DEF AuthSafe, OpenedOnce, Spent
  <2>2. \A d \in Callers : ~(Asking(d, "session") /\ asking[d].via = t)
    BY <1>3 DEF AuthSafe, OpenedOnce, Spent
  <2>3. \A s \in Sessions : session'[s].via \in Tokens => Spent(session[s].via, "verify_email")'
    BY <1>4, <1>7 DEF AuthSafe, OpenedOnce
  <2>4. \A d \in Callers : asking'[d].at = "session" /\ asking'[d].via \in Tokens =>
          Spent(asking[d].via, "verify_email")'
    BY <1>4, <1>8, <1>10 DEF AuthSafe, OpenedOnce, Asking
  <2>5. \A d, e \in Callers :
          asking'[d].at = "session" /\ asking'[e].at = "session"
            /\ asking'[d].via = asking'[e].via /\ asking'[d].via \in Tokens => d = e
    BY <2>2, <1>8, <1>10 DEF AuthSafe, OpenedOnce, Asking
  <2>6. \A d \in Callers, s \in Sessions :
          asking'[d].at = "session" /\ asking'[d].via \in Tokens =>
            session'[s].via # asking'[d].via
    BY <2>1, <1>7, <1>8, <1>10 DEF AuthSafe, OpenedOnce, Asking
  <2> QED BY <2>3, <2>4, <2>5, <2>6, <1>7 DEF OpenedOnce, Asking, AuthSafe
<1>18. LiveIsAfter'
  BY <1>7 DEF LiveIsAfter, AuthSafe
<1> QED BY <1>11, <1>14, <1>15, <1>16, <1>17, <1>18 DEF AuthSafe

\* A reset spends a live token no earlier reset spent, and ends every session.
LEMMA ResetKeeps ==
  ASSUME AuthTypeOK, AuthSafe, NEW c \in Callers, ResetConsume(c)
  PROVE  AuthTypeOK' /\ AuthSafe'
<1>1. asking[c] \in Resetting /\ asking \in [Callers -> Request]
  BY RequestAt DEF ResetConsume, Asking, AuthTypeOK
<1>2. PICK t, password : t = asking[c].token /\ password = asking[c].password
  OBVIOUS
<1>3. t \in Tokens /\ password \in Passwords /\ token[t].purpose = "reset_password"
  BY <1>1, <1>2 DEF Resetting, AuthSafe, Entitled, ResetConsume
<1>4. CASE UNCHANGED <<account, token, session, resets>>
  <2>1. RowsStay
    BY <1>4 DEF RowsStay
  <2>2. asking' \in [Callers -> Request] /\ AuthSafe'
    BY <2>1, OverIsSafe, AskingStep DEF Over, ResetConsume
  <2> QED BY <1>4, <2>2 DEF AuthTypeOK, ResetConsume
<1>5. CASE /\ Live(t) /\ Consumed(t)
           /\ account' = [account EXCEPT !.password = password]
           /\ AllRevoked
           /\ resets' = Append(resets, <<t, password>>)
  <2>1. /\ token' \in [Tokens -> TokenRow] /\ OnlyToken(t)
        /\ token'[t] = [purpose |-> "reset_password", status |-> "consumed"]
    BY <1>3, <1>5, ConsumedMoves
  <2>2. token[t].status = "live"
    BY <1>5 DEF Live
  <2>3. /\ \A u \in Tokens : \A p : Spent(u, p) => Spent(u, p)'
        /\ Spent(t, "reset_password")' /\ (Proven => Proven')
    BY <1>3, <2>1, <2>2, SpentStays DEF Spent
  <2>4. account.status = "active" /\ account \in Account
    BY <1>3 DEF AuthSafe, Entitled, Fit, AuthTypeOK
  <2>5. account' \in Account /\ account'.status = "active" /\ account'.password = password
    BY <1>3, <1>5, <2>4 DEF Account
  <2>6. Proven'
    BY <2>3, <2>4 DEF AuthSafe, Rests
  <2>7. /\ asking' \in [Callers -> Request] /\ asking'[c] = Unasked
        /\ \A d \in Callers \ {c} : asking'[d] = asking[d]
    BY <1>1, UnaskedTyped DEF ResetConsume, Over
  <2>8. /\ session' \in [Sessions -> SessionRow]
        /\ \A s \in Sessions : session'[s].via = session[s].via /\ session'[s].status # "live"
    <3>1. \A s \in Sessions : session[s] \in SessionRow
      BY DEF AuthTypeOK
    <3>2. session' = [s \in Sessions |->
            IF session[s].status = "live" THEN [session[s] EXCEPT !.status = "revoked"]
            ELSE session[s]]
      BY <1>5 DEF AllRevoked
    <3>3. ASSUME NEW s \in Sessions
          PROVE  session'[s] \in SessionRow /\ session'[s].via = session[s].via
                 /\ session'[s].status # "live"
      BY <3>1, <3>2 DEF SessionRow
    <3> QED BY <3>2, <3>3
  <2>9. resets \in Seq(Tokens \X Passwords) /\ <<t, password>> \in Tokens \X Passwords
    BY <1>3 DEF AuthTypeOK
  <2>10. resets' \in Seq(Tokens \X Passwords)
    BY <1>5, <2>9
  <2>11. UNCHANGED <<issuedTokens, mailed, limits>>
    BY DEF ResetConsume
  <2>12. AuthTypeOK'
    BY <2>1, <2>5, <2>7, <2>8, <2>10, <2>11 DEF AuthTypeOK
  <2>13. \A p : Fit(p)'
    BY <2>5 DEF Fit
  <2>14. \A u \in Tokens : /\ token'[u].purpose = token[u].purpose
                           /\ token'[u].status = "none" => token[u].status = "none"
    BY <1>3, <2>1 DEF OnlyToken
  <2>15. Entitled'
    <3>1. \A u \in Tokens : token'[u].status = "none" => token'[u].purpose = "none"
      BY <2>14 DEF AuthSafe, Entitled
    <3>2. ASSUME NEW d \in Callers, asking'[d].at = "consume"
          PROVE  token'[asking'[d].token].purpose = "reset_password"
      <4>1. d # c /\ asking'[d] = asking[d]
        BY <3>2, <2>7 DEF Unasked
      <4>2. asking[d].token \in Tokens /\ token[asking[d].token].purpose = "reset_password"
        BY <3>2, <4>1, RequestAt DEF AuthSafe, Entitled, Asking, Resetting
      <4> QED BY <4>1, <4>2, <2>14
    <3> QED BY <3>1, <3>2, <2>13 DEF Entitled, Asking
  <2>16. Rests'
    BY <2>6 DEF Rests
  <2>17. ResetsSpend'
    <3>1. Len(resets) \in Nat /\ DOMAIN resets = 1..Len(resets)
      BY <2>9
    <3>2. /\ Len(resets') = Len(resets) + 1 /\ DOMAIN resets' = 1..(Len(resets) + 1)
          /\ resets'[Len(resets) + 1] = <<t, password>>
          /\ \A i \in 1..Len(resets) : resets'[i] = resets[i]
      BY <1>5, <2>9
    <3>3. \A i \in 1..Len(resets) :
            resets[i][1] \in Tokens /\ resets[i][1] # t /\ Spent(resets[i][1], "reset_password")
      BY <2>2, <2>9, <3>1 DEF AuthSafe, ResetsSpend, Spent
    <3>4. ASSUME NEW i \in DOMAIN resets'
          PROVE  Spent(resets[i][1], "reset_password")'
      <4>1. CASE i = Len(resets) + 1
        BY <4>1, <2>3, <3>2
      <4>2. CASE i \in 1..Len(resets)
        BY <4>2, <2>3, <3>2, <3>3
      <4> QED BY <3>1, <3>2, <4>1, <4>2
    <3>5. \A i, j \in DOMAIN resets' : resets'[i][1] = resets'[j][1] => i = j
      <4> SUFFICES ASSUME NEW i \in DOMAIN resets', NEW j \in DOMAIN resets',
                          resets'[i][1] = resets'[j][1]
                   PROVE  i = j
        OBVIOUS
      <4>1. CASE i \in 1..Len(resets) /\ j \in 1..Len(resets)
        BY <4>1, <3>1, <3>2 DEF AuthSafe, ResetsSpend
      <4>2. ASSUME NEW k \in 1..Len(resets) PROVE resets'[k][1] # t
        BY <3>2, <3>3
      <4>3. resets'[Len(resets) + 1][1] = t
        BY <3>2
      <4> QED BY <3>1, <3>2, <4>1, <4>2, <4>3
    <3>6. account'.status # "absent" /\ account'.password = resets'[Len(resets')][2]
      BY <2>5, <3>2
    <3> QED BY <3>4, <3>5, <3>6 DEF ResetsSpend
  <2>18. OpenedOnce'
    <3>1. \A d \in Callers : asking'[d].at = "session" => asking'[d] = asking[d]
      BY <2>7 DEF Unasked
    <3>2. \A s \in Sessions : session'[s].via \in Tokens => Spent(session[s].via, "verify_email")'
      BY <2>3, <2>8 DEF AuthSafe, OpenedOnce
    <3>3. \A d \in Callers : asking'[d].at = "session" /\ asking'[d].via \in Tokens =>
            Spent(asking[d].via, "verify_email")'
      BY <2>3, <3>1 DEF AuthSafe, OpenedOnce, Asking
    <3>4. \A d, e \in Callers :
            asking'[d].at = "session" /\ asking'[e].at = "session"
              /\ asking'[d].via = asking'[e].via /\ asking'[d].via \in Tokens => d = e
      BY <3>1 DEF AuthSafe, OpenedOnce, Asking
    <3>5. \A d \in Callers, s \in Sessions :
            asking'[d].at = "session" /\ asking'[d].via \in Tokens =>
              session'[s].via # asking'[d].via
      BY <3>1, <2>8 DEF AuthSafe, OpenedOnce, Asking
    <3>6. \A s \in Sessions : (session[s].via)' = session[s].via
      BY <2>8
    <3>7. \A s, u \in Sessions :
            session'[s].via = session'[u].via /\ session'[s].via \in Tokens => s = u
      BY <3>6 DEF AuthSafe, OpenedOnce
    <3>8. \A s \in Sessions : session'[s].via \in Tokens => Spent(session[s].via, "verify_email")'
      BY <3>2, <2>8
    <3> QED BY <3>3, <3>4, <3>5, <3>7, <3>8 DEF OpenedOnce, Asking
  <2>19. LiveIsAfter'
    BY <2>8 DEF LiveIsAfter
  <2> QED BY <2>12, <2>15, <2>16, <2>17, <2>18, <2>19 DEF AuthSafe
<1> QED BY <1>2, <1>4, <1>5 DEF ResetConsume, Consumable

\* A session is opened by the one request its token, or the password, opened.
LEMMA SessionKeeps ==
  ASSUME AuthTypeOK, AuthSafe, NEW c \in Callers, NEW s \in Sessions, CreateSession(c, s)
  PROVE  AuthTypeOK' /\ AuthSafe'
<1>1. asking[c] \in Opening /\ asking \in [Callers -> Request]
  BY RequestAt DEF CreateSession, Asking, AuthTypeOK
<1>2. PICK via : via = asking[c].via
  OBVIOUS
<1>3. via \in Vias /\ Proven
  BY <1>1, <1>2 DEF Opening, AuthSafe, Rests, CreateSession, Asking
<1>4. Len(resets) \in Nat
  BY DEF AuthTypeOK
<1>5. /\ session' = [session EXCEPT ![s] =
             [status |-> "live", via |-> via, after |-> Len(resets)]]
      /\ session \in [Sessions -> SessionRow]
  BY <1>2 DEF CreateSession, AuthTypeOK
<1>6. [status |-> "live", via |-> via, after |-> Len(resets)] \in SessionRow
  BY <1>3, <1>4 DEF SessionRow
<1>7. /\ session' \in [Sessions -> SessionRow]
      /\ session'[s].via = via /\ session'[s].after = Len(resets)
      /\ \A u \in Sessions \ {s} : session'[u] = session[u]
  BY <1>5, <1>6
<1>8. /\ asking' \in [Callers -> Request] /\ asking'[c] = Unasked
      /\ \A d \in Callers \ {c} : asking'[d] = asking[d]
  BY <1>1, UnaskedTyped DEF CreateSession, Over
<1>9. UNCHANGED <<account, token, issuedTokens, mailed, limits, resets>>
  BY DEF CreateSession
<1>10. AuthTypeOK'
  BY <1>7, <1>8, <1>9 DEF AuthTypeOK
<1>11. \A d \in Callers : asking'[d] = asking[d] \/ asking'[d] = Unasked
  BY <1>8
<1>12. /\ \A p : Fit(p)' <=> Fit(p)
       /\ \A u \in Tokens : \A p : Spent(u, p)' <=> Spent(u, p)
       /\ Proven'
  BY <1>3, <1>9 DEF Fit, Spent, Proven
<1>13. Entitled'
  <2>1. ASSUME NEW d \in Callers
        PROVE  /\ Fit(asking[d].op)'
               /\ asking'[d].at = "consume" => token'[asking'[d].token].purpose = "reset_password"
    BY <1>9, <1>11, <1>12 DEF AuthSafe, Entitled, Asking, Unasked, Fit
  <2> QED BY <2>1, <1>9, <1>12 DEF AuthSafe, Entitled, Asking
<1>14. Rests'
  BY <1>12 DEF Rests
<1>15. ResetsSpend'
  BY <1>9 DEF ResetsSpend, AuthSafe, Spent
<1>16. OpenedOnce'
  <2>1. \A d \in Callers : asking'[d].at = "session" => d # c /\ asking'[d] = asking[d]
    BY <1>8 DEF Unasked
  <2>2. Asking(c, "session")
    BY DEF CreateSession
  <2>3. via \in Tokens => /\ Spent(via, "verify_email")
                          /\ \A u \in Sessions : session[u].via # via
                          /\ \A d \in Callers \ {c} : Asking(d, "session") => asking[d].via # via
    BY <1>2, <2>2 DEF AuthSafe, OpenedOnce
  <2>4. ASSUME NEW u \in Sessions, session'[u].via \in Tokens
        PROVE  Spent(session[u].via, "verify_email")'
    BY <2>3, <2>4, <1>7, <1>12 DEF AuthSafe, OpenedOnce
  <2>5. ASSUME NEW d \in Callers, asking'[d].at = "session", asking'[d].via \in Tokens
        PROVE  Spent(asking[d].via, "verify_email")'
    BY <2>1, <2>5, <1>12 DEF AuthSafe, OpenedOnce, Asking
  <2>6. \A u, v \in Sessions :
          session'[u].via = session'[v].via /\ session'[u].via \in Tokens => u = v
    <3> SUFFICES ASSUME NEW u \in Sessions, NEW v \in Sessions,
                        session'[u].via = session'[v].via, session'[u].via \in Tokens
                 PROVE  u = v
      OBVIOUS
    <3>1. CASE u # s /\ v # s
      BY <3>1, <1>7 DEF AuthSafe, OpenedOnce
    <3>2. CASE u = s \/ v = s
      BY <3>2, <2>3, <1>7
    <3> QED BY <3>1, <3>2
  <2>7. \A d, e \in Callers :
          asking'[d].at = "session" /\ asking'[e].at = "session"
            /\ asking'[d].via = asking'[e].via /\ asking'[d].via \in Tokens => d = e
    BY <2>1 DEF AuthSafe, OpenedOnce, Asking
  <2>8. \A d \in Callers, u \in Sessions :
          asking'[d].at = "session" /\ asking'[d].via \in Tokens =>
            session'[u].via # asking'[d].via
    <3> SUFFICES ASSUME NEW d \in Callers, NEW u \in Sessions,
                        asking'[d].at = "session", asking'[d].via \in Tokens
                 PROVE  session'[u].via # asking'[d].via
      OBVIOUS
    <3>1. CASE u = s
      BY <3>1, <2>1, <2>3, <1>7 DEF Asking
    <3>2. CASE u # s
      BY <3>2, <2>1, <1>7 DEF AuthSafe, OpenedOnce, Asking
    <3> QED BY <3>1, <3>2
  <2> QED BY <2>4, <2>5, <2>6, <2>7, <2>8 DEF OpenedOnce, Asking
<1>17. LiveIsAfter'
  BY <1>7, <1>9 DEF LiveIsAfter, AuthSafe
<1> QED BY <1>10, <1>13, <1>14, <1>15, <1>16, <1>17 DEF AuthSafe

LEMMA LogoutKeeps ==
  ASSUME AuthTypeOK, AuthSafe, NEW s \in Sessions, Logout(s)
  PROVE  AuthTypeOK' /\ AuthSafe'
<1>1. session \in [Sessions -> SessionRow] /\ session[s] \in SessionRow
  BY DEF AuthTypeOK
<1> DEFINE row == [session[s] EXCEPT !.status = "revoked"]
<1>2. row \in SessionRow /\ row.status = "revoked" /\ row.via = session[s].via
  BY <1>1 DEF SessionRow
<1>3. session' = [session EXCEPT ![s] = row] /\ session[s].status = "live"
  BY DEF Logout
<1> HIDE DEF row
<1>4. /\ session' \in [Sessions -> SessionRow]
      /\ session'[s].status = "revoked"
      /\ \A u \in Sessions \ {s} : session'[u] = session[u]
      /\ \A u \in Sessions : session'[u].via = session[u].via
  BY <1>1, <1>2, <1>3
<1>5. UNCHANGED <<account, token, issuedTokens, mailed, limits, resets, asking>>
  BY DEF Logout
<1>6. AuthTypeOK'
  BY <1>4, <1>5 DEF AuthTypeOK
<1>7. Entitled'
  BY <1>5 DEF AuthSafe, Entitled, Asking, Fit
<1>8. Rests'
  BY <1>3, <1>4, <1>5 DEF AuthSafe, Rests, Proven, Spent
<1>9. ResetsSpend'
  BY <1>5 DEF AuthSafe, ResetsSpend, Spent
<1>10. OpenedOnce'
  BY <1>4, <1>5 DEF AuthSafe, OpenedOnce, Spent, Asking
<1>11. LiveIsAfter'
  BY <1>4, <1>5 DEF AuthSafe, LiveIsAfter
<1> QED BY <1>6, <1>7, <1>8, <1>9, <1>10, <1>11 DEF AuthSafe

LEMMA ExpiryKeeps ==
  ASSUME AuthTypeOK, AuthSafe, NEW t \in Tokens, TokenExpires(t)
  PROVE  AuthTypeOK' /\ AuthSafe'
<1>1. token \in [Tokens -> TokenRow] /\ token[t] \in TokenRow
  BY DEF AuthTypeOK
<1> DEFINE row == [token[t] EXCEPT !.status = "expired"]
<1>2. row \in TokenRow /\ row.status = "expired" /\ row.purpose = token[t].purpose
  BY <1>1 DEF TokenRow
<1>3. token' = [token EXCEPT ![t] = row] /\ token[t].status = "live"
  BY DEF TokenExpires, Live
<1> HIDE DEF row
<1>4. /\ token' \in [Tokens -> TokenRow] /\ OnlyToken(t)
      /\ token'[t].status = "expired"
      /\ \A u \in Tokens : token'[u].purpose = token[u].purpose
  BY <1>1, <1>2, <1>3 DEF OnlyToken
<1>5. /\ \A u \in Tokens : \A p : Spent(u, p) => Spent(u, p)'
      /\ Proven => Proven'
  BY <1>3, <1>4, SpentStays
<1>6. UNCHANGED <<account, issuedTokens, mailed, session, limits, resets, asking>>
  BY DEF TokenExpires
<1>7. AuthTypeOK'
  BY <1>4, <1>6 DEF AuthTypeOK
<1>8. Entitled'
  <2>1. \A p : Fit(p)' <=> Fit(p)
    BY <1>6 DEF Fit
  <2>2. ASSUME NEW u \in Tokens
        PROVE  Fit(token[u].purpose)' /\ (token'[u].status = "none" => token'[u].purpose = "none")
    <3>1. token'[u].status = "none" => token[u].status = "none"
      BY <1>4 DEF OnlyToken
    <3> QED BY <3>1, <2>1, <1>4 DEF AuthSafe, Entitled
  <2>3. ASSUME NEW c \in Callers, asking[c].at = "consume"
        PROVE  token'[asking[c].token].purpose = "reset_password"
    BY <2>3, <1>4, RequestAt DEF AuthSafe, Entitled, Asking, Resetting
  <2> QED BY <2>1, <2>2, <2>3, <1>6 DEF AuthSafe, Entitled, Asking
<1>9. Rests'
  BY <1>5, <1>6 DEF AuthSafe, Rests
<1>10. ResetsSpend'
  <2>1. \A i \in DOMAIN resets : resets[i][1] \in Tokens
    BY DEF AuthTypeOK
  <2> QED BY <2>1, <1>5, <1>6 DEF AuthSafe, ResetsSpend
<1>11. OpenedOnce'
  BY <1>5, <1>6 DEF AuthSafe, OpenedOnce, Asking
<1>12. LiveIsAfter'
  BY <1>6 DEF AuthSafe, LiveIsAfter
<1> QED BY <1>7, <1>8, <1>9, <1>10, <1>11, <1>12 DEF AuthSafe

LEMMA OnlyMeters ==
  ASSUME AuthTypeOK, AuthSafe, UNCHANGED <<account, token, issuedTokens, mailed, session,
                                           resets, asking>>,
         limits' \in Limits
  PROVE  AuthTypeOK' /\ AuthSafe'
<1>1. AuthTypeOK'
  BY DEF AuthTypeOK
<1>2. Entitled'
  BY DEF AuthSafe, Entitled, Asking, Fit
<1>3. Rests'
  BY DEF AuthSafe, Rests, Proven, Spent
<1>4. ResetsSpend'
  BY DEF AuthSafe, ResetsSpend, Spent
<1>5. OpenedOnce' /\ LiveIsAfter'
  BY DEF AuthSafe, OpenedOnce, LiveIsAfter, Spent, Asking
<1> QED BY <1>1, <1>2, <1>3, <1>4, <1>5 DEF AuthSafe

-----------------------------------------------------------------------------
(* The specification.                                                      *)

LEMMA AuthInitHolds == AuthInit => AuthIInv
<1> SUFFICES ASSUME AuthInit PROVE AuthTypeOK /\ AuthSafe
  BY DEF AuthIInv
<1> USE DEF AuthInit
<1>1. AuthTypeOK
  BY UnaskedTyped DEF AuthTypeOK, Account, TokenRow, SessionRow, Limits, NoLimits, Purposes, Vias
<1>2. Entitled
  BY DEF Entitled, Asking, Unasked, Fit
<1>3. Rests /\ ResetsSpend /\ LiveIsAfter
  BY DEF Rests, Unasked, ResetsSpend, LiveIsAfter
<1>4. OpenedOnce
  BY TokensAssumption DEF OpenedOnce, Asking, Unasked
<1> QED BY <1>1, <1>2, <1>3, <1>4 DEF AuthSafe

LEMMA AuthStepHolds == AuthIInv /\ [AuthNext]_authVars => AuthIInv'
<1> SUFFICES ASSUME AuthTypeOK, AuthSafe, [AuthNext]_authVars PROVE AuthTypeOK' /\ AuthSafe'
  BY DEF AuthIInv
<1>1. ASSUME NEW c \in Callers,
             SignUpNext(c) \/ SignInNext(c) \/ IssueNext(c) \/ SessionNext(c) \/ Dies(c)
      PROVE  AuthTypeOK' /\ AuthSafe'
  <2> DEFINE Moves == RowsStay /\ MetersTyped
                        /\ \E q : Safe(q) /\ asking' = [asking EXCEPT ![c] = q]
  <2>1. ASSUME Moves PROVE AuthTypeOK' /\ AuthSafe'
    <3>1. PICK q : Safe(q) /\ asking' = [asking EXCEPT ![c] = q]
      BY <2>1
    <3>2. asking' \in [Callers -> Request] /\ AuthSafe'
      BY <2>1, <3>1, AskingStep
    <3> QED BY <2>1, <3>2 DEF AuthTypeOK, RowsStay, MetersTyped
  <2> HIDE DEF Moves
  <2>2. CASE RegisterCreate(c)
    BY <2>2, RegisterKeeps
  <2>3. CASE \E t \in Tokens : Verify(c, t)
    BY <2>3, VerifyKeeps
  <2>4. CASE ResetConsume(c)
    BY <2>4, ResetKeeps
  <2>5. CASE \E t \in Tokens : IssueInsert(c, t)
    BY <2>5, InsertKeeps
  <2>6. CASE SessionNext(c)
    BY <2>6, SessionKeeps DEF SessionNext
  <2>7. ASSUME ~RegisterCreate(c), ~\E t \in Tokens : Verify(c, t), ~ResetConsume(c),
               ~\E t \in Tokens : IssueInsert(c, t), ~SessionNext(c)
        PROVE  Moves
    BY <1>1, <2>7, RequestStep DEF Moves, SignUpNext, SignInNext, IssueNext
  <2> QED BY <2>1, <2>2, <2>3, <2>4, <2>5, <2>6, <2>7
<1>2. ASSUME NEW s \in Sessions, Logout(s) PROVE AuthTypeOK' /\ AuthSafe'
  BY <1>2, LogoutKeeps
<1>3. ASSUME TimeNext PROVE AuthTypeOK' /\ AuthSafe'
  <2>1. NoLimits \in Limits
    BY DEF NoLimits, Limits
  <2>2. CASE HourEnds
    BY <2>1, <2>2, OnlyMeters DEF HourEnds
  <2>3. CASE CooldownEnds
    <3>1. limits' \in Limits
      BY <2>3 DEF CooldownEnds, AuthTypeOK, Limits
    <3> QED BY <2>3, <3>1, OnlyMeters DEF CooldownEnds
  <2>4. CASE \E t \in Tokens : TokenExpires(t)
    BY <2>4, ExpiryKeeps
  <2> QED BY <1>3, <2>2, <2>3, <2>4 DEF TimeNext
<1>4. CASE UNCHANGED authVars
  BY <1>4, OnlyMeters DEF authVars, AuthTypeOK
<1> QED BY <1>1, <1>2, <1>3, <1>4 DEF AuthNext

LEMMA AuthInvariant == AuthSpec => []AuthIInv
  BY AuthInitHolds, AuthStepHolds, PTL DEF AuthSpec

(* Accounts, tokens, sessions, limits and requests in flight are well      *)
(* typed in every reachable state.                                         *)
THEOREM AuthTyped == AuthSpec => []AuthTypeOK
<1>1. AuthIInv => AuthTypeOK
  BY DEF AuthIInv
<1> QED BY <1>1, AuthInvariant, PTL

(* However many requests carry the same token, however they interleave and *)
(* wherever a server dies: consumeToken lets one of them through, and what *)
(* it allowed, a new password or a session, happened once.                 *)
THEOREM TokensSpentOnce == AuthSpec => []TokenSpentOnce
<1>1. AuthIInv => TokenSpentOnce
  BY DEF AuthIInv, AuthSafe, ResetsSpend, OpenedOnce, TokenSpentOnce
<1> QED BY <1>1, AuthInvariant, PTL

(* No session that exists at a reset outlives it, and none exists before   *)
(* the address was verified, whichever way it was opened.                  *)
THEOREM SessionsAlwaysRest == AuthSpec => []SessionsRestOnProof
<1>1. AuthIInv => SessionsRestOnProof
  BY DEF AuthIInv, AuthSafe, Rests, LiveIsAfter, SessionsRestOnProof, Proven, Spent
<1> QED BY <1>1, AuthInvariant, PTL

-----------------------------------------------------------------------------
\* Drafts of prose.

Drafts == [revision : Nat, content : Texts]
Saves == [content : Texts, expected : Nat,
          stage : {"sent", "read", "saved", "conflict", "failed"}, row : Revisions]
Editors == [content : Texts, lastSaved : Texts, revision : Nat,
            timer : Revisions, banner : {"none", "error", "conflict"}]

DraftTypes ==
  /\ draft \in [revision : Revisions, content : Texts]
  /\ tab \in [Tabs -> Editors]
  /\ calls \in [Tabs -> Seq(Saves)]
  /\ seen \in [Tabs -> SUBSET Drafts]

(* The revisions a tab may expect: the one of an editor opened before any  *)
(* draft, and those of the drafts it has seen.                             *)
Known(t) == {0} \cup {d.revision : d \in seen[t]}

(* No two drafts ever had one revision: what was seen at the row's         *)
(* revision is the row.                                                    *)
SeenIsTrue ==
  \A t \in Tabs : \A d \in seen[t] :
    d.revision =< draft.revision /\ (d.revision = draft.revision => d = draft)

EditorKnows ==
  \A t \in Tabs : tab[t].revision \in Known(t) /\ tab[t].timer \in Known(t) \cup {NoTimer}

(* A call expects a revision its tab knows, has read the row it expected,  *)
(* and, once it saved, its row is the one it wrote.                        *)
CallKnows(t, call) ==
  /\ call.expected \in Known(t)
  /\ call.stage = "read" => call.row \in {NoDraft, call.expected}
  /\ call.stage = "saved" =>
       /\ call.row \in Nat /\ call.row =< draft.revision
       /\ call.row = draft.revision => call.content = draft.content
CallsKnow == \A t \in Tabs : \A n \in DOMAIN calls[t] : CallKnows(t, calls[t][n])

DraftInv == DraftTypes /\ SeenIsTrue /\ EditorKnows /\ CallsKnow

(* A step that keeps the row or writes a later one, and forgets nothing a  *)
(* tab has seen.                                                           *)
Onwards ==
  /\ draft' = draft \/ draft'.revision > draft.revision
  /\ \A t \in Tabs : seen[t] \subseteq seen'[t]

LEMMA KnownGrows ==
  ASSUME Onwards, NEW t \in Tabs
  PROVE  Known(t) \subseteq Known(t)'
BY DEF Onwards, Known

LEMMA CallStillKnows ==
  ASSUME DraftTypes, DraftTypes', Onwards, NEW t \in Tabs, NEW call \in Saves, CallKnows(t, call)
  PROVE  CallKnows(t, call)'
<1>1. call.expected \in Known(t)'
  BY KnownGrows DEF CallKnows
<1>2. CASE draft' = draft
  BY <1>1, <1>2 DEF CallKnows
<1>3. CASE draft'.revision > draft.revision
  BY <1>1, <1>3 DEF CallKnows, DraftTypes, Revisions, NoDraft, Saves
<1>q. QED
  BY <1>2, <1>3 DEF Onwards

LEMMA SeenStaysTrue ==
  ASSUME DraftTypes, DraftTypes', Onwards, SeenIsTrue, seen' = seen
  PROVE  SeenIsTrue'
BY DEF DraftTypes, Onwards, SeenIsTrue, Revisions, NoDraft, Drafts

LEMMA EditorStillKnows ==
  ASSUME DraftTypes, Onwards, EditorKnows, tab' = tab
  PROVE  EditorKnows'
BY KnownGrows DEF EditorKnows

LEMMA CallsStillKnow ==
  ASSUME DraftTypes, DraftTypes', Onwards, CallsKnow, calls' = calls
  PROVE  CallsKnow'
<1>1. \A t \in Tabs : \A n \in DOMAIN calls[t] : calls[t][n] \in Saves
  BY DEF DraftTypes
<1>q. QED
  BY <1>1, CallStillKnows DEF CallsKnow

(* The first call of a tab is replaced, and the others stay.               *)
LEMMA MovedCalls ==
  ASSUME DraftTypes, NEW t \in Tabs, calls[t] # <<>>, NEW first \in Saves,
         calls' = [calls EXCEPT ![t] = <<first>> \o Tail(calls[t])]
  PROVE  /\ calls' \in [Tabs -> Seq(Saves)]
         /\ \A u \in Tabs \ {t} : calls'[u] = calls[u]
         /\ DOMAIN calls'[t] = DOMAIN calls[t]
         /\ calls'[t][1] = first
         /\ \A n \in DOMAIN calls[t] \ {1} : calls'[t][n] = calls[t][n]
<1>1. PICK list : list = calls[t]
  OBVIOUS
<1>2. list \in Seq(Saves) /\ list # <<>>
  BY <1>1 DEF DraftTypes
<1>3. /\ <<first>> \o Tail(list) \in Seq(Saves)
      /\ DOMAIN (<<first>> \o Tail(list)) = DOMAIN list
      /\ (<<first>> \o Tail(list))[1] = first
      /\ \A n \in DOMAIN list \ {1} : (<<first>> \o Tail(list))[n] = list[n]
  BY <1>2
<1>4. calls'[t] = <<first>> \o Tail(list) /\ \A u \in Tabs \ {t} : calls'[u] = calls[u]
  BY <1>1 DEF DraftTypes
<1>5. calls' \in [Tabs -> Seq(Saves)]
  BY <1>1, <1>3 DEF DraftTypes
<1>q. QED
  BY <1>1, <1>3, <1>4, <1>5

(* Every other call still knows; only the moved one is looked at.          *)
LEMMA CallsKnowMoved ==
  ASSUME DraftTypes, DraftTypes', Onwards, CallsKnow, NEW t \in Tabs, calls[t] # <<>>,
         \A u \in Tabs \ {t} : calls'[u] = calls[u],
         DOMAIN calls'[t] = DOMAIN calls[t],
         \A n \in DOMAIN calls[t] \ {1} : calls'[t][n] = calls[t][n],
         CallKnows(t, calls[t][1])'
  PROVE  CallsKnow'
<1>1. \A u \in Tabs : \A n \in DOMAIN calls[u] : calls[u][n] \in Saves
  BY DEF DraftTypes
<1>2. SUFFICES ASSUME NEW u \in Tabs, NEW n \in DOMAIN calls'[u]
               PROVE  CallKnows(u, calls[u][n])'
  BY DEF CallsKnow
<1>3. CASE u = t /\ n = 1
  BY <1>3
<1>4. CASE ~(u = t /\ n = 1)
  <2>1. n \in DOMAIN calls[u] /\ calls'[u][n] = calls[u][n]
    BY <1>4
  <2>2. CallKnows(u, calls[u][n])
    BY <2>1 DEF CallsKnow
  <2>3. PICK call \in Saves : call = calls[u][n]
    BY <1>1, <2>1
  <2>4. CallKnows(u, call)'
    BY <2>2, <2>3, CallStillKnows
  <2>q. QED
    BY <2>1, <2>3, <2>4
<1>q. QED
  BY <1>3, <1>4

(* The first call of a tab is gone.                                        *)
LEMMA TakenCalls ==
  ASSUME DraftTypes, NEW t \in Tabs, calls[t] # <<>>,
         calls' = [calls EXCEPT ![t] = Tail(@)]
  PROVE  /\ calls' \in [Tabs -> Seq(Saves)]
         /\ \A u \in Tabs : \A n \in DOMAIN calls'[u] :
              \E m \in DOMAIN calls[u] : calls'[u][n] = calls[u][m]
<1>1. PICK list : list = calls[t]
  OBVIOUS
<1>2. list \in Seq(Saves) /\ list # <<>>
  BY <1>1 DEF DraftTypes
<1>3. /\ Tail(list) \in Seq(Saves)
      /\ \A n \in DOMAIN Tail(list) : n + 1 \in DOMAIN list /\ Tail(list)[n] = list[n + 1]
  BY <1>2
<1>4. calls' = [calls EXCEPT ![t] = Tail(list)]
  BY <1>1
<1>5. calls'[t] = Tail(list) /\ \A u \in Tabs \ {t} : calls'[u] = calls[u]
  BY <1>4 DEF DraftTypes
<1>q. QED
  BY <1>1, <1>3, <1>4, <1>5 DEF DraftTypes

(* No call is new.                                                         *)
LEMMA CallsKnowTaken ==
  ASSUME DraftTypes, DraftTypes', Onwards, CallsKnow,
         \A u \in Tabs : \A n \in DOMAIN calls'[u] :
           \E m \in DOMAIN calls[u] : calls'[u][n] = calls[u][m]
  PROVE  CallsKnow'
<1>1. \A u \in Tabs : \A n \in DOMAIN calls[u] : calls[u][n] \in Saves
  BY DEF DraftTypes
<1>2. SUFFICES ASSUME NEW u \in Tabs, NEW n \in DOMAIN calls'[u]
               PROVE  CallKnows(u, calls[u][n])'
  BY DEF CallsKnow
<1>3. PICK m \in DOMAIN calls[u] : calls'[u][n] = calls[u][m]
  BY <1>2
<1>4. PICK call \in Saves : call = calls[u][m]
  BY <1>1
<1>5. CallKnows(u, call)'
  BY <1>4, CallStillKnows DEF CallsKnow
<1>q. QED
  BY <1>3, <1>4, <1>5
-----------------------------------------------------------------------------
(* Every step keeps the invariant.                                         *)

LEMMA DraftInitially == DraftInit => DraftInv
<1>1. SUFFICES ASSUME DraftInit PROVE DraftInv
  OBVIOUS
<1>2. DraftTypes
  BY <1>1, DraftAssumption
     DEF DraftInit, DraftTypes, Opened, Editors, Revisions, NoDraft, NoTimer
<1>3. SeenIsTrue /\ CallsKnow
  BY <1>1 DEF DraftInit, SeenIsTrue, CallsKnow
<1>4. EditorKnows
  BY <1>1 DEF DraftInit, EditorKnows, Known, Opened, NoTimer
<1>q. QED
  BY <1>2, <1>3, <1>4 DEF DraftInv

LEMMA TypeStep ==
  ASSUME DraftInv, NEW t \in Tabs, NEW text \in Texts, Type(t, text)
  PROVE  DraftInv'
<1>1. DraftTypes /\ SeenIsTrue /\ EditorKnows /\ CallsKnow
  BY DEF DraftInv
<1>2. UNCHANGED <<draft, calls, seen>> /\ Onwards
  BY DEF Type, Onwards
<1>3. PICK editor \in Editors : editor = tab[t]
  BY <1>1 DEF DraftTypes
<1>4. PICK next : next = [editor EXCEPT
            !.content = text, !.timer = editor.revision,
            !.banner = IF editor.banner = "error" THEN "none" ELSE editor.banner]
  OBVIOUS
<1>5. tab' = [tab EXCEPT ![t] = next]
  BY <1>3, <1>4 DEF Type
<1>6. next \in Editors /\ next.revision = editor.revision /\ next.timer = editor.revision
  BY <1>4 DEF Editors, Revisions
<1>7. DraftTypes'
  BY <1>1, <1>2, <1>5, <1>6 DEF DraftTypes
<1>8. EditorKnows'
  BY <1>1, <1>2, <1>3, <1>5, <1>6 DEF EditorKnows, Known, DraftTypes
<1>q. QED
  BY <1>1, <1>2, <1>7, <1>8, SeenStaysTrue, CallsStillKnow DEF DraftInv

LEMMA FireStep ==
  ASSUME DraftInv, NEW t \in Tabs, Fire(t)
  PROVE  DraftInv'
<1>1. DraftTypes /\ SeenIsTrue /\ EditorKnows /\ CallsKnow
  BY DEF DraftInv
<1>2. UNCHANGED <<draft, seen>> /\ Onwards
  BY DEF Fire, Onwards
<1>3. PICK editor \in Editors : editor = tab[t]
  BY <1>1 DEF DraftTypes
<1>4. PICK next : next = [editor EXCEPT !.timer = NoTimer]
  OBVIOUS
<1>5. tab' = [tab EXCEPT ![t] = next]
  BY <1>3, <1>4 DEF Fire
<1>6. next \in Editors /\ next.revision = editor.revision /\ next.timer = NoTimer
  BY <1>4 DEF Editors, Revisions, NoTimer, NoDraft
<1>7. EditorKnows'
  BY <1>1, <1>2, <1>3, <1>5, <1>6 DEF EditorKnows, Known, DraftTypes
<1>8. CASE calls' = calls
  <2>1. DraftTypes'
    BY <1>1, <1>2, <1>5, <1>6, <1>8 DEF DraftTypes
  <2>q. QED
    BY <1>1, <1>2, <1>7, <1>8, <2>1, SeenStaysTrue, CallsStillKnow DEF DraftInv
<1>9. CASE calls' # calls
  <2>1. PICK list, call :
          /\ list = calls[t]
          /\ call = [content |-> tab[t].content, expected |-> tab[t].timer,
                     stage |-> "sent", row |-> NoDraft]
    OBVIOUS
  <2>2. calls' = [calls EXCEPT ![t] = Append(list, call)]
    BY <1>9, <2>1 DEF Fire
  <2>3. call.expected \in Known(t) /\ call.expected \in Nat
    <3>1. tab[t].timer \in Known(t)
      BY <1>1 DEF EditorKnows, Fire
    <3>2. tab[t].timer \in Nat
      BY <1>3, <3>1 DEF Editors, Revisions, NoDraft, Fire, NoTimer
    <3>q. QED
      BY <2>1, <3>1, <3>2
  <2>4. call \in Saves /\ call.stage = "sent"
    BY <1>3, <2>1, <2>3 DEF Saves, Editors, Revisions
  <2>5. list \in Seq(Saves)
    BY <1>1, <2>1 DEF DraftTypes
  <2>6. /\ Append(list, call) \in Seq(Saves)
        /\ \A n \in DOMAIN Append(list, call) :
             \/ n \in DOMAIN list /\ Append(list, call)[n] = list[n]
             \/ Append(list, call)[n] = call
    BY <2>4, <2>5
  <2>7. DraftTypes'
    BY <1>1, <1>2, <1>5, <1>6, <2>2, <2>6 DEF DraftTypes
  <2>8. CallKnows(t, call)'
    BY <1>2, <2>3, <2>4 DEF CallKnows, Known
  <2>9. CallsKnow'
    <3>1. SUFFICES ASSUME NEW u \in Tabs, NEW n \in DOMAIN calls'[u]
                   PROVE  CallKnows(u, calls[u][n])'
      BY DEF CallsKnow
    <3>2. calls'[t] = Append(list, call) /\ (u # t => calls'[u] = calls[u])
      BY <1>1, <2>2 DEF DraftTypes
    <3>3. \/ calls'[u][n] = call /\ u = t
          \/ n \in DOMAIN calls[u] /\ calls'[u][n] = calls[u][n]
      <4>1. PICK longer : longer = Append(list, call)
        OBVIOUS
      <4>2. \A m \in DOMAIN longer : (m \in DOMAIN list /\ longer[m] = list[m]) \/ longer[m] = call
        BY <2>6, <4>1
      <4>3. calls'[t] = longer
        BY <3>2, <4>1
      <4>q. QED
        BY <2>1, <3>1, <3>2, <4>2, <4>3
    <3>4. CASE calls'[u][n] = call /\ u = t
      BY <2>8, <3>4
    <3>5. CASE n \in DOMAIN calls[u] /\ calls'[u][n] = calls[u][n]
      <4>1. CallKnows(u, calls[u][n])
        BY <1>1, <3>5 DEF CallsKnow
      <4>2. PICK old \in Saves : old = calls[u][n]
        BY <1>1, <3>5 DEF DraftTypes
      <4>3. CallKnows(u, old)'
        BY <1>1, <1>2, <2>7, <4>1, <4>2, CallStillKnows
      <4>q. QED
        BY <3>5, <4>2, <4>3
    <3>q. QED
      BY <3>3, <3>4, <3>5
  <2>q. QED
    BY <1>1, <1>2, <1>7, <2>7, <2>9, SeenStaysTrue DEF DraftInv
<1>q. QED
  BY <1>8, <1>9

LEMMA ReloadStep ==
  ASSUME DraftInv, NEW t \in Tabs, Reload(t)
  PROVE  DraftInv'
<1>1. DraftTypes /\ SeenIsTrue /\ EditorKnows /\ CallsKnow
  BY DEF DraftInv
<1>2. UNCHANGED <<draft, calls>>
  BY DEF Reload
<1>3. Onwards
  BY <1>1, <1>2 DEF Reload, Onwards, DraftTypes
<1>4. draft \in [revision : Revisions, content : Texts]
  BY <1>1 DEF DraftTypes
<1>5. PICK row : row = Loaded
  OBVIOUS
<1>6. row \in Drafts /\ (row.revision = 0 \/ (row = draft /\ draft.revision # NoDraft))
  <2>1. CASE draft.revision = NoDraft
    <3>1. row = [revision |-> 0, content |-> Blank]
      BY <1>5, <2>1 DEF Loaded
    <3>q. QED
      BY <3>1, DraftAssumption DEF Drafts
  <2>2. CASE draft.revision # NoDraft
    <3>1. row = draft
      BY <1>5, <2>2 DEF Loaded
    <3>q. QED
      BY <1>4, <2>2, <3>1 DEF Drafts, Revisions, NoDraft
  <2>q. QED
    BY <2>1, <2>2
<1>7. PICK next : next = Opened(row)
  OBVIOUS
<1>8. /\ next \in Editors /\ next.revision = row.revision /\ next.timer = NoTimer
  BY <1>6, <1>7 DEF Opened, Editors, Drafts, Revisions, NoTimer, NoDraft
<1>9. tab' = [tab EXCEPT ![t] = next]
  BY <1>5, <1>7 DEF Reload
<1>10. PICK found : found = IF draft.revision = NoDraft THEN seen[t] ELSE seen[t] \cup {draft}
  OBVIOUS
<1>11. seen' = [seen EXCEPT ![t] = found]
  BY <1>10 DEF Reload
<1>12. found \subseteq Drafts /\ \A d \in found : d \in seen[t] \/ d = draft
  BY <1>1, <1>4, <1>10 DEF DraftTypes, Drafts, Revisions
<1>13. DraftTypes'
  BY <1>1, <1>2, <1>8, <1>9, <1>11, <1>12 DEF DraftTypes
<1>14. SeenIsTrue'
  BY <1>1, <1>2, <1>4, <1>11, <1>12 DEF SeenIsTrue, DraftTypes, Revisions, NoDraft
<1>15. EditorKnows'
  <2>1. \A u \in Tabs : Known(u) \subseteq Known(u)'
    BY <1>3, KnownGrows
  <2>2. row.revision \in Known(t)'
    BY <1>1, <1>6, <1>10, <1>11 DEF Known, DraftTypes
  <2>3. tab'[t] = next /\ \A u \in Tabs \ {t} : tab'[u] = tab[u]
    BY <1>1, <1>9 DEF DraftTypes
  <2>q. QED
    BY <1>1, <1>8, <2>1, <2>2, <2>3 DEF EditorKnows
<1>q. QED
  BY <1>1, <1>2, <1>3, <1>13, <1>14, <1>15, CallsStillKnow DEF DraftInv

LEMMA SaveReadStep ==
  ASSUME DraftInv, NEW t \in Tabs, SaveRead(t)
  PROVE  DraftInv'
<1>1. DraftTypes /\ SeenIsTrue /\ EditorKnows /\ CallsKnow
  BY DEF DraftInv
<1>2. UNCHANGED <<draft, tab, seen>> /\ Onwards
  BY DEF SaveRead, Onwards
<1>3. calls[t] # <<>>
  BY DEF SaveRead, Running
<1>4. PICK call \in Saves : call = calls[t][1] /\ call = Head(calls[t]) /\ CallKnows(t, call)
  <2>1. calls[t] \in Seq(Saves)
    BY <1>1 DEF DraftTypes
  <2>2. 1 \in DOMAIN calls[t] /\ calls[t][1] \in Saves /\ Head(calls[t]) = calls[t][1]
    BY <1>3, <2>1
  <2>q. QED
    BY <1>1, <2>2 DEF CallsKnow
<1>5. PICK stage \in {"read", "conflict"} :
        /\ calls' = Moved(t, stage, draft.revision)
        /\ stage = "read" => Expected(t)
  BY DEF SaveRead
<1>6. PICK moved : moved = [call EXCEPT !.stage = stage, !.row = draft.revision]
  OBVIOUS
<1>7. moved \in Saves
  BY <1>1, <1>6 DEF Saves, DraftTypes
<1>8. /\ calls' \in [Tabs -> Seq(Saves)]
      /\ \A u \in Tabs \ {t} : calls'[u] = calls[u]
      /\ DOMAIN calls'[t] = DOMAIN calls[t]
      /\ calls'[t][1] = moved
      /\ \A n \in DOMAIN calls[t] \ {1} : calls'[t][n] = calls[t][n]
  <2>1. PICK row : row = draft.revision
    OBVIOUS
  <2>2. /\ moved = [Head(calls[t]) EXCEPT !.stage = stage, !.row = row]
        /\ calls' = Moved(t, stage, row)
    BY <1>4, <1>5, <1>6, <2>1
  <2>3. calls' = [calls EXCEPT ![t] = <<moved>> \o Tail(calls[t])]
    BY <2>2 DEF Moved
  <2>q. QED
    BY <1>1, <1>3, <1>7, <2>3, MovedCalls
<1>9. DraftTypes'
  BY <1>1, <1>2, <1>8 DEF DraftTypes
<1>10. CallKnows(t, calls[t][1])'
  <2>1. /\ moved.expected = call.expected /\ moved.stage = stage
        /\ moved.row = draft.revision
    BY <1>6 DEF Saves
  <2>2. stage = "read" => draft.revision \in {NoDraft, call.expected}
    BY <1>4, <1>5 DEF Expected
  <2>3. CallKnows(t, moved)'
    BY <1>2, <1>4, <1>5, <2>1, <2>2 DEF CallKnows, Known
  <2>q. QED
    BY <1>8, <2>3
<1>11. CallsKnow'
  BY <1>1, <1>2, <1>3, <1>8, <1>9, <1>10, CallsKnowMoved
<1>q. QED
  BY <1>1, <1>2, <1>9, <1>11, SeenStaysTrue, EditorStillKnows DEF DraftInv
(* The call that is being served, before and after.                        *)
LEMMA FirstCall ==
  ASSUME DraftTypes, CallsKnow, NEW t \in Tabs, calls[t] # <<>>
  PROVE  \E call \in Saves :
           call = calls[t][1] /\ call = Head(calls[t]) /\ CallKnows(t, call)
<1>1. calls[t] \in Seq(Saves)
  BY DEF DraftTypes
<1>2. 1 \in DOMAIN calls[t] /\ calls[t][1] \in Saves /\ Head(calls[t]) = calls[t][1]
  BY <1>1
<1>q. QED
  BY <1>2 DEF CallsKnow

LEMMA SaveWriteStep ==
  ASSUME DraftInv, NEW t \in Tabs, SaveWrite(t)
  PROVE  DraftInv'
<1>1. DraftTypes /\ SeenIsTrue /\ EditorKnows /\ CallsKnow
  BY DEF DraftInv
<1>2. UNCHANGED <<tab, seen>> /\ Running(t, "read")
  BY DEF SaveWrite
<1>3. calls[t] # <<>>
  BY <1>2 DEF Running
<1>4. PICK call \in Saves : call = calls[t][1] /\ call = Head(calls[t]) /\ CallKnows(t, call)
  BY <1>1, <1>3, FirstCall
<1>5. CASE /\ Unmoved(call.row) /\ Stored(call.content)
           /\ calls' = Moved(t, "saved", draft.revision + 1)
  <2>1. PICK row : row = draft.revision + 1
    OBVIOUS
  <2>2. PICK stage : stage = "saved"
    OBVIOUS
  <2>3. row \in Nat
    BY <1>1, <2>1 DEF DraftTypes, Revisions, NoDraft
  <2>4. PICK moved : moved = [call EXCEPT !.stage = stage, !.row = row]
    OBVIOUS
  <2>5. /\ moved \in Saves /\ moved.stage = "saved" /\ moved.row = row
        /\ moved.content = call.content /\ moved.expected = call.expected
    BY <2>2, <2>3, <2>4 DEF Saves, Revisions
  <2>6. /\ moved = [Head(calls[t]) EXCEPT !.stage = stage, !.row = row]
        /\ calls' = Moved(t, stage, row)
    BY <1>4, <1>5, <2>1, <2>2, <2>4
  <2>7. /\ calls' \in [Tabs -> Seq(Saves)]
        /\ \A u \in Tabs \ {t} : calls'[u] = calls[u]
        /\ DOMAIN calls'[t] = DOMAIN calls[t]
        /\ calls'[t][1] = moved
        /\ \A n \in DOMAIN calls[t] \ {1} : calls'[t][n] = calls[t][n]
    <3>1. calls' = [calls EXCEPT ![t] = <<moved>> \o Tail(calls[t])]
      BY <2>6 DEF Moved
    <3>q. QED
      BY <1>1, <1>3, <2>5, <3>1, MovedCalls
  <2>8. draft' = [revision |-> row, content |-> call.content]
    BY <1>5, <2>1 DEF Stored
  <2>9. DraftTypes'
    BY <1>1, <1>2, <2>3, <2>7, <2>8 DEF DraftTypes, Saves, Revisions
  <2>10. Onwards
    BY <1>1, <1>2, <2>1, <2>8 DEF Onwards, DraftTypes, Revisions, NoDraft
  <2>11. CallKnows(t, calls[t][1])'
    <3>1. CallKnows(t, moved)'
      BY <1>2, <1>4, <2>3, <2>5, <2>8 DEF CallKnows, Known
    <3>q. QED
      BY <2>7, <3>1
  <2>12. CallsKnow'
    BY <1>1, <1>3, <2>7, <2>9, <2>10, <2>11, CallsKnowMoved
  <2>q. QED
    BY <1>1, <1>2, <2>9, <2>10, <2>12, SeenStaysTrue, EditorStillKnows DEF DraftInv
<1>6. CASE draft' = draft /\ \E stage \in {"failed", "conflict"} : calls' = Moved(t, stage, call.row)
  <2>1. PICK stage \in {"failed", "conflict"} : calls' = Moved(t, stage, call.row)
    BY <1>6
  <2>2. PICK row \in Revisions : row = call.row
    BY DEF Saves
  <2>3. PICK moved : moved = [call EXCEPT !.stage = stage, !.row = row]
    OBVIOUS
  <2>4. /\ moved \in Saves /\ moved.stage = stage /\ moved.expected = call.expected
    BY <2>1, <2>2, <2>3 DEF Saves
  <2>5. /\ moved = [Head(calls[t]) EXCEPT !.stage = stage, !.row = row]
        /\ calls' = Moved(t, stage, row)
    BY <1>4, <2>1, <2>2, <2>3
  <2>6. /\ calls' \in [Tabs -> Seq(Saves)]
        /\ \A u \in Tabs \ {t} : calls'[u] = calls[u]
        /\ DOMAIN calls'[t] = DOMAIN calls[t]
        /\ calls'[t][1] = moved
        /\ \A n \in DOMAIN calls[t] \ {1} : calls'[t][n] = calls[t][n]
    <3>1. calls' = [calls EXCEPT ![t] = <<moved>> \o Tail(calls[t])]
      BY <2>5 DEF Moved
    <3>q. QED
      BY <1>1, <1>3, <2>4, <3>1, MovedCalls
  <2>7. DraftTypes' /\ Onwards
    BY <1>1, <1>2, <1>6, <2>6 DEF DraftTypes, Onwards
  <2>8. CallKnows(t, calls[t][1])'
    <3>1. CallKnows(t, moved)'
      BY <1>2, <1>4, <2>1, <2>4 DEF CallKnows, Known
    <3>q. QED
      BY <2>6, <3>1
  <2>9. CallsKnow'
    BY <1>1, <1>3, <2>6, <2>7, <2>8, CallsKnowMoved
  <2>q. QED
    BY <1>1, <1>2, <2>7, <2>9, SeenStaysTrue, EditorStillKnows DEF DraftInv
<1>q. QED
  BY <1>4, <1>5, <1>6 DEF SaveWrite

LEMMA AnswerSaveStep ==
  ASSUME DraftInv, NEW t \in Tabs, AnswerSave(t)
  PROVE  DraftInv'
<1>1. DraftTypes /\ SeenIsTrue /\ EditorKnows /\ CallsKnow
  BY DEF DraftInv
<1>2. UNCHANGED draft /\ calls[t] # <<>> /\ calls' = [calls EXCEPT ![t] = Tail(@)]
  BY DEF AnswerSave, Running
<1>3. PICK call \in Saves : call = calls[t][1] /\ call = Head(calls[t]) /\ CallKnows(t, call)
  BY <1>1, <1>2, FirstCall
<1>4. PICK editor \in Editors : editor = tab[t]
  BY <1>1 DEF DraftTypes
<1>5. /\ calls' \in [Tabs -> Seq(Saves)]
      /\ \A u \in Tabs : \A n \in DOMAIN calls'[u] :
           \E m \in DOMAIN calls[u] : calls'[u][n] = calls[u][m]
  BY <1>1, <1>2, TakenCalls
<1>6. CASE call.stage # "saved"
  <2>1. PICK next \in Editors :
          /\ tab' = [tab EXCEPT ![t] = next]
          /\ next.revision = editor.revision /\ next.timer = editor.timer
    <3>1. CASE call.stage = "conflict"
      <4>1. PICK next : next = [editor EXCEPT !.banner = "conflict"]
        OBVIOUS
      <4>2. tab' = [tab EXCEPT ![t] = next]
        BY <1>3, <1>4, <3>1, <4>1 DEF AnswerSave
      <4>3. next \in Editors /\ next.revision = editor.revision /\ next.timer = editor.timer
        BY <4>1 DEF Editors
      <4>q. QED
        BY <4>2, <4>3
    <3>2. CASE call.stage = "failed"
      <4>1. PICK next : next = [editor EXCEPT !.banner = "error"]
        OBVIOUS
      <4>2. tab' = [tab EXCEPT ![t] = next]
        BY <1>3, <1>4, <3>2, <4>1 DEF AnswerSave
      <4>3. next \in Editors /\ next.revision = editor.revision /\ next.timer = editor.timer
        BY <4>1 DEF Editors
      <4>q. QED
        BY <4>2, <4>3
    <3>q. QED
      BY <1>3, <1>6, <3>1, <3>2 DEF AnswerSave, Running
  <2>2. seen' = seen
    BY <1>3, <1>6 DEF AnswerSave
  <2>3. DraftTypes' /\ Onwards
    BY <1>1, <1>2, <1>5, <2>1, <2>2 DEF DraftTypes, Onwards
  <2>4. EditorKnows'
    BY <1>1, <1>4, <2>1, <2>2 DEF EditorKnows, Known, DraftTypes
  <2>q. QED
    BY <1>1, <1>5, <2>2, <2>3, <2>4, SeenStaysTrue, CallsKnowTaken DEF DraftInv
<1>7. CASE call.stage = "saved"
  <2>1. PICK next :
          next = [editor EXCEPT !.revision = call.row, !.lastSaved = editor.content,
                                !.banner = IF editor.banner = "conflict" THEN "none"
                                           ELSE editor.banner]
    OBVIOUS
  <2>2. call.row \in Nat /\ call.row =< draft.revision
        /\ (call.row = draft.revision => call.content = draft.content)
    BY <1>3, <1>7 DEF CallKnows
  <2>3. next \in Editors /\ next.revision = call.row /\ next.timer = editor.timer
    BY <2>1, <2>2 DEF Editors
  <2>4. tab' = [tab EXCEPT ![t] = next]
    BY <1>3, <1>4, <1>7, <2>1 DEF AnswerSave
  <2>5. PICK stored : stored = [revision |-> call.row, content |-> call.content]
    OBVIOUS
  <2>6. /\ stored \in Drafts
        /\ stored.revision = call.row /\ stored.content = call.content
    BY <2>2, <2>5 DEF Drafts, Saves
  <2>7. seen' = [seen EXCEPT ![t] = @ \cup {stored}]
    BY <1>3, <1>7, <2>5 DEF AnswerSave
  <2>8. DraftTypes' /\ Onwards
    BY <1>1, <1>2, <1>5, <2>3, <2>4, <2>6, <2>7 DEF DraftTypes, Onwards
  <2>9. SeenIsTrue'
    <3>1. stored.revision =< draft.revision /\ (stored.revision = draft.revision => stored = draft)
      BY <1>1, <2>2, <2>5, <2>6 DEF DraftTypes
    <3>q. QED
      BY <1>1, <1>2, <2>7, <3>1 DEF SeenIsTrue, DraftTypes
  <2>10. EditorKnows'
    <3>1. \A u \in Tabs : Known(u) \subseteq Known(u)'
      BY <2>8, KnownGrows
    <3>2. call.row \in Known(t)'
      BY <1>1, <2>6, <2>7 DEF Known, DraftTypes
    <3>3. tab'[t] = next /\ \A u \in Tabs \ {t} : tab'[u] = tab[u]
      BY <1>1, <2>4 DEF DraftTypes
    <3>q. QED
      BY <1>1, <1>4, <2>3, <3>1, <3>2, <3>3 DEF EditorKnows
  <2>q. QED
    BY <1>1, <1>5, <2>8, <2>9, <2>10, CallsKnowTaken DEF DraftInv
<1>q. QED
  BY <1>6, <1>7

LEMMA LoseSaveStep ==
  ASSUME DraftInv, NEW t \in Tabs, LoseSave(t)
  PROVE  DraftInv'
<1>1. DraftTypes /\ SeenIsTrue /\ EditorKnows /\ CallsKnow
  BY DEF DraftInv
<1>2. UNCHANGED <<draft, seen>> /\ calls[t] # <<>> /\ calls' = [calls EXCEPT ![t] = Tail(@)]
  BY DEF LoseSave
<1>3. PICK editor \in Editors : editor = tab[t]
  BY <1>1 DEF DraftTypes
<1>4. PICK next : next = [editor EXCEPT !.banner = "error"]
  OBVIOUS
<1>5. tab' = [tab EXCEPT ![t] = next]
  BY <1>3, <1>4 DEF LoseSave
<1>6. next \in Editors /\ next.revision = editor.revision /\ next.timer = editor.timer
  BY <1>4 DEF Editors
<1>7. /\ calls' \in [Tabs -> Seq(Saves)]
      /\ \A u \in Tabs : \A n \in DOMAIN calls'[u] :
           \E m \in DOMAIN calls[u] : calls'[u][n] = calls[u][m]
  BY <1>1, <1>2, TakenCalls
<1>8. DraftTypes' /\ Onwards
  BY <1>1, <1>2, <1>5, <1>6, <1>7 DEF DraftTypes, Onwards
<1>9. EditorKnows'
  BY <1>1, <1>2, <1>3, <1>5, <1>6 DEF EditorKnows, Known, DraftTypes
<1>q. QED
  BY <1>1, <1>2, <1>7, <1>8, <1>9, SeenStaysTrue, CallsKnowTaken DEF DraftInv

LEMMA SeedWriteStep ==
  ASSUME DraftInv, NEW t \in Tabs, SeedWrite(t)
  PROVE  DraftInv'
<1>1. DraftTypes /\ SeenIsTrue /\ EditorKnows /\ CallsKnow
  BY DEF DraftInv
<1>2. UNCHANGED <<tab, calls, seen>>
  BY DEF SeedWrite
<1>3. draft' = draft \/ draft' = [revision |-> draft.revision + 1, content |-> Candidate]
  BY DEF SeedWrite, Stored
<1>4. DraftTypes' /\ Onwards
  BY <1>1, <1>2, <1>3, DraftAssumption DEF DraftTypes, Onwards, Revisions, NoDraft
<1>q. QED
  BY <1>1, <1>2, <1>4, SeenStaysTrue, EditorStillKnows, CallsStillKnow DEF DraftInv

(* Nothing else touches the row, the editors or what they have queued.     *)
LEMMA OtherStep ==
  ASSUME DraftInv, UNCHANGED <<draft, tab, calls, seen>>
  PROVE  DraftInv'
<1>1. DraftTypes' /\ Onwards
  BY DEF DraftInv, DraftTypes, Onwards
<1>q. QED
  BY <1>1, SeenStaysTrue, EditorStillKnows, CallsStillKnow DEF DraftInv

LEMMA DraftStep == DraftInv /\ [DraftNext]_draftVars => DraftInv'
<1>1. SUFFICES ASSUME DraftInv, [DraftNext]_draftVars PROVE DraftInv'
  OBVIOUS
<1>2. CASE UNCHANGED draftVars
  BY <1>1, <1>2, OtherStep DEF draftVars
<1>3. ASSUME NEW t \in Tabs, EditorNext(t) PROVE DraftInv'
  BY <1>1, <1>3, TypeStep, FireStep, ReloadStep, SaveReadStep, SaveWriteStep,
     AnswerSaveStep, LoseSaveStep DEF EditorNext
<1>4. ASSUME NEW t \in Tabs, SeedNext(t) PROVE DraftInv'
  <2>1. CASE SeedRead(t)
    BY <1>1, <2>1, OtherStep DEF SeedRead
  <2>q. QED
    BY <1>1, <1>4, <2>1, SeedWriteStep DEF SeedNext
<1>5. ASSUME NEW t \in Tabs, CheckNext(t) PROVE DraftInv'
  BY <1>1, <1>5, OtherStep
     DEF CheckNext, SnapshotRead, SnapshotWrite, ValidateRead, ValidateWrite
<1>q. QED
  BY <1>1, <1>2, <1>3, <1>4, <1>5 DEF DraftNext

(* A tab knows no revision of a draft it has not seen, in every state of   *)
(* every run.                                                              *)
THEOREM DraftInvariant == DraftSpec => []DraftInv
BY DraftInitially, DraftStep, PTL DEF DraftSpec

(* The save that replaces a row passed its reading step with the revision  *)
(* of that row, which its tab knew: the tab has seen the row.              *)
THEOREM SavesReplaceWhatWasSeen == DraftSpec => OverwritesOnlySeen
<1>1. DraftInv /\ [DraftNext]_draftVars =>
        [\A t \in Tabs :
           (Running(t, "read") /\ draft'.revision > draft.revision
              /\ calls'[t] # calls[t] /\ draft.revision > 0)
           => draft \in seen[t]]_draftVars
  <2>1. SUFFICES ASSUME DraftInv, DraftNext, NEW t \in Tabs, Running(t, "read"),
                        draft'.revision > draft.revision, calls'[t] # calls[t],
                        draft.revision > 0
                 PROVE  draft \in seen[t]
    OBVIOUS
  <2>2. DraftTypes /\ SeenIsTrue /\ CallsKnow
    BY <2>1 DEF DraftInv
  <2>3. draft' # draft /\ calls' # calls
    BY <2>1, <2>2 DEF DraftTypes, Revisions, NoDraft
  <2>4. PICK u \in Tabs : EditorNext(u) \/ SeedNext(u) \/ CheckNext(u)
    BY <2>1 DEF DraftNext
  <2>5. SaveWrite(u)
    BY <2>3, <2>4 DEF EditorNext, SeedNext, CheckNext, Type, Fire, Reload, SaveRead, AnswerSave,
       LoseSave, SeedRead, SeedWrite, SnapshotRead, SnapshotWrite, ValidateRead, ValidateWrite
  <2>6. u = t
    BY <2>1, <2>2, <2>5 DEF SaveWrite, Moved, DraftTypes
  <2>7. PICK call \in Saves : call = Head(calls[t]) /\ CallKnows(t, call)
    BY <2>1, <2>2, FirstCall DEF Running
  <2>8. draft.revision = call.row /\ call.stage = "read"
    BY <2>1, <2>3, <2>5, <2>6, <2>7 DEF SaveWrite, Unmoved, Running
  <2>9. call.expected = draft.revision /\ call.expected \in Known(t)
    BY <2>1, <2>2, <2>7, <2>8 DEF CallKnows, NoDraft, DraftTypes, Revisions
  <2>10. PICK d \in seen[t] : d.revision = draft.revision
    BY <2>1, <2>9 DEF Known
  <2>q. QED
    BY <2>2, <2>10 DEF SeenIsTrue
<1>q. QED
  BY <1>1, DraftInvariant, PTL DEF DraftSpec, OverwritesOnlySeen

-----------------------------------------------------------------------------
\* The job panel.

Phases == {"none", "queued", "running", "cancelled", "succeeded"}
Places == {"none", "root", "nested"}
Stages == {"none", "timer", "sent", "read", "failed", "reading", "ambiguous", "error",
           "active", "quoted", "refused", "expired", "started"}

(* Every view is of a job there is, or of none.                            *)
Views == [job : 0..Len(rows.jobs), phase : Phases, cancel : BOOLEAN]
PanelCalls == [at : Stages, view : Views]
Answers == [kind : Stages, view : Views]
Panels == [place : Places, view : Views, cancelled : BOOLEAN,
           loops : [Loops -> PanelCalls], cancel : PanelCalls]
Forms == [quote : Answers, confirm : Answers, pending : {"none", "quote", "confirm"},
          answer : PanelCalls]
Pages == [job : Views, refresh : PanelCalls]
Rows == [jobs : Seq([phase : Phases, cancel : BOOLEAN]), last : Nat]

PanelTypes ==
  /\ surface \in {"beat", "concept", "repair", "publish"}
  /\ rows \in Rows /\ rows.last =< Len(rows.jobs)
  /\ page \in Pages /\ forms \in Forms /\ panel \in Panels

(* A view that is shown, or that a read brought, is of a job; a read that  *)
(* failed brings none.                                                     *)
Found(call) ==
  /\ call.at \in {"read", "active", "started"} => call.view.job # 0
  /\ call.at = "failed" => call.view.job = 0
Told(answer) == answer.kind \in {"active", "started"} => answer.view.job # 0
FormsFound(f) == Told(f.quote) /\ Told(f.confirm) /\ Found(f.answer)
PanelFound(pn) ==
  /\ IF pn.place = "none" THEN pn = Unmounted ELSE pn.view.job # 0
  /\ Found(pn.cancel) /\ \A l \in Loops : Found(pn.loops[l])

(* A loop that survives the view it polled for knows that it is cancelled, *)
(* and nothing can bring back a running view before it has ended.          *)
Polled(pn) ==
  IF Nonterminal(pn.view.phase)
  THEN /\ pn.cancelled = FALSE
       /\ \E l \in Loops : pn.loops[l] # NoCall /\ \A k \in Loops \ {l} : pn.loops[k] = NoCall
  ELSE \/ \A l \in Loops : pn.loops[l] = NoCall
       \/ pn.cancelled = TRUE /\ pn.cancel = NoCall

PanelInv == PanelTypes /\ FormsFound(forms) /\ PanelFound(panel) /\ Polled(panel)

LEMMA PolledIsPolledOnce == Polled(panel) => RunningJobIsPolled
<1>1. SUFFICES ASSUME Polled(panel), Nonterminal(panel.view.phase)
               PROVE  /\ ~panel.cancelled
                      /\ Cardinality({l \in Loops : panel.loops[l] # NoCall}) = 1
  BY DEF RunningJobIsPolled
<1>2. PICK l \in Loops : panel.loops[l] # NoCall /\ \A k \in Loops \ {l} : panel.loops[k] = NoCall
  BY <1>1 DEF Polled
<1>3. {k \in Loops : panel.loops[k] # NoCall} = {l}
  BY <1>2
<1>4. Cardinality({l}) = 1
  BY FS_Singleton
<1>q. QED
  BY <1>1, <1>3, <1>4 DEF Polled

(* Rows are added and never removed.                                       *)
LEMMA SetsGrow ==
  ASSUME PanelTypes, rows' \in Rows, Len(rows'.jobs) >= Len(rows.jobs)
  PROVE  Panels \subseteq Panels' /\ Forms \subseteq Forms' /\ Pages \subseteq Pages'
<1>1. Len(rows.jobs) \in Nat /\ Len(rows'.jobs) \in Nat
  BY DEF PanelTypes, Rows
<1>2. Views \subseteq Views'
  BY <1>1 DEF Views
<1>3. PanelCalls \subseteq PanelCalls' /\ Answers \subseteq Answers'
  BY <1>2 DEF PanelCalls, Answers
<1>4. Panels \subseteq Panels'
  BY <1>2, <1>3 DEF Panels
<1>5. Forms \subseteq Forms' /\ Pages \subseteq Pages'
  BY <1>2, <1>3 DEF Forms, Pages
<1>q. QED
  BY <1>4, <1>5

LEMMA Blanks ==
  ASSUME PanelTypes
  PROVE  /\ NoView \in Views /\ NoView.job = 0 /\ NoView.phase = "none"
         /\ NoCall \in PanelCalls /\ Sent \in PanelCalls /\ Waiting \in PanelCalls
         /\ NoCall.at = "none" /\ Sent.at = "sent" /\ Waiting.at = "timer"
         /\ Unmounted \in Panels
<1>1. NoView \in Views /\ NoView.job = 0 /\ NoView.phase = "none"
  BY DEF PanelTypes, Rows, NoView, Views, Phases
<1>2. NoCall \in PanelCalls /\ NoCall.at = "none"
  BY <1>1 DEF NoCall, PanelCalls, Stages
<1>3. Sent \in PanelCalls /\ Sent.at = "sent"
  BY <1>2 DEF Sent, PanelCalls, Stages
<1>4. Waiting \in PanelCalls /\ Waiting.at = "timer"
  BY <1>2 DEF Waiting, PanelCalls, Stages
<1>5. NoLoops \in [Loops -> PanelCalls]
  BY <1>2 DEF NoLoops
<1>6. Unmounted \in Panels
  BY <1>1, <1>2, <1>5 DEF Unmounted, Panels, Places
<1>q. QED
  BY <1>1, <1>2, <1>3, <1>4, <1>6

LEMMA ViewOfJob ==
  ASSUME PanelTypes, NEW j \in 1..Len(rows.jobs)
  PROVE  ViewOf(j) \in Views /\ ViewOf(j).job = j
<1>1. PICK jobs : jobs = rows.jobs
  OBVIOUS
<1>2. PICK Job : Job = [phase : Phases, cancel : BOOLEAN]
  OBVIOUS
<1>3. jobs \in Seq(Job)
  BY <1>1, <1>2 DEF PanelTypes, Rows
<1>4. j \in 1..Len(jobs)
  BY <1>1
<1>5. jobs[j] \in Job /\ j \in 0..Len(jobs)
  BY <1>3, <1>4
<1>6. rows.jobs[j] \in [phase : Phases, cancel : BOOLEAN] /\ j \in 0..Len(rows.jobs)
  BY <1>1, <1>2, <1>5
<1>q. QED
  BY <1>6 DEF ViewOf, Views

-----------------------------------------------------------------------------
(* A new view.                                                             *)

LEMMA Stopped ==
  ASSUME PanelTypes, NEW pn \in Panels
  PROVE  /\ StopLoops(pn) \in Panels /\ StopLoops(pn).cancelled = TRUE
         /\ StopLoops(pn).view = pn.view /\ StopLoops(pn).cancel = pn.cancel
         /\ StopLoops(pn).place = pn.place
         /\ \A l \in Loops : StopLoops(pn).loops[l] \in {pn.loops[l], NoCall}
<1>1. PICK loops : loops = [l \in Loops |-> IF pn.loops[l] = Waiting THEN NoCall ELSE pn.loops[l]]
  OBVIOUS
<1>2. StopLoops(pn) = [pn EXCEPT !.cancelled = TRUE, !.loops = loops]
  BY <1>1 DEF StopLoops
<1>3. loops \in [Loops -> PanelCalls]
  BY <1>1, Blanks DEF Panels
<1>4. PICK stopped : stopped = [pn EXCEPT !.cancelled = TRUE, !.loops = loops]
  OBVIOUS
<1>5. /\ stopped \in Panels /\ stopped.cancelled = TRUE /\ stopped.view = pn.view
      /\ stopped.cancel = pn.cancel /\ stopped.place = pn.place /\ stopped.loops = loops
  BY <1>3, <1>4 DEF Panels
<1>q. QED
  BY <1>1, <1>2, <1>4, <1>5

LEMMA Started ==
  ASSUME PanelTypes, NEW pn \in Panels, \A l \in Loops : pn.loops[l] = NoCall
  PROVE  /\ StartLoop(pn) \in Panels /\ StartLoop(pn).cancelled = pn.cancelled
         /\ StartLoop(pn).view = pn.view /\ StartLoop(pn).cancel = pn.cancel
         /\ StartLoop(pn).place = pn.place
         /\ \E l \in Loops : /\ StartLoop(pn).loops[l] = Waiting
                             /\ \A k \in Loops \ {l} : StartLoop(pn).loops[k] = NoCall
<1>1. {l \in Loops : pn.loops[l] = NoCall} = Loops
  OBVIOUS
<1>2. PICK first : first = Min(Loops)
  OBVIOUS
<1>3. first \in Loops
  <2>1. \E x \in Loops : \A y \in Loops : x =< y
    BY DEF Loops
  <2>q. QED
    BY <1>2, <2>1 DEF Min
<1>4. StartLoop(pn) = [pn EXCEPT !.loops[first] = Waiting]
  BY <1>1, <1>2, <1>3 DEF StartLoop
<1>5. PICK loops : loops = [pn.loops EXCEPT ![first] = Waiting]
  OBVIOUS
<1>6. loops \in [Loops -> PanelCalls] /\ loops[first] = Waiting /\ \A k \in Loops \ {first} : loops[k] = NoCall
  BY <1>3, <1>5, Blanks DEF Panels
<1>7. PICK started : started = [pn EXCEPT !.loops = loops]
  OBVIOUS
<1>8. StartLoop(pn) = started
  BY <1>4, <1>5, <1>7
<1>9. /\ started \in Panels /\ started.cancelled = pn.cancelled /\ started.view = pn.view
      /\ started.cancel = pn.cancel /\ started.place = pn.place /\ started.loops = loops
  BY <1>6, <1>7 DEF Panels
<1>q. QED
  BY <1>3, <1>6, <1>8, <1>9

(* What a panel becomes with a new view: a running view that follows one   *)
(* that was not finds no loop under way, and starts one.                   *)
LEMMA Viewed ==
  ASSUME PanelTypes, NEW pn \in Panels, NEW view \in Views,
         IF Nonterminal(pn.view.phase)
         THEN \/ Nonterminal(view.phase) /\ Polled(pn)
              \/ ~Nonterminal(view.phase) /\ pn.cancel = NoCall
              \/ ~Nonterminal(view.phase) /\ \A l \in Loops : pn.loops[l] = NoCall
         ELSE \A l \in Loops : pn.loops[l] = NoCall
  PROVE  /\ WithView(pn, view) \in Panels /\ Polled(WithView(pn, view))
         /\ WithView(pn, view).view = view /\ WithView(pn, view).place = pn.place
         /\ WithView(pn, view).cancel = pn.cancel
         /\ \A l \in Loops : WithView(pn, view).loops[l] \in {pn.loops[l], NoCall, Waiting}
<1>1. PICK new : new = [pn EXCEPT !.view = view]
  OBVIOUS
<1>2. /\ new \in Panels /\ new.view = view /\ new.place = pn.place /\ new.loops = pn.loops
      /\ new.cancel = pn.cancel /\ new.cancelled = pn.cancelled
  BY <1>1 DEF Panels
<1>3. CASE Nonterminal(pn.view.phase) /\ ~Nonterminal(view.phase)
  <2>1. WithView(pn, view) = StopLoops(new)
    BY <1>1, <1>3 DEF WithView
  <2>2. PICK stopped : stopped = StopLoops(new)
    OBVIOUS
  <2>3. /\ stopped \in Panels /\ stopped.cancelled = TRUE /\ stopped.view = view
        /\ stopped.cancel = pn.cancel /\ stopped.place = pn.place
        /\ \A l \in Loops : stopped.loops[l] \in {pn.loops[l], NoCall}
    BY <1>2, <2>2, Stopped
  <2>4. Polled(stopped)
    BY <1>3, <2>3 DEF Polled
  <2>q. QED
    BY <2>1, <2>2, <2>3, <2>4
<1>4. CASE ~Nonterminal(pn.view.phase) /\ Nonterminal(view.phase)
  <2>1. PICK clear : clear = [new EXCEPT !.cancelled = FALSE]
    OBVIOUS
  <2>2. /\ clear \in Panels /\ clear.view = view /\ clear.place = pn.place
        /\ clear.loops = pn.loops /\ clear.cancel = pn.cancel /\ clear.cancelled = FALSE
    BY <1>2, <2>1 DEF Panels
  <2>3. WithView(pn, view) = StartLoop(clear)
    BY <1>1, <1>4, <2>1 DEF WithView
  <2>4. Waiting # NoCall
    BY Blanks
  <2>5. PICK started : started = StartLoop(clear)
    OBVIOUS
  <2>6. /\ started \in Panels /\ started.cancelled = FALSE /\ started.view = view
        /\ started.cancel = pn.cancel /\ started.place = pn.place
        /\ \E l \in Loops : /\ started.loops[l] = Waiting
                            /\ \A k \in Loops \ {l} : started.loops[k] = NoCall
    BY <1>4, <2>2, <2>5, Started
  <2>7. Polled(started)
    BY <1>4, <2>4, <2>6 DEF Polled
  <2>q. QED
    BY <2>3, <2>5, <2>6, <2>7
<1>5. CASE Nonterminal(pn.view.phase) <=> Nonterminal(view.phase)
  <2>1. WithView(pn, view) = new
    BY <1>1, <1>5 DEF WithView
  <2>2. Polled(new)
    BY <1>2, <1>5 DEF Polled
  <2>q. QED
    BY <1>2, <2>1, <2>2
<1>q. QED
  BY <1>3, <1>4, <1>5
-----------------------------------------------------------------------------
(* What the page renders.                                                  *)

(* A job panel is shown for a job; without one, nothing is.                *)
Shows(s) ==
  \/ s.place = "none" /\ s.view = NoView
  \/ s.place \in {"root", "nested"} /\ s.view \in Views /\ s.view.job # 0

LEMMA UnstartedShows ==
  ASSUME PanelTypes, NEW f \in Forms, FormsFound(f)
  PROVE  Shows(Unstarted(f))
<1>1. f.quote.view \in Views /\ f.confirm.view \in Views
  BY DEF Forms, Answers
<1>2. CASE Answered(f.confirm, {"started"})
  <2>1. Unstarted(f) = JobAt("root", f.confirm.view)
    BY <1>2 DEF Unstarted
  <2>2. f.confirm.view.job # 0
    BY <1>2 DEF Answered, FormsFound, Told
  <2>q. QED
    BY <1>1, <2>1, <2>2 DEF Shows, JobAt, Show
<1>3. CASE Answered(f.quote, {"active"}) /\ ~Answered(f.confirm, {"started"})
  <2>1. Unstarted(f) = JobAt("root", f.quote.view)
    BY <1>3 DEF Unstarted
  <2>2. f.quote.view.job # 0
    BY <1>3 DEF Answered, FormsFound, Told
  <2>q. QED
    BY <1>1, <2>1, <2>2 DEF Shows, JobAt, Show
<1>4. CASE ~Answered(f.quote, {"active"}) /\ ~Answered(f.confirm, {"started"})
  <2>1. Unstarted(f) = Card(FALSE, TRUE) \/ Unstarted(f) = Start
    BY <1>4 DEF Unstarted
  <2>q. QED
    BY <2>1 DEF Shows, Card, Start, Show
<1>q. QED
  BY <1>2, <1>3, <1>4

LEMMA BeatShows ==
  ASSUME PanelTypes, NEW p \in Views, NEW f \in Forms, FormsFound(f)
  PROVE  Shows(BeatPanel(p, f))
<1>1. f.quote.view \in Views /\ f.confirm.view \in Views
  BY DEF Forms, Answers
<1>2. CASE p.job # 0
  <2>1. BeatPanel(p, f) = Show("nested", p, TRUE, FALSE) \/ BeatPanel(p, f) = JobAt("root", p)
    BY <1>2 DEF BeatPanel
  <2>q. QED
    BY <1>2, <2>1 DEF Shows, JobAt, Show
<1>3. CASE p.job = 0 /\ Answered(f.quote, {"active"})
  <2>1. BeatPanel(p, f) = JobAt("root", f.quote.view)
    BY <1>3 DEF BeatPanel
  <2>2. f.quote.view.job # 0
    BY <1>3 DEF Answered, FormsFound, Told
  <2>q. QED
    BY <1>1, <2>1, <2>2 DEF Shows, JobAt, Show
<1>4. CASE p.job = 0 /\ ~Answered(f.quote, {"active"}) /\ Answered(f.confirm, {"started"})
  <2>1. BeatPanel(p, f) = JobAt("root", f.confirm.view)
    BY <1>4 DEF BeatPanel
  <2>2. f.confirm.view.job # 0
    BY <1>4 DEF Answered, FormsFound, Told
  <2>q. QED
    BY <1>1, <2>1, <2>2 DEF Shows, JobAt, Show
<1>5. CASE p.job = 0 /\ ~Answered(f.quote, {"active"}) /\ ~Answered(f.confirm, {"started"})
  <2>1. \/ BeatPanel(p, f) = Card(Answered(f.confirm, {"expired", "refused"}),
                                  ~Answered(f.confirm, {"expired", "refused"}))
        \/ BeatPanel(p, f) = Start
    BY <1>5 DEF BeatPanel
  <2>q. QED
    BY <2>1 DEF Shows, Card, Start, Show
<1>q. QED
  BY <1>2, <1>3, <1>4, <1>5

LEMMA ScreenShows ==
  ASSUME PanelTypes, NEW p \in Views, NEW f \in Forms, FormsFound(f)
  PROVE  Shows(Screen(p, f))
<1>1. Shows(Unstarted(f)) /\ Shows(BeatPanel(p, f))
  BY UnstartedShows, BeatShows
<1>2. p.job # 0 => /\ Shows(Show("nested", p, TRUE, FALSE))
                   /\ Shows(JobAt("root", p)) /\ Shows(JobAt("nested", p))
  BY DEF Shows, JobAt, Show
<1>3. Shows(ConceptPanel(p, f)) /\ Shows(RepairPanel(p, f)) /\ Shows(PublishPanel(p, f))
  BY <1>1, <1>2 DEF ConceptPanel, RepairPanel, PublishPanel
<1>4. \/ Screen(p, f) = BeatPanel(p, f) \/ Screen(p, f) = ConceptPanel(p, f)
      \/ Screen(p, f) = RepairPanel(p, f) \/ Screen(p, f) = PublishPanel(p, f)
  BY DEF PanelTypes, Screen
<1>q. QED
  BY <1>1, <1>3, <1>4

Kept(pn) == pn \in Panels /\ PanelFound(pn) /\ Polled(pn)

LEMMA UnmountedKept == ASSUME PanelTypes PROVE Kept(Unmounted)
<1>1. Unmounted \in Panels /\ NoCall.at = "none" /\ NoView.phase = "none"
  BY Blanks
<1>2. /\ Unmounted.view = NoView /\ Unmounted.cancel = NoCall /\ Unmounted.place = "none"
      /\ \A l \in Loops : Unmounted.loops[l] = NoCall
  BY DEF Unmounted, NoLoops
<1>q. QED
  BY <1>1, <1>2 DEF Kept, PanelFound, Polled, Found, Nonterminal

(* A panel mounted where the page shows a job, or shows none.              *)
LEMMA MountedKept ==
  ASSUME PanelTypes, NEW s, Shows(s)
  PROVE  Kept(WithView([Unmounted EXCEPT !.place = s.place], s.view))
<1>1. PICK blank : blank = [Unmounted EXCEPT !.place = s.place]
  OBVIOUS
<1>2. Unmounted \in Panels /\ NoCall.at = "none" /\ NoView.phase = "none" /\ NoView \in Views
      /\ Waiting.at = "timer"
  BY Blanks
<1>3. s.place \in Places /\ s.view \in Views
  BY <1>2 DEF Shows, Places
<1>4. blank \in Panels /\ blank.place = s.place /\ blank.view = Unmounted.view
      /\ blank.loops = Unmounted.loops /\ blank.cancel = Unmounted.cancel
  BY <1>1, <1>2, <1>3 DEF Panels
<1>5. /\ Unmounted.view = NoView /\ Unmounted.cancel = NoCall
      /\ \A l \in Loops : Unmounted.loops[l] = NoCall
  BY DEF Unmounted, NoLoops
<1>6. ~Nonterminal(blank.view.phase)
  BY <1>2, <1>4, <1>5 DEF Nonterminal
<1>7. PICK view \in Views : view = s.view
  BY <1>3
<1>8. PICK pn : pn = WithView(blank, view)
  OBVIOUS
<1>9. /\ pn \in Panels /\ Polled(pn) /\ pn.view = view /\ pn.place = s.place
      /\ pn.cancel = NoCall
      /\ \A l \in Loops : pn.loops[l] \in {NoCall, Waiting}
  BY <1>4, <1>5, <1>6, <1>8, Viewed
<1>10. Found(pn.cancel) /\ \A l \in Loops : Found(pn.loops[l])
  BY <1>2, <1>9 DEF Found
<1>11. CASE s.place = "none"
  <2>1. view = NoView /\ blank = Unmounted
    BY <1>1, <1>7, <1>11 DEF Shows, Unmounted
  <2>2. pn = [Unmounted EXCEPT !.view = NoView]
    BY <1>2, <1>6, <1>8, <2>1 DEF WithView, Nonterminal
  <2>3. pn = Unmounted
    BY <2>2 DEF Unmounted
  <2>q. QED
    BY <1>1, <1>7, <1>8, <2>3, UnmountedKept
<1>12. CASE s.place # "none"
  <2>1. pn.place # "none" /\ pn.view.job # 0
    BY <1>7, <1>9, <1>12 DEF Shows
  <2>q. QED
    BY <1>1, <1>7, <1>8, <1>9, <1>10, <2>1 DEF Kept, PanelFound
<1>q. QED
  BY <1>11, <1>12

LEMMA RenderedKept ==
  ASSUME PanelInv, NEW p \in Views, NEW f \in Forms, FormsFound(f)
  PROVE  Kept(Rendered(p, f))
<1>1. PanelTypes /\ Kept(panel)
  BY DEF PanelInv, Kept, PanelTypes
<1>2. PICK s : s = Screen(p, f)
  OBVIOUS
<1>3. Shows(s)
  BY <1>1, <1>2, ScreenShows
<1>4. Kept(WithView([Unmounted EXCEPT !.place = s.place], s.view)) /\ Kept(Unmounted)
  BY <1>1, <1>3, MountedKept, UnmountedKept
<1>q. QED
  BY <1>1, <1>2, <1>4 DEF Rendered
(* The lookup finds a job whenever it says there is one.                   *)
LEMMA LookupFinds ==
  ASSUME PanelTypes
  PROVE  /\ Lookup.view \in Views
         /\ Cardinality(ActiveJobs) = 1 => Lookup.view.job # 0
<1>1. NoCall.view \in Views
  BY Blanks DEF NoCall
<1>2. ActiveJobs \subseteq 1..Len(rows.jobs)
  BY DEF ActiveJobs, PanelTypes, Rows
<1>3. \A j \in 1..Len(rows.jobs) : ViewOf(j) \in Views /\ ViewOf(j).job = j
  BY ViewOfJob
<1>4. \A view : Read(view).view = view
  BY DEF Read
<1>5. CASE ActiveJobs = {}
  <2>1. Cardinality(ActiveJobs) = 0
    BY <1>5, FS_EmptySet
  <2>2. rows.last = 0 \/ rows.last \in 1..Len(rows.jobs)
    BY DEF PanelTypes, Rows
  <2>3. Lookup = NoCall \/ (rows.last # 0 /\ Lookup = Read(ViewOf(rows.last)))
    BY <1>5 DEF Lookup
  <2>4. Lookup.view \in Views
    BY <1>1, <1>3, <1>4, <2>2, <2>3
  <2>q. QED
    BY <2>1, <2>4
<1>6. CASE ActiveJobs # {} /\ Cardinality(ActiveJobs) = 1
  <2>1. PICK j : j = CHOOSE k \in ActiveJobs : TRUE
    OBVIOUS
  <2>2. j \in ActiveJobs
    BY <1>6, <2>1
  <2>3. Lookup = Read(ViewOf(j))
    BY <1>6, <2>1 DEF Lookup
  <2>4. Lookup.view = ViewOf(j) /\ ViewOf(j) \in Views /\ ViewOf(j).job = j /\ j # 0
    BY <1>2, <1>3, <1>4, <2>2, <2>3
  <2>q. QED
    BY <2>4
<1>7. CASE ActiveJobs # {} /\ Cardinality(ActiveJobs) # 1
  <2>1. Lookup = [NoCall EXCEPT !.at = "ambiguous"]
    BY <1>7 DEF Lookup
  <2>2. Lookup.view = NoCall.view
    BY <2>1 DEF NoCall
  <2>q. QED
    BY <1>1, <1>7, <2>2
<1>q. QED
  BY <1>5, <1>6, <1>7

LEMMA PageLookupView == ASSUME PanelTypes PROVE PageLookup \in Views
BY LookupFinds, Blanks DEF PageLookup

LEMMA ReadsAreCalls ==
  ASSUME PanelTypes, NEW view \in Views
  PROVE  Read(view) \in PanelCalls /\ Read(view).at = "read" /\ Read(view).view = view
BY DEF Read, PanelCalls, Stages

-----------------------------------------------------------------------------
(* Steps of the rows, of the page and of the forms.                        *)

LEMMA SetsStay ==
  ASSUME rows' = rows
  PROVE  Panels' = Panels /\ Forms' = Forms /\ Pages' = Pages
<1>1. Views' = Views
  BY DEF Views
<1>2. PanelCalls' = PanelCalls /\ Answers' = Answers
  BY <1>1 DEF PanelCalls, Answers
<1>q. QED
  BY <1>1, <1>2 DEF Panels, Forms, Pages

(* What the browser holds becomes, while the rows stay.                    *)
LEMMA Becomes ==
  ASSUME PanelInv, UNCHANGED <<surface, rows>>,
         NEW pg \in Pages, page' = pg, NEW f \in Forms, forms' = f, FormsFound(f),
         NEW pn, panel' = pn, Kept(pn)
  PROVE  PanelInv'
<1>1. Panels' = Panels /\ Forms' = Forms /\ Pages' = Pages
  BY SetsStay
<1>2. Rows' = Rows
  BY DEF Rows
<1>3. PanelTypes'
  BY <1>1, <1>2 DEF PanelInv, PanelTypes, Kept
<1>4. FormsFound(forms)'
  BY DEF FormsFound, Told, Found
<1>5. PanelFound(panel)' /\ Polled(panel)'
  BY DEF Kept, PanelFound, Polled, Found
<1>q. QED
  BY <1>3, <1>4, <1>5 DEF PanelInv

(* The rows change, and the browser keeps what it holds.                   *)
LEMMA RowsChange ==
  ASSUME PanelInv, UNCHANGED <<surface, page, forms, panel>>, rows' \in Rows,
         Len(rows'.jobs) >= Len(rows.jobs), rows'.last =< Len(rows'.jobs)
  PROVE  PanelInv'
<1>1. Panels \subseteq Panels' /\ Forms \subseteq Forms' /\ Pages \subseteq Pages'
  BY SetsGrow DEF PanelInv
<1>2. Rows' = Rows
  BY DEF Rows
<1>3. PanelTypes'
  BY <1>1, <1>2 DEF PanelInv, PanelTypes
<1>4. FormsFound(forms)' /\ PanelFound(panel)' /\ Polled(panel)'
  BY DEF PanelInv, FormsFound, Told, PanelFound, Polled, Found
<1>q. QED
  BY <1>3, <1>4 DEF PanelInv

LEMMA SetJobRows ==
  ASSUME PanelTypes, NEW j \in ActiveJobs, NEW phase \in Phases, NEW cancel \in BOOLEAN,
         SetJob(j, phase, cancel)
  PROVE  rows' \in Rows /\ Len(rows'.jobs) = Len(rows.jobs) /\ rows'.last =< Len(rows'.jobs)
<1>1. PICK jobs, last : jobs = rows.jobs /\ last = rows.last
  OBVIOUS
<1>2. PICK Job : Job = [phase : Phases, cancel : BOOLEAN]
  OBVIOUS
<1>3. jobs \in Seq(Job) /\ last \in Nat /\ last =< Len(jobs) /\ rows = [jobs |-> jobs, last |-> last]
  BY <1>1, <1>2 DEF PanelTypes, Rows
<1>4. PICK job \in Job : job = [phase |-> phase, cancel |-> cancel]
  BY <1>2
<1>5. j \in 1..Len(jobs)
  BY <1>1, <1>3 DEF ActiveJobs
<1>6. PICK next : next = [jobs EXCEPT ![j] = job]
  OBVIOUS
<1>7. next \in Seq(Job) /\ Len(next) = Len(jobs)
  BY <1>3, <1>4, <1>5, <1>6
<1>8. PICK ended \in Nat : ended = (IF Nonterminal(phase) THEN last ELSE j) /\ ended =< Len(jobs)
  BY <1>3, <1>5
<1>9. rows' = [jobs |-> next, last |-> ended]
  <2>1. rows' = [rows EXCEPT !.jobs = next, !.last = IF Nonterminal(phase) THEN last ELSE j]
    BY <1>1, <1>4, <1>6 DEF SetJob
  <2>q. QED
    BY <1>3, <1>8, <2>1
<1>q. QED
  BY <1>1, <1>2, <1>7, <1>8, <1>9 DEF Rows

LEMMA QueueJobRows ==
  ASSUME PanelTypes, QueueJob
  PROVE  /\ rows' \in Rows /\ Len(rows'.jobs) = Len(rows.jobs) + 1 /\ rows'.last =< Len(rows'.jobs)
<1>1. PICK jobs, last : jobs = rows.jobs /\ last = rows.last
  OBVIOUS
<1>2. PICK Job : Job = [phase : Phases, cancel : BOOLEAN]
  OBVIOUS
<1>3. jobs \in Seq(Job) /\ last \in Nat /\ last =< Len(jobs) /\ rows = [jobs |-> jobs, last |-> last]
  BY <1>1, <1>2 DEF PanelTypes, Rows
<1>4. PICK job \in Job : job = [phase |-> "queued", cancel |-> FALSE]
  BY <1>2 DEF Phases
<1>5. PICK next : next = Append(jobs, job)
  OBVIOUS
<1>6. next \in Seq(Job) /\ Len(next) = Len(jobs) + 1
  BY <1>3, <1>4, <1>5
<1>7. rows' = [jobs |-> next, last |-> last]
  BY <1>3, <1>4, <1>5 DEF QueueJob
<1>q. QED
  BY <1>1, <1>2, <1>3, <1>6, <1>7 DEF Rows

LEMMA ActiveJob ==
  ASSUME PanelTypes, NEW j \in ActiveJobs
  PROVE  j \in 1..Len(rows.jobs) /\ rows.jobs[j].cancel \in BOOLEAN
<1>1. PICK jobs : jobs = rows.jobs
  OBVIOUS
<1>2. PICK Job : Job = [phase : Phases, cancel : BOOLEAN]
  OBVIOUS
<1>3. jobs \in Seq(Job) /\ j \in 1..Len(jobs)
  BY <1>1, <1>2 DEF PanelTypes, Rows, ActiveJobs
<1>4. jobs[j] \in Job
  BY <1>3
<1>q. QED
  BY <1>1, <1>2, <1>3, <1>4

LEMMA WorkStep ==
  ASSUME PanelInv, Work \/ ElsewhereStarts
  PROVE  PanelInv'
<1>1. PanelTypes
  BY DEF PanelInv
<1>2. UNCHANGED <<surface, page, forms, panel>>
  BY DEF Work, ElsewhereStarts
<1>3. CASE Work
  <2>1. PICK j \in ActiveJobs :
          \/ SetJob(j, "running", rows.jobs[j].cancel)
          \/ SetJob(j, IF rows.jobs[j].cancel THEN "cancelled" ELSE "succeeded",
                    rows.jobs[j].cancel)
    BY <1>3 DEF Work
  <2>2. PICK cancel \in BOOLEAN : cancel = rows.jobs[j].cancel
    BY <1>1, ActiveJob
  <2>3. PICK phase \in Phases : SetJob(j, phase, cancel)
    BY <2>1, <2>2 DEF Phases
  <2>q. QED
    BY <1>1, <1>2, <2>3, SetJobRows, RowsChange DEF Rows
<1>4. CASE ElsewhereStarts
  BY <1>1, <1>2, <1>4, QueueJobRows, RowsChange DEF ElsewhereStarts, PanelTypes, Rows
<1>q. QED
  BY <1>3, <1>4

LEMMA PageStep ==
  ASSUME PanelInv, LoadPage \/ ServeRefresh \/ Refresh
  PROVE  PanelInv'
<1>1. PanelTypes /\ Kept(panel) /\ page \in Pages /\ forms \in Forms /\ FormsFound(forms)
  BY DEF PanelInv, PanelTypes, Kept
<1>2. PICK view \in Views : view = PageLookup
  BY <1>1, PageLookupView
<1>3. PICK pg : pg = page'
  OBVIOUS
<1>4. PICK pn : pn = panel'
  OBVIOUS
<1>5. NoCall \in PanelCalls /\ NoCall.at = "none" /\ NoView \in Views
  BY <1>1, Blanks
<1>6. CASE LoadPage
  <2>1. PICK f : f = NoForms
    OBVIOUS
  <2>2. f \in Forms /\ FormsFound(f)
    BY <1>5, <2>1 DEF NoForms, Forms, Answers, Stages, FormsFound, Told, Found
  <2>3. pg \in Pages
    BY <1>2, <1>3, <1>5, <1>6 DEF LoadPage, Pages
  <2>4. PICK s : s = Screen(view, f)
    OBVIOUS
  <2>5. Shows(s)
    BY <1>1, <2>2, <2>4, ScreenShows
  <2>6. pn = WithView([Unmounted EXCEPT !.place = s.place], s.view)
    BY <1>2, <1>4, <1>6, <2>1, <2>4 DEF LoadPage
  <2>7. Kept(pn)
    BY <1>1, <2>5, <2>6, MountedKept
  <2>8. forms' = f /\ UNCHANGED <<surface, rows>>
    BY <1>6, <2>1 DEF LoadPage
  <2>q. QED
    BY <1>3, <1>4, <2>2, <2>3, <2>7, <2>8, Becomes
<1>7. PICK f : f = forms
  OBVIOUS
<1>8. CASE ServeRefresh
  <2>1. PICK call \in PanelCalls : call = Read(view)
    BY <1>1, ReadsAreCalls
  <2>2. pg = [page EXCEPT !.refresh = call]
    BY <1>2, <1>3, <1>8, <2>1 DEF ServeRefresh
  <2>3. pg \in Pages
    BY <1>1, <2>2 DEF Pages
  <2>4. UNCHANGED <<surface, rows, forms, panel>>
    BY <1>8 DEF ServeRefresh
  <2>5. Kept(pn)
    BY <1>1, <1>4, <2>4
  <2>q. QED
    BY <1>1, <1>3, <1>4, <1>7, <2>3, <2>4, <2>5, Becomes
<1>9. CASE Refresh
  <2>1. PICK p \in Views : p = page.refresh.view
    BY <1>1 DEF Pages, PanelCalls
  <2>2. pg \in Pages
    BY <1>3, <1>5, <1>9, <2>1 DEF Refresh, Pages
  <2>3. pn = Rendered(p, f)
    BY <1>4, <1>7, <1>9, <2>1 DEF Refresh
  <2>4. Kept(pn)
    BY <1>1, <1>7, <2>3, RenderedKept
  <2>5. UNCHANGED <<surface, rows, forms>>
    BY <1>9 DEF Refresh
  <2>q. QED
    BY <1>1, <1>3, <1>4, <1>7, <2>2, <2>4, <2>5, Becomes
<1>q. QED
  BY <1>6, <1>8, <1>9
(* A form waits for, or takes, an answer.                                  *)
LEMMA AnswerBecomes ==
  ASSUME PanelInv, UNCHANGED <<surface, rows, page, panel>>,
         NEW call \in PanelCalls, Found(call), forms' = [forms EXCEPT !.answer = call]
  PROVE  PanelInv'
<1>1. PanelTypes /\ Kept(panel) /\ page \in Pages /\ forms \in Forms /\ FormsFound(forms)
  BY DEF PanelInv, PanelTypes, Kept
<1>2. PICK f : f = [forms EXCEPT !.answer = call]
  OBVIOUS
<1>3. f \in Forms /\ f.quote = forms.quote /\ f.confirm = forms.confirm /\ f.answer = call
  BY <1>1, <1>2 DEF Forms
<1>4. FormsFound(f)
  BY <1>1, <1>3 DEF FormsFound
<1>5. PICK pg, pn : pg = page /\ pn = panel
  OBVIOUS
<1>q. QED
  BY <1>1, <1>2, <1>3, <1>4, <1>5, Becomes

LEMMA SubmitStep ==
  ASSUME PanelInv, NEW form \in {"quote", "confirm"}, Submit(form)
  PROVE  PanelInv'
<1>1. PanelTypes /\ Kept(panel) /\ page \in Pages /\ forms \in Forms /\ FormsFound(forms)
  BY DEF PanelInv, PanelTypes, Kept
<1>2. PICK call \in PanelCalls : call = Sent /\ call.at = "sent"
  BY <1>1, Blanks
<1>3. PICK f : f = [forms EXCEPT !.pending = form, !.answer = call]
  OBVIOUS
<1>4. f \in Forms /\ f.quote = forms.quote /\ f.confirm = forms.confirm /\ f.answer = call
  BY <1>1, <1>3 DEF Forms
<1>5. FormsFound(f)
  BY <1>1, <1>2, <1>4 DEF FormsFound, Found
<1>6. forms' = f /\ UNCHANGED <<surface, rows, page, panel>>
  BY <1>2, <1>3 DEF Submit
<1>7. PICK pg, pn : pg = page /\ pn = panel
  OBVIOUS
<1>q. QED
  BY <1>1, <1>4, <1>5, <1>6, <1>7, Becomes

LEMMA ServeQuoteStep ==
  ASSUME PanelInv, ServeQuote
  PROVE  PanelInv'
<1>1. PanelTypes /\ NoView \in Views
  BY Blanks DEF PanelInv
<1>2. UNCHANGED <<surface, rows, page, panel>>
  BY DEF ServeQuote
<1>3. PICK kind \in {"error", "ambiguous", "active", "quoted"}, view \in Views :
        Served(kind, view) /\ (kind = "active" => view.job # 0)
  BY <1>1, LookupFinds DEF ServeQuote
<1>4. PICK call : call = [at |-> kind, view |-> view]
  OBVIOUS
<1>5. call \in PanelCalls /\ Found(call)
  BY <1>3, <1>4 DEF PanelCalls, Stages, Found
<1>q. QED
  BY <1>2, <1>3, <1>4, <1>5, AnswerBecomes DEF Served

LEMMA StartedIsReadStep ==
  ASSUME PanelInv, StartedIsRead
  PROVE  PanelInv'
<1>1. PanelTypes /\ forms \in Forms /\ Found(forms.answer)
  BY DEF PanelInv, PanelTypes, FormsFound
<1>2. PICK j : j = forms.answer.view.job
  OBVIOUS
<1>3. j \in 1..Len(rows.jobs)
  BY <1>1, <1>2 DEF StartedIsRead, Found, Forms, PanelCalls, Views, PanelTypes, Rows
<1>4. PICK view \in Views : view = ViewOf(j) /\ view.job = j
  BY <1>1, <1>3, ViewOfJob
<1>5. PICK call : call = [at |-> "started", view |-> view]
  OBVIOUS
<1>6. call \in PanelCalls /\ Found(call)
  BY <1>3, <1>4, <1>5 DEF PanelCalls, Stages, Found
<1>q. QED
  BY <1>2, <1>4, <1>5, <1>6, AnswerBecomes DEF StartedIsRead, Served

LEMMA ServeConfirmStep ==
  ASSUME PanelInv, ServeConfirm
  PROVE  PanelInv'
<1>1. PanelTypes /\ NoView \in Views
  BY Blanks DEF PanelInv
<1>2. UNCHANGED <<surface, page, panel>>
  BY DEF ServeConfirm
<1>3. CASE \E kind \in {"refused", "expired"} : Served(kind, NoView) /\ UNCHANGED rows
  <2>1. PICK kind \in {"refused", "expired"}, view \in Views : Served(kind, view) /\ UNCHANGED rows
    BY <1>1, <1>3
  <2>2. PICK call : call = [at |-> kind, view |-> view]
    OBVIOUS
  <2>3. call \in PanelCalls /\ Found(call)
    BY <2>1, <2>2 DEF PanelCalls, Stages, Found
  <2>q. QED
    BY <1>2, <2>1, <2>2, <2>3, AnswerBecomes DEF Served
<1>4. CASE /\ QueueJob
           /\ Served("started", [job |-> Len(rows.jobs) + 1, phase |-> "queued", cancel |-> FALSE])
  <2>1. rows' \in Rows /\ Len(rows'.jobs) = Len(rows.jobs) + 1 /\ rows'.last =< Len(rows'.jobs)
    BY <1>1, <1>4, QueueJobRows
  <2>2. Len(rows.jobs) \in Nat
    BY <1>1 DEF PanelTypes, Rows
  <2>3. PICK view : view = [job |-> Len(rows.jobs) + 1, phase |-> "queued", cancel |-> FALSE]
    OBVIOUS
  <2>4. view \in Views' /\ view.job # 0
    BY <2>1, <2>2, <2>3 DEF Views, Phases
  <2>5. PICK call : call = [at |-> "started", view |-> view]
    OBVIOUS
  <2>6. call \in PanelCalls' /\ Found(call)
    BY <2>4, <2>5 DEF PanelCalls, Stages, Found
  <2>7. Panels \subseteq Panels' /\ Forms \subseteq Forms' /\ Pages \subseteq Pages'
    BY <1>1, <2>1, <2>2, SetsGrow
  <2>8. forms' = [forms EXCEPT !.answer = call]
    BY <1>4, <2>3, <2>5 DEF Served
  <2>9. PICK f \in Forms' : f = forms /\ FormsFound(f)
    BY <2>7 DEF PanelInv, PanelTypes
  <2>10. PICK next : next = [f EXCEPT !.answer = call]
    OBVIOUS
  <2>11. /\ next \in Forms' /\ next.quote = f.quote /\ next.confirm = f.confirm
         /\ next.answer = call
    BY <2>6, <2>9, <2>10 DEF Forms
  <2>12. FormsFound(next)
    BY <2>6, <2>9, <2>11 DEF FormsFound
  <2>13. forms' = next
    BY <2>8, <2>9, <2>10
  <2>14. Rows' = Rows
    BY DEF Rows
  <2>15. PanelTypes'
    BY <1>2, <2>1, <2>7, <2>11, <2>13, <2>14 DEF PanelInv, PanelTypes
  <2>16. FormsFound(forms)'
    BY <2>12, <2>13 DEF FormsFound, Told, Found
  <2>17. PanelFound(panel)' /\ Polled(panel)'
    BY <1>2 DEF PanelInv, PanelFound, Polled, Found
  <2>q. QED
    BY <2>15, <2>16, <2>17 DEF PanelInv
<1>q. QED
  BY <1>3, <1>4 DEF ServeConfirm

LEMMA AnswerFormStep ==
  ASSUME PanelInv, NEW form \in {"quote", "confirm"}, AnswerForm(form)
  PROVE  PanelInv'
<1>1. PanelTypes /\ Kept(panel) /\ page \in Pages /\ forms \in Forms /\ FormsFound(forms)
  BY DEF PanelInv, PanelTypes, Kept
<1>2. PICK none \in PanelCalls : none = NoCall /\ none.at = "none"
  BY <1>1, Blanks
<1>3. PICK answer : answer = [kind |-> forms.answer.at, view |-> forms.answer.view]
  OBVIOUS
<1>4. answer \in Answers /\ Told(answer)
  BY <1>1, <1>3 DEF Forms, PanelCalls, Answers, FormsFound, Found, Told
<1>5. PICK done : done = [forms EXCEPT !.pending = "none", !.answer = none]
  OBVIOUS
<1>6. done \in Forms /\ done.quote = forms.quote /\ done.confirm = forms.confirm
      /\ done.answer = none
  BY <1>1, <1>5 DEF Forms
<1>7. PICK f : f = IF form = "quote" THEN [done EXCEPT !.quote = answer]
                                     ELSE [done EXCEPT !.confirm = answer]
  OBVIOUS
<1>8. f \in Forms /\ FormsFound(f)
  <2>1. CASE form = "quote"
    <3>1. f = [done EXCEPT !.quote = answer]
      BY <1>7, <2>1
    <3>2. f \in Forms /\ f.quote = answer /\ f.confirm = done.confirm /\ f.answer = done.answer
      BY <1>4, <1>6, <3>1 DEF Forms
    <3>q. QED
      BY <1>1, <1>2, <1>4, <1>6, <3>2 DEF FormsFound, Found
  <2>2. CASE form # "quote"
    <3>1. f = [done EXCEPT !.confirm = answer]
      BY <1>7, <2>2
    <3>2. f \in Forms /\ f.quote = done.quote /\ f.confirm = answer /\ f.answer = done.answer
      BY <1>4, <1>6, <3>1 DEF Forms
    <3>q. QED
      BY <1>1, <1>2, <1>4, <1>6, <3>2 DEF FormsFound, Found
  <2>q. QED
    BY <2>1, <2>2
<1>9. PICK p \in Views : p = page.job
  BY <1>1 DEF Pages
<1>10. PICK pn : pn = Rendered(p, f)
  OBVIOUS
<1>11. forms' = f /\ panel' = pn /\ UNCHANGED <<surface, rows, page>>
  BY <1>2, <1>3, <1>5, <1>7, <1>9, <1>10 DEF AnswerForm
<1>12. Kept(pn)
  BY <1>8, <1>10, RenderedKept
<1>13. PICK pg : pg = page
  OBVIOUS
<1>q. QED
  BY <1>1, <1>8, <1>11, <1>12, <1>13, Becomes
-----------------------------------------------------------------------------
(* Polls.                                                                  *)

(* Only a panel that shows a job has a call under way.                     *)
LEMMA CallsAreMounted ==
  ASSUME Kept(panel), panel.cancel # NoCall \/ \E l \in Loops : panel.loops[l] # NoCall
  PROVE  panel.place # "none" /\ panel.view.job # 0
BY DEF Kept, PanelFound, Unmounted, NoLoops

(* A loop that was not cancelled goes on.                                  *)
LEMMA LoopMoves ==
  ASSUME PanelTypes, Kept(panel), NEW l \in Loops, panel.loops[l] # NoCall,
         NEW call \in PanelCalls, Found(call), panel.cancelled = FALSE => call # NoCall,
         NEW pn, pn = [panel EXCEPT !.loops[l] = call]
  PROVE  Kept(pn)
<1>1. panel \in Panels /\ panel.place # "none" /\ panel.view.job # 0
  BY CallsAreMounted DEF Kept
<1>2. PICK loops : loops = [panel.loops EXCEPT ![l] = call]
  OBVIOUS
<1>3. loops \in [Loops -> PanelCalls] /\ loops[l] = call /\ \A k \in Loops \ {l} : loops[k] = panel.loops[k]
  BY <1>1, <1>2 DEF Panels
<1>4. PICK next : next = [panel EXCEPT !.loops = loops]
  OBVIOUS
<1>5. pn = next
  BY <1>2, <1>4
<1>6. /\ next \in Panels /\ next.loops = loops /\ next.view = panel.view
      /\ next.place = panel.place /\ next.cancel = panel.cancel
      /\ next.cancelled = panel.cancelled
  BY <1>1, <1>3, <1>4 DEF Panels
<1>7. PanelFound(next)
  BY <1>1, <1>3, <1>6 DEF Kept, PanelFound
<1>8. Polled(next)
  <2>1. CASE Nonterminal(panel.view.phase)
    <3>1. PICK k \in Loops : panel.loops[k] # NoCall /\ \A m \in Loops \ {k} : panel.loops[m] = NoCall
      BY <2>1 DEF Kept, Polled
    <3>2. k = l /\ panel.cancelled = FALSE
      BY <2>1, <3>1 DEF Kept, Polled
    <3>q. QED
      BY <1>3, <1>6, <2>1, <3>1, <3>2 DEF Polled
  <2>2. CASE ~Nonterminal(panel.view.phase)
    <3>1. panel.cancelled = TRUE /\ panel.cancel = NoCall
      BY <2>2 DEF Kept, Polled
    <3>q. QED
      BY <1>6, <2>2, <3>1 DEF Polled
  <2>q. QED
    BY <2>1, <2>2
<1>q. QED
  BY <1>5, <1>6, <1>7, <1>8 DEF Kept

LEMMA ViewedKept ==
  ASSUME PanelTypes, NEW pn \in Panels, NEW view \in Views, view.job # 0, pn.place # "none",
         Found(pn.cancel), \A l \in Loops : Found(pn.loops[l]),
         IF Nonterminal(pn.view.phase)
         THEN \/ Nonterminal(view.phase) /\ Polled(pn)
              \/ ~Nonterminal(view.phase) /\ pn.cancel = NoCall
              \/ ~Nonterminal(view.phase) /\ \A l \in Loops : pn.loops[l] = NoCall
         ELSE \A l \in Loops : pn.loops[l] = NoCall
  PROVE  Kept(WithView(pn, view))
<1>1. PICK next : next = WithView(pn, view)
  OBVIOUS
<1>2. /\ next \in Panels /\ Polled(next) /\ next.view = view /\ next.place = pn.place
      /\ next.cancel = pn.cancel
      /\ \A l \in Loops : next.loops[l] \in {pn.loops[l], NoCall, Waiting}
  BY <1>1, Viewed
<1>3. Found(NoCall) /\ Found(Waiting)
  BY Blanks DEF Found
<1>4. Found(next.cancel) /\ \A l \in Loops : Found(next.loops[l])
  BY <1>2, <1>3
<1>q. QED
  BY <1>1, <1>2, <1>4 DEF Kept, PanelFound

LEMMA RefreshingPages ==
  ASSUME PanelTypes, NEW view
  PROVE  Refreshing(view) \in Pages
<1>1. PICK call \in PanelCalls : call = Sent
  BY Blanks
<1>2. [page EXCEPT !.refresh = call] \in Pages /\ page \in Pages
  BY DEF PanelTypes, Pages
<1>q. QED
  BY <1>1, <1>2 DEF Refreshing

LEMMA PollStep ==
  ASSUME PanelInv, NEW l \in Loops, Poll(l) \/ ServePoll(l)
  PROVE  PanelInv'
<1>1. PanelTypes /\ Kept(panel) /\ page \in Pages /\ forms \in Forms /\ FormsFound(forms)
  BY DEF PanelInv, PanelTypes, Kept
<1>2. /\ NoCall \in PanelCalls /\ NoCall.at = "none" /\ Sent \in PanelCalls /\ Sent.at = "sent"
      /\ Waiting.at = "timer"
  BY <1>1, Blanks
<1>3. panel.loops[l] # NoCall
  BY <1>2 DEF Poll, ServePoll
<1>4. UNCHANGED <<surface, rows, page, forms>>
  BY DEF Poll, ServePoll
<1>5. PICK call \in PanelCalls : /\ Found(call) /\ (panel.cancelled = FALSE => call # NoCall)
                            /\ panel' = [panel EXCEPT !.loops[l] = call]
  <2>1. CASE Poll(l)
    <3>1. PICK call : call = IF panel.cancelled THEN NoCall ELSE Sent
      OBVIOUS
    <3>2. panel' = [panel EXCEPT !.loops[l] = call]
      BY <2>1, <3>1 DEF Poll
    <3>q. QED
      BY <1>2, <3>1, <3>2 DEF Found
  <2>2. CASE ServePoll(l)
    <3>1. PICK j : j = panel.view.job
      OBVIOUS
    <3>2. j \in 1..Len(rows.jobs)
      BY <1>1, <1>3, <3>1, CallsAreMounted DEF PanelTypes, Panels, Views, Rows
    <3>3. PICK view \in Views : view = ViewOf(j) /\ view.job = j
      BY <1>1, <3>2, ViewOfJob
    <3>4. PICK found \in PanelCalls : found = Read(view) /\ found.at = "read" /\ found.view = view
      BY <1>1, ReadsAreCalls
    <3>5. PICK failed : failed = [NoCall EXCEPT !.at = "failed"]
      OBVIOUS
    <3>6. failed \in PanelCalls /\ failed.at = "failed" /\ failed.view.job = 0
      <4>1. failed = [at |-> "failed", view |-> NoView] /\ NoView \in Views /\ NoView.job = 0
        BY <1>1, <3>5, Blanks DEF NoCall
      <4>q. QED
        BY <4>1 DEF PanelCalls, Stages
    <3>7. \/ panel' = [panel EXCEPT !.loops[l] = found]
          \/ panel' = [panel EXCEPT !.loops[l] = failed]
      BY <2>2, <3>1, <3>3, <3>4, <3>5 DEF ServePoll
    <3>8. found # NoCall /\ failed # NoCall /\ Found(found) /\ Found(failed)
      BY <1>2, <3>2, <3>3, <3>4, <3>6 DEF Found
    <3>q. QED
      BY <3>6, <3>7, <3>8
  <2>q. QED
    BY <2>1, <2>2
<1>6. PICK pn : pn = [panel EXCEPT !.loops[l] = call]
  OBVIOUS
<1>7. Kept(pn)
  BY <1>1, <1>3, <1>5, <1>6, LoopMoves
<1>8. PICK pg, f : pg = page /\ f = forms
  OBVIOUS
<1>q. QED
  BY <1>1, <1>4, <1>5, <1>6, <1>7, <1>8, Becomes

LEMMA PollAnsweredStep ==
  ASSUME PanelInv, NEW l \in Loops, PollAnswered(l)
  PROVE  PanelInv'
<1>1. PanelTypes /\ Kept(panel) /\ page \in Pages /\ forms \in Forms /\ FormsFound(forms)
  BY DEF PanelInv, PanelTypes, Kept
<1>2. PICK call \in PanelCalls : call = panel.loops[l]
  BY <1>1 DEF PanelTypes, Panels
<1>3. /\ NoCall \in PanelCalls /\ NoCall.at = "none" /\ Waiting \in PanelCalls /\ Waiting.at = "timer"
  BY <1>1, Blanks
<1>4. call.at \in {"read", "failed"} /\ panel.loops[l] # NoCall /\ Found(call)
  BY <1>1, <1>2, <1>3 DEF PollAnswered, Kept, PanelFound
<1>5. PICK loop : loop = IF panel.cancelled \/ Ended(call.view) THEN NoCall ELSE Waiting
  OBVIOUS
<1>6. loop \in PanelCalls /\ Found(loop) /\ UNCHANGED <<surface, rows, forms>>
  BY <1>3, <1>5 DEF Found, PollAnswered
<1>7. PICK next : next = [panel EXCEPT !.loops[l] = loop]
  OBVIOUS
<1>8. PICK pg, f, pn : pg = page' /\ f = forms /\ pn = panel'
  OBVIOUS
<1>9. panel.place # "none" /\ panel.view.job # 0
  BY <1>1, <1>4, CallsAreMounted
<1>10. ASSUME pg \in Pages, Kept(pn) PROVE PanelInv'
  BY <1>1, <1>6, <1>8, <1>10, Becomes
<1>11. CASE panel.cancelled = TRUE
  <2>1. pn = next /\ pg = page
    BY <1>2, <1>5, <1>7, <1>8, <1>11 DEF PollAnswered
  <2>2. Kept(next)
    BY <1>1, <1>4, <1>6, <1>7, <1>11, LoopMoves
  <2>q. QED
    BY <1>1, <1>10, <2>1, <2>2
<1>12. CASE panel.cancelled = FALSE
  <2>1. Nonterminal(panel.view.phase)
    BY <1>1, <1>4, <1>12 DEF Kept, Polled
  <2>2. CASE ~Ended(call.view)
    <3>1. loop # NoCall
      BY <1>3, <1>5, <1>12, <2>2
    <3>2. Kept(next)
      BY <1>1, <1>4, <1>6, <1>7, <3>1, LoopMoves
    <3>3. CASE call.at = "failed"
      <4>1. pn = next /\ pg = page
        BY <1>2, <1>5, <1>7, <1>8, <3>3 DEF PollAnswered
      <4>q. QED
        BY <1>1, <1>10, <3>2, <4>1
    <3>4. CASE call.at = "read"
      <4>1. pn = WithView(next, call.view) /\ pg = Refreshing(call.view)
        BY <1>2, <1>4, <1>5, <1>7, <1>8, <1>12, <3>4 DEF PollAnswered
      <4>2. call.view.job # 0 /\ Nonterminal(call.view.phase) /\ call.view \in Views
        BY <1>4, <2>2, <3>4 DEF Found, Ended, PanelCalls
      <4>3. PICK view \in Views : view = call.view
        BY <4>2
      <4>4. /\ next \in Panels /\ next.place = panel.place /\ next.view = panel.view
            /\ Polled(next) /\ Found(next.cancel) /\ \A k \in Loops : Found(next.loops[k])
        <5>1. next.place = panel.place /\ next.view = panel.view
          BY <1>1, <1>7 DEF Kept, Panels
        <5>q. QED
          BY <3>2, <5>1 DEF Kept, PanelFound
      <4>5. Kept(WithView(next, view))
        BY <1>1, <1>9, <2>1, <4>2, <4>3, <4>4, ViewedKept
      <4>q. QED
        BY <1>1, <1>10, <4>1, <4>3, <4>5, RefreshingPages
    <3>q. QED
      BY <1>4, <3>3, <3>4
  <2>3. CASE Ended(call.view)
    <3>1. call.view.job # 0 /\ ~Nonterminal(call.view.phase)
      BY <2>3 DEF Ended
    <3>2. PICK view \in Views : view = call.view
      BY DEF PanelCalls
    <3>3. loop = NoCall
      BY <1>5, <2>3
    <3>4. PICK loops : loops = [panel.loops EXCEPT ![l] = NoCall]
      OBVIOUS
    <3>5. loops \in [Loops -> PanelCalls] /\ \A k \in Loops : loops[k] = NoCall
      <4>1. PICK k \in Loops : panel.loops[k] # NoCall /\ \A m \in Loops \ {k} : panel.loops[m] = NoCall
        BY <1>1, <2>1 DEF Kept, Polled
      <4>2. k = l
        BY <1>4, <4>1
      <4>q. QED
        BY <1>1, <1>3, <3>4, <4>1, <4>2 DEF Kept, Panels
    <3>6. PICK idle : idle = [panel EXCEPT !.loops = loops]
      OBVIOUS
    <3>7. idle = next
      BY <1>7, <3>3, <3>4, <3>6
    <3>8. /\ idle \in Panels /\ idle.place = panel.place /\ idle.view = panel.view
          /\ idle.cancel = panel.cancel /\ idle.loops = loops
      BY <1>1, <3>5, <3>6 DEF Kept, Panels
    <3>9. Found(idle.cancel) /\ \A k \in Loops : Found(idle.loops[k])
      BY <1>1, <1>3, <3>5, <3>8 DEF Kept, PanelFound, Found
    <3>10. Kept(WithView(idle, view))
      BY <1>1, <1>9, <2>1, <3>1, <3>2, <3>5, <3>8, <3>9, ViewedKept
    <3>11. CASE call.at = "read"
      <4>1. pn = WithView(idle, view) /\ pg = Refreshing(view)
        BY <1>2, <1>4, <1>5, <1>7, <1>8, <1>12, <3>2, <3>7, <3>11 DEF PollAnswered
      <4>q. QED
        BY <1>1, <1>10, <3>10, <4>1, RefreshingPages
    <3>q. QED
      BY <1>4, <3>1, <3>11 DEF Found
  <2>q. QED
    BY <2>2, <2>3
<1>q. QED
  BY <1>1, <1>11, <1>12 DEF Kept, Panels
-----------------------------------------------------------------------------
(* Cancellation.                                                           *)

LEMMA CancelMoves ==
  ASSUME PanelTypes, Kept(panel), panel.cancel # NoCall \/ Nonterminal(panel.view.phase),
         NEW call \in PanelCalls, Found(call), NEW pn, pn = [panel EXCEPT !.cancel = call]
  PROVE  Kept(pn)
<1>1. panel \in Panels /\ panel.place # "none" /\ panel.view.job # 0
  <2>1. NoView.phase = "none"
    BY Blanks
  <2>2. CASE Nonterminal(panel.view.phase)
    BY <2>1, <2>2 DEF Kept, PanelFound, Unmounted, Nonterminal
  <2>3. CASE panel.cancel # NoCall
    BY <2>3, CallsAreMounted DEF Kept
  <2>q. QED
    BY <2>2, <2>3 DEF Kept
<1>2. /\ pn \in Panels /\ pn.loops = panel.loops /\ pn.view = panel.view
      /\ pn.place = panel.place /\ pn.cancel = call /\ pn.cancelled = panel.cancelled
  BY <1>1 DEF Panels
<1>3. PanelFound(pn)
  BY <1>1, <1>2 DEF Kept, PanelFound
<1>4. Polled(pn)
  BY <1>2 DEF Kept, Polled
<1>q. QED
  BY <1>2, <1>3, <1>4 DEF Kept

LEMMA CancelStep ==
  ASSUME PanelInv, CancelConfirmed \/ ServeReread
  PROVE  PanelInv'
<1>1. PanelTypes /\ Kept(panel) /\ page \in Pages /\ forms \in Forms /\ FormsFound(forms)
  BY DEF PanelInv, PanelTypes, Kept
<1>2. /\ NoCall \in PanelCalls /\ NoCall.at = "none" /\ Sent \in PanelCalls /\ Sent.at = "sent"
  BY <1>1, Blanks
<1>3. panel.cancel # NoCall \/ Nonterminal(panel.view.phase)
  BY <1>2 DEF CancelConfirmed, ServeReread
<1>4. PICK call \in PanelCalls : Found(call) /\ panel' = [panel EXCEPT !.cancel = call]
  <2>1. CASE CancelConfirmed
    BY <1>2, <2>1 DEF CancelConfirmed, Found
  <2>2. CASE ServeReread
    <3>1. PICK j : j = panel.view.job
      OBVIOUS
    <3>2. j \in 1..Len(rows.jobs)
      <4>1. panel.cancel # NoCall
        BY <1>2, <2>2 DEF ServeReread
      <4>q. QED
        BY <1>1, <3>1, <4>1, CallsAreMounted DEF PanelTypes, Panels, Views, Rows
    <3>3. PICK view \in Views : view = ViewOf(j) /\ view.job = j
      BY <1>1, <3>2, ViewOfJob
    <3>4. PICK found \in PanelCalls : found = Read(view) /\ found.at = "read" /\ found.view = view
      BY <1>1, ReadsAreCalls
    <3>5. \/ panel' = [panel EXCEPT !.cancel = found]
          \/ panel' = [panel EXCEPT !.cancel = NoCall]
      BY <2>2, <3>1, <3>3, <3>4 DEF ServeReread
    <3>6. Found(found) /\ Found(NoCall)
      BY <1>2, <3>2, <3>3, <3>4 DEF Found
    <3>q. QED
      BY <1>2, <3>5, <3>6
  <2>q. QED
    BY <2>1, <2>2
<1>5. PICK pn, pg, f : pn = [panel EXCEPT !.cancel = call] /\ pg = page /\ f = forms
  OBVIOUS
<1>6. Kept(pn)
  BY <1>1, <1>3, <1>4, <1>5, CancelMoves
<1>7. UNCHANGED <<surface, rows, page, forms>>
  BY DEF CancelConfirmed, ServeReread
<1>q. QED
  BY <1>1, <1>4, <1>5, <1>6, <1>7, Becomes

LEMMA ServeCancelStep ==
  ASSUME PanelInv, ServeCancel
  PROVE  PanelInv'
<1>1. PanelTypes /\ Kept(panel) /\ panel \in Panels
  BY DEF PanelInv, PanelTypes, Kept
<1>2. /\ NoCall \in PanelCalls /\ NoCall.at = "none" /\ Sent \in PanelCalls /\ Sent.at = "sent"
  BY <1>1, Blanks
<1>3. panel.cancel = Sent /\ panel.cancel # NoCall /\ UNCHANGED <<surface, page, forms>>
  BY <1>2 DEF ServeCancel
<1>4. PICK reading : reading = [Sent EXCEPT !.at = "reading"]
  OBVIOUS
<1>5. reading \in PanelCalls /\ reading.at = "reading"
  BY <1>2, <1>4 DEF PanelCalls, Stages
<1>6. Found(reading) /\ Found(NoCall)
  BY <1>2, <1>5 DEF Found
<1>7. PICK pn : pn = panel'
  OBVIOUS
<1>8. Kept(pn)
  <2>1. pn = [panel EXCEPT !.cancel = reading] \/ pn = [panel EXCEPT !.cancel = NoCall]
    <3>1. CASE Cardinality(ActiveJobs) = 1
      <4>1. panel' = [panel EXCEPT !.cancel.at = "reading"]
        BY <3>1 DEF ServeCancel
      <4>2. [panel.cancel EXCEPT !.at = "reading"] = reading
        BY <1>3, <1>4
      <4>q. QED
        BY <1>7, <4>1, <4>2
    <3>2. CASE Cardinality(ActiveJobs) # 1
      BY <1>7, <3>2 DEF ServeCancel
    <3>q. QED
      BY <3>1, <3>2
  <2>2. CASE pn = [panel EXCEPT !.cancel = reading]
    BY <1>1, <1>3, <1>5, <1>6, <2>2, CancelMoves
  <2>3. CASE pn = [panel EXCEPT !.cancel = NoCall]
    BY <1>1, <1>2, <1>3, <1>6, <2>3, CancelMoves
  <2>q. QED
    BY <2>1, <2>2, <2>3
<1>9. rows' \in Rows /\ Len(rows'.jobs) = Len(rows.jobs) /\ rows'.last =< Len(rows'.jobs)
  <2>1. CASE UNCHANGED rows
    BY <1>1, <2>1 DEF PanelTypes
  <2>2. CASE \E j \in ActiveJobs :
               SetJob(j, IF rows.jobs[j].phase = "queued" THEN "cancelled" ELSE "running", TRUE)
    BY <1>1, <2>2, SetJobRows DEF Phases
  <2>q. QED
    BY <2>1, <2>2 DEF ServeCancel
<1>10. Len(rows.jobs) \in Nat
  BY <1>1 DEF PanelTypes, Rows
<1>11. Panels \subseteq Panels' /\ Forms \subseteq Forms' /\ Pages \subseteq Pages'
  BY <1>1, <1>9, <1>10, SetsGrow
<1>12. Rows' = Rows
  BY DEF Rows
<1>13. PanelTypes'
  BY <1>3, <1>7, <1>8, <1>9, <1>11, <1>12 DEF PanelInv, PanelTypes, Kept
<1>14. FormsFound(forms)'
  BY <1>3 DEF PanelInv, FormsFound, Told, Found
<1>15. PanelFound(panel)' /\ Polled(panel)'
  BY <1>7, <1>8 DEF Kept, PanelFound, Polled, Found
<1>q. QED
  BY <1>13, <1>14, <1>15 DEF PanelInv

LEMMA CancelAnsweredStep ==
  ASSUME PanelInv, CancelAnswered
  PROVE  PanelInv'
<1>1. PanelTypes /\ Kept(panel) /\ page \in Pages /\ forms \in Forms /\ FormsFound(forms)
  BY DEF PanelInv, PanelTypes, Kept
<1>2. /\ NoCall \in PanelCalls /\ NoCall.at = "none"
  BY <1>1, Blanks
<1>3. panel.cancel # NoCall /\ panel.place # "none"
  <2>1. panel.cancel # NoCall
    BY <1>2 DEF CancelAnswered
  <2>q. QED
    BY <1>1, <2>1, CallsAreMounted
<1>4. PICK view \in Views : view = panel.cancel.view /\ view.job # 0
  <2>1. panel.cancel \in PanelCalls /\ Found(panel.cancel)
    BY <1>1 DEF Kept, Panels, PanelFound
  <2>q. QED
    BY <2>1 DEF CancelAnswered, Found, PanelCalls
<1>5. PICK next : next = [panel EXCEPT !.cancel = NoCall]
  OBVIOUS
<1>6. /\ next \in Panels /\ next.loops = panel.loops /\ next.view = panel.view
      /\ next.place = panel.place /\ next.cancel = NoCall
      /\ next.cancelled = panel.cancelled
  BY <1>1, <1>2, <1>5 DEF Kept, Panels
<1>7. Found(next.cancel) /\ \A l \in Loops : Found(next.loops[l])
  BY <1>1, <1>2, <1>6 DEF Kept, PanelFound, Found
<1>8. IF Nonterminal(panel.view.phase) THEN Polled(next) ELSE \A l \in Loops : next.loops[l] = NoCall
  BY <1>1, <1>3, <1>6 DEF Kept, Polled
<1>9. Kept(WithView(next, view))
  BY <1>1, <1>3, <1>4, <1>6, <1>7, <1>8, ViewedKept
<1>10. PICK pn, pg, f : pn = panel' /\ pg = page' /\ f = forms
  OBVIOUS
<1>11. pn = WithView(next, view) /\ pg = Refreshing(view)
  BY <1>4, <1>5, <1>10 DEF CancelAnswered
<1>12. UNCHANGED <<surface, rows, forms>>
  BY DEF CancelAnswered
<1>q. QED
  BY <1>1, <1>9, <1>10, <1>11, <1>12, RefreshingPages, Becomes

-----------------------------------------------------------------------------
(* The whole panel.                                                        *)

LEMMA PanelInitially == PanelInit => PanelInv
<1>1. SUFFICES ASSUME PanelInit PROVE PanelInv
  OBVIOUS
<1>2. PICK Job : Job = [phase : Phases, cancel : BOOLEAN]
  OBVIOUS
<1>3. << >> \in Seq(Job) /\ Len(<< >>) = 0
  OBVIOUS
<1>4. rows = [jobs |-> << >>, last |-> 0]
  BY <1>1 DEF PanelInit
<1>5. rows \in Rows /\ rows.last =< Len(rows.jobs) /\ Len(rows.jobs) = 0
  BY <1>2, <1>3, <1>4 DEF Rows
<1>6. NoView \in Views /\ NoView.job = 0 /\ NoView.phase = "none"
  BY <1>5 DEF NoView, Views, Phases
<1>7. NoCall \in PanelCalls /\ NoCall.at = "none"
  BY <1>6 DEF NoCall, PanelCalls, Stages
<1>8. page \in Pages
  BY <1>1, <1>6, <1>7 DEF PanelInit, Pages
<1>9. NoForms \in Forms /\ FormsFound(NoForms)
  BY <1>6, <1>7 DEF NoForms, Forms, Answers, Stages, FormsFound, Told, Found
<1>10. Unmounted \in Panels
  BY <1>6, <1>7 DEF Unmounted, NoLoops, Panels, Places
<1>11. PanelTypes
  BY <1>1, <1>5, <1>8, <1>9, <1>10, PanelAssumption DEF PanelInit, PanelTypes
<1>12. Kept(Unmounted)
  BY <1>11, UnmountedKept
<1>q. QED
  BY <1>1, <1>9, <1>11, <1>12 DEF PanelInit, PanelInv, Kept

LEMMA PanelStep == PanelInv /\ [PanelNext]_panelVars => PanelInv'
<1>1. SUFFICES ASSUME PanelInv, [PanelNext]_panelVars PROVE PanelInv'
  OBVIOUS
<1>2. PanelTypes /\ Len(rows.jobs) \in Nat
  BY <1>1 DEF PanelInv, PanelTypes, Rows
<1>3. ASSUME UNCHANGED <<surface, rows, page, forms, panel>> PROVE PanelInv'
  BY <1>1, <1>2, <1>3, RowsChange DEF PanelTypes
<1>4. CASE UNCHANGED panelVars \/ QuoteExpires
  BY <1>3, <1>4 DEF panelVars, QuoteExpires
<1>5. CASE Work \/ ElsewhereStarts
  BY <1>1, <1>5, WorkStep
<1>6. CASE LoadPage \/ ServeRefresh \/ Refresh
  BY <1>1, <1>6, PageStep
<1>7. CASE AskQuoteForm \/ ConfirmQuoteForm
  BY <1>1, <1>7, SubmitStep DEF AskQuoteForm, ConfirmQuoteForm
<1>8. CASE ServeQuote \/ ServeConfirm \/ StartedIsRead
  BY <1>1, <1>8, ServeQuoteStep, ServeConfirmStep, StartedIsReadStep
<1>9. CASE AnswerForm("quote") \/ AnswerForm("confirm")
  BY <1>1, <1>9, AnswerFormStep
<1>10. CASE \E l \in Loops : Poll(l) \/ ServePoll(l) \/ PollAnswered(l)
  BY <1>1, <1>10, PollStep, PollAnsweredStep
<1>11. CASE CancelConfirmed \/ ServeCancel \/ ServeReread \/ CancelAnswered
  BY <1>1, <1>11, CancelStep, ServeCancelStep, CancelAnsweredStep
<1>q. QED
  BY <1>1, <1>4, <1>5, <1>6, <1>7, <1>8, <1>9, <1>10, <1>11 DEF PanelNext

(* Every view the browser holds or waits for is of a job there is, and a   *)
(* loop beside the one that polls has ended before it could go on.         *)
THEOREM PanelInvariant == PanelSpec => []PanelInv
BY PanelInitially, PanelStep, PTL DEF PanelSpec

(* The running job a panel shows is asked for, by one loop.                *)
THEOREM RunningJobsArePolled == PanelSpec => []RunningJobIsPolled
<1>1. PanelInv => RunningJobIsPolled
  BY PolledIsPolledOnce DEF PanelInv
<1>q. QED
  BY <1>1, PanelInvariant, PTL
=============================================================================
