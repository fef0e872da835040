----------------------------- MODULE AuthTokens -----------------------------
(***************************************************************************)
(* One account: registration, the tokens mailed for it, verification,      *)
(* login, password reset, and the sessions these open and end.             *)
(*                                                                         *)
(* Every port call of the auth service is a statement or a transaction of  *)
(* its own, so a request is a chain of steps with other requests between   *)
(* them, and a server that dies leaves what its steps committed.  Passing  *)
(* time is an action for each thing that runs out.  The limits per address *)
(* of the network are shared with other accounts: here they only refuse,   *)
(* which is a request that never begins.                                   *)
(***************************************************************************)
EXTENDS Integers, Sequences, FiniteSets

CONSTANTS Callers,      \* requests being served at a time
          Tokens,       \* token hashes that can be generated
          Sessions,     \* session tokens that can be generated
          Passwords,
          MaxActive,    \* emailTokenMaxActive
          MaxPerHour,   \* emailTokenMaxPerHourIdentifier
          MaxFails      \* loginMaxFailsPerHourIdentifier

Purposes == {"verify_email", "reset_password"}

ASSUME AuthAssumption ==
  /\ MaxActive \in Nat \ {0} /\ MaxPerHour \in Nat /\ MaxFails \in Nat

\* A hash is none of the words that stand for its absence or for a password.
ASSUME TokensAssumption == Tokens \cap {"none", "password"} = {}

VARIABLES account,   \* status and password of the user row
          token,     \* purpose and status of every token
          issuedTokens,    \* the tokens in the order of created_at
          mailed,    \* the tokens that were sent
          session,   \* status and origin of every session
          limits,    \* cooldowns, hourly counters and the login lock
          resets,    \* the committed resets: <<token, password>>
          asking     \* the request each caller is in

authVars == <<account, token, issuedTokens, mailed, session, limits, resets, asking>>

Unasked == [op |-> "none", at |-> "none"]
Asking(c, at) == asking[c].at = at
To(c, step) == asking' = [asking EXCEPT ![c] = [@ EXCEPT !.at = step]]
Over(c) == asking' = [asking EXCEPT ![c] = Unasked]

Live(t) == token[t].status = "live"
LiveFor(purpose) == {t \in Tokens : Live(t) /\ token[t].purpose = purpose}

NoLimits == [cooling |-> {}, sent |-> [p \in Purposes |-> 0],
             fails |-> 0, locked |-> FALSE]

AuthInit ==
  /\ account = [status |-> "absent", password |-> "none"]
  /\ token = [t \in Tokens |-> [purpose |-> "none", status |-> "none"]]
  /\ issuedTokens = <<>> /\ mailed = {}
  /\ session = [s \in Sessions |-> [status |-> "none", via |-> "none", after |-> 0]]
  /\ limits = NoLimits
  /\ resets = <<>>
  /\ asking = [c \in Callers |-> Unasked]

-----------------------------------------------------------------------------
(* registerAccount, requestEmailVerification, requestPasswordReset.        *)

Sends(c, purpose) ==
  asking' = [asking EXCEPT ![c] = [op |-> purpose, at |-> "cooldown", seen |-> {}]]

Register(c, password) ==
  /\ asking[c] = Unasked
  /\ \/ /\ account.status = "absent"
        /\ asking' = [asking EXCEPT ![c] =
             [op |-> "register", at |-> "create", password |-> password]]
     \/ account.status = "pending" /\ Sends(c, "verify_email")
  /\ UNCHANGED <<account, token, issuedTokens, mailed, session, limits, resets>>

(* The address is unique: the loser of a race only sends a notice.         *)
RegisterCreate(c) ==
  /\ Asking(c, "create")
  /\ \/ /\ account.status = "absent"
        /\ account' = [status |-> "pending", password |-> asking[c].password]
        /\ Sends(c, "verify_email")
     \/ account.status # "absent" /\ Over(c) /\ UNCHANGED account
  /\ UNCHANGED <<token, issuedTokens, mailed, session, limits, resets>>

AskVerification(c) ==
  /\ asking[c] = Unasked /\ account.status = "pending"
  /\ Sends(c, "verify_email")
  /\ UNCHANGED <<account, token, issuedTokens, mailed, session, limits, resets>>

AskReset(c) ==
  /\ asking[c] = Unasked /\ account.status = "active"
  /\ Sends(c, "reset_password")
  /\ UNCHANGED <<account, token, issuedTokens, mailed, session, limits, resets>>

-----------------------------------------------------------------------------
(* issueAndSend.                                                           *)

IssueCooldown(c) ==
  /\ Asking(c, "cooldown")
  /\ IF asking[c].op \in limits.cooling THEN Over(c) ELSE To(c, "count")
  /\ UNCHANGED <<account, token, issuedTokens, mailed, session, limits, resets>>

IssueCount(c) ==
  /\ Asking(c, "count")
  /\ limits.sent[asking[c].op] =< MaxPerHour
  /\ limits' = [limits EXCEPT !.sent[asking[c].op] = @ + 1]
  /\ IF limits.sent[asking[c].op] + 1 > MaxPerHour THEN Over(c) ELSE To(c, "select")
  /\ UNCHANGED <<account, token, issuedTokens, mailed, session, resets>>

(* tokens.issue: the SELECT sees the tokens committed when it begins; a    *)
(* row another issue is still revoking is waited for and judged again.     *)
IssueSelect(c) ==
  /\ Asking(c, "select")
  /\ asking' = [asking EXCEPT ![c] =
                  [@ EXCEPT !.at = "insert", !.seen = LiveFor(asking[c].op)]]
  /\ UNCHANGED <<account, token, issuedTokens, mailed, session, limits, resets>>

Surplus(live) == Cardinality(live) - (MaxActive - 1)
Age(t) == CHOOSE i \in DOMAIN issuedTokens : issuedTokens[i] = t
Oldest(live, n) ==
  {t \in live : Cardinality({u \in live : Age(u) < Age(t)}) < n}

IssueInsert(c, t) ==
  /\ Asking(c, "insert") /\ token[t].status = "none"
  /\ LET live == asking[c].seen \cap LiveFor(asking[c].op)
         out == Oldest(live, Surplus(live)) IN
     token' = [u \in Tokens |->
       IF u = t THEN [purpose |-> asking[c].op, status |-> "live"]
       ELSE IF u \in out THEN [token[u] EXCEPT !.status = "revoked"]
       ELSE token[u]]
  /\ issuedTokens' = Append(issuedTokens, t)
  /\ asking' = [asking EXCEPT ![c] = [op |-> asking[c].op, at |-> "send", token |-> t]]
  /\ UNCHANGED <<account, mailed, session, limits, resets>>

IssueSend(c) ==
  /\ Asking(c, "send")
  /\ limits' = [limits EXCEPT !.cooling = @ \cup {asking[c].op}]
  /\ mailed' = mailed \cup {asking[c].token}
  /\ Over(c)
  /\ UNCHANGED <<account, token, issuedTokens, session, resets>>

-----------------------------------------------------------------------------
(* verifyEmail, resetPassword: a token is consumed by an UPDATE that asks  *)
(* for a live one, in the transaction of what it allows.                   *)

\* Mutant: the UPDATE does not ask whether the token was consumed.
ConsumableAgain(t) == token[t].status \in {"live", "consumed"}
Consumable(t) == Live(t)

Consumed(t) ==
  token' = [u \in Tokens |->
    IF u = t THEN [token[u] EXCEPT !.status = "consumed"]
    ELSE IF u \in LiveFor(token[t].purpose)
         THEN [token[u] EXCEPT !.status = "revoked"]
         ELSE token[u]]

Opens(c, via) ==
  asking' = [asking EXCEPT ![c] = [op |-> "open", at |-> "session", via |-> via]]

Verify(c, t) ==
  /\ asking[c] = Unasked
  /\ t \in mailed /\ token[t].purpose = "verify_email" /\ Consumable(t)
  /\ Consumed(t)
  /\ account' = [account EXCEPT !.status = IF @ = "pending" THEN "active" ELSE @]
  /\ Opens(c, t)
  /\ UNCHANGED <<issuedTokens, mailed, session, limits, resets>>

(* The token is looked up to judge the new password for its account.       *)
ResetFind(c, t, password) ==
  /\ asking[c] = Unasked
  /\ t \in mailed /\ token[t].purpose = "reset_password" /\ Live(t)
  /\ asking' = [asking EXCEPT ![c] =
       [op |-> "reset", at |-> "consume", token |-> t, password |-> password]]
  /\ UNCHANGED <<account, token, issuedTokens, mailed, session, limits, resets>>

\* Mutant: the reset leaves the sessions.
NoneRevoked == UNCHANGED session
AllRevoked ==
  session' = [s \in Sessions |->
    IF session[s].status = "live" THEN [session[s] EXCEPT !.status = "revoked"]
    ELSE session[s]]

ResetConsume(c) ==
  /\ Asking(c, "consume")
  /\ LET r == asking[c] IN
     \/ /\ Consumable(r.token)
        /\ Consumed(r.token)
        /\ account' = [account EXCEPT !.password = r.password]
        /\ AllRevoked
        /\ resets' = Append(resets, <<r.token, r.password>>)
     \/ /\ ~Consumable(r.token)
        /\ UNCHANGED <<account, token, session, resets>>
  /\ Over(c)
  /\ UNCHANGED <<issuedTokens, mailed, limits>>

-----------------------------------------------------------------------------
(* login.                                                                  *)

MayEnter(password) == account.password = password /\ account.status = "active"

LoginRead(c, password) ==
  /\ asking[c] = Unasked /\ ~limits.locked
  /\ \/ /\ account.status = "absent" \/ account.password # password
        /\ asking' = [asking EXCEPT ![c] = [op |-> "login", at |-> "fail"]]
     \/ /\ MayEnter(password)
        /\ asking' = [asking EXCEPT ![c] = [op |-> "login", at |-> "clear"]]
  /\ UNCHANGED <<account, token, issuedTokens, mailed, session, limits, resets>>

LoginFail(c) ==
  /\ Asking(c, "fail") /\ limits.fails =< MaxFails
  /\ limits' = [limits EXCEPT !.fails = @ + 1]
  /\ IF limits.fails + 1 >= MaxFails THEN To(c, "lock") ELSE Over(c)
  /\ UNCHANGED <<account, token, issuedTokens, mailed, session, resets>>

LoginLock(c) ==
  /\ Asking(c, "lock")
  /\ limits' = [limits EXCEPT !.locked = TRUE]
  /\ Over(c)
  /\ UNCHANGED <<account, token, issuedTokens, mailed, session, resets>>

(* clearMarkers deletes markers: the lock goes, the window of failures is  *)
(* no marker and stays.                                                    *)
LoginClear(c) ==
  /\ Asking(c, "clear")
  /\ limits' = [limits EXCEPT !.locked = FALSE]
  /\ Opens(c, "password")
  /\ UNCHANGED <<account, token, issuedTokens, mailed, session, resets>>

CreateSession(c, s) ==
  /\ Asking(c, "session") /\ session[s].status = "none"
  /\ session' = [session EXCEPT ![s] =
       [status |-> "live", via |-> asking[c].via, after |-> Len(resets)]]
  /\ Over(c)
  /\ UNCHANGED <<account, token, issuedTokens, mailed, limits, resets>>

-----------------------------------------------------------------------------
(* Logging out, a server that dies, and passing time.                      *)

Logout(s) ==
  /\ session[s].status = "live"
  /\ session' = [session EXCEPT ![s] = [@ EXCEPT !.status = "revoked"]]
  /\ UNCHANGED <<account, token, issuedTokens, mailed, limits, resets, asking>>

Dies(c) ==
  /\ asking[c] # Unasked
  /\ Over(c)
  /\ UNCHANGED <<account, token, issuedTokens, mailed, session, limits, resets>>

TokenExpires(t) ==
  /\ Live(t)
  /\ token' = [token EXCEPT ![t] = [@ EXCEPT !.status = "expired"]]
  /\ UNCHANGED <<account, issuedTokens, mailed, session, limits, resets, asking>>

CooldownEnds ==
  /\ limits.cooling # {}
  /\ limits' = [limits EXCEPT !.cooling = {}]
  /\ UNCHANGED <<account, token, issuedTokens, mailed, session, resets, asking>>

(* The hourly windows end, and by then the shorter cooldowns and locks.    *)
HourEnds ==
  /\ limits' = NoLimits
  /\ UNCHANGED <<account, token, issuedTokens, mailed, session, resets, asking>>

IssueNext(c) ==
  \/ IssueCooldown(c) \/ IssueCount(c) \/ IssueSelect(c)
  \/ \E t \in Tokens : IssueInsert(c, t)
  \/ IssueSend(c)

SignUpNext(c) ==
  \/ \E password \in Passwords : Register(c, password)
  \/ RegisterCreate(c) \/ AskVerification(c)
  \/ \E t \in Tokens : Verify(c, t)

SignInNext(c) ==
  \/ \E password \in Passwords : LoginRead(c, password)
  \/ LoginFail(c) \/ LoginLock(c) \/ LoginClear(c)
  \/ AskReset(c)
  \/ \E t \in Tokens, password \in Passwords : ResetFind(c, t, password)
  \/ ResetConsume(c)

SessionNext(c) == \E s \in Sessions : CreateSession(c, s)

TimeNext ==
  \/ \E t \in Tokens : TokenExpires(t)
  \/ CooldownEnds \/ HourEnds

AuthNext ==
  \/ \E c \in Callers :
       SignUpNext(c) \/ SignInNext(c) \/ IssueNext(c) \/ SessionNext(c) \/ Dies(c)
  \/ \E s \in Sessions : Logout(s)
  \/ TimeNext

AuthSpec == AuthInit /\ [][AuthNext]_authVars

-----------------------------------------------------------------------------
(* A token works once: every committed reset spent a token of its own, the *)
(* password is the one the last reset chose, and a verification link opens *)
(* at most one session, however many requests carry the same token.        *)
TokenSpentOnce ==
  /\ \A i, j \in DOMAIN resets : resets[i][1] = resets[j][1] => i = j
  /\ resets # <<>> => account.password = resets[Len(resets)][2]
  /\ \A s, u \in Sessions :
       session[s].via = session[u].via /\ session[s].via \in Tokens => s = u

(* The sessions that exist at a reset end with it, so a live one was made  *)
(* after the last reset (transactions.ts), and nobody has a session before *)
(* a verification token was consumed.  When a session is made is all that  *)
(* counts here: a login that compared the old password before a reset and  *)
(* goes on after it has a session that satisfies this.                     *)
SessionsRestOnProof ==
  \A s \in Sessions :
    /\ session[s].status = "live" => session[s].after = Len(resets)
    /\ session[s].status # "none" =>
         \E t \in Tokens : token[t] = [purpose |-> "verify_email", status |-> "consumed"]

=============================================================================
