---------------------------- MODULE LoginSessions ----------------------------
(***************************************************************************)
(* Logins, sessions, password changes and the second factor of the one     *)
(* panel account (api/session.rs, api/mod.rs, the user helpers of db.rs).  *)
(*                                                                         *)
(* A handler reads the user row once, under the database lock, and works   *)
(* on that copy through a slow argon2 verification and several further     *)
(* database calls, each with its own lock.  The session map has a lock of  *)
(* its own.  So a login that read the row before a password change may     *)
(* insert its session after the change evicted the others, and two logins  *)
(* may both read the TOTP watermark before either advances it.             *)
(*                                                                         *)
(* A password is the number of the change that set it; a TOTP code is the  *)
(* key it was computed from and its 30-second timestep.                    *)
(***************************************************************************)
EXTENDS Integers, FiniteSets

CONSTANTS
    Handlers,     \* concurrent request handlers
    Timeout,      \* general_table.session_timeout, in timesteps
    MaxNow,       \* bound: timesteps
    MaxRequests,  \* bound: requests
    MaxRestarts   \* bound: restarts of the process

ASSUME LoginConstants ==
    /\ Timeout \in Nat
    /\ MaxNow \in Nat \ {0}
    /\ MaxRequests \in Nat
    /\ MaxRestarts \in Nat

VARIABLES
    user,        \* the row of users_table: [pw, key, verified, last]
    sessions,    \* AppState.sessions, by token: [created, at, late]
    now,         \* the clock, in 30 s timesteps
    pc,          \* where each handler stands
    row,         \* the copy of the user row it works on
    req,         \* its request: [pw, code, token]
    nextKey,     \* the next TOTP secret
    nextToken,   \* the next session token
    requests,    \* requests accepted so far
    restarts,    \* restarts so far
    cred,        \* history: password changes and 2FA removals so far
    seen,        \* history: the value of cred when each login read the row
    burned       \* history: the timesteps whose watermark has been written

vars == <<user, sessions, now, pc, row, req, nextKey, nextToken, requests,
          restarts, cred, seen, burned>>

NoKey == -1      \* totp_key IS NULL: never enrolled
EmptyKey == 0    \* totp_key = '': deleted
NoCode == [key |-> NoKey, step |-> 0]
NoToken == 0

Row == [pw : Nat \ {0}, key : Int, verified : BOOLEAN, last : Nat]
Code == [key : Int, step : Int]
Request == [pw : Nat, code : Code, token : Nat]
NoRequest == [pw |-> 0, code |-> NoCode, token |-> NoToken]
FirstRow == [pw |-> 1, key |-> NoKey, verified |-> FALSE, last |-> 0]
EnrolledRow == [pw |-> 1, key |-> 1, verified |-> TRUE, last |-> 0]

Labels == {"idle", "verify", "totp", "watermark", "insert", "cp_update",
           "revoke", "ts_write", "tc_check", "tc_write", "tc_watermark", "td_write"}

-----------------------------------------------------------------------------
(* The database of a fresh installation, or one with a second factor.      *)
Init ==
    /\ user \in {FirstRow, EnrolledRow}
    /\ sessions = [t \in {} |-> NoRequest]
    /\ now = 1
    /\ pc = [h \in Handlers |-> "idle"]
    /\ row = [h \in Handlers |-> FirstRow]
    /\ req = [h \in Handlers |-> NoRequest]
    /\ nextKey = 2
    /\ nextToken = 1
    /\ requests = 0
    /\ restarts = 0
    /\ cred = 0
    /\ seen = [h \in Handlers |-> 0]
    /\ burned = {}

Goto(h, l) == pc' = [pc EXCEPT ![h] = l]

(* Any error return, and the end of a request: the copies are dropped.     *)
Return(h) ==
    /\ Goto(h, "idle")
    /\ row' = [row EXCEPT ![h] = FirstRow]
    /\ req' = [req EXCEPT ![h] = NoRequest]
    /\ seen' = [seen EXCEPT ![h] = 0]

(* A request is accepted by handler h and works on a copy of the row.      *)
Accept(h, r, l) ==
    /\ pc[h] = "idle"
    /\ requests < MaxRequests
    /\ requests' = requests + 1
    /\ req' = [req EXCEPT ![h] = r]
    /\ row' = [row EXCEPT ![h] = user]
    /\ seen' = [seen EXCEPT ![h] = cred]
    /\ Goto(h, l)
    /\ UNCHANGED <<user, sessions, now, nextKey, nextToken, restarts, cred, burned>>

Window == {now - 1, now, now + 1}

(* verify_totp_secret_step: the code's step is within one of the clock.    *)
CodeMatches(code, key) == code.key = key /\ code.step \in Window

(* The codes a caller can present for the row's secret.  A code of any     *)
(* other secret is a wrong code, refused like one presented too late.      *)
Codes == {NoCode} \cup [key : {user.key} \ {NoKey}, step : Window]

(* The password a caller presents: the account's, or (0) any other.        *)
Passwords == {0, user.pw}

(* The secret of the row is verified and login asks for a code.            *)
Enforced(u) == u.verified /\ u.key \notin {NoKey, EmptyKey}

(* Fault: the UPDATE without its WHERE totp_last_step < step.              *)
AdvanceUnguarded(u, step) == [u EXCEPT !.last = step]

(* set_totp_last_step: UPDATE ... WHERE totp_last_step < step.             *)
Advance(u, step) == IF u.last < step THEN [u EXCEPT !.last = step] ELSE u

Consume(h) ==
    /\ user' = Advance(user, req[h].code.step)
    /\ burned' = burned \cup {req[h].code.step}

-----------------------------------------------------------------------------
(* POST /api/session                                                       *)

(* The limiter has passed; the row is read.                                *)
LoginLookup(h) ==
    \E pw \in Passwords, code \in Codes :
        Accept(h, [pw |-> pw, code |-> code, token |-> NoToken], "verify")

(* argon2, then whether the second factor is asked for.                    *)
LoginVerify(h) ==
    /\ pc[h] = "verify"
    /\ req[h].pw = row[h].pw
    /\ Enforced(row[h]) => req[h].code # NoCode
    /\ Goto(h, IF Enforced(row[h]) THEN "totp" ELSE "insert")
    /\ UNCHANGED <<user, sessions, now, row, req, nextKey, nextToken, requests,
                   restarts, cred, seen, burned>>

(* The code against the clock, then get_totp_last_step.                    *)
LoginTotp(h) ==
    /\ pc[h] = "totp"
    /\ CodeMatches(req[h].code, row[h].key)
    /\ req[h].code.step > user.last
    /\ Goto(h, "watermark")
    /\ UNCHANGED <<user, sessions, now, row, req, nextKey, nextToken, requests,
                   restarts, cred, seen, burned>>

LoginWatermark(h) ==
    /\ pc[h] = "watermark"
    /\ Consume(h)
    /\ Goto(h, "insert")
    /\ UNCHANGED <<sessions, now, row, req, nextKey, nextToken, requests, restarts,
                   cred, seen>>

(* The session is inserted and the cookie set.                             *)
LoginInsert(h) ==
    /\ pc[h] = "insert"
    /\ LET s == [created |-> now, at |-> cred, late |-> seen[h] # cred]
       IN  sessions' = [t \in DOMAIN sessions \cup {nextToken} |->
                           IF t = nextToken THEN s ELSE sessions[t]]
    /\ nextToken' = nextToken + 1
    /\ Return(h)
    /\ UNCHANGED <<user, now, nextKey, requests, restarts, cred, burned>>

(* Wrong password, no code, wrong, used or rate-limited code.              *)
LoginRefused(h) ==
    /\ \/ /\ pc[h] = "verify"
          /\ req[h].pw # row[h].pw \/ (Enforced(row[h]) /\ req[h].code = NoCode)
       \/ pc[h] = "totp"
    /\ Return(h)
    /\ UNCHANGED <<user, sessions, now, nextKey, nextToken, requests, restarts,
                   cred, burned>>

-----------------------------------------------------------------------------
(* require_auth: the session is live and the row is read, under the        *)
(* sessions lock.                                                          *)

Live(t) == now - sessions[t].created <= Timeout

Authenticated(h, l, pws, codes) ==
    \E t \in DOMAIN sessions, pw \in pws, code \in codes :
        /\ Live(t)
        /\ Accept(h, [pw |-> pw, code |-> code, token |-> t], l)

AcceptPassword(h) == Authenticated(h, "cp_update", Passwords, {NoCode})
AcceptTotpSetup(h) == Authenticated(h, "ts_write", Passwords, {NoCode})
AcceptTotpCreate(h) == Authenticated(h, "tc_check", {0}, Codes)
AcceptTotpDelete(h) == Authenticated(h, "td_write", Passwords, {NoCode})

(* change_password: current password checked against the copy, then the    *)
(* new one stored.                                                         *)
ChangePassword(h) ==
    /\ pc[h] = "cp_update"
    /\ req[h].pw = row[h].pw
    /\ user' = [user EXCEPT !.pw = @ + 1]
    /\ cred' = cred + 1
    /\ Goto(h, "revoke")
    /\ UNCHANGED <<sessions, now, row, req, nextKey, nextToken, requests, restarts,
                   seen, burned>>

(* Fault: the sessions to drop and to keep are swapped.                    *)
RevokeOwnSession(h) ==
    /\ pc[h] = "revoke"
    /\ sessions' = [t \in DOMAIN sessions \ {req[h].token} |-> sessions[t]]
    /\ Return(h)
    /\ UNCHANGED <<user, now, nextKey, nextToken, requests, restarts, cred, burned>>

(* revoke_user_sessions keeps the caller's own token.                      *)
RevokeSessions(h) ==
    /\ pc[h] = "revoke"
    /\ sessions' = [t \in DOMAIN sessions \cap {req[h].token} |->
                       [sessions[t] EXCEPT !.at = cred]]
    /\ Return(h)
    /\ UNCHANGED <<user, now, nextKey, nextToken, requests, restarts, cred, burned>>

(* type=setup: a fresh secret, unverified.  An active one needs the        *)
(* current password.                                                       *)
TotpSetup(h) ==
    /\ pc[h] = "ts_write"
    /\ row[h].verified => req[h].pw = row[h].pw
    /\ user' = [user EXCEPT !.key = nextKey, !.verified = FALSE]
    /\ nextKey' = nextKey + 1
    /\ Return(h)
    /\ UNCHANGED <<sessions, now, nextToken, requests, restarts, cred, burned>>

(* type=create, the check: the code against the copy's secret; there need  *)
(* be one, and the empty string is one.                                    *)
TotpCreateCheck(h) ==
    /\ pc[h] = "tc_check"
    /\ row[h].key # NoKey
    /\ CodeMatches(req[h].code, row[h].key)
    /\ Goto(h, "tc_write")
    /\ UNCHANGED <<user, sessions, now, row, req, nextKey, nextToken, requests,
                   restarts, cred, seen, burned>>

(* It marks whatever secret the row now has.                               *)
TotpCreateWrite(h) ==
    /\ pc[h] = "tc_write"
    /\ user' = [user EXCEPT !.verified = TRUE]
    /\ Goto(h, "tc_watermark")
    /\ UNCHANGED <<sessions, now, row, req, nextKey, nextToken, requests, restarts,
                   cred, seen, burned>>

TotpCreateWatermark(h) ==
    /\ pc[h] = "tc_watermark"
    /\ Consume(h)
    /\ Return(h)
    /\ UNCHANGED <<sessions, now, nextKey, nextToken, requests, restarts, cred>>

(* type=delete: the secret is emptied, then the other sessions evicted.    *)
TotpDelete(h) ==
    /\ pc[h] = "td_write"
    /\ req[h].pw = row[h].pw
    /\ user' = [user EXCEPT !.key = EmptyKey, !.verified = FALSE]
    /\ cred' = cred + 1
    /\ Goto(h, "revoke")
    /\ UNCHANGED <<sessions, now, row, req, nextKey, nextToken, requests, restarts,
                   seen, burned>>

(* Wrong current password, no secret, wrong or rate-limited code.          *)
RequestRefused(h) ==
    /\ \/ pc[h] \in {"cp_update", "td_write"} /\ req[h].pw # row[h].pw
       \/ pc[h] = "ts_write" /\ row[h].verified /\ req[h].pw # row[h].pw
       \/ pc[h] = "tc_check"
    /\ Return(h)
    /\ UNCHANGED <<user, sessions, now, nextKey, nextToken, requests, restarts,
                   cred, burned>>

-----------------------------------------------------------------------------
(* DELETE /api/session, in one lock.                                       *)
Logout ==
    /\ \E t \in DOMAIN sessions :
          sessions' = [s \in DOMAIN sessions \ {t} |-> sessions[s]]
    /\ UNCHANGED <<user, now, pc, row, req, nextKey, nextToken, requests, restarts,
                   cred, seen, burned>>

(* prune_expired_sessions, from the cron loop.                             *)
Prune ==
    /\ \E t \in DOMAIN sessions : ~Live(t)
    /\ sessions' = [t \in {s \in DOMAIN sessions : Live(s)} |-> sessions[t]]
    /\ UNCHANGED <<user, now, pc, row, req, nextKey, nextToken, requests, restarts,
                   cred, seen, burned>>

Tick ==
    /\ now < MaxNow
    /\ now' = now + 1
    /\ UNCHANGED <<user, sessions, pc, row, req, nextKey, nextToken, requests,
                   restarts, cred, seen, burned>>

(* A restart keeps the database and loses the sessions and the requests.   *)
Restart ==
    /\ restarts < MaxRestarts
    /\ restarts' = restarts + 1
    /\ sessions' = [t \in {} |-> NoRequest]
    /\ pc' = [h \in Handlers |-> "idle"]
    /\ row' = [h \in Handlers |-> FirstRow]
    /\ req' = [h \in Handlers |-> NoRequest]
    /\ seen' = [h \in Handlers |-> 0]
    /\ UNCHANGED <<user, now, nextKey, nextToken, requests, cred, burned>>

-----------------------------------------------------------------------------
Login(h) ==
    \/ LoginLookup(h) \/ LoginVerify(h) \/ LoginTotp(h) \/ LoginWatermark(h)
    \/ LoginInsert(h) \/ LoginRefused(h)

Credentials(h) ==
    \/ AcceptPassword(h) \/ ChangePassword(h) \/ RevokeSessions(h)
    \/ AcceptTotpSetup(h) \/ TotpSetup(h)
    \/ AcceptTotpCreate(h) \/ TotpCreateCheck(h) \/ TotpCreateWrite(h)
    \/ TotpCreateWatermark(h)
    \/ AcceptTotpDelete(h) \/ TotpDelete(h)
    \/ RequestRefused(h)

Next ==
    \/ \E h \in Handlers : Login(h) \/ Credentials(h)
    \/ Logout \/ Prune \/ Tick \/ Restart

Spec == Init /\ [][Next]_vars

-----------------------------------------------------------------------------
Session == [created : Nat, at : Nat, late : BOOLEAN]

(* Type invariant: the user row, the session map, the handlers' copies.    *)
TypeOK ==
    /\ user \in Row
    /\ DOMAIN sessions \subseteq 1..(nextToken - 1)
    /\ sessions \in [DOMAIN sessions -> Session]
    /\ now \in Nat \ {0}
    /\ pc \in [Handlers -> Labels]
    /\ row \in [Handlers -> Row]
    /\ req \in [Handlers -> Request]
    /\ nextKey \in Nat \ {0} /\ nextToken \in Nat \ {0}
    /\ requests \in Nat /\ restarts \in Nat /\ cred \in Nat
    /\ seen \in [Handlers -> Nat]
    /\ burned \subseteq Int

(* Once a password change or a 2FA removal has evicted the sessions, the   *)
(* only session left from before it is the caller's own: a session older   *)
(* than the last change exists only while an eviction is still to come     *)
(* (change_password, toggle_totp, revoke_user_sessions).                   *)
RevocationIsComplete ==
    (\E t \in DOMAIN sessions : sessions[t].at # cred)
        => \E h \in Handlers : pc[h] = "revoke"

(* A login gets past the check of its code only if no request has written  *)
(* that timestep into the watermark, whatever the order in which requests  *)
(* wrote it: "a concurrent request that matched an earlier step can't      *)
(* lower the watermark" (db.rs, set_totp_last_step).                       *)
ConsumedCodeIsRefused ==
    [][\A h \in Handlers :
          pc[h] = "totp" /\ pc'[h] = "watermark" => req[h].code.step \notin burned]_vars

-----------------------------------------------------------------------------
(* What the repository says of these handlers, and the code does not keep. *)

(* api/session.rs:515, "Evict every other session for this user": once the *)
(* evictions are over, no session is left of a login that was checked      *)
(* against the credentials they replaced.                                  *)
OldLoginsAreEvicted ==
    (\A h \in Handlers : pc[h] # "revoke")
        => \A t \in DOMAIN sessions : ~sessions[t].late
=============================================================================
