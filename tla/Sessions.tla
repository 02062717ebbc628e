------------------------------ MODULE Sessions ------------------------------
(***************************************************************************)
(* The password, the refresh sessions and the reset tokens of one account  *)
(* (core/auth/service/service.go and admin.go over user_repository.go,     *)
(* reset_token_repository.go and ratelimit/lockout.go).                    *)
(*                                                                         *)
(* Every request is a sequence of separate statements: no transaction but  *)
(* the one that replaces a pending reset token.  A step is one statement   *)
(* or one Redis command; between two of them any other request may act,    *)
(* and a request may fail (error, deadline, crash) at any of them.         *)
(*                                                                         *)
(* A password is its generation; a caller presents one that was ever set,  *)
(* or WrongPassword.  Two-factor sign-in is TwoFactor; lifetimes are       *)
(* "expired or not"; mails, events and login_count are left out.           *)
(***************************************************************************)
EXTENDS Naturals, FiniteSets

CONSTANTS SessionIDs,     \* refresh sessions that may be created
          ResetIDs,       \* reset tokens that may be created
          AuthReqs,       \* concurrent requests
          NoID,           \* no session, no token
          MaxFailures,    \* NewLoginLockout: failures that lock the account
          MaxPasswords,   \* bound: passwords set
          MaxAuthOps      \* bound: requests begun

ASSUME SessionsAssumption ==
  /\ IsFiniteSet(AuthReqs)
  /\ NoID \notin SessionIDs \cup ResetIDs
  /\ MaxFailures \in Nat \ {0}
  /\ {MaxPasswords, MaxAuthOps} \subseteq Nat

VARIABLES session,    \* refresh_sessions
          reset,      \* password_reset_tokens with purpose password_reset
          password,   \* users.password_hash: the generation in force
          issued,     \* passwords set so far
          active,     \* users.status = active and not deleted
          fails,      \* login:fail counter (Redis)
          locked,     \* login:lock key (Redis)
          redisUp,    \* Redis answers
          authReq,    \* the open requests
          authOps,    \* requests begun
          ended,      \* history: latest generation whose reset completed
          forked,     \* history: families with a failed or overlapped rotation
          guesses     \* history: wrong passwords tried in this lockout window

sessionsVars == <<session, reset, password, issued, active, fails, locked, redisUp,
                  authReq, authOps, ended, forked, guesses>>

WrongPassword == MaxPasswords + 1
ErasedPassword == MaxPasswords + 2

(* family is the first session of the chain; pw and late are history: the  *)
(* password the sign-in proved, and whether the request that created it    *)
(* (or its ancestor) was under way when a reset completed.                 *)
SessionRow ==
  [state : {"none", "live", "revoked", "pruned"}, expired : BOOLEAN,
   family : SessionIDs, pw : 0..MaxPasswords, late : BOOLEAN]

AuthOp == {"login", "refresh", "logout", "forgot", "admin_reset", "reset", "change"}

AuthRequest ==
  [op : AuthOp, pc : {"check", "find", "failed", "lock", "passed", "issue", "token", "user",
                      "create", "replace", "family", "revoke", "forget", "commit", "password",
                      "spend", "all"},
   cred : 0..(MaxPasswords + 1), sid : SessionIDs \cup {NoID}, new : SessionIDs \cup {NoID}, tok : ResetIDs \cup {NoID},
   spent : SUBSET ResetIDs, gen : 0..MaxPasswords, all : BOOLEAN, old : BOOLEAN]

AuthIdle == [pc |-> "idle"]

SessionsTypeOK ==
  /\ session \in [SessionIDs -> SessionRow]
  /\ reset \in [ResetIDs -> {"none", "pending", "used", "expired", "pruned"}]
  /\ password \in (0..MaxPasswords) \cup {ErasedPassword}
  /\ {issued, ended} \subseteq 0..MaxPasswords
  /\ {active, locked, redisUp} \subseteq BOOLEAN
  /\ {fails, guesses} \subseteq Nat
  /\ authReq \in [AuthReqs -> AuthRequest \cup {AuthIdle}]
  /\ authOps \in 0..MaxAuthOps
  /\ forked \subseteq SessionIDs

SessionsInit ==
  /\ \E s0 \in SessionIDs :
       session = [s \in SessionIDs |-> [state |-> IF s = s0 THEN "live" ELSE "none",
                                        expired |-> FALSE, family |-> s, pw |-> 0, late |-> FALSE]]
  /\ reset = [k \in ResetIDs |-> "none"]
  /\ password = 0 /\ issued = 0 /\ ended = 0
  /\ active = TRUE /\ locked = FALSE /\ redisUp = TRUE
  /\ fails \in 0..(MaxFailures - 1) /\ guesses = fails
  /\ authReq = [r \in AuthReqs |-> AuthIdle]
  /\ authOps = 0
  /\ forked = {}

-----------------------------------------------------------------------------
At(r, pc) == authReq[r].pc = pc
Is(r, op) == ~At(r, "idle") /\ authReq[r].op = op
Goto(r, pc) == authReq' = [authReq EXCEPT ![r].pc = pc]
Done(r) == authReq' = [authReq EXCEPT ![r] = AuthIdle]

LiveIn(f) == {s \in SessionIDs : session[s].state = "live" /\ session[s].family = f}
Pending == {k \in ResetIDs : reset[k] = "pending"}
PendingOrExpired == {k \in ResetIDs : reset[k] \in {"pending", "expired"}}

lockout == <<fails, locked, redisUp, guesses>>
credentials == <<password, issued, active>>

(* What the caller presents: a password, a refresh token or a reset link   *)
(* that was issued at some time, and whether to revoke the sessions.       *)
Creds(op) == IF op \in {"login", "change"} THEN (0..issued) \cup {WrongPassword} ELSE {0}
Tokens(op) == IF op \in {"refresh", "logout"} THEN {s \in SessionIDs : session[s].state # "none"} ELSE {NoID}
Links(op) == IF op = "reset" THEN {k \in ResetIDs : reset[k] # "none"} ELSE {NoID}
Revokes(op) == IF op \in {"change", "admin_reset"} THEN BOOLEAN ELSE {op = "reset"}

BeginAuth(r) ==
  /\ At(r, "idle") /\ authOps < MaxAuthOps
  /\ \E op \in AuthOp : \E cred \in Creds(op), s \in Tokens(op), k \in Links(op), all \in Revokes(op) :
       authReq' = [authReq EXCEPT ![r] =
         [op |-> op, cred |-> cred, sid |-> s, new |-> NoID, tok |-> k, spent |-> {}, gen |-> 0,
          all |-> all, old |-> FALSE,
          pc |-> CASE op = "login" -> "check" [] op \in {"refresh", "logout", "reset"} -> "token"
                   [] op \in {"forgot", "admin_reset"} -> "user" [] op = "change" -> "find"]]
  /\ authOps' = authOps + 1
  /\ UNCHANGED <<session, reset, credentials, lockout, ended, forked>>

(* An error, a deadline or a crash at any statement: what was written      *)
(* stays written (only the forgot transaction rolls back).                 *)
RequestFails(r) ==
  /\ ~At(r, "idle")
  /\ forked' = forked \cup (IF At(r, "replace") THEN {session[authReq[r].sid].family} ELSE {})
  /\ guesses' = IF At(r, "lock") /\ guesses > 0 THEN guesses - 1 ELSE guesses
  /\ Done(r)
  /\ UNCHANGED <<session, reset, credentials, fails, locked, redisUp, authOps, ended>>

-----------------------------------------------------------------------------
(* Login and AdminLogin.                                                   *)

Unlocked == ~locked \/ ~redisUp

(* checkLocked: PTTL of the lock key; an error fails open.                 *)
CheckLocked(r) ==
  /\ At(r, "check")
  /\ IF Unlocked THEN Goto(r, "find") ELSE Done(r)
  /\ UNCHANGED <<session, reset, credentials, lockout, authOps, ended, forked>>

(* FindByEmail and Compare; the status is looked at after the password.    *)
Authenticate(r) ==
  /\ At(r, "find") /\ Is(r, "login")
  /\ \/ authReq[r].cred # password /\ Goto(r, "failed")
     \/ authReq[r].cred = password /\ active
        /\ authReq' = [authReq EXCEPT ![r].pc = "passed", ![r].gen = password]
     \/ authReq[r].cred = password /\ ~active /\ Done(r)
  /\ UNCHANGED <<session, reset, credentials, lockout, authOps, ended, forked>>

(* loginFailed: INCR and EXPIRE NX; the failure that reaches the limit     *)
(* goes on to set the lock.  Without Redis nothing is counted.             *)
LoginFailed(r) ==
  /\ At(r, "failed")
  /\ IF redisUp
     THEN /\ fails' = fails + 1 /\ guesses' = guesses + 1
          /\ IF fails + 1 >= MaxFailures THEN Goto(r, "lock") ELSE Done(r)
     ELSE Done(r) /\ UNCHANGED <<fails, guesses>>
  /\ UNCHANGED <<session, reset, credentials, locked, redisUp, authOps, ended, forked>>

(* SET lock, DEL fail.                                                     *)
LockAccount(r) ==
  /\ At(r, "lock")
  /\ IF redisUp THEN locked' = TRUE /\ fails' = 0 ELSE UNCHANGED <<locked, fails>>
  /\ Done(r)
  /\ UNCHANGED <<session, reset, credentials, redisUp, guesses, authOps, ended, forked>>

(* attempts.Reset: DEL of the counter, its error ignored; the lock, if     *)
(* another request set it meanwhile, stays.                                *)
ResetAttempts(r) ==
  /\ At(r, "passed")
  /\ IF redisUp THEN fails' = 0 /\ guesses' = 0 ELSE UNCHANGED <<fails, guesses>>
  /\ Goto(r, "issue")
  /\ UNCHANGED <<session, reset, credentials, locked, redisUp, authOps, ended, forked>>

NewSession(s, family, pw, late) ==
  session' = [session EXCEPT ![s] = [state |-> "live", expired |-> FALSE,
                                     family |-> family, pw |-> pw, late |-> late]]

(* issuePair: a session that begins a family of its own.                   *)
IssuePair(r) ==
  /\ At(r, "issue")
  /\ \E s \in SessionIDs :
       session[s].state = "none" /\ NewSession(s, s, authReq[r].gen, authReq[r].old)
  /\ Done(r)
  /\ UNCHANGED <<reset, credentials, lockout, authOps, ended, forked>>

-----------------------------------------------------------------------------
(* Refresh and Logout.                                                     *)

(* FindByTokenHash: an unknown token ends the request, a revoked one is    *)
(* reuse, an expired one is refused.                                       *)
FindToken(r) ==
  LET row == session[authReq[r].sid]
  IN  /\ At(r, "token") /\ (Is(r, "refresh") \/ Is(r, "logout"))
      /\ CASE row.state = "pruned" -> Done(r)
           [] row.state # "pruned" /\ Is(r, "logout") -> Goto(r, "revoke")
           [] row.state = "revoked" /\ Is(r, "refresh") -> Goto(r, "family")
           [] row.state = "live" /\ Is(r, "refresh") ->
                IF row.expired THEN Done(r) ELSE Goto(r, "user")
      /\ UNCHANGED <<session, reset, credentials, lockout, authOps, ended, forked>>

RevokeAll(S) == session' = [s \in SessionIDs |-> IF s \in S THEN [session[s] EXCEPT !.state = "revoked"]
                                                 ELSE session[s]]

(* Reuse: every live session of the family is revoked.                     *)
RevokeFamily(r) ==
  /\ At(r, "family")
  /\ RevokeAll(LiveIn(session[authReq[r].sid].family))
  /\ Done(r)
  /\ UNCHANGED <<reset, credentials, lockout, authOps, ended, forked>>

(* activeUser.                                                             *)
ActiveUser(r) ==
  /\ At(r, "user")
  /\ IF active THEN Goto(r, IF Is(r, "refresh") THEN "create" ELSE "forget") ELSE Done(r)
  /\ UNCHANGED <<session, reset, credentials, lockout, authOps, ended, forked>>

Rotating(s) == \E q \in AuthReqs : At(q, "replace") /\ authReq[q].sid = s

(* sessions.Create: the successor in the family of the session as read.    *)
CreateSuccessor(r) ==
  LET parent == session[authReq[r].sid]
  IN  /\ At(r, "create")
      /\ \E s \in SessionIDs :
           /\ session[s].state = "none"
           /\ NewSession(s, parent.family, parent.pw, parent.late \/ authReq[r].old)
           /\ authReq' = [authReq EXCEPT ![r].pc = "replace", ![r].new = s]
      /\ forked' = forked \cup (IF parent.state = "live" /\ ~Rotating(authReq[r].sid) THEN {} ELSE {parent.family})
      /\ UNCHANGED <<reset, credentials, lockout, authOps, ended>>

ReplacedNone(r) == {}                        \* mutant: the old token stays
Replaced(r) == {authReq[r].sid} \ {s \in SessionIDs : session[s].state = "pruned"}

(* sessions.Replace: UPDATE ... WHERE uuid = old, whatever its state.      *)
ReplaceSession(r) ==
  /\ At(r, "replace")
  /\ RevokeAll(Replaced(r))
  /\ Done(r)
  /\ UNCHANGED <<reset, credentials, lockout, authOps, ended, forked>>

(* Logout: sessions.Revoke.                                                *)
RevokeSession(r) ==
  /\ At(r, "revoke")
  /\ RevokeAll(Replaced(r))
  /\ Done(r)
  /\ UNCHANGED <<reset, credentials, lockout, authOps, ended, forked>>

-----------------------------------------------------------------------------
(* Reset tokens: ForgotPassword and AdminResetPassword replace the pending *)
(* one in a transaction, ResetPassword spends them all.                    *)

(* Pending rows an open transaction has updated: others wait.              *)
HeldTokens(r) == UNION {authReq[q].spent : q \in {q \in AuthReqs \ {r} : ~At(q, "idle")}}

(* RevokePending inside the transaction.                                   *)
ForgetPending(r) ==
  /\ At(r, "forget")
  /\ PendingOrExpired \cap HeldTokens(r) = {}
  /\ authReq' = [authReq EXCEPT ![r].pc = "commit", ![r].spent = PendingOrExpired]
  /\ UNCHANGED <<session, reset, credentials, lockout, authOps, ended, forked>>

(* resets.Create, the event and the commit; an admin may go on to revoke   *)
(* every session.                                                          *)
CommitReset(r) ==
  /\ At(r, "commit")
  /\ \E k \in ResetIDs :
       /\ reset[k] = "none"
       /\ reset' = [i \in ResetIDs |-> CASE i = k -> "pending" [] i \in authReq[r].spent -> "used"
                                         [] OTHER -> reset[i]]
  /\ authReq' = [authReq EXCEPT ![r] = IF authReq[r].all THEN [@ EXCEPT !.pc = "all", !.spent = {}]
                                                         ELSE AuthIdle]
  /\ UNCHANGED <<session, credentials, lockout, authOps, ended, forked>>

(* ResetPassword reads the token: it must be unused and unexpired.         *)
FindResetToken(r) ==
  /\ At(r, "token") /\ Is(r, "reset")
  /\ IF reset[authReq[r].tok] = "pending" THEN Goto(r, "password") ELSE Done(r)
  /\ UNCHANGED <<session, reset, credentials, lockout, authOps, ended, forked>>

(* ChangePassword reads the user (active or not) and compares.             *)
CheckCurrent(r) ==
  /\ At(r, "find") /\ Is(r, "change")
  /\ IF authReq[r].cred = password THEN Goto(r, "password") ELSE Done(r)
  /\ UNCHANGED <<session, reset, credentials, lockout, authOps, ended, forked>>

AfterPassword(r) == IF Is(r, "reset") THEN "spend" ELSE "all"

UpdatePassword(r) ==
  /\ At(r, "password") /\ issued < MaxPasswords
  /\ issued' = issued + 1 /\ password' = issued + 1
  /\ authReq' = [authReq EXCEPT ![r] = IF Is(r, "reset") \/ authReq[r].all
                                       THEN [@ EXCEPT !.pc = AfterPassword(r), !.gen = issued + 1]
                                       ELSE AuthIdle]
  /\ UNCHANGED <<session, reset, active, lockout, authOps, ended, forked>>

(* RevokePending outside a transaction.                                    *)
SpendPending(r) ==
  /\ At(r, "spend")
  /\ PendingOrExpired \cap HeldTokens(r) = {}
  /\ reset' = [k \in ResetIDs |-> IF k \in PendingOrExpired THEN "used" ELSE reset[k]]
  /\ Goto(r, "all")
  /\ UNCHANGED <<session, credentials, lockout, authOps, ended, forked>>

(* mutant: only the session that began each sign-in                        *)
RevokedFirstOnly == {s \in SessionIDs : session[s].state = "live" /\ session[s].family = s}
RevokedForUser == {s \in SessionIDs : session[s].state = "live"}

(* RevokeAllForUser, the last statement of a reset, of an admin reset and  *)
(* of a change that asked for it.  Requests under way are noted as old.    *)
RevokeAllForUser(r) ==
  /\ At(r, "all")
  /\ RevokeAll(RevokedForUser)
  /\ ended' = IF authReq[r].gen > ended THEN authReq[r].gen ELSE ended
  /\ authReq' = [q \in AuthReqs |-> CASE q = r -> AuthIdle
                                      [] q # r /\ At(q, "idle") -> AuthIdle
                                      [] q # r /\ ~At(q, "idle") -> [authReq[q] EXCEPT !.old = TRUE]]
  /\ UNCHANGED <<reset, credentials, lockout, authOps, forked>>

-----------------------------------------------------------------------------
(* Time, pruning jobs, erasure of the account and Redis.                   *)

ExpireSession(s) ==
  /\ session[s].state \in {"live", "revoked"} /\ ~session[s].expired
  /\ session' = [session EXCEPT ![s].expired = TRUE]
  /\ UNCHANGED <<reset, credentials, lockout, authReq, authOps, ended, forked>>

ExpireToken(k) ==
  /\ reset[k] = "pending"
  /\ reset' = [reset EXCEPT ![k] = "expired"]
  /\ UNCHANGED <<session, credentials, lockout, authReq, authOps, ended, forked>>

(* PruneExpiredBefore of both tables.                                      *)
PruneSession(s) ==
  /\ session[s].expired /\ session[s].state \in {"live", "revoked"}
  /\ session' = [session EXCEPT ![s].state = "pruned"]
  /\ UNCHANGED <<reset, credentials, lockout, authReq, authOps, ended, forked>>

PruneToken(k) ==
  /\ reset[k] = "expired" /\ \A r \in AuthReqs : k \notin HeldTokens(r)
  /\ reset' = [reset EXCEPT ![k] = "pruned"]
  /\ UNCHANGED <<session, credentials, lockout, authReq, authOps, ended, forked>>

(* An erasure (Privacy): the account is closed, its rows deleted.          *)
EraseAccount ==
  /\ active /\ active' = FALSE /\ password' = ErasedPassword
  /\ \A r \in AuthReqs : HeldTokens(r) = {}
  /\ session' = [s \in SessionIDs |-> IF session[s].state = "none" THEN session[s]
                                      ELSE [session[s] EXCEPT !.state = "pruned"]]
  /\ reset' = [k \in ResetIDs |-> IF reset[k] = "none" THEN "none" ELSE "pruned"]
  /\ UNCHANGED <<issued, lockout, authReq, authOps, ended, forked>>

(* The lock key, or the failure counter, reaches its TTL.                  *)
LockExpires ==
  /\ locked /\ locked' = FALSE /\ guesses' = 0
  /\ UNCHANGED <<session, reset, credentials, fails, redisUp, authReq, authOps, ended, forked>>

FailuresExpire ==
  /\ fails > 0 /\ fails' = 0 /\ guesses' = 0
  /\ UNCHANGED <<session, reset, credentials, locked, redisUp, authReq, authOps, ended, forked>>

(* Redis stops or resumes answering.                                       *)
RedisToggles ==
  /\ redisUp' = ~redisUp /\ guesses' = 0
  /\ UNCHANGED <<session, reset, credentials, fails, locked, authReq, authOps, ended, forked>>

SessionsNext ==
  \/ \E r \in AuthReqs :
       \/ BeginAuth(r) \/ RequestFails(r)
       \/ CheckLocked(r) \/ Authenticate(r) \/ LoginFailed(r) \/ LockAccount(r)
       \/ ResetAttempts(r) \/ IssuePair(r)
       \/ FindToken(r) \/ RevokeFamily(r) \/ ActiveUser(r) \/ CreateSuccessor(r)
       \/ ReplaceSession(r) \/ RevokeSession(r)
       \/ ForgetPending(r) \/ CommitReset(r) \/ FindResetToken(r) \/ CheckCurrent(r)
       \/ UpdatePassword(r) \/ SpendPending(r) \/ RevokeAllForUser(r)
  \/ \E s \in SessionIDs : ExpireSession(s) \/ PruneSession(s)
  \/ \E k \in ResetIDs : ExpireToken(k) \/ PruneToken(k)
  \/ EraseAccount \/ LockExpires \/ FailuresExpire \/ RedisToggles

SessionsSpec == SessionsInit /\ [][SessionsNext]_sessionsVars

-----------------------------------------------------------------------------
(* A password reset that completed ends every older sign-in: a session     *)
(* that is still live was created by a request already under way when the  *)
(* reset revoked the others, or descends from such a session.              *)
ResetEndsSessions ==
  \A s \in SessionIDs : session[s].state = "live" /\ session[s].pw < ended => session[s].late

(* Rotation leaves one usable token per sign-in: a family has two live     *)
(* sessions only while a rotation is between its two statements, or after  *)
(* one failed there or overlapped another one.                             *)
OneTokenPerSignIn ==
  \A f \in SessionIDs :
    \/ Cardinality(LiveIn(f)) <= 1
    \/ f \in forked
    \/ \E r \in AuthReqs : At(r, "replace") /\ session[authReq[r].sid].family = f

(* The lockout bounds guessing: in one window, with Redis answering, no    *)
(* more wrong passwords are tried than MaxFailures and those whose lock    *)
(* check was already behind them when the account was locked (a request    *)
(* that fails before it sets the lock leaves that to the next one).        *)
GuessesBounded == guesses <= MaxFailures + Cardinality(AuthReqs) - 1

(* The types, one usable token per sign-in (Refresh, issuePair) and        *)
(* bounded guessing (Login, LoginLockout.Fail).                            *)
SessionsInvariant == SessionsTypeOK /\ OneTokenPerSignIn /\ GuessesBounded
=============================================================================
