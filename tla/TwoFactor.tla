------------------------------ MODULE TwoFactor -----------------------------
(***************************************************************************)
(* Two-factor sign-in of one account (core/auth/service/twofactor.go over  *)
(* two_factor_repository.go and challenge/redis.go): enrollment, backup    *)
(* codes and the login challenge.                                          *)
(*                                                                         *)
(* The password has been checked (Sessions).  A code is a TOTP of a secret *)
(* and a time step, or a backup code, named by the set it was issued with. *)
(* A step is one statement, one repository transaction or one Redis        *)
(* command; checkTOTP runs on the enrollment as read.                      *)
(***************************************************************************)
EXTENDS Naturals, FiniteSets

CONSTANTS Challenges,      \* login challenges that may be issued
          MfaReqs,         \* concurrent requests
          NoChallenge,     \* no challenge
          MaxAttempts2FA,  \* maxChallengeAttempts
          MaxSecrets,      \* bound: secrets generated
          MaxStep,         \* bound: TOTP time steps
          MaxMfaOps        \* bound: requests begun

ASSUME TwoFactorAssumption ==
  /\ NoChallenge \notin Challenges
  /\ {MaxAttempts2FA, MaxSecrets, MaxStep} \subseteq Nat \ {0}
  /\ MaxMfaOps \in Nat
  /\ IsFiniteSet(MfaReqs)

VARIABLES enrollment,  \* user_two_factor_methods
          codes,       \* unused rows of user_two_factor_backup_codes
          secrets,     \* secrets generated so far
          codeSets,    \* sets of backup codes generated so far
          challenge,   \* the Redis hash of each challenge
          step,        \* the current TOTP step
          mfaReq,      \* the open requests
          mfaOps,      \* requests begun
          mfaLog       \* history: codes accepted, checks and logins per challenge

twoFactorVars == <<enrollment, codes, secrets, codeSets, challenge, step, mfaReq, mfaOps, mfaLog>>

Enrollment == [state : {"none", "pending", "enabled"}, secret : 0..MaxSecrets, last : 0..(MaxStep + 1)]
NotEnrolled == [state |-> "none", secret |-> 0, last |-> 0]

(* secret = 0 is a code of no secret; backup = 0 is a TOTP.                *)
Code == [secret : 0..MaxSecrets, step : 0..(MaxStep + 1), backup : Nat]

MfaOp == {"login", "setup", "confirm", "disable", "regenerate", "complete"}

MfaRequest ==
  [op : MfaOp, pc : {"get", "attempt", "find", "save", "confirm", "use", "kill", "consume",
                     "delete", "replace", "challenge"},
   code : Code, chal : Challenges \cup {NoChallenge}, attempts : Nat]

MfaIdle == [pc |-> "idle"]

TwoFactorTypeOK ==
  /\ enrollment \in Enrollment
  /\ codes \subseteq Nat
  /\ secrets \in 0..MaxSecrets
  /\ codeSets \in Nat
  /\ challenge \in [Challenges -> [state : {"none", "open", "gone"}, attempts : Nat]]
  /\ step \in 1..MaxStep
  /\ mfaReq \in [MfaReqs -> MfaRequest \cup {MfaIdle}]
  /\ mfaOps \in 0..MaxMfaOps
  /\ mfaLog.checked \in [Challenges -> Nat]
  /\ mfaLog.logins \in [Challenges -> Nat]

(* An account at rest: not enrolled, or enrolled with one secret.          *)
TwoFactorInit ==
  /\ \/ enrollment = NotEnrolled /\ codes = {} /\ secrets = 0 /\ codeSets = 0
     \/ enrollment = [state |-> "enabled", secret |-> 1, last |-> 0] /\ codes = {1} /\ secrets = 1 /\ codeSets = 1
  /\ challenge = [c \in Challenges |-> [state |-> "none", attempts |-> 0]]
  /\ step = 1
  /\ mfaReq = [r \in MfaReqs |-> MfaIdle]
  /\ mfaOps = 0
  /\ mfaLog = [accepted |-> {}, replayed |-> FALSE,
               checked |-> [c \in Challenges |-> 0], logins |-> [c \in Challenges |-> 0]]

-----------------------------------------------------------------------------
MfaAt(r, pc) == mfaReq[r].pc = pc
MfaIs(r, op) == mfaReq[r].op = op
MfaGoto(r, pc) == mfaReq' = [mfaReq EXCEPT ![r].pc = pc]
MfaDone(r) == mfaReq' = [mfaReq EXCEPT ![r] = MfaIdle]

stored == <<enrollment, codes, secrets, codeSets>>

CodesKnown ==
  {[secret |-> s, step |-> t, backup |-> 0] : s \in 0..secrets, t \in {step, step + 1}}
  \cup {[secret |-> 0, step |-> 0, backup |-> b] : b \in 1..codeSets}

BeginMfa(r) ==
  /\ MfaAt(r, "idle") /\ mfaOps < MaxMfaOps
  /\ \E op \in MfaOp :
       \E code \in IF op \in {"login", "setup"} THEN {[secret |-> 0, step |-> 0, backup |-> 0]} ELSE CodesKnown,
          c \in IF op = "complete" THEN {c \in Challenges : challenge[c].state # "none"} ELSE {NoChallenge} :
         /\ op \in {"confirm", "regenerate"} => code.backup = 0
         /\ mfaReq' = [mfaReq EXCEPT ![r] = [op |-> op, pc |-> IF op = "complete" THEN "get" ELSE "find",
                                             code |-> code, chal |-> c, attempts |-> 0]]
  /\ mfaOps' = mfaOps + 1
  /\ UNCHANGED <<stored, challenge, step, mfaLog>>

MfaFails(r) ==
  /\ ~MfaAt(r, "idle") /\ MfaDone(r)
  /\ UNCHANGED <<stored, challenge, step, mfaOps, mfaLog>>

(* startTwoFactor: an enabled enrollment, as read, turns the login into a  *)
(* challenge; otherwise the session is issued (Sessions!IssuePair).        *)
StartTwoFactor(r) ==
  /\ MfaAt(r, "find") /\ MfaIs(r, "login")
  /\ IF enrollment.state = "enabled" THEN MfaGoto(r, "challenge") ELSE MfaDone(r)
  /\ UNCHANGED <<stored, challenge, step, mfaOps, mfaLog>>

(* challenges.Save: HSET and PEXPIRE.                                      *)
SaveChallenge(r) ==
  /\ MfaAt(r, "challenge")
  /\ \E c \in Challenges :
       /\ challenge[c].state = "none"
       /\ challenge' = [challenge EXCEPT ![c].state = "open"]
  /\ MfaDone(r)
  /\ UNCHANGED <<stored, step, mfaOps, mfaLog>>

(* SetupTwoFactor: refused once enabled, at the read and in the upsert.    *)
SetupFind(r) ==
  /\ MfaAt(r, "find") /\ MfaIs(r, "setup")
  /\ IF enrollment.state = "enabled" THEN MfaDone(r) ELSE MfaGoto(r, "save")
  /\ UNCHANGED <<stored, challenge, step, mfaOps, mfaLog>>

SavePending(r) ==
  /\ MfaAt(r, "save")
  /\ IF enrollment.state = "enabled"
     THEN UNCHANGED stored
     ELSE /\ secrets < MaxSecrets /\ secrets' = secrets + 1
          /\ enrollment' = [state |-> "pending", secret |-> secrets + 1, last |-> 0]
          /\ codes' = {} /\ UNCHANGED codeSets
  /\ MfaDone(r)
  /\ UNCHANGED <<challenge, step, mfaOps, mfaLog>>

-----------------------------------------------------------------------------
(* Codes.                                                                  *)

(* checkTOTP with a skew of one step, against the enrollment as read.      *)
CheckTOTP(e, code) ==
  /\ code.secret # 0 /\ code.secret = e.secret
  /\ code.step \in (step - 1)..(step + 1)
  /\ code.step > e.last

ConfirmFind(r) ==
  /\ MfaAt(r, "find") /\ MfaIs(r, "confirm")
  /\ IF enrollment.state = "pending" /\ CheckTOTP(enrollment, mfaReq[r].code)
     THEN MfaGoto(r, "confirm") ELSE MfaDone(r)
  /\ UNCHANGED <<stored, challenge, step, mfaOps, mfaLog>>

(* The enrollment a code is accepted by, and the secret it was checked     *)
(* against, which need not be the same; a backup code belongs to none.     *)
AcceptedFor(e, s, n) == [by |-> e, of |-> s, mark |-> n]

Taken(e, n) == \E k \in mfaLog.accepted : k.by = e /\ k.mark = n

Accepted(e, s, n) ==
  [mfaLog EXCEPT !.replayed = mfaLog.replayed \/ Taken(e, n),
                 !.accepted = mfaLog.accepted \cup {AcceptedFor(e, s, n)}]

(* repo.Confirm: UPDATE ... WHERE confirmed_at IS NULL AND last_used_step  *)
(* < step, then the backup codes; the secret is not compared.              *)
Confirm(r) ==
  /\ MfaAt(r, "confirm")
  /\ IF enrollment.state = "pending" /\ enrollment.last < mfaReq[r].code.step
     THEN /\ enrollment' = [enrollment EXCEPT !.state = "enabled", !.last = mfaReq[r].code.step]
          /\ codeSets' = codeSets + 1 /\ codes' = {codeSets + 1}
          /\ mfaLog' = Accepted(enrollment.secret, mfaReq[r].code.secret, mfaReq[r].code.step)
          /\ UNCHANGED secrets
     ELSE UNCHANGED <<stored, mfaLog>>
  /\ MfaDone(r)
  /\ UNCHANGED <<challenge, step, mfaOps>>

Verifies(r) == mfaReq[r].op \in {"disable", "regenerate", "complete"}

(* enabledEnrollment and checkTOTP of verifyCode.  A wrong code kills a    *)
(* challenge that is out of attempts; a missing enrollment always does.    *)
FindEnrollment(r) ==
  /\ MfaAt(r, "find") /\ Verifies(r)
  /\ mfaLog' = IF MfaIs(r, "complete") THEN [mfaLog EXCEPT !.checked[mfaReq[r].chal] = @ + 1] ELSE mfaLog
  /\ LET ok == enrollment.state = "enabled"
               /\ (mfaReq[r].code.backup # 0 \/ CheckTOTP(enrollment, mfaReq[r].code))
         dead == enrollment.state # "enabled" \/ mfaReq[r].attempts >= MaxAttempts2FA
     IN  CASE ok -> MfaGoto(r, "use")
           [] ~ok /\ MfaIs(r, "complete") /\ dead -> MfaGoto(r, "kill")
           [] ~ok /\ ~(MfaIs(r, "complete") /\ dead) -> MfaDone(r)
  /\ UNCHANGED <<stored, challenge, step, mfaOps>>

AfterUse(r) == CASE MfaIs(r, "disable") -> "delete" [] MfaIs(r, "regenerate") -> "replace"
                 [] MfaIs(r, "complete") -> "consume"

FreshAsRead(code) == enrollment.state # "none"   \* mutant: only the read is checked
Fresh(code) == enrollment.state # "none" /\ enrollment.last < code.step

(* UseStep: UPDATE ... WHERE last_used_step < step, any state, any secret. *)
UseStep(r) ==
  /\ MfaAt(r, "use") /\ mfaReq[r].code.backup = 0
  /\ IF Fresh(mfaReq[r].code)
     THEN /\ enrollment' = [enrollment EXCEPT !.last = mfaReq[r].code.step]
          /\ mfaLog' = Accepted(enrollment.secret, mfaReq[r].code.secret, mfaReq[r].code.step)
          /\ MfaGoto(r, AfterUse(r))
     ELSE /\ UNCHANGED <<enrollment, mfaLog>>
          /\ IF MfaIs(r, "complete") /\ mfaReq[r].attempts >= MaxAttempts2FA THEN MfaGoto(r, "kill") ELSE MfaDone(r)
  /\ UNCHANGED <<codes, secrets, codeSets, challenge, step, mfaOps>>

(* UseBackupCode: UPDATE ... WHERE used_at IS NULL.                        *)
UseBackupCode(r) ==
  /\ MfaAt(r, "use") /\ mfaReq[r].code.backup # 0
  /\ IF mfaReq[r].code.backup \in codes
     THEN /\ codes' = codes \ {mfaReq[r].code.backup}
          /\ mfaLog' = Accepted(0, 0, mfaReq[r].code.backup)
          /\ MfaGoto(r, AfterUse(r))
     ELSE /\ UNCHANGED <<codes, mfaLog>>
          /\ IF MfaIs(r, "complete") /\ mfaReq[r].attempts >= MaxAttempts2FA THEN MfaGoto(r, "kill") ELSE MfaDone(r)
  /\ UNCHANGED <<enrollment, secrets, codeSets, challenge, step, mfaOps>>

(* DisableTwoFactor: repo.Delete; an erasure of the account does the same. *)
DeleteEnrollment(r) ==
  /\ MfaAt(r, "delete")
  /\ enrollment' = NotEnrolled /\ codes' = {}
  /\ MfaDone(r)
  /\ UNCHANGED <<secrets, codeSets, challenge, step, mfaOps, mfaLog>>

(* RegenerateBackupCodes: ReplaceBackupCodes.                              *)
ReplaceBackupCodes(r) ==
  /\ MfaAt(r, "replace")
  /\ codeSets' = codeSets + 1 /\ codes' = {codeSets + 1}
  /\ MfaDone(r)
  /\ UNCHANGED <<enrollment, secrets, challenge, step, mfaOps, mfaLog>>

-----------------------------------------------------------------------------
(* CompleteTwoFactor around verifyCode.                                    *)

GetChallenge(r) ==
  /\ MfaAt(r, "get")
  /\ IF challenge[mfaReq[r].chal].state = "open" THEN MfaGoto(r, "attempt") ELSE MfaDone(r)
  /\ UNCHANGED <<stored, challenge, step, mfaOps, mfaLog>>

Attempts(c) == challenge[c].attempts + 1

(* The script counts only while the challenge exists.                      *)
CountAttempt(r) ==
  LET c == mfaReq[r].chal
  IN  /\ MfaAt(r, "attempt")
      /\ IF challenge[c].state = "open"
         THEN /\ challenge' = [challenge EXCEPT ![c].attempts = Attempts(c)]
              /\ mfaReq' = [mfaReq EXCEPT ![r].attempts = Attempts(c),
                                          ![r].pc = IF Attempts(c) > MaxAttempts2FA THEN "kill" ELSE "find"]
         ELSE MfaDone(r) /\ UNCHANGED challenge
      /\ UNCHANGED <<stored, step, mfaOps, mfaLog>>

(* Consume after a failure: DEL, the result ignored.                       *)
KillChallenge(r) ==
  /\ MfaAt(r, "kill")
  /\ challenge' = [challenge EXCEPT ![mfaReq[r].chal].state = "gone"]
  /\ MfaDone(r)
  /\ UNCHANGED <<stored, step, mfaOps, mfaLog>>

Consumed(c) == challenge[c].state = "open"

(* Consume must delete the challenge itself for the session to be issued.  *)
ConsumeChallenge(r) ==
  LET c == mfaReq[r].chal
  IN  /\ MfaAt(r, "consume")
      /\ challenge' = [challenge EXCEPT ![c].state = "gone"]
      /\ mfaLog' = IF Consumed(c) THEN [mfaLog EXCEPT !.logins[c] = @ + 1] ELSE mfaLog
      /\ MfaDone(r)
      /\ UNCHANGED <<stored, step, mfaOps>>

ExpireChallenge(c) ==
  /\ challenge[c].state = "open"
  /\ challenge' = [challenge EXCEPT ![c].state = "gone"]
  /\ UNCHANGED <<stored, step, mfaReq, mfaOps, mfaLog>>

Tick ==
  /\ step < MaxStep /\ step' = step + 1
  /\ UNCHANGED <<stored, challenge, mfaReq, mfaOps, mfaLog>>

TwoFactorNext ==
  \/ \E r \in MfaReqs :
       \/ BeginMfa(r) \/ MfaFails(r) \/ StartTwoFactor(r) \/ SaveChallenge(r)
       \/ SetupFind(r) \/ SavePending(r) \/ ConfirmFind(r) \/ Confirm(r)
       \/ FindEnrollment(r) \/ UseStep(r) \/ UseBackupCode(r)
       \/ DeleteEnrollment(r) \/ ReplaceBackupCodes(r)
       \/ GetChallenge(r) \/ CountAttempt(r) \/ KillChallenge(r) \/ ConsumeChallenge(r)
  \/ \E c \in Challenges : ExpireChallenge(c)
  \/ Tick

TwoFactorSpec == TwoFactorInit /\ [][TwoFactorNext]_twoFactorVars

-----------------------------------------------------------------------------
(* No enrollment accepts two codes of one time step, and no backup code is *)
(* accepted twice, however many requests present them at once (UseStep,    *)
(* Confirm, UseBackupCode).  "a code cannot be replayed" (useTOTP) holds   *)
(* of one enrollment: a request that checked a code against an enrollment  *)
(* disabled since may mark its step used on the one set up after it, which *)
(* starts at last_used_step 0, and the code is accepted a second time.     *)
(* Never is it accepted by an enrollment of an earlier secret.             *)
CodeAcceptedOnce == ~mfaLog.replayed /\ \A k \in mfaLog.accepted : k.of <= k.by

(* A challenge checks at most maxChallengeAttempts codes and signs in at   *)
(* most once, although requests count, check and consume separately.       *)
ChallengeSpentOnce ==
  \A c \in Challenges : mfaLog.checked[c] <= MaxAttempts2FA /\ mfaLog.logins[c] <= 1

(* Codes and challenges are spent once, whatever requests present them at  *)
(* the same time (useTOTP, verifyCode, Store.Attempt, Store.Consume).      *)
TwoFactorInvariant == TwoFactorTypeOK /\ CodeAcceptedOnce /\ ChallengeSpentOnce
=============================================================================
