--------------------------- MODULE AccountsProofs ---------------------------
(***************************************************************************)
(* Theorems about the second factor of a sign-in, about the sessions, the  *)
(* password and the lockout of an account, about who holds an address, and *)
(* about the protected role, for any number of challenges, sessions,       *)
(* tokens, roles, instances and concurrent requests.                       *)
(***************************************************************************)
EXTENDS TwoFactor, Sessions, Identity, Roles, TLAPS, FiniteSetTheorems

-----------------------------------------------------------------------------
(* The invariant.  What the enrollment in force accepted is not after      *)
(* last_used_step, what was accepted of the backup codes is used up, and a *)
(* challenge counts an attempt before it checks the code: the checks made  *)
(* and under way never exceed what was counted and let through.            *)

AcceptedCode == [by : Nat, of : Nat, mark : Nat]

MfaLogTyped == mfaLog \in [accepted : SUBSET AcceptedCode, replayed : BOOLEAN,
                           checked : [Challenges -> Nat], logins : [Challenges -> Nat]]

NotReplayed == ~mfaLog.replayed

StepsSpent ==
  /\ enrollment.secret <= secrets
  /\ enrollment.state # "none" => enrollment.secret # 0
  /\ \A k \in mfaLog.accepted : k.by <= secrets /\ (k.by # 0 /\ k.by = enrollment.secret => k.mark <= enrollment.last)

BackupsSpent ==
  /\ \A b \in codes : b <= codeSets
  /\ \A k \in mfaLog.accepted : k.by = 0 => k.mark <= codeSets /\ k.mark \notin codes

LoginsOnce == \A c \in Challenges : mfaLog.logins[c] = 0 \/ (mfaLog.logins[c] = 1 /\ challenge[c].state = "gone")

MfaDataOK ==
  /\ enrollment \in Enrollment /\ codes \subseteq Nat /\ secrets \in 0..MaxSecrets /\ codeSets \in Nat
  /\ challenge \in [Challenges -> [state : {"none", "open", "gone"}, attempts : Nat]]
  /\ step \in 1..MaxStep /\ mfaOps \in 0..MaxMfaOps
  /\ MfaLogTyped /\ StepsSpent /\ BackupsSpent /\ NotReplayed /\ LoginsOnce

RequestFits(q) ==
  /\ q.pc \in {"get", "attempt", "kill", "consume"} => q.op = "complete"
  /\ q.pc = "use" => q.op \in {"disable", "regenerate", "complete"}
  /\ q.op = "complete" => q.chal \in Challenges

RequestsFit == mfaReq \in [MfaReqs -> MfaRequest \cup {MfaIdle}] /\ \A r \in MfaReqs : ~MfaAt(r, "idle") => RequestFits(mfaReq[r])

Checks(q, c) == q.pc = "find" /\ q.op = "complete" /\ q.chal = c
Checking(c) == {r \in MfaReqs : Checks(mfaReq[r], c)}

CheckedByCount ==
  \A c \in Challenges : /\ mfaLog.checked[c] + Cardinality(Checking(c)) <= MaxAttempts2FA
                        /\ mfaLog.checked[c] + Cardinality(Checking(c)) <= challenge[c].attempts

TwoFactorInv == MfaDataOK /\ RequestsFit /\ CheckedByCount

(* At rest the account has at most one secret and one set of codes.        *)
LEMMA TwoFactorInitInv == TwoFactorInit => TwoFactorInv
<1> SUFFICES ASSUME TwoFactorInit PROVE TwoFactorInv
  OBVIOUS
<1> USE TwoFactorAssumption
<1>1. /\ mfaReq = [r \in MfaReqs |-> MfaIdle] /\ step = 1 /\ mfaOps = 0
      /\ challenge = [c \in Challenges |-> [state |-> "none", attempts |-> 0]]
      /\ mfaLog = [accepted |-> {}, replayed |-> FALSE, checked |-> [c \in Challenges |-> 0],
                   logins |-> [c \in Challenges |-> 0]]
  BY DEF TwoFactorInit
<1>2. /\ enrollment \in Enrollment /\ codes \subseteq Nat /\ secrets \in 0..MaxSecrets /\ codeSets \in Nat
      /\ enrollment.secret <= secrets /\ (enrollment.state # "none" => enrollment.secret # 0)
      /\ \A b \in codes : b <= codeSets
  BY DEF TwoFactorInit, Enrollment, NotEnrolled
<1>3. MfaLogTyped /\ StepsSpent /\ BackupsSpent /\ NotReplayed /\ LoginsOnce
  BY <1>1, <1>2 DEF MfaLogTyped, StepsSpent, BackupsSpent, NotReplayed, LoginsOnce
<1>4. MfaDataOK
  BY <1>1, <1>2, <1>3 DEF MfaDataOK
<1>5. RequestsFit
  BY <1>1 DEF RequestsFit, MfaAt, MfaIdle
<1>6. CheckedByCount
  <2> SUFFICES ASSUME NEW c \in Challenges
               PROVE  /\ mfaLog.checked[c] + Cardinality(Checking(c)) <= MaxAttempts2FA
                      /\ mfaLog.checked[c] + Cardinality(Checking(c)) <= challenge[c].attempts
    BY DEF CheckedByCount
  <2>1. Checking(c) = {}
    BY <1>1 DEF Checking, Checks, MfaIdle
  <2> QED
    BY <1>1, <2>1, FS_EmptySet
<1> QED
  BY <1>4, <1>5, <1>6 DEF TwoFactorInv

(* A request moves on, but not to the check of a challenge's code.         *)
LEMMA MfaMoves ==
  ASSUME TwoFactorInv, NEW r \in MfaReqs, NEW q \in MfaRequest \cup {MfaIdle},
         mfaReq' = [mfaReq EXCEPT ![r] = q],
         q.pc # "idle" => RequestFits(q),
         ~(q.pc = "find" /\ q.op = "complete"),
         MfaDataOK', mfaLog'.checked = mfaLog.checked,
         \A c \in Challenges : challenge'[c].attempts = challenge[c].attempts
  PROVE  TwoFactorInv'
<1> USE TwoFactorAssumption
<1>1. mfaReq \in [MfaReqs -> MfaRequest \cup {MfaIdle}]
  BY DEF TwoFactorInv, RequestsFit
<1>2. mfaReq'[r] = q /\ \A p \in MfaReqs \ {r} : mfaReq'[p] = mfaReq[p]
  BY <1>1
<1>3. RequestsFit'
  <2>1. mfaReq' \in [MfaReqs -> MfaRequest \cup {MfaIdle}]
    BY <1>1
  <2>2. ASSUME NEW p \in MfaReqs, mfaReq'[p].pc # "idle" PROVE RequestFits(mfaReq'[p])
    BY <1>2, <2>2 DEF TwoFactorInv, RequestsFit, MfaAt
  <2> QED
    BY <2>1, <2>2 DEF RequestsFit, MfaAt, RequestFits
<1>4. CheckedByCount'
  <2> SUFFICES ASSUME NEW c \in Challenges
               PROVE  /\ mfaLog'.checked[c] + Cardinality(Checking(c)') <= MaxAttempts2FA
                      /\ mfaLog'.checked[c] + Cardinality(Checking(c)') <= challenge'[c].attempts
    BY DEF CheckedByCount
  <2>1. Checking(c)' \subseteq Checking(c) /\ IsFiniteSet(Checking(c))
    <3>1. Checking(c) \subseteq MfaReqs
      BY DEF Checking
    <3>2. IsFiniteSet(Checking(c))
      BY <3>1, FS_Subset
    <3> QED
      BY <1>2, <3>2 DEF Checking, Checks
  <2>2. /\ Cardinality(Checking(c)') <= Cardinality(Checking(c))
        /\ Cardinality(Checking(c)') \in Nat /\ Cardinality(Checking(c)) \in Nat
    BY <2>1, FS_Subset, FS_CardinalityType
  <2>3. mfaLog.checked[c] \in Nat /\ challenge[c].attempts \in Nat
    BY DEF TwoFactorInv, MfaDataOK, MfaLogTyped
  <2>4. /\ mfaLog.checked[c] + Cardinality(Checking(c)) <= MaxAttempts2FA
        /\ mfaLog.checked[c] + Cardinality(Checking(c)) <= challenge[c].attempts
    BY DEF TwoFactorInv, CheckedByCount
  <2> QED
    BY <2>2, <2>3, <2>4
<1> QED
  BY <1>3, <1>4 DEF TwoFactorInv

(* The requests rest, and so do the counts.                                *)
LEMMA MfaRests ==
  ASSUME TwoFactorInv, MfaDataOK', mfaReq' = mfaReq, mfaLog' = mfaLog,
         \A c \in Challenges : challenge'[c].attempts = challenge[c].attempts
  PROVE  TwoFactorInv'
<1>1. RequestsFit'
  BY DEF TwoFactorInv, RequestsFit, MfaAt, RequestFits
<1>2. \A c \in Challenges : Checking(c)' = Checking(c)
  BY DEF Checking, Checks
<1>3. CheckedByCount'
  BY <1>2 DEF TwoFactorInv, CheckedByCount
<1> QED
  BY <1>1, <1>3 DEF TwoFactorInv

(* Steps that write nothing but where the request stands.                  *)
LEMMA MfaReadsKeepInv ==
  ASSUME TwoFactorInv, NEW r \in MfaReqs,
         \/ BeginMfa(r) \/ MfaFails(r) \/ StartTwoFactor(r) \/ SetupFind(r) \/ ConfirmFind(r) \/ GetChallenge(r)
  PROVE  TwoFactorInv'
<1> USE TwoFactorAssumption
<1>1. /\ UNCHANGED <<enrollment, codes, secrets, codeSets, challenge, step, mfaLog>> /\ mfaOps' \in 0..MaxMfaOps
  BY DEF BeginMfa, MfaFails, StartTwoFactor, SetupFind, ConfirmFind, GetChallenge, stored, TwoFactorInv, MfaDataOK
<1>2. MfaDataOK'
  BY <1>1 DEF TwoFactorInv, MfaDataOK, MfaLogTyped, StepsSpent, BackupsSpent, NotReplayed, LoginsOnce
<1>3. mfaReq \in [MfaReqs -> MfaRequest \cup {MfaIdle}] /\ mfaReq[r] \in MfaRequest \cup {MfaIdle}
  BY DEF TwoFactorInv, RequestsFit
<1>4. CASE BeginMfa(r)
  <2>1. PICK op \in MfaOp :
          \E code \in IF op \in {"login", "setup"} THEN {[secret |-> 0, step |-> 0, backup |-> 0]} ELSE CodesKnown,
             c \in IF op = "complete" THEN {c \in Challenges : challenge[c].state # "none"} ELSE {NoChallenge} :
            mfaReq' = [mfaReq EXCEPT ![r] = [op |-> op, pc |-> IF op = "complete" THEN "get" ELSE "find",
                                             code |-> code, chal |-> c, attempts |-> 0]]
    BY <1>4, Zenon DEF BeginMfa
  <2>2. PICK code \in IF op \in {"login", "setup"} THEN {[secret |-> 0, step |-> 0, backup |-> 0]} ELSE CodesKnown,
             c \in IF op = "complete" THEN {c \in Challenges : challenge[c].state # "none"} ELSE {NoChallenge} :
            mfaReq' = [mfaReq EXCEPT ![r] = [op |-> op, pc |-> IF op = "complete" THEN "get" ELSE "find",
                                             code |-> code, chal |-> c, attempts |-> 0]]
    BY <2>1
  <2>3. code \in Code
    <3>1. secrets \in 0..MaxSecrets /\ codeSets \in Nat /\ step \in 1..MaxStep
      BY DEF TwoFactorInv, MfaDataOK
    <3>2. ASSUME NEW s \in 0..secrets, NEW t \in {step, step + 1}
          PROVE  [secret |-> s, step |-> t, backup |-> 0] \in Code
      BY <3>1 DEF Code
    <3>3. ASSUME NEW b \in 1..codeSets PROVE [secret |-> 0, step |-> 0, backup |-> b] \in Code
      BY <3>1 DEF Code
    <3>4. [secret |-> 0, step |-> 0, backup |-> 0] \in Code
      BY DEF Code
    <3>5. ASSUME NEW k \in CodesKnown PROVE k \in Code
      <4>1. CASE k \in {[secret |-> s, step |-> t, backup |-> 0] : s \in 0..secrets, t \in {step, step + 1}}
        <5>1. PICK s \in 0..secrets, t \in {step, step + 1} : k = [secret |-> s, step |-> t, backup |-> 0]
          BY <4>1
        <5> QED
          BY <3>2, <5>1
      <4>2. CASE k \in {[secret |-> 0, step |-> 0, backup |-> b] : b \in 1..codeSets}
        <5>1. PICK b \in 1..codeSets : k = [secret |-> 0, step |-> 0, backup |-> b]
          BY <4>2
        <5> QED
          BY <3>3, <5>1
      <4> QED
        BY <3>5, <4>1, <4>2 DEF CodesKnown
    <3> QED
      BY <2>2, <3>4, <3>5
  <2>4. c \in Challenges \cup {NoChallenge} /\ (op = "complete" => c \in Challenges)
    BY <2>2
  <2>5. PICK pc : pc = IF op = "complete" THEN "get" ELSE "find"
    OBVIOUS
  <2>6. PICK q : q = [op |-> op, pc |-> pc, code |-> code, chal |-> c, attempts |-> 0]
    OBVIOUS
  <2>7. mfaReq' = [mfaReq EXCEPT ![r] = q]
    BY <2>2, <2>5, <2>6
  <2>8. q \in MfaRequest /\ q.pc = pc /\ q.op = op /\ q.chal = c
    BY <2>3, <2>4, <2>5, <2>6 DEF MfaRequest
  <2> QED
    BY <1>1, <1>2, <2>4, <2>5, <2>7, <2>8, MfaMoves DEF RequestFits
<1>5. CASE ~BeginMfa(r)
  <2>1. mfaReq' = [mfaReq EXCEPT ![r] = MfaIdle]
        \/ \E pc \in {"challenge", "save", "confirm", "attempt"} :
             /\ mfaReq[r] \in MfaRequest /\ mfaReq' = [mfaReq EXCEPT ![r].pc = pc]
             /\ pc = "attempt" => mfaReq[r].pc = "get"
             /\ pc = "confirm" => mfaReq[r].op = "confirm"
    BY <1>3, <1>5 DEF MfaFails, StartTwoFactor, SetupFind, ConfirmFind, GetChallenge, MfaGoto, MfaDone, MfaAt, MfaIs, MfaIdle
  <2>2. CASE mfaReq' = [mfaReq EXCEPT ![r] = MfaIdle]
    BY <1>1, <1>2, <2>2, MfaMoves DEF MfaIdle
  <2>3. ASSUME NEW pc \in {"challenge", "save", "confirm", "attempt"}, mfaReq[r] \in MfaRequest,
               mfaReq' = [mfaReq EXCEPT ![r].pc = pc], pc = "attempt" => mfaReq[r].pc = "get"
        PROVE  TwoFactorInv'
    <3>1. PICK q : q = [mfaReq[r] EXCEPT !.pc = pc]
      OBVIOUS
    <3>2. mfaReq' = [mfaReq EXCEPT ![r] = q]
      BY <1>3, <2>3, <3>1
    <3>3. q \in MfaRequest /\ q.pc = pc /\ q.op = mfaReq[r].op /\ q.chal = mfaReq[r].chal
      BY <2>3, <3>1 DEF MfaRequest
    <3>4. mfaReq[r].pc # "idle"
      BY <2>3 DEF MfaRequest
    <3>5. RequestFits(q)
      BY <2>3, <3>3, <3>4 DEF TwoFactorInv, RequestsFit, RequestFits, MfaAt
    <3> QED
      BY <1>1, <1>2, <3>2, <3>3, <3>5, MfaMoves
  <2> QED
    BY <2>1, <2>2, <2>3
<1> QED
  BY <1>4, <1>5

(* A code is accepted by e for the first time.                             *)
LEMMA AcceptedFirst ==
  ASSUME MfaLogTyped, NotReplayed, NEW e \in Nat, NEW s \in Nat, NEW n \in Nat, ~Taken(e, n),
         mfaLog' = Accepted(e, s, n)
  PROVE  /\ MfaLogTyped' /\ NotReplayed'
         /\ mfaLog'.checked = mfaLog.checked /\ mfaLog'.logins = mfaLog.logins
         /\ mfaLog'.accepted = mfaLog.accepted \cup {AcceptedFor(e, s, n)}
         /\ \A k \in mfaLog'.accepted : k \in mfaLog.accepted \/ (k.by = e /\ k.of = s /\ k.mark = n)
<1>1. (mfaLog.replayed \/ Taken(e, n)) = FALSE
  BY DEF NotReplayed
<1>2. PICK h : h = (mfaLog.replayed \/ Taken(e, n))
  OBVIOUS
<1>3. PICK acc : acc = mfaLog.accepted \cup {AcceptedFor(e, s, n)}
  OBVIOUS
<1>4. mfaLog' = [mfaLog EXCEPT !.replayed = h, !.accepted = acc]
  BY <1>2, <1>3, Zenon DEF Accepted
<1>5. h = FALSE
  BY <1>1, <1>2
<1>6. acc \in SUBSET AcceptedCode /\ \A k \in acc : k \in mfaLog.accepted \/ (k.by = e /\ k.of = s /\ k.mark = n)
  BY <1>3 DEF MfaLogTyped, AcceptedCode, AcceptedFor
<1>7. mfaLog' \in [accepted : SUBSET AcceptedCode, replayed : BOOLEAN,
                   checked : [Challenges -> Nat], logins : [Challenges -> Nat]]
      /\ mfaLog'.replayed = FALSE /\ mfaLog'.accepted = acc
      /\ mfaLog'.checked = mfaLog.checked /\ mfaLog'.logins = mfaLog.logins
  BY <1>4, <1>5, <1>6 DEF MfaLogTyped
<1> QED
  BY <1>3, <1>6, <1>7 DEF MfaLogTyped, NotReplayed

(* A secret is stored, or a code of the enrollment accepted: a TOTP step   *)
(* after last_used_step, a backup code that was unused.                    *)
LEMMA CodesKeepInv ==
  ASSUME TwoFactorInv, NEW r \in MfaReqs,
         \/ SavePending(r) \/ Confirm(r) \/ UseStep(r) \/ UseBackupCode(r)
         \/ DeleteEnrollment(r) \/ ReplaceBackupCodes(r)
  PROVE  TwoFactorInv'
<1> USE TwoFactorAssumption
<1>1. /\ mfaReq \in [MfaReqs -> MfaRequest \cup {MfaIdle}] /\ mfaReq[r] \in MfaRequest
      /\ mfaReq[r].code \in Code /\ mfaReq[r].code.step \in 0..(MaxStep + 1) /\ mfaReq[r].code.backup \in Nat
      /\ MfaDataOK /\ MfaLogTyped /\ StepsSpent /\ BackupsSpent /\ NotReplayed /\ LoginsOnce
      /\ enrollment \in Enrollment /\ codes \subseteq Nat /\ secrets \in 0..MaxSecrets /\ codeSets \in Nat
      /\ enrollment.secret \in 0..MaxSecrets /\ enrollment.last \in 0..(MaxStep + 1)
      /\ \A k \in mfaLog.accepted : k.by \in Nat /\ k.mark \in Nat
  <2>1. mfaReq[r].pc # "idle"
    BY DEF SavePending, Confirm, UseStep, UseBackupCode, DeleteEnrollment, ReplaceBackupCodes, MfaAt
  <2>2. mfaReq \in [MfaReqs -> MfaRequest \cup {MfaIdle}] /\ mfaReq[r] \in MfaRequest
    BY <2>1 DEF TwoFactorInv, RequestsFit, MfaIdle
  <2>3. MfaDataOK /\ enrollment \in Enrollment /\ codes \subseteq Nat /\ secrets \in 0..MaxSecrets /\ codeSets \in Nat
        /\ MfaLogTyped /\ StepsSpent /\ BackupsSpent /\ NotReplayed /\ LoginsOnce
    BY DEF TwoFactorInv, MfaDataOK
  <2>4. \A k \in mfaLog.accepted : k.by \in Nat /\ k.mark \in Nat
    BY <2>3 DEF MfaLogTyped, AcceptedCode
  <2> QED
    BY <2>2, <2>3, <2>4 DEF MfaRequest, Code, Enrollment
<1>2. UNCHANGED <<challenge, step, mfaOps>>
  BY DEF SavePending, Confirm, UseStep, UseBackupCode, DeleteEnrollment, ReplaceBackupCodes, stored
<1>3. ASSUME MfaDataOK', mfaLog'.checked = mfaLog.checked PROVE TwoFactorInv'
  <2>1. \A c \in Challenges : challenge'[c].attempts = challenge[c].attempts
    BY <1>2
  <2>2. \/ mfaReq' = [mfaReq EXCEPT ![r] = MfaIdle]
        \/ \E pc \in {"delete", "replace", "consume", "kill"} :
             /\ mfaReq' = [mfaReq EXCEPT ![r].pc = pc]
             /\ pc \in {"consume", "kill"} => mfaReq[r].op = "complete"
    <3>1. mfaReq[r].pc = "use" => mfaReq[r].op \in {"disable", "regenerate", "complete"}
      BY <1>1 DEF TwoFactorInv, RequestsFit, RequestFits, MfaAt
    <3> QED
      BY <3>1 DEF SavePending, Confirm, UseStep, UseBackupCode, DeleteEnrollment, ReplaceBackupCodes,
                  MfaDone, MfaGoto, AfterUse, MfaIs, MfaAt
  <2>3. CASE mfaReq' = [mfaReq EXCEPT ![r] = MfaIdle]
    BY <1>3, <2>1, <2>3, MfaMoves DEF MfaIdle
  <2>4. ASSUME NEW pc \in {"delete", "replace", "consume", "kill"}, mfaReq' = [mfaReq EXCEPT ![r].pc = pc],
               pc \in {"consume", "kill"} => mfaReq[r].op = "complete"
        PROVE  TwoFactorInv'
    <3>1. PICK q : q = [mfaReq[r] EXCEPT !.pc = pc]
      OBVIOUS
    <3>2. mfaReq' = [mfaReq EXCEPT ![r] = q]
      BY <1>1, <2>4, <3>1
    <3>3. q \in MfaRequest /\ q.pc = pc /\ q.op = mfaReq[r].op /\ q.chal = mfaReq[r].chal /\ mfaReq[r].pc # "idle"
      BY <1>1, <2>4, <3>1 DEF MfaRequest
    <3>4. RequestFits(q)
      BY <2>4, <3>3 DEF TwoFactorInv, RequestsFit, RequestFits, MfaAt
    <3> QED
      BY <1>3, <2>1, <3>2, <3>3, <3>4, MfaMoves
  <2> QED
    BY <2>2, <2>3, <2>4
<1>4. ASSUME MfaLogTyped', NotReplayed', StepsSpent', BackupsSpent', mfaLog'.logins = mfaLog.logins,
             enrollment' \in Enrollment, codes' \subseteq Nat, secrets' \in 0..MaxSecrets, codeSets' \in Nat
      PROVE  MfaDataOK'
  <2>1. LoginsOnce'
    BY <1>1, <1>2, <1>4 DEF LoginsOnce
  <2> QED
    BY <1>1, <1>2, <1>4, <2>1 DEF MfaDataOK
<1>5. CASE mfaLog' = mfaLog
  <2>0. MfaLogTyped' /\ NotReplayed'
    BY <1>1, <1>5 DEF MfaLogTyped, NotReplayed
  <2>1. CASE SavePending(r) /\ secrets' = secrets + 1
    <3>1. /\ enrollment' = [state |-> "pending", secret |-> secrets + 1, last |-> 0] /\ codes' = {} /\ codeSets' = codeSets
          /\ secrets + 1 \in 0..MaxSecrets
      BY <1>1, <2>1 DEF SavePending, stored
    <3>2. enrollment' \in Enrollment
      BY <3>1 DEF Enrollment
    <3>3. StepsSpent' /\ BackupsSpent'
      BY <1>1, <1>5, <2>1, <3>1 DEF StepsSpent, BackupsSpent
    <3> QED
      BY <1>1, <1>3, <1>4, <1>5, <2>0, <2>1, <3>1, <3>2, <3>3
  <2>2. CASE DeleteEnrollment(r)
    <3>1. enrollment' = NotEnrolled /\ codes' = {} /\ UNCHANGED <<secrets, codeSets>>
      BY <2>2 DEF DeleteEnrollment
    <3>2. enrollment' \in Enrollment
      BY <1>1, <3>1 DEF Enrollment, NotEnrolled
    <3>3. StepsSpent' /\ BackupsSpent'
      BY <1>1, <1>5, <3>1 DEF StepsSpent, BackupsSpent, NotEnrolled
    <3> QED
      BY <1>1, <1>3, <1>4, <1>5, <2>0, <3>1, <3>2, <3>3
  <2>3. CASE ReplaceBackupCodes(r)
    <3>1. codeSets' = codeSets + 1 /\ codes' = {codeSets + 1} /\ UNCHANGED <<enrollment, secrets>>
      BY <2>3 DEF ReplaceBackupCodes
    <3>2. StepsSpent' /\ BackupsSpent'
      BY <1>1, <1>5, <3>1 DEF StepsSpent, BackupsSpent
    <3> QED
      BY <1>1, <1>3, <1>4, <1>5, <2>0, <3>1, <3>2
  <2>4. CASE UNCHANGED <<enrollment, codes, secrets, codeSets>>
    <3>1. StepsSpent' /\ BackupsSpent'
      BY <1>1, <1>5, <2>4 DEF StepsSpent, BackupsSpent
    <3> QED
      BY <1>1, <1>3, <1>4, <1>5, <2>0, <2>4, <3>1
  <2>5. ASSUME Confirm(r) \/ UseStep(r), ~UNCHANGED <<enrollment, codes, secrets, codeSets>> PROVE FALSE
    <3>1. /\ enrollment.last < mfaReq[r].code.step /\ enrollment.state # "none"
          /\ mfaLog' = Accepted(enrollment.secret, mfaReq[r].code.secret, mfaReq[r].code.step)
      BY <2>5 DEF Confirm, UseStep, stored, Fresh
    <3>2. PICK e \in Nat, s \in Nat, n \in Nat : e = enrollment.secret /\ s = mfaReq[r].code.secret /\ n = mfaReq[r].code.step
      BY <1>1 DEF Code
    <3>3. ~Taken(e, n) /\ mfaLog' = Accepted(e, s, n)
      BY <1>1, <3>1, <3>2 DEF StepsSpent, Taken
    <3>4. AcceptedFor(e, s, n) \in mfaLog'.accepted
      BY <1>1, <3>3, AcceptedFirst
    <3>5. AcceptedFor(e, s, n).by = e /\ AcceptedFor(e, s, n).mark = n
      BY DEF AcceptedFor
    <3> QED
      BY <1>5, <3>3, <3>4, <3>5 DEF Taken
  <2>6. ASSUME UseBackupCode(r), ~UNCHANGED <<enrollment, codes, secrets, codeSets>> PROVE FALSE
    <3>1. mfaReq[r].code.backup \in codes /\ mfaLog' = Accepted(0, 0, mfaReq[r].code.backup)
      BY <2>6 DEF UseBackupCode
    <3>2. PICK e \in Nat, s \in Nat, n \in Nat : e = 0 /\ s = 0 /\ n = mfaReq[r].code.backup
      BY <1>1
    <3>3. ~Taken(e, n) /\ mfaLog' = Accepted(e, s, n)
      BY <1>1, <3>1, <3>2 DEF BackupsSpent, Taken
    <3>4. AcceptedFor(e, s, n) \in mfaLog'.accepted
      BY <1>1, <3>3, AcceptedFirst
    <3>5. AcceptedFor(e, s, n).by = e /\ AcceptedFor(e, s, n).mark = n
      BY DEF AcceptedFor
    <3> QED
      BY <1>5, <3>3, <3>4, <3>5 DEF Taken
  <2> QED
    BY <2>1, <2>2, <2>3, <2>4, <2>5, <2>6 DEF SavePending, stored
<1>6. CASE mfaLog' # mfaLog
  <2>1. CASE Confirm(r) \/ UseStep(r)
    <3>1. /\ mfaLog' = Accepted(enrollment.secret, mfaReq[r].code.secret, mfaReq[r].code.step) /\ enrollment.last < mfaReq[r].code.step
          /\ enrollment.state # "none" /\ secrets' = secrets
          /\ \/ codes' = codes /\ codeSets' = codeSets
             \/ codeSets' = codeSets + 1 /\ codes' = {codeSets + 1}
          /\ \E st \in {enrollment.state, "enabled"} :
               enrollment' = [enrollment EXCEPT !.state = st, !.last = mfaReq[r].code.step]
      <4>1. CASE Confirm(r)
        BY <1>6, <4>1 DEF Confirm
      <4>2. CASE UseStep(r)
        <5>1. enrollment' = [enrollment EXCEPT !.last = mfaReq[r].code.step]
          BY <1>6, <4>2 DEF UseStep
        <5>2. enrollment' = [enrollment EXCEPT !.state = enrollment.state, !.last = mfaReq[r].code.step]
          BY <1>1, <5>1 DEF Enrollment
        <5> QED
          BY <1>6, <4>2, <5>2 DEF UseStep, Fresh
      <4> QED
        BY <2>1, <4>1, <4>2
    <3>2. /\ enrollment' \in Enrollment /\ enrollment'.secret = enrollment.secret
          /\ enrollment'.last = mfaReq[r].code.step /\ enrollment'.state # "none"
      BY <1>1, <3>1 DEF Enrollment
    <3>3. PICK e \in Nat, s \in Nat, n \in Nat : e = enrollment.secret /\ s = mfaReq[r].code.secret /\ n = mfaReq[r].code.step
      BY <1>1 DEF Code
    <3>4. ~Taken(e, n) /\ e # 0 /\ enrollment.last < n
      BY <1>1, <3>1, <3>3 DEF StepsSpent, Taken
    <3>5. /\ MfaLogTyped' /\ NotReplayed'
          /\ mfaLog'.checked = mfaLog.checked /\ mfaLog'.logins = mfaLog.logins
          /\ \A k \in mfaLog'.accepted : k \in mfaLog.accepted \/ (k.by = e /\ k.mark = n)
      BY <1>1, <3>1, <3>3, <3>4, AcceptedFirst
    <3>6. StepsSpent'
      BY <1>1, <3>1, <3>2, <3>3, <3>4, <3>5 DEF StepsSpent
    <3>7. BackupsSpent' /\ codes' \subseteq Nat /\ codeSets' \in Nat
      BY <1>1, <3>1, <3>4, <3>5 DEF BackupsSpent
    <3> QED
      BY <1>1, <1>3, <1>4, <3>1, <3>2, <3>5, <3>6, <3>7
  <2>2. CASE UseBackupCode(r)
    <3>1. PICK n \in Nat : n = mfaReq[r].code.backup
      BY <1>1
    <3>2. /\ mfaLog' = Accepted(0, 0, n) /\ n \in codes /\ codes' = codes \ {n}
          /\ UNCHANGED <<enrollment, secrets, codeSets>>
      BY <1>6, <2>2, <3>1 DEF UseBackupCode
    <3>3. ~Taken(0, n)
      BY <1>1, <3>2 DEF BackupsSpent, Taken
    <3>4. /\ MfaLogTyped' /\ NotReplayed'
          /\ mfaLog'.checked = mfaLog.checked /\ mfaLog'.logins = mfaLog.logins
          /\ \A k \in mfaLog'.accepted : k \in mfaLog.accepted \/ (k.by = 0 /\ k.mark = n)
      BY <1>1, <3>2, <3>3, AcceptedFirst
    <3>5. StepsSpent' /\ BackupsSpent'
      BY <1>1, <3>1, <3>2, <3>4 DEF StepsSpent, BackupsSpent
    <3> QED
      BY <1>1, <1>3, <1>4, <3>2, <3>4, <3>5
  <2> QED
    BY <1>6, <2>1, <2>2 DEF SavePending, DeleteEnrollment, ReplaceBackupCodes
<1> QED
  BY <1>5, <1>6

(* The challenge is stored, deleted or consumed; who deletes it itself     *)
(* signs in.                                                               *)
LEMMA ChallengesKeepInv ==
  ASSUME TwoFactorInv,
         \/ \E r \in MfaReqs : SaveChallenge(r) \/ KillChallenge(r) \/ ConsumeChallenge(r)
         \/ \E c \in Challenges : ExpireChallenge(c)
  PROVE  TwoFactorInv'
<1> USE TwoFactorAssumption
<1>1. /\ MfaDataOK /\ MfaLogTyped /\ StepsSpent /\ BackupsSpent /\ NotReplayed /\ LoginsOnce
      /\ challenge \in [Challenges -> [state : {"none", "open", "gone"}, attempts : Nat]]
      /\ UNCHANGED <<enrollment, codes, secrets, codeSets, step, mfaOps>>
  BY DEF TwoFactorInv, MfaDataOK, SaveChallenge, KillChallenge, ConsumeChallenge, ExpireChallenge, stored
<1>2. ASSUME NEW c \in Challenges, NEW st \in {"open", "gone"}, challenge' = [challenge EXCEPT ![c].state = st],
             st = "open" => challenge[c].state = "none",
             \/ mfaLog' = mfaLog
             \/ /\ mfaLog' = [mfaLog EXCEPT !.logins = [mfaLog.logins EXCEPT ![c] = mfaLog.logins[c] + 1]]
                /\ challenge[c].state = "open" /\ st = "gone"
      PROVE  /\ MfaDataOK' /\ mfaLog'.checked = mfaLog.checked
             /\ \A d \in Challenges : challenge'[d].attempts = challenge[d].attempts
  <2>1. /\ challenge' \in [Challenges -> [state : {"none", "open", "gone"}, attempts : Nat]]
        /\ \A d \in Challenges : challenge'[d].attempts = challenge[d].attempts
        /\ challenge'[c].state = st /\ \A d \in Challenges \ {c} : challenge'[d].state = challenge[d].state
    BY <1>1, <1>2
  <2>2. /\ MfaLogTyped' /\ mfaLog'.checked = mfaLog.checked /\ mfaLog'.accepted = mfaLog.accepted
        /\ mfaLog'.replayed = mfaLog.replayed
        /\ \A d \in Challenges \ {c} : mfaLog'.logins[d] = mfaLog.logins[d]
        /\ \/ mfaLog'.logins[c] = mfaLog.logins[c]
           \/ mfaLog'.logins[c] = mfaLog.logins[c] + 1 /\ challenge[c].state = "open" /\ st = "gone"
    <3>1. CASE mfaLog' = mfaLog
      BY <1>1, <3>1 DEF MfaLogTyped
    <3>2. CASE /\ mfaLog' = [mfaLog EXCEPT !.logins = [mfaLog.logins EXCEPT ![c] = mfaLog.logins[c] + 1]]
               /\ challenge[c].state = "open" /\ st = "gone"
      <4>1. PICK lg : lg = [mfaLog.logins EXCEPT ![c] = mfaLog.logins[c] + 1]
        OBVIOUS
      <4>2. mfaLog.logins \in [Challenges -> Nat] /\ mfaLog.logins[c] + 1 \in Nat
        BY <1>1 DEF MfaLogTyped
      <4>3. lg \in [Challenges -> Nat] /\ lg[c] = mfaLog.logins[c] + 1 /\ \A d \in Challenges \ {c} : lg[d] = mfaLog.logins[d]
        BY <4>1, <4>2
      <4>4. mfaLog' = [mfaLog EXCEPT !.logins = lg]
        BY <3>2, <4>1
      <4> QED
        BY <1>1, <3>2, <4>3, <4>4 DEF MfaLogTyped
    <3> QED
      BY <1>2, <3>1, <3>2
  <2>3. StepsSpent' /\ BackupsSpent' /\ NotReplayed'
    BY <1>1, <2>2 DEF StepsSpent, BackupsSpent, NotReplayed
  <2>4. LoginsOnce'
    <3> SUFFICES ASSUME NEW d \in Challenges
                 PROVE  mfaLog'.logins[d] = 0 \/ (mfaLog'.logins[d] = 1 /\ challenge'[d].state = "gone")
      BY DEF LoginsOnce
    <3>1. mfaLog.logins[d] = 0 \/ (mfaLog.logins[d] = 1 /\ challenge[d].state = "gone")
      BY <1>1 DEF LoginsOnce
    <3> QED
      BY <1>2, <2>1, <2>2, <3>1
  <2>5. MfaDataOK'
    BY <1>1, <2>1, <2>2, <2>3, <2>4 DEF MfaDataOK
  <2> QED
    BY <2>1, <2>2, <2>5
<1>3. ASSUME NEW r \in MfaReqs, SaveChallenge(r) \/ KillChallenge(r) \/ ConsumeChallenge(r) PROVE TwoFactorInv'
  <2>1. mfaReq' = [mfaReq EXCEPT ![r] = MfaIdle]
    BY <1>3 DEF SaveChallenge, KillChallenge, ConsumeChallenge, MfaDone
  <2>2. \E c \in Challenges, st \in {"open", "gone"} :
          /\ challenge' = [challenge EXCEPT ![c].state = st]
          /\ st = "open" => challenge[c].state = "none"
          /\ \/ mfaLog' = mfaLog
             \/ /\ mfaLog' = [mfaLog EXCEPT !.logins = [mfaLog.logins EXCEPT ![c] = mfaLog.logins[c] + 1]]
                /\ challenge[c].state = "open" /\ st = "gone"
    <3>1. CASE SaveChallenge(r)
      BY <3>1 DEF SaveChallenge
    <3>2. CASE KillChallenge(r) \/ ConsumeChallenge(r)
      <4>1. mfaReq[r].chal \in Challenges
        BY <3>2 DEF TwoFactorInv, RequestsFit, RequestFits, MfaAt, KillChallenge, ConsumeChallenge
      <4>2. PICK c \in Challenges : c = mfaReq[r].chal
        BY <4>1
      <4>3. challenge' = [challenge EXCEPT ![c].state = "gone"]
        BY <3>2, <4>2 DEF KillChallenge, ConsumeChallenge
      <4>4. \/ mfaLog' = mfaLog
            \/ mfaLog' = [mfaLog EXCEPT !.logins = [mfaLog.logins EXCEPT ![c] = mfaLog.logins[c] + 1]]
               /\ challenge[c].state = "open"
        BY <3>2, <4>2 DEF KillChallenge, ConsumeChallenge, Consumed
      <4> QED
        BY <4>3, <4>4
    <3> QED
      BY <1>3, <3>1, <3>2
  <2>3. /\ MfaDataOK' /\ mfaLog'.checked = mfaLog.checked
        /\ \A d \in Challenges : challenge'[d].attempts = challenge[d].attempts
    BY <1>2, <2>2
  <2> QED
    BY <2>1, <2>3, MfaMoves DEF MfaIdle
<1>4. ASSUME NEW c \in Challenges, ExpireChallenge(c) PROVE TwoFactorInv'
  <2>1. challenge' = [challenge EXCEPT ![c].state = "gone"] /\ mfaLog' = mfaLog /\ mfaReq' = mfaReq
    BY <1>4 DEF ExpireChallenge
  <2>2. MfaDataOK' /\ \A d \in Challenges : challenge'[d].attempts = challenge[d].attempts
    BY <1>2, <2>1
  <2> QED
    BY <2>1, <2>2, MfaRests
<1> QED
  BY <1>3, <1>4

(* The check of a challenge's code is counted before it is made, and only  *)
(* as often as maxChallengeAttempts lets through.                          *)
LEMMA CountKeepsInv ==
  ASSUME TwoFactorInv, NEW r \in MfaReqs, CountAttempt(r)
  PROVE  TwoFactorInv'
<1> USE TwoFactorAssumption
<1>1. /\ mfaReq \in [MfaReqs -> MfaRequest \cup {MfaIdle}] /\ mfaReq[r] \in MfaRequest /\ mfaReq[r].op = "complete"
      /\ mfaReq[r].chal \in Challenges /\ mfaReq[r].pc = "attempt"
      /\ MfaDataOK /\ challenge \in [Challenges -> [state : {"none", "open", "gone"}, attempts : Nat]]
  BY DEF TwoFactorInv, RequestsFit, RequestFits, MfaDataOK, CountAttempt, MfaAt, MfaIdle
<1>2. PICK c \in Challenges : c = mfaReq[r].chal
  BY <1>1
<1>3. UNCHANGED <<enrollment, codes, secrets, codeSets, step, mfaOps, mfaLog>>
  BY DEF CountAttempt, stored
<1>4. CASE challenge[c].state # "open"
  <2>1. mfaReq' = [mfaReq EXCEPT ![r] = MfaIdle] /\ challenge' = challenge
    BY <1>2, <1>4 DEF CountAttempt, MfaDone
  <2>2. MfaDataOK'
    BY <1>1, <1>3, <2>1 DEF MfaDataOK, MfaLogTyped, StepsSpent, BackupsSpent, NotReplayed, LoginsOnce
  <2> QED
    BY <1>3, <2>1, <2>2, MfaMoves DEF MfaIdle
<1>5. CASE challenge[c].state = "open"
  <2>1. PICK n \in Nat : n = challenge[c].attempts + 1
    BY <1>1
  <2>2. PICK pc : pc = IF n > MaxAttempts2FA THEN "kill" ELSE "find"
    OBVIOUS
  <2>3. PICK q : q = [mfaReq[r] EXCEPT !.attempts = n, !.pc = pc]
    OBVIOUS
  <2>4. /\ challenge' = [challenge EXCEPT ![c].attempts = n]
        /\ mfaReq' = [mfaReq EXCEPT ![r] = q]
    BY <1>1, <1>2, <1>5, <2>1, <2>2, <2>3 DEF CountAttempt, Attempts
  <2>5. q \in MfaRequest /\ q.pc = pc /\ q.op = "complete" /\ q.chal = c /\ q \in MfaRequest \cup {MfaIdle} /\ RequestFits(q)
    BY <1>1, <1>2, <2>1, <2>2, <2>3 DEF MfaRequest, RequestFits
  <2>6. /\ challenge' \in [Challenges -> [state : {"none", "open", "gone"}, attempts : Nat]]
        /\ challenge'[c].attempts = n /\ \A d \in Challenges : challenge'[d].state = challenge[d].state
        /\ \A d \in Challenges \ {c} : challenge'[d] = challenge[d]
    BY <1>1, <2>1, <2>4
  <2>7. MfaDataOK'
    BY <1>1, <1>3, <2>6 DEF MfaDataOK, MfaLogTyped, StepsSpent, BackupsSpent, NotReplayed, LoginsOnce
  <2>8. mfaReq'[r] = q /\ \A p \in MfaReqs \ {r} : mfaReq'[p] = mfaReq[p]
    BY <1>1, <2>4
  <2>9. RequestsFit'
    <3>1. mfaReq' \in [MfaReqs -> MfaRequest \cup {MfaIdle}]
      BY <1>1, <2>4, <2>5
    <3>2. ASSUME NEW p \in MfaReqs, mfaReq'[p].pc # "idle" PROVE RequestFits(mfaReq'[p])
      BY <2>5, <2>8, <3>2 DEF TwoFactorInv, RequestsFit, MfaAt
    <3> QED
      BY <3>1, <3>2 DEF RequestsFit, MfaAt, RequestFits
  <2>10. CheckedByCount'
    <3> SUFFICES ASSUME NEW d \in Challenges
                 PROVE  /\ mfaLog.checked[d] + Cardinality(Checking(d)') <= MaxAttempts2FA
                        /\ mfaLog.checked[d] + Cardinality(Checking(d)') <= challenge'[d].attempts
      BY <1>3 DEF CheckedByCount
    <3>1. /\ mfaLog.checked[d] + Cardinality(Checking(d)) <= MaxAttempts2FA
          /\ mfaLog.checked[d] + Cardinality(Checking(d)) <= challenge[d].attempts
          /\ mfaLog.checked[d] \in Nat /\ challenge[d].attempts \in Nat
      BY <1>1 DEF TwoFactorInv, CheckedByCount, MfaDataOK, MfaLogTyped
    <3>2. Checking(d) \subseteq MfaReqs /\ IsFiniteSet(Checking(d)) /\ Cardinality(Checking(d)) \in Nat
      <4>1. Checking(d) \subseteq MfaReqs
        BY DEF Checking
      <4> QED
        BY <4>1, FS_Subset, FS_CardinalityType
    <3>3. CASE d = c /\ pc = "find"
      <4>1. r \notin Checking(d) /\ Checking(d)' = Checking(d) \cup {r}
        BY <1>1, <2>5, <2>8, <3>3 DEF Checking, Checks
      <4>2. Cardinality(Checking(d)') = Cardinality(Checking(d)) + 1
        BY <3>2, <4>1, FS_AddElement
      <4> QED
        BY <2>1, <2>2, <2>6, <3>1, <3>2, <3>3, <4>2
    <3>4. CASE ~(d = c /\ pc = "find")
      <4>1. Checking(d)' = Checking(d)
        BY <1>1, <2>2, <2>5, <2>8, <3>4 DEF Checking, Checks
      <4> QED
        BY <2>1, <2>6, <3>1, <3>2, <4>1
    <3> QED
      BY <3>3, <3>4
  <2> QED
    BY <2>7, <2>9, <2>10 DEF TwoFactorInv
<1> QED
  BY <1>4, <1>5

(* The check itself: one fewer under way, one more made.                   *)
LEMMA CheckKeepsInv ==
  ASSUME TwoFactorInv, NEW r \in MfaReqs, FindEnrollment(r)
  PROVE  TwoFactorInv'
<1> USE TwoFactorAssumption
<1>1. /\ mfaReq \in [MfaReqs -> MfaRequest \cup {MfaIdle}] /\ mfaReq[r] \in MfaRequest /\ RequestFits(mfaReq[r])
      /\ mfaReq[r].pc = "find" /\ mfaReq[r].op \in {"disable", "regenerate", "complete"}
      /\ MfaDataOK /\ MfaLogTyped /\ UNCHANGED <<enrollment, codes, secrets, codeSets, challenge, step, mfaOps>>
  BY DEF TwoFactorInv, RequestsFit, MfaDataOK, FindEnrollment, MfaAt, MfaIdle, Verifies, stored
<1>2. PICK q : /\ mfaReq' = [mfaReq EXCEPT ![r] = q] /\ q \in MfaRequest \cup {MfaIdle}
               /\ q.pc # "idle" => RequestFits(q)
               /\ q.pc # "find"
  <2>1. \/ mfaReq' = [mfaReq EXCEPT ![r] = MfaIdle]
        \/ \E pc \in {"use", "kill"} : mfaReq' = [mfaReq EXCEPT ![r].pc = pc] /\ (pc = "kill" => mfaReq[r].op = "complete")
    BY DEF FindEnrollment, MfaGoto, MfaDone, MfaIs
  <2>2. CASE mfaReq' = [mfaReq EXCEPT ![r] = MfaIdle]
    <3>1. MfaIdle.pc = "idle" /\ MfaIdle \in MfaRequest \cup {MfaIdle}
      BY DEF MfaIdle
    <3> QED
      BY <2>2, <3>1
  <2>3. ASSUME NEW pc \in {"use", "kill"}, mfaReq' = [mfaReq EXCEPT ![r].pc = pc], pc = "kill" => mfaReq[r].op = "complete"
        PROVE  \E q : /\ mfaReq' = [mfaReq EXCEPT ![r] = q] /\ q \in MfaRequest \cup {MfaIdle}
                      /\ q.pc # "idle" => RequestFits(q)
                      /\ q.pc # "find"
    <3>1. PICK q : q = [mfaReq[r] EXCEPT !.pc = pc]
      OBVIOUS
    <3>2. mfaReq' = [mfaReq EXCEPT ![r] = q]
      BY <1>1, <2>3, <3>1
    <3>3. q \in MfaRequest /\ q.pc = pc /\ q.op = mfaReq[r].op /\ q.chal = mfaReq[r].chal
      BY <1>1, <2>3, <3>1 DEF MfaRequest
    <3> QED
      BY <1>1, <2>3, <3>2, <3>3 DEF RequestFits
  <2> QED
    BY <2>1, <2>2, <2>3
<1>3. CASE mfaReq[r].op # "complete"
  <2>1. mfaLog' = mfaLog
    BY <1>3 DEF FindEnrollment, MfaIs
  <2>2. MfaDataOK'
    BY <1>1, <2>1 DEF MfaDataOK, MfaLogTyped, StepsSpent, BackupsSpent, NotReplayed, LoginsOnce
  <2> QED
    BY <1>1, <1>2, <2>1, <2>2, MfaMoves
<1>4. CASE mfaReq[r].op = "complete"
  <2>1. PICK c \in Challenges : c = mfaReq[r].chal
    BY <1>1, <1>4 DEF RequestFits
  <2>2. PICK ck : ck = [mfaLog.checked EXCEPT ![c] = mfaLog.checked[c] + 1]
    OBVIOUS
  <2>3. mfaLog' = [mfaLog EXCEPT !.checked = ck]
    BY <1>4, <2>1, <2>2 DEF FindEnrollment, MfaIs
  <2>4. ck \in [Challenges -> Nat] /\ ck[c] = mfaLog.checked[c] + 1 /\ \A d \in Challenges \ {c} : ck[d] = mfaLog.checked[d]
    BY <1>1, <2>2 DEF MfaLogTyped
  <2>5. /\ MfaLogTyped' /\ mfaLog'.checked = ck /\ mfaLog'.accepted = mfaLog.accepted
        /\ mfaLog'.replayed = mfaLog.replayed /\ mfaLog'.logins = mfaLog.logins
    BY <1>1, <2>3, <2>4 DEF MfaLogTyped
  <2>6. MfaDataOK'
    BY <1>1, <2>5 DEF MfaDataOK, StepsSpent, BackupsSpent, NotReplayed, LoginsOnce
  <2>7. mfaReq'[r] = q /\ \A p \in MfaReqs \ {r} : mfaReq'[p] = mfaReq[p]
    BY <1>1, <1>2
  <2>8. RequestsFit'
    <3>1. mfaReq' \in [MfaReqs -> MfaRequest \cup {MfaIdle}]
      BY <1>1, <1>2
    <3>2. ASSUME NEW p \in MfaReqs, mfaReq'[p].pc # "idle" PROVE RequestFits(mfaReq'[p])
      BY <1>2, <2>7, <3>2 DEF TwoFactorInv, RequestsFit, MfaAt
    <3> QED
      BY <3>1, <3>2 DEF RequestsFit, MfaAt, RequestFits
  <2>9. CheckedByCount'
    <3> SUFFICES ASSUME NEW d \in Challenges
                 PROVE  /\ ck[d] + Cardinality(Checking(d)') <= MaxAttempts2FA
                        /\ ck[d] + Cardinality(Checking(d)') <= challenge[d].attempts
      BY <1>1, <2>5 DEF CheckedByCount
    <3>1. /\ mfaLog.checked[d] + Cardinality(Checking(d)) <= MaxAttempts2FA
          /\ mfaLog.checked[d] + Cardinality(Checking(d)) <= challenge[d].attempts
          /\ mfaLog.checked[d] \in Nat /\ challenge[d].attempts \in Nat
      BY <1>1 DEF TwoFactorInv, CheckedByCount, MfaDataOK, MfaLogTyped
    <3>2. Checking(d) \subseteq MfaReqs /\ IsFiniteSet(Checking(d)) /\ Cardinality(Checking(d)) \in Nat
      <4>1. Checking(d) \subseteq MfaReqs
        BY DEF Checking
      <4> QED
        BY <4>1, FS_Subset, FS_CardinalityType
    <3>3. CASE d = c
      <4>1. r \in Checking(d) /\ Checking(d)' = Checking(d) \ {r}
        BY <1>1, <1>2, <1>4, <2>1, <2>7, <3>3 DEF Checking, Checks
      <4>2. Cardinality(Checking(d)') = Cardinality(Checking(d)) - 1
        BY <3>2, <4>1, FS_RemoveElement
      <4> QED
        BY <2>4, <3>1, <3>2, <3>3, <4>2
    <3>4. CASE d # c
      <4>1. Checking(d)' = Checking(d)
        BY <1>2, <2>1, <2>7, <3>4 DEF Checking, Checks
      <4> QED
        BY <2>4, <3>1, <3>4, <4>1
    <3> QED
      BY <3>3, <3>4
  <2> QED
    BY <2>6, <2>8, <2>9 DEF TwoFactorInv
<1> QED
  BY <1>3, <1>4

(* A code under way was checked against the secret in force or an earlier  *)
(* one, and so is never accepted by an enrollment of an earlier secret.    *)
CodeFits(q) ==
  /\ q.code.secret <= secrets
  /\ q.pc = "confirm" \/ (q.pc = "use" /\ q.code.backup = 0) =>
       enrollment.secret = 0 \/ q.code.secret <= enrollment.secret

CodesCarriedOn ==
  /\ \A r \in MfaReqs : ~MfaAt(r, "idle") => CodeFits(mfaReq[r])
  /\ \A k \in mfaLog.accepted : k.of <= k.by

(* No secret is set up or removed, and the request r moves to q.           *)
LEMMA CarriedByMove ==
  ASSUME TwoFactorInv, CodesCarriedOn, NEW r \in MfaReqs, NEW q,
         mfaReq' = [mfaReq EXCEPT ![r] = q], q.pc # "idle" => CodeFits(q),
         secrets' = secrets, enrollment'.secret = enrollment.secret,
         \A k \in mfaLog'.accepted : k \in mfaLog.accepted \/ k.of <= k.by
  PROVE  CodesCarriedOn'
<1>1. mfaReq \in [MfaReqs -> MfaRequest \cup {MfaIdle}]
  BY DEF TwoFactorInv, RequestsFit
<1>2. mfaReq'[r] = q /\ \A p \in MfaReqs \ {r} : mfaReq'[p] = mfaReq[p]
  BY <1>1
<1>3. ASSUME NEW p \in MfaReqs, mfaReq'[p].pc # "idle" PROVE CodeFits(mfaReq[p])' 
  <2>1. CodeFits(mfaReq'[p])
    BY <1>2, <1>3 DEF CodesCarriedOn, MfaAt
  <2> QED
    BY <2>1 DEF CodeFits
<1> QED
  BY <1>3 DEF CodesCarriedOn, MfaAt

(* Every step keeps it: a code is presented for a secret there is, checked *)
(* against the one in force, and a new secret is after all earlier ones.   *)
LEMMA CarriedOnKept ==
  ASSUME TwoFactorInv, CodesCarriedOn, TwoFactorNext
  PROVE  CodesCarriedOn'
<1> USE TwoFactorAssumption
<1>1. /\ mfaReq \in [MfaReqs -> MfaRequest \cup {MfaIdle}]
      /\ enrollment \in Enrollment /\ secrets \in 0..MaxSecrets /\ codeSets \in Nat /\ step \in 1..MaxStep
      /\ enrollment.secret \in Nat /\ enrollment.secret <= secrets /\ (enrollment.state # "none" => enrollment.secret # 0)
      /\ MfaLogTyped /\ NotReplayed /\ StepsSpent /\ BackupsSpent
  BY DEF TwoFactorInv, MfaDataOK, RequestsFit, StepsSpent, Enrollment
<1>2. CASE (\E c \in Challenges : ExpireChallenge(c)) \/ Tick
  BY <1>2 DEF ExpireChallenge, Tick, stored, CodesCarriedOn, CodeFits, MfaAt
<1>3. ASSUME NEW r \in MfaReqs, BeginMfa(r) PROVE CodesCarriedOn'
  <2>1. PICK q : /\ mfaReq' = [mfaReq EXCEPT ![r] = q] /\ q.pc \in {"get", "find"}
                 /\ q.code \in CodesKnown \cup {[secret |-> 0, step |-> 0, backup |-> 0]}
    <3>1. PICK op \in MfaOp :
            \E code \in IF op \in {"login", "setup"} THEN {[secret |-> 0, step |-> 0, backup |-> 0]} ELSE CodesKnown,
               c \in IF op = "complete" THEN {c \in Challenges : challenge[c].state # "none"} ELSE {NoChallenge} :
              mfaReq' = [mfaReq EXCEPT ![r] = [op |-> op, pc |-> IF op = "complete" THEN "get" ELSE "find",
                                               code |-> code, chal |-> c, attempts |-> 0]]
      BY <1>3, Zenon DEF BeginMfa
    <3>2. PICK code \in CodesKnown \cup {[secret |-> 0, step |-> 0, backup |-> 0]}, c \in Challenges \cup {NoChallenge} :
            mfaReq' = [mfaReq EXCEPT ![r] = [op |-> op, pc |-> IF op = "complete" THEN "get" ELSE "find",
                                             code |-> code, chal |-> c, attempts |-> 0]]
      BY <3>1
    <3>3. PICK pc : pc = IF op = "complete" THEN "get" ELSE "find"
      OBVIOUS
    <3>4. PICK q : q = [op |-> op, pc |-> pc, code |-> code, chal |-> c, attempts |-> 0]
      OBVIOUS
    <3>5. mfaReq' = [mfaReq EXCEPT ![r] = q]
      BY <3>2, <3>3, <3>4
    <3>6. q.pc = pc /\ q.code = code
      BY <3>4
    <3> QED
      BY <3>2, <3>3, <3>5, <3>6
  <2>2. q.code.secret <= secrets
    <3>1. CASE q.code \in {[secret |-> s, step |-> t, backup |-> 0] : s \in 0..secrets, t \in {step, step + 1}}
      BY <1>1, <3>1
    <3>2. CASE q.code \in {[secret |-> 0, step |-> 0, backup |-> b] : b \in 1..codeSets}
      BY <1>1, <3>2
    <3>3. CASE q.code = [secret |-> 0, step |-> 0, backup |-> 0]
      BY <1>1, <3>3
    <3> QED
      BY <2>1, <3>1, <3>2, <3>3 DEF CodesKnown
  <2>3. CodeFits(q)
    BY <2>1, <2>2 DEF CodeFits
  <2>4. UNCHANGED <<secrets, enrollment, mfaLog>>
    BY <1>3 DEF BeginMfa, stored
  <2> QED
    BY <2>1, <2>3, <2>4, CarriedByMove
<1>4. ASSUME NEW r \in MfaReqs, mfaReq[r].pc # "idle", NEW q, mfaReq' = [mfaReq EXCEPT ![r] = q],
             q.pc # "idle" => q.code = mfaReq[r].code,
             q.pc = "confirm" \/ (q.pc = "use" /\ q.code.backup = 0) => q.code.secret = enrollment.secret,
             secrets' = secrets, enrollment'.secret = enrollment.secret,
             \A k \in mfaLog'.accepted : k \in mfaLog.accepted \/ k.of <= k.by
      PROVE  CodesCarriedOn'
  <2>1. q.pc # "idle" => CodeFits(q)
    BY <1>1, <1>4 DEF CodesCarriedOn, MfaAt, CodeFits
  <2> QED
    BY <1>4, <2>1, CarriedByMove
<1>5. ASSUME NEW r \in MfaReqs, mfaReq[r].pc # "idle",
             NEW pc, mfaReq' = [mfaReq EXCEPT ![r] = MfaIdle] \/ mfaReq' = [mfaReq EXCEPT ![r].pc = pc],
             pc = "confirm" \/ (pc = "use" /\ mfaReq[r].code.backup = 0) => mfaReq[r].code.secret = enrollment.secret,
             secrets' = secrets, enrollment'.secret = enrollment.secret,
             \A k \in mfaLog'.accepted : k \in mfaLog.accepted \/ k.of <= k.by
      PROVE  CodesCarriedOn'
  <2>1. mfaReq[r] \in MfaRequest
    BY <1>1, <1>5 DEF MfaIdle
  <2>2. CASE mfaReq' = [mfaReq EXCEPT ![r] = MfaIdle]
    <3>1. MfaIdle.pc = "idle"
      BY DEF MfaIdle
    <3> QED
      BY <1>4, <1>5, <2>2, <3>1
  <2>3. CASE mfaReq' = [mfaReq EXCEPT ![r].pc = pc]
    <3>1. PICK q : q = [mfaReq[r] EXCEPT !.pc = pc]
      OBVIOUS
    <3>2. q.pc = pc /\ q.code = mfaReq[r].code /\ mfaReq' = [mfaReq EXCEPT ![r] = q]
      BY <1>1, <2>1, <2>3, <3>1 DEF MfaRequest
    <3> QED
      BY <1>4, <1>5, <3>2
  <2> QED
    BY <1>5, <2>2, <2>3
<1>6. ASSUME NEW r \in MfaReqs,
             \/ MfaFails(r) \/ StartTwoFactor(r) \/ SaveChallenge(r) \/ SetupFind(r) \/ ConfirmFind(r)
             \/ FindEnrollment(r) \/ ReplaceBackupCodes(r) \/ GetChallenge(r) \/ KillChallenge(r) \/ ConsumeChallenge(r)
      PROVE  CodesCarriedOn'
  <2>1. /\ mfaReq[r].pc # "idle" /\ secrets' = secrets /\ enrollment' = enrollment
        /\ \/ mfaReq' = [mfaReq EXCEPT ![r] = MfaIdle]
           \/ \E pc \in {"challenge", "save", "confirm", "use", "kill", "attempt"} :
                /\ mfaReq' = [mfaReq EXCEPT ![r].pc = pc]
                /\ pc = "confirm" \/ (pc = "use" /\ mfaReq[r].code.backup = 0) => mfaReq[r].code.secret = enrollment.secret
    BY <1>6 DEF MfaFails, StartTwoFactor, SaveChallenge, SetupFind, ConfirmFind, FindEnrollment, ReplaceBackupCodes,
                GetChallenge, KillChallenge, ConsumeChallenge, MfaGoto, MfaDone, MfaAt, CheckTOTP, stored
  <2>2. mfaLog'.accepted = mfaLog.accepted
    <3>1. CASE mfaLog' = mfaLog
      BY <3>1
    <3>2. CASE mfaLog' # mfaLog
      BY <1>1, <1>6, <3>2 DEF MfaFails, StartTwoFactor, SaveChallenge, SetupFind, ConfirmFind, FindEnrollment,
                              ReplaceBackupCodes, GetChallenge, KillChallenge, ConsumeChallenge, MfaLogTyped
    <3> QED
      BY <3>1, <3>2
  <2> QED
    BY <1>5, <2>1, <2>2
<1>7. ASSUME NEW r \in MfaReqs, CountAttempt(r) PROVE CodesCarriedOn'
  <2>1. mfaReq[r].pc = "attempt" /\ mfaReq[r] \in MfaRequest /\ UNCHANGED <<secrets, enrollment, mfaLog>>
    BY <1>1, <1>7 DEF CountAttempt, MfaAt, MfaIdle, stored
  <2>2. CASE mfaReq' = [mfaReq EXCEPT ![r] = MfaIdle]
    BY <1>5, <2>1, <2>2
  <2>3. CASE mfaReq' # [mfaReq EXCEPT ![r] = MfaIdle]
    <3>1. PICK n, pc : /\ pc \in {"kill", "find"}
                       /\ mfaReq' = [mfaReq EXCEPT ![r].attempts = n, ![r].pc = pc]
      BY <1>7, <2>3 DEF CountAttempt, MfaDone
    <3>2. PICK q : q = [mfaReq[r] EXCEPT !.attempts = n, !.pc = pc]
      OBVIOUS
    <3>3. q.pc = pc /\ q.code = mfaReq[r].code /\ mfaReq' = [mfaReq EXCEPT ![r] = q]
      BY <1>1, <2>1, <3>1, <3>2 DEF MfaRequest
    <3> QED
      BY <1>4, <2>1, <3>1, <3>3
  <2> QED
    BY <2>2, <2>3
<1>8. ASSUME NEW r \in MfaReqs, UseBackupCode(r) PROVE CodesCarriedOn'
  <2>1. /\ mfaReq[r].pc = "use" /\ mfaReq[r].code.backup # 0 /\ UNCHANGED <<secrets, enrollment>>
        /\ \/ mfaReq' = [mfaReq EXCEPT ![r] = MfaIdle]
           \/ \E pc \in {"delete", "replace", "consume", "kill"} : mfaReq' = [mfaReq EXCEPT ![r].pc = pc]
        /\ \/ mfaLog' = mfaLog
           \/ mfaReq[r].code.backup \in codes /\ mfaLog' = Accepted(0, 0, mfaReq[r].code.backup)
    <3>1. mfaReq[r].op \in {"disable", "regenerate", "complete"}
      BY <1>8 DEF UseBackupCode, TwoFactorInv, RequestsFit, RequestFits, MfaAt
    <3> QED
      BY <1>8, <3>1 DEF UseBackupCode, MfaAt, MfaIs, MfaGoto, MfaDone, AfterUse
  <2>2. \A k \in mfaLog'.accepted : k \in mfaLog.accepted \/ k.of <= k.by
    <3>1. CASE mfaLog' = mfaLog
      BY <3>1
    <3>2. CASE mfaReq[r].code.backup \in codes /\ mfaLog' = Accepted(0, 0, mfaReq[r].code.backup)
      <4>1. PICK n \in Nat : n = mfaReq[r].code.backup
        BY <3>2 DEF TwoFactorInv, MfaDataOK
      <4>2. ~Taken(0, n)
        BY <1>1, <3>2, <4>1 DEF BackupsSpent, Taken
      <4> QED
        BY <1>1, <3>2, <4>1, <4>2, AcceptedFirst
    <3> QED
      BY <2>1, <3>1, <3>2
  <2> QED
    BY <1>5, <2>1, <2>2
<1>9. ASSUME NEW r \in MfaReqs, Confirm(r) \/ UseStep(r) PROVE CodesCarriedOn'
  <2>1. /\ mfaReq[r].pc = "confirm" \/ (mfaReq[r].pc = "use" /\ mfaReq[r].code.backup = 0)
        /\ secrets' = secrets /\ mfaReq[r] \in MfaRequest /\ mfaReq[r].code \in Code
    BY <1>1, <1>9 DEF Confirm, UseStep, MfaAt, MfaIdle, stored, MfaRequest
  <2>2. enrollment'.secret = enrollment.secret
    BY <1>1, <1>9 DEF Confirm, UseStep, stored, Enrollment
  <2>3. \/ mfaReq' = [mfaReq EXCEPT ![r] = MfaIdle]
        \/ \E pc \in {"delete", "replace", "consume", "kill"} : mfaReq' = [mfaReq EXCEPT ![r].pc = pc]
    <3>1. mfaReq[r].op \in {"disable", "regenerate", "complete"} \/ Confirm(r)
      BY <1>9 DEF UseStep, TwoFactorInv, RequestsFit, RequestFits, MfaAt
    <3> QED
      BY <1>9, <3>1 DEF Confirm, UseStep, MfaIs, MfaGoto, MfaDone, AfterUse
  <2>4. \A k \in mfaLog'.accepted : k \in mfaLog.accepted \/ k.of <= k.by
    <3>1. CASE mfaLog' = mfaLog
      BY <3>1
    <3>2. CASE mfaLog' # mfaLog
      <4>1. PICK e \in Nat, s \in Nat, n \in Nat :
              e = enrollment.secret /\ s = mfaReq[r].code.secret /\ n = mfaReq[r].code.step
        BY <1>1, <2>1 DEF Code
      <4>2. mfaLog' = Accepted(e, s, n) /\ enrollment.last < n /\ e # 0
        BY <1>1, <1>9, <3>2, <4>1 DEF Confirm, UseStep, Fresh
      <4>3. s <= e
        BY <2>1, <4>1, <4>2 DEF CodesCarriedOn, CodeFits, MfaAt
      <4>4. ~Taken(e, n)
        <5>1. enrollment.last \in Nat
          BY <1>1 DEF Enrollment
        <5>2. ASSUME NEW k \in mfaLog.accepted, k.by = e, k.mark = n PROVE FALSE
          BY <1>1, <4>1, <4>2, <5>1, <5>2 DEF StepsSpent
        <5> QED
          BY <5>2 DEF Taken
      <4>5. \A k \in mfaLog'.accepted : k \in mfaLog.accepted \/ (k.by = e /\ k.of = s /\ k.mark = n)
        BY <1>1, <4>2, <4>4, AcceptedFirst
      <4> QED
        BY <4>3, <4>5
    <3> QED
      BY <3>1, <3>2
  <2> QED
    BY <1>5, <2>1, <2>2, <2>3, <2>4
<1>10. ASSUME NEW r \in MfaReqs, SavePending(r) \/ DeleteEnrollment(r) PROVE CodesCarriedOn'
  <2>1. /\ mfaReq[r].pc # "idle" /\ mfaReq' = [mfaReq EXCEPT ![r] = MfaIdle] /\ mfaLog' = mfaLog
        /\ \/ UNCHANGED <<secrets, enrollment>>
           \/ secrets' = secrets + 1 /\ enrollment'.secret = secrets + 1
           \/ secrets' = secrets /\ enrollment'.secret = 0
    BY <1>10 DEF SavePending, DeleteEnrollment, MfaDone, MfaAt, NotEnrolled, stored
  <2>2. CASE UNCHANGED <<secrets, enrollment>>
    BY <1>5, <2>1, <2>2
  <2>3. CASE ~UNCHANGED <<secrets, enrollment>>
    <3>1. MfaIdle.pc = "idle"
      BY DEF MfaIdle
    <3>2. mfaReq'[r] = MfaIdle /\ \A p \in MfaReqs \ {r} : mfaReq'[p] = mfaReq[p]
      BY <1>1, <2>1
    <3>3. ASSUME NEW p \in MfaReqs, mfaReq'[p].pc # "idle" PROVE CodeFits(mfaReq[p])'
      <4>1. mfaReq'[p] = mfaReq[p] /\ mfaReq[p].code.secret <= secrets /\ mfaReq[p].code.secret \in Nat
        BY <1>1, <3>1, <3>2, <3>3 DEF CodesCarriedOn, CodeFits, MfaAt, MfaRequest, MfaIdle, Code
      <4> QED
        BY <1>1, <2>1, <2>3, <4>1 DEF CodeFits
    <3> QED
      BY <2>1, <3>3 DEF CodesCarriedOn, MfaAt
  <2> QED
    BY <2>2, <2>3
<1> QED
  BY <1>2, <1>3, <1>6, <1>7, <1>8, <1>9, <1>10, Zenon DEF TwoFactorNext

(* Every step of the component keeps the invariant.                        *)
LEMMA TwoFactorNextInv == TwoFactorInv /\ [TwoFactorNext]_twoFactorVars => TwoFactorInv'
<1> SUFFICES ASSUME TwoFactorInv, [TwoFactorNext]_twoFactorVars PROVE TwoFactorInv'
  OBVIOUS
<1> USE TwoFactorAssumption
<1>1. CASE UNCHANGED twoFactorVars \/ Tick
  <2>1. UNCHANGED <<enrollment, codes, secrets, codeSets, challenge, mfaReq, mfaOps, mfaLog>> /\ step' \in 1..MaxStep
    BY <1>1 DEF twoFactorVars, Tick, stored, TwoFactorInv, MfaDataOK
  <2>2. MfaDataOK'
    BY <2>1 DEF TwoFactorInv, MfaDataOK, MfaLogTyped, StepsSpent, BackupsSpent, NotReplayed, LoginsOnce
  <2> QED
    BY <2>1, <2>2, MfaRests
<1> QED
  BY <1>1, MfaReadsKeepInv, CodesKeepInv, ChallengesKeepInv, CountKeepsInv, CheckKeepsInv, Zenon DEF TwoFactorNext

(* No enrollment accepts two codes of one time step, no backup code is     *)
(* accepted twice, a code is never accepted by an enrollment of an earlier *)
(* secret than it was checked against, and a challenge checks at most      *)
(* maxChallengeAttempts codes and signs in once, however many requests     *)
(* present them at once (UseStep, Confirm, UseBackupCode, Store.Attempt,   *)
(* Store.Consume).                                                         *)
THEOREM CodesAreSpentOnce == TwoFactorSpec => []TwoFactorInvariant
<1> USE TwoFactorAssumption
<1>1. TwoFactorInv /\ CodesCarriedOn => TwoFactorInvariant
  <2> SUFFICES ASSUME TwoFactorInv, CodesCarriedOn PROVE TwoFactorInvariant
    OBVIOUS
  <2>1. TwoFactorTypeOK
    BY DEF TwoFactorInv, MfaDataOK, MfaLogTyped, RequestsFit, TwoFactorTypeOK
  <2>2. ASSUME NEW c \in Challenges PROVE mfaLog.checked[c] <= MaxAttempts2FA /\ mfaLog.logins[c] <= 1
    <3>1. mfaLog.checked[c] \in Nat /\ mfaLog.checked[c] + Cardinality(Checking(c)) <= MaxAttempts2FA
      BY DEF TwoFactorInv, MfaDataOK, MfaLogTyped, CheckedByCount
    <3>2. Cardinality(Checking(c)) \in Nat
      <4>1. Checking(c) \subseteq MfaReqs
        BY DEF Checking
      <4> QED
        BY <4>1, FS_Subset, FS_CardinalityType
    <3>3. mfaLog.logins[c] <= 1
      BY DEF TwoFactorInv, MfaDataOK, LoginsOnce
    <3> QED
      BY <3>1, <3>2, <3>3
  <2> QED
    BY <2>1, <2>2 DEF TwoFactorInvariant, CodeAcceptedOnce, CodesCarriedOn, NotReplayed, ChallengeSpentOnce,
                      TwoFactorInv, MfaDataOK
<1>2. TwoFactorInit => CodesCarriedOn
  BY DEF TwoFactorInit, CodesCarriedOn, MfaAt, MfaIdle
<1>3. TwoFactorInv /\ CodesCarriedOn /\ [TwoFactorNext]_twoFactorVars => CodesCarriedOn'
  <2>1. CASE TwoFactorNext
    BY <2>1, CarriedOnKept
  <2>2. CASE UNCHANGED twoFactorVars
    BY <2>2 DEF twoFactorVars, CodesCarriedOn, CodeFits, MfaAt
  <2> QED
    BY <2>1, <2>2
<1> QED
  BY <1>1, <1>2, <1>3, TwoFactorInitInv, TwoFactorNextInv, PTL DEF TwoFactorSpec

-----------------------------------------------------------------------------
(* Sessions.  That a reset ends the older sign-ins needs that a sign-in    *)
(* under way, and the session a rotation started from, are marked when a   *)
(* reset completes.  That a sign-in has one usable token needs that all    *)
(* but one of the live tokens of a family are about to be replaced.  The   *)
(* bound on guesses counts who is past the lock check and who is about to  *)
(* set the lock.                                                           *)

PasswordInForce == (active => password = issued) /\ ended <= issued

(* What is known of an open request d.                                     *)
SignInFits(d) ==
  /\ d.gen <= issued
  /\ d.pc \in {"passed", "issue"} /\ d.gen < ended => d.old = TRUE
  /\ d.op \in {"refresh", "logout"} => d.sid \in SessionIDs /\ session[d.sid].state # "none"
  /\ d.pc \in {"create", "replace", "family"} => d.op = "refresh"
  /\ d.pc = "revoke" => d.op = "logout"
  /\ d.op = "refresh" /\ d.pc \in {"user", "create"} /\ session[d.sid].pw < ended =>
       session[d.sid].late = TRUE \/ d.old = TRUE

SignInsFit == \A r \in AuthReqs : authReq[r] # AuthIdle => SignInFits(authReq[r])

FamiliesBegun == \A s \in SessionIDs : session[s].state # "none" => session[session[s].family].state # "none"

RotatingFrom == {s \in SessionIDs : Rotating(s)}

OneUsable ==
  \A f \in SessionIDs \ forked : \A x, y \in LiveIn(f) : x \notin RotatingFrom /\ y \notin RotatingFrom => x = y

PastCheck == {r \in AuthReqs : At(r, "failed") \/ (At(r, "find") /\ Is(r, "login"))}
Locking == {r \in AuthReqs : At(r, "lock")}

GuessesFit ==
  /\ ~redisUp => guesses = 0
  /\ ~locked => guesses <= fails /\ guesses <= MaxFailures - 1 + Cardinality(Locking)
  /\ locked => guesses + Cardinality(PastCheck) <= MaxFailures - 1 + Cardinality(AuthReqs)

SessionsInv ==
  /\ SessionsTypeOK /\ PasswordInForce /\ SignInsFit /\ ResetEndsSessions
  /\ FamiliesBegun /\ OneUsable /\ GuessesFit

LEMMA AuthIdleIsAlone ==
  ASSUME SessionsTypeOK
  PROVE  /\ \A d \in AuthRequest : d # AuthIdle /\ d.pc # "idle"
         /\ AuthIdle.pc = "idle"
         /\ \A r \in AuthReqs : (authReq[r] = AuthIdle <=> At(r, "idle")) /\ (~At(r, "idle") => authReq[r] \in AuthRequest)
<1>1. \A d \in AuthRequest : d.pc # "idle"
  BY DEF AuthRequest
<1>2. AuthIdle.pc = "idle"
  BY DEF AuthIdle
<1> QED
  BY <1>1, <1>2 DEF SessionsTypeOK, At

LEMMA SessionsInitInv == SessionsInit => SessionsInv
<1> SUFFICES ASSUME SessionsInit PROVE SessionsInv
  OBVIOUS
<1> USE SessionsAssumption
<1>1. PICK s0 \in SessionIDs :
       session = [s \in SessionIDs |-> [state |-> IF s = s0 THEN "live" ELSE "none",
                                        expired |-> FALSE, family |-> s, pw |-> 0, late |-> FALSE]]
  BY DEF SessionsInit
<1>2. \A s \in SessionIDs : session[s].family = s /\ session[s].pw = 0
  BY <1>1
<1>3. session \in [SessionIDs -> SessionRow]
  BY <1>1 DEF SessionRow
<1>4. SessionsTypeOK
  <2>1. reset \in [ResetIDs -> {"none", "pending", "used", "expired", "pruned"}] /\ forked \subseteq SessionIDs
        /\ authReq \in [AuthReqs -> AuthRequest \cup {AuthIdle}]
    BY DEF SessionsInit
  <2>2. password \in (0..MaxPasswords) \cup {ErasedPassword} /\ {issued, ended} \subseteq 0..MaxPasswords /\ authOps \in 0..MaxAuthOps
    BY DEF SessionsInit
  <2>3. {fails, guesses} \subseteq Nat
    BY DEF SessionsInit
  <2>4. {active, locked, redisUp} \subseteq BOOLEAN
    BY DEF SessionsInit
  <2> QED
    BY <1>3, <2>1, <2>2, <2>3, <2>4 DEF SessionsTypeOK
<1>5. PasswordInForce /\ SignInsFit
  BY DEF SessionsInit, PasswordInForce, SignInsFit
<1>6. ResetEndsSessions
  BY <1>2 DEF SessionsInit, ResetEndsSessions
<1>7. FamiliesBegun /\ OneUsable
  BY <1>2 DEF FamiliesBegun, OneUsable, LiveIn
<1>8. GuessesFit
  <2>1. Locking = {}
    BY DEF SessionsInit, Locking, At, AuthIdle
  <2>2. ~locked /\ redisUp
    BY DEF SessionsInit
  <2>3. guesses <= fails /\ guesses <= MaxFailures - 1
    BY DEF SessionsInit
  <2> QED
    BY <2>1, <2>2, <2>3, FS_EmptySet DEF GuessesFit
<1> QED
  BY <1>4, <1>5, <1>6, <1>7, <1>8 DEF SessionsInv

(* No session that exists is taken for another.                            *)
RowsKept ==
  \A s \in SessionIDs : session[s].state # "none" =>
    /\ session'[s].state # "none" /\ session'[s].family = session[s].family
    /\ session'[s].pw = session[s].pw /\ session'[s].late = session[s].late

(* No session is created and none revived.                                 *)
NoneBorn ==
  \A s \in SessionIDs : /\ session'[s].state = "live" => session[s].state = "live"
                        /\ session[s].state = "none" => session'[s].state = "none"

LEMMA SignInGoesOn ==
  ASSUME SessionsInv, NEW d \in AuthRequest, SignInFits(d), RowsKept, ended' = ended, issued' \in Nat, issued <= issued'
  PROVE  SignInFits(d)'
<1>1. issued \in Nat /\ d.gen \in Nat
  BY SessionsAssumption DEF SessionsInv, SessionsTypeOK, AuthRequest
<1>2. d.gen <= issued'
  BY <1>1 DEF SignInFits
<1>3. d.op \in {"refresh", "logout"} => /\ d.sid \in SessionIDs /\ session'[d.sid].state # "none"
                                        /\ session'[d.sid].pw = session[d.sid].pw /\ session'[d.sid].late = session[d.sid].late
  BY DEF SignInFits, RowsKept
<1> QED
  BY <1>2, <1>3 DEF SignInFits

(* A rotation ends with the old session revoked, or leaves its family      *)
(* forked.                                                                 *)
RotationsEnd ==
  \A s \in SessionIDs : Rotating(s) /\ ~Rotating(s)' => session'[s].state # "live" \/ session[s].family \in forked'

LEMMA SessionsStay ==
  ASSUME SessionsInv, session' \in [SessionIDs -> SessionRow], RowsKept, NoneBorn, RotationsEnd, forked \subseteq forked', ended' = ended
  PROVE  ResetEndsSessions' /\ FamiliesBegun' /\ OneUsable'
<1>1. session \in [SessionIDs -> SessionRow]
  BY DEF SessionsInv, SessionsTypeOK
<1>2. ResetEndsSessions'
  BY DEF SessionsInv, ResetEndsSessions, RowsKept, NoneBorn
<1>3. FamiliesBegun'
  <2> SUFFICES ASSUME NEW s \in SessionIDs, session'[s].state # "none" PROVE session'[session'[s].family].state # "none"
    BY DEF FamiliesBegun
  <2>1. session[s].state # "none" /\ session[s].family \in SessionIDs /\ session'[s].family = session[s].family
    BY <1>1 DEF NoneBorn, RowsKept, SessionRow
  <2> QED
    BY <2>1 DEF SessionsInv, FamiliesBegun, RowsKept
<1>4. OneUsable'
  <2> SUFFICES ASSUME NEW f \in SessionIDs, f \notin forked', NEW x \in LiveIn(f)', NEW y \in LiveIn(f)',
                      x \notin RotatingFrom', y \notin RotatingFrom'
               PROVE  x = y
    BY DEF OneUsable
  <2>1. \A z \in LiveIn(f)' : z \in LiveIn(f)
    BY DEF LiveIn, NoneBorn, RowsKept
  <2>2. \A z \in LiveIn(f)' : z \notin RotatingFrom' => z \notin RotatingFrom
    <3> SUFFICES ASSUME NEW z \in LiveIn(f)', z \notin RotatingFrom', z \in RotatingFrom PROVE FALSE
      OBVIOUS
    <3>1. z \in SessionIDs /\ session'[z].state = "live" /\ session[z].family = f
      BY <2>1 DEF LiveIn
    <3>2. Rotating(z) /\ ~Rotating(z)'
      BY <3>1 DEF RotatingFrom
    <3> QED
      BY <3>1, <3>2 DEF RotationsEnd
  <2>3. f \notin forked
    OBVIOUS
  <2> QED
    BY <2>1, <2>2, <2>3 DEF SessionsInv, OneUsable
<1> QED
  BY <1>2, <1>3, <1>4

(* Everything but the types and the lockout.                               *)
SessionsCore == PasswordInForce /\ SignInsFit /\ ResetEndsSessions /\ FamiliesBegun /\ OneUsable

LEMMA RequestStepInv ==
  ASSUME SessionsInv, NEW r \in AuthReqs, NEW d \in AuthRequest \cup {AuthIdle}, authReq' = [authReq EXCEPT ![r] = d],
         session' \in [SessionIDs -> SessionRow], RowsKept, NoneBorn, ended' = ended, issued' \in Nat, issued <= issued',
         PasswordInForce', forked \subseteq forked', d # AuthIdle => SignInFits(d)',
         At(r, "replace") => session'[authReq[r].sid].state # "live" \/ session[authReq[r].sid].family \in forked'
  PROVE  SessionsCore'
<1>1. /\ authReq \in [AuthReqs -> AuthRequest \cup {AuthIdle}]
      /\ authReq'[r] = d /\ \A q \in AuthReqs \ {r} : authReq'[q] = authReq[q]
  BY DEF SessionsInv, SessionsTypeOK
<1>2. SignInsFit'
  <2> SUFFICES ASSUME NEW q \in AuthReqs, authReq'[q] # AuthIdle PROVE SignInFits(authReq[q])'
    BY DEF SignInsFit
  <2>1. PICK e : e = authReq'[q]
    OBVIOUS
  <2>2. CASE q = r
    <3>1. e = d
      BY <1>1, <2>1, <2>2
    <3>2. SignInFits(e)'
      BY <2>1, <3>1
    <3> QED
      BY <2>1, <3>2
  <2>3. CASE q # r
    <3>1. e = authReq[q] /\ e \in AuthRequest /\ SignInFits(e)
      BY <1>1, <2>1, <2>3 DEF SessionsInv, SignInsFit
    <3>2. SignInFits(e)'
      BY <3>1, SignInGoesOn
    <3> QED
      BY <2>1, <3>2
  <2> QED
    BY <2>2, <2>3
<1>3. RotationsEnd
  <2> SUFFICES ASSUME NEW s \in SessionIDs, Rotating(s), ~Rotating(s)'
               PROVE  session'[s].state # "live" \/ session[s].family \in forked'
    BY DEF RotationsEnd
  <2>1. PICK q \in AuthReqs : At(q, "replace") /\ authReq[q].sid = s
    BY DEF Rotating
  <2>2. q = r
    BY <1>1, <2>1 DEF Rotating, At
  <2> QED
    BY <2>1, <2>2
<1>4. ResetEndsSessions' /\ FamiliesBegun' /\ OneUsable'
  BY <1>3, SessionsStay
<1> QED
  BY <1>2, <1>4 DEF SessionsCore

LEMMA SessionsUnchanged ==
  ASSUME SessionsInv, session' = session
  PROVE  RowsKept /\ NoneBorn /\ session' \in [SessionIDs -> SessionRow]
BY DEF RowsKept, NoneBorn, SessionsInv, SessionsTypeOK

(* The lockout counts are not disturbed by a request that is not about to  *)
(* lock and does not get past the check.                                   *)
LEMMA LockoutStays ==
  ASSUME SessionsInv, fails' = fails, locked' = locked, redisUp' = redisUp, guesses' = guesses,
         Locking \subseteq Locking', PastCheck' \subseteq PastCheck
  PROVE  GuessesFit'
<1>1. IsFiniteSet(Locking') /\ IsFiniteSet(PastCheck) /\ IsFiniteSet(Locking) /\ IsFiniteSet(PastCheck')
  <2>1. Locking' \subseteq AuthReqs /\ PastCheck \subseteq AuthReqs /\ Locking \subseteq AuthReqs /\ PastCheck' \subseteq AuthReqs
    BY DEF Locking, PastCheck
  <2> QED
    BY <2>1, SessionsAssumption, FS_Subset
<1>2. Cardinality(Locking) <= Cardinality(Locking') /\ Cardinality(PastCheck') <= Cardinality(PastCheck)
  BY <1>1, FS_Subset
<1>3. /\ Cardinality(Locking) \in Nat /\ Cardinality(Locking') \in Nat /\ Cardinality(PastCheck) \in Nat /\ Cardinality(PastCheck') \in Nat
      /\ Cardinality(AuthReqs) \in Nat /\ guesses \in Nat /\ fails \in Nat /\ MaxFailures \in Nat
  BY <1>1, SessionsAssumption, FS_CardinalityType DEF SessionsInv, SessionsTypeOK
<1> QED
  BY <1>2, <1>3 DEF SessionsInv, GuessesFit

LEMMA LockoutIdles ==
  ASSUME SessionsInv, NEW r \in AuthReqs, NEW d \in AuthRequest \cup {AuthIdle}, authReq' = [authReq EXCEPT ![r] = d],
         fails' = fails, locked' = locked, redisUp' = redisUp, guesses' = guesses,
         ~At(r, "lock"), d.pc \notin {"find", "failed"} \/ (d.pc = "find" /\ d.op # "login") \/ r \in PastCheck
  PROVE  GuessesFit'
<1>1. /\ authReq'[r] = d /\ \A q \in AuthReqs \ {r} : authReq'[q] = authReq[q]
  BY DEF SessionsInv, SessionsTypeOK
<1>2. Locking \subseteq Locking'
  BY <1>1 DEF Locking, At
<1>3. PastCheck' \subseteq PastCheck
  BY <1>1 DEF PastCheck, At, Is
<1> QED
  BY <1>2, <1>3, LockoutStays

LEMMA QuietStepInv ==
  ASSUME SessionsInv, NEW r \in AuthReqs, NEW d \in AuthRequest \cup {AuthIdle}, authReq' = [authReq EXCEPT ![r] = d],
         UNCHANGED <<session, credentials, lockout, ended, forked>>,
         reset' \in [ResetIDs -> {"none", "pending", "used", "expired", "pruned"}], authOps' \in 0..MaxAuthOps,
         d # AuthIdle => SignInFits(d), ~At(r, "replace"), ~At(r, "lock"),
         d.pc \notin {"find", "failed"} \/ (d.pc = "find" /\ d.op # "login") \/ r \in PastCheck
  PROVE  SessionsInv'
<1>1. /\ session' = session /\ password' = password /\ issued' = issued /\ active' = active /\ fails' = fails /\ locked' = locked
      /\ redisUp' = redisUp /\ guesses' = guesses /\ ended' = ended /\ forked' = forked
  BY DEF credentials, lockout
<1>2. SessionsTypeOK'
  BY <1>1 DEF SessionsInv, SessionsTypeOK
<1>3. GuessesFit'
  BY <1>1, LockoutIdles
<1>4. RowsKept /\ NoneBorn /\ session' \in [SessionIDs -> SessionRow]
  BY <1>1, SessionsUnchanged
<1>5. issued' \in Nat /\ issued <= issued' /\ PasswordInForce'
  BY <1>1, SessionsAssumption DEF SessionsInv, SessionsTypeOK, PasswordInForce
<1>6. d # AuthIdle => SignInFits(d)'
  BY <1>1 DEF SignInFits
<1>7. SessionsCore'
  BY <1>1, <1>4, <1>5, <1>6, RequestStepInv
<1> QED
  BY <1>2, <1>3, <1>7 DEF SessionsInv, SessionsCore

(* A request that goes on to a step that asks nothing of it.               *)
LEMMA GotoFits ==
  ASSUME NEW b \in AuthRequest, SignInFits(b), NEW x,
         x \in {"check", "find", "failed", "lock", "token", "forget", "commit", "password", "spend", "all"}
  PROVE  LET d == [b EXCEPT !.pc = x] IN d \in AuthRequest /\ SignInFits(d) /\ d.pc = x /\ d.op = b.op
<1>1. PICK d : d = [b EXCEPT !.pc = x]
  OBVIOUS
<1>2. /\ d \in AuthRequest /\ d.pc = x /\ d.op = b.op /\ d.gen = b.gen /\ d.sid = b.sid /\ d.old = b.old
  BY <1>1 DEF AuthRequest
<1>3. SignInFits(d)
  BY <1>2 DEF SignInFits
<1> QED
  BY <1>1, <1>2, <1>3

LEMMA AuthIsKnown ==
  ASSUME SessionsInv, NEW r \in AuthReqs, ~At(r, "idle")
  PROVE  authReq[r] \in AuthRequest /\ SignInFits(authReq[r])
BY AuthIdleIsAlone DEF SessionsInv, SignInsFit

LEMMA DoneQuietlyInv ==
  ASSUME SessionsInv, NEW r \in AuthReqs, Done(r), UNCHANGED <<session, credentials, lockout, authOps, ended, forked>>,
         reset' \in [ResetIDs -> {"none", "pending", "used", "expired", "pruned"}], ~At(r, "replace"), ~At(r, "lock")
  PROVE  SessionsInv'
<1>1. AuthIdle.pc \notin {"find", "failed"} /\ authOps' \in 0..MaxAuthOps
  BY DEF AuthIdle, SessionsInv, SessionsTypeOK
<1> QED
  BY <1>1, QuietStepInv DEF Done

LEMMA GotoQuietlyInv ==
  ASSUME SessionsInv, NEW r \in AuthReqs, NEW x, Goto(r, x), UNCHANGED <<session, credentials, lockout, authOps, ended, forked>>,
         x \in {"failed", "token", "forget", "commit", "password", "spend", "all"}, ~At(r, "idle"),
         reset' \in [ResetIDs -> {"none", "pending", "used", "expired", "pruned"}], ~At(r, "replace"), ~At(r, "lock"),
         x = "failed" => r \in PastCheck
  PROVE  SessionsInv'
<1>1. PICK b : b = authReq[r]
  OBVIOUS
<1>2. b \in AuthRequest /\ SignInFits(b)
  BY <1>1, AuthIsKnown
<1>3. PICK d : d = [b EXCEPT !.pc = x]
  OBVIOUS
<1>4. d \in AuthRequest /\ SignInFits(d) /\ d.pc = x /\ d.op = b.op
  BY <1>2, <1>3, GotoFits
<1>5. authReq' = [authReq EXCEPT ![r] = d]
  BY <1>1, <1>2, <1>3 DEF Goto, SessionsInv, SessionsTypeOK, AuthRequest
<1>6. authOps' \in 0..MaxAuthOps
  BY DEF SessionsInv, SessionsTypeOK
<1> QED
  BY <1>4, <1>5, <1>6, QuietStepInv

LEMMA ResetUnchanged ==
  ASSUME SessionsInv, reset' = reset
  PROVE  reset' \in [ResetIDs -> {"none", "pending", "used", "expired", "pruned"}]
BY DEF SessionsInv, SessionsTypeOK

LEMMA BeginAuthInv ==
  ASSUME SessionsInv, NEW r \in AuthReqs, BeginAuth(r)
  PROVE  SessionsInv'
<1> USE SessionsAssumption
<1>1. At(r, "idle") /\ UNCHANGED <<session, reset, credentials, lockout, ended, forked>>
  BY DEF BeginAuth
<1>0. PICK op \in AuthOp : \E cred \in Creds(op), s \in Tokens(op), k \in Links(op), all \in Revokes(op) :
       authReq' = [authReq EXCEPT ![r] =
         [op |-> op, cred |-> cred, sid |-> s, new |-> NoID, tok |-> k, spent |-> {}, gen |-> 0,
          all |-> all, old |-> FALSE,
          pc |-> CASE op = "login" -> "check" [] op \in {"refresh", "logout", "reset"} -> "token"
                   [] op \in {"forgot", "admin_reset"} -> "user" [] op = "change" -> "find"]]
  BY Zenon DEF BeginAuth
<1>2. PICK cred \in Creds(op), s \in Tokens(op), k \in Links(op), all \in Revokes(op) :
       authReq' = [authReq EXCEPT ![r] =
         [op |-> op, cred |-> cred, sid |-> s, new |-> NoID, tok |-> k, spent |-> {}, gen |-> 0,
          all |-> all, old |-> FALSE,
          pc |-> CASE op = "login" -> "check" [] op \in {"refresh", "logout", "reset"} -> "token"
                   [] op \in {"forgot", "admin_reset"} -> "user" [] op = "change" -> "find"]]
  BY <1>0, Zenon
<1>3. PICK x : x = CASE op = "login" -> "check" [] op \in {"refresh", "logout", "reset"} -> "token"
                     [] op \in {"forgot", "admin_reset"} -> "user" [] op = "change" -> "find"
  OBVIOUS
<1>4. /\ op = "login" => x = "check"
      /\ op \in {"refresh", "logout", "reset"} => x = "token"
      /\ op \in {"forgot", "admin_reset"} => x = "user"
      /\ op = "change" => x = "find"
  BY <1>3
<1>5. op \in {"login", "refresh", "logout", "forgot", "admin_reset", "reset", "change"}
  BY DEF AuthOp
<1>6. PICK d : d = [op |-> op, cred |-> cred, sid |-> s, new |-> NoID, tok |-> k, spent |-> {}, gen |-> 0,
                    all |-> all, old |-> FALSE, pc |-> x]
  OBVIOUS
<1>7. /\ cred \in 0..(MaxPasswords + 1) /\ s \in SessionIDs \cup {NoID} /\ k \in ResetIDs \cup {NoID} /\ all \in BOOLEAN
      /\ op \in {"refresh", "logout"} => s \in SessionIDs /\ session[s].state # "none"
  <2>1. cred \in 0..(MaxPasswords + 1)
    BY DEF Creds, WrongPassword, SessionsInv, SessionsTypeOK
  <2>2. s \in SessionIDs \cup {NoID} /\ (op \in {"refresh", "logout"} => s \in SessionIDs /\ session[s].state # "none")
    BY DEF Tokens
  <2>3. k \in ResetIDs \cup {NoID}
    BY DEF Links
  <2>4. all \in BOOLEAN
    BY DEF Revokes
  <2> QED
    BY <2>1, <2>2, <2>3, <2>4
<1>8. d \in AuthRequest
  BY <1>4, <1>5, <1>6, <1>7 DEF AuthRequest, AuthOp
<1>9. d.op = op /\ d.pc = x /\ d.gen = 0 /\ d.sid = s
  BY <1>6
<1>10. SignInFits(d)
  <2>1. issued \in Nat
    BY DEF SessionsInv, SessionsTypeOK
  <2> QED
    BY <1>4, <1>5, <1>7, <1>9, <2>1 DEF SignInFits
<1>11. d.pc \notin {"find", "failed"} \/ (d.pc = "find" /\ d.op # "login")
  BY <1>4, <1>5, <1>9
<1>12. authReq' = [authReq EXCEPT ![r] = d] /\ authOps' \in 0..MaxAuthOps
  <2>1. authReq' = [authReq EXCEPT ![r] = d]
    BY <1>2, <1>3, <1>6, Zenon
  <2>2. authOps' \in 0..MaxAuthOps
    BY DEF BeginAuth, SessionsInv, SessionsTypeOK
  <2> QED
    BY <2>1, <2>2
<1>13. ~At(r, "replace") /\ ~At(r, "lock")
  BY <1>1 DEF At
<1> QED
  BY <1>1, <1>8, <1>10, <1>11, <1>12, <1>13, QuietStepInv, ResetUnchanged

LEMMA AuthenticateInv ==
  ASSUME SessionsInv, NEW r \in AuthReqs, Authenticate(r)
  PROVE  SessionsInv'
<1>1. /\ At(r, "find") /\ Is(r, "login") /\ r \in PastCheck /\ ~At(r, "idle") /\ ~At(r, "replace") /\ ~At(r, "lock")
      /\ UNCHANGED <<session, reset, credentials, lockout, authOps, ended, forked>>
  BY DEF Authenticate, PastCheck, At
<1>2. reset' \in [ResetIDs -> {"none", "pending", "used", "expired", "pruned"}]
  BY <1>1, ResetUnchanged
<1>3. CASE Goto(r, "failed")
  BY <1>1, <1>2, <1>3, GotoQuietlyInv
<1>4. CASE Done(r)
  BY <1>1, <1>2, <1>4, DoneQuietlyInv
<1>5. CASE active /\ authReq' = [authReq EXCEPT ![r].pc = "passed", ![r].gen = password]
  <2>1. PICK b : b = authReq[r]
    OBVIOUS
  <2>2. b \in AuthRequest /\ SignInFits(b) /\ b.op = "login"
    BY <1>1, <2>1, AuthIsKnown DEF Is
  <2>3. password = issued /\ ended <= issued /\ issued \in 0..MaxPasswords /\ ended \in 0..MaxPasswords
    BY <1>5 DEF SessionsInv, PasswordInForce, SessionsTypeOK
  <2>4. PICK d : d = [b EXCEPT !.pc = "passed", !.gen = issued]
    OBVIOUS
  <2>5. d \in AuthRequest /\ d.pc = "passed" /\ d.gen = issued /\ d.op = "login"
    BY <2>2, <2>3, <2>4 DEF AuthRequest
  <2>6. SignInFits(d)
    BY <2>3, <2>5, SessionsAssumption DEF SignInFits
  <2>7. authReq' = [authReq EXCEPT ![r] = d]
    BY <1>5, <2>1, <2>2, <2>3, <2>4 DEF AuthRequest, SessionsInv, SessionsTypeOK
  <2> QED
    BY <1>1, <1>2, <2>5, <2>6, <2>7, QuietStepInv DEF SessionsInv, SessionsTypeOK
<1> QED
  BY <1>3, <1>4, <1>5 DEF Authenticate

(* A refresh that goes on with the session it found.                       *)
LEMMA GoesOnWithSession ==
  ASSUME SessionsInv, NEW r \in AuthReqs, NEW x \in {"user", "family", "create", "revoke"}, Goto(r, x), ~At(r, "idle"),
         UNCHANGED <<session, reset, credentials, lockout, authOps, ended, forked>>,
         authReq[r].op = IF x = "revoke" THEN "logout" ELSE "refresh",
         x \in {"user", "create"} /\ session[authReq[r].sid].pw < ended => session[authReq[r].sid].late = TRUE \/ authReq[r].old = TRUE,
         ~At(r, "replace"), ~At(r, "lock")
  PROVE  SessionsInv'
<1>1. PICK b : b = authReq[r]
  OBVIOUS
<1>2. b \in AuthRequest /\ SignInFits(b)
  BY <1>1, AuthIsKnown
<1>3. PICK d : d = [b EXCEPT !.pc = x]
  OBVIOUS
<1>4. d \in AuthRequest /\ d.pc = x /\ d.op = b.op /\ d.gen = b.gen /\ d.sid = b.sid /\ d.old = b.old
  BY <1>2, <1>3 DEF AuthRequest
<1>5. SignInFits(d)
  BY <1>1, <1>2, <1>4 DEF SignInFits
<1>6. authReq' = [authReq EXCEPT ![r] = d]
  BY <1>1, <1>2, <1>3 DEF Goto, SessionsInv, SessionsTypeOK, AuthRequest
<1>7. authOps' \in 0..MaxAuthOps
  BY DEF SessionsInv, SessionsTypeOK
<1> QED
  BY <1>4, <1>5, <1>6, <1>7, QuietStepInv, ResetUnchanged

LEMMA FindTokenInv ==
  ASSUME SessionsInv, NEW r \in AuthReqs, FindToken(r)
  PROVE  SessionsInv'
<1>1. /\ At(r, "token") /\ (Is(r, "refresh") \/ Is(r, "logout")) /\ ~At(r, "idle") /\ ~At(r, "replace") /\ ~At(r, "lock")
      /\ UNCHANGED <<session, reset, credentials, lockout, authOps, ended, forked>>
  BY DEF FindToken, At
<1>2. reset' \in [ResetIDs -> {"none", "pending", "used", "expired", "pruned"}]
  BY <1>1, ResetUnchanged
<1>3. /\ authReq[r].sid \in SessionIDs /\ session[authReq[r].sid].state \in {"live", "revoked", "pruned"}
      /\ authReq[r].op \in {"refresh", "logout"}
  <2>1. authReq[r].op \in {"refresh", "logout"} /\ authReq[r].sid \in SessionIDs /\ session[authReq[r].sid].state # "none"
    BY <1>1, AuthIsKnown DEF Is, SignInFits
  <2>2. session[authReq[r].sid] \in SessionRow
    BY <2>1 DEF SessionsInv, SessionsTypeOK
  <2> QED
    BY <2>1, <2>2 DEF SessionRow
<1>4. \/ Done(r)
      \/ Goto(r, "revoke") /\ authReq[r].op = "logout"
      \/ Goto(r, "family") /\ authReq[r].op = "refresh"
      \/ Goto(r, "user") /\ authReq[r].op = "refresh" /\ session[authReq[r].sid].state = "live"
  <2>1. PICK row : row = session[authReq[r].sid]
    OBVIOUS
  <2>2. CASE row.state = "pruned"
    BY <2>1, <2>2 DEF FindToken
  <2>3. CASE row.state # "pruned" /\ Is(r, "logout")
    BY <2>1, <2>3 DEF FindToken, Is
  <2>4. CASE row.state = "revoked" /\ Is(r, "refresh")
    BY <2>1, <2>4 DEF FindToken, Is
  <2>5. CASE row.state = "live" /\ Is(r, "refresh")
    BY <2>1, <2>5 DEF FindToken, Is
  <2> QED
    BY <1>1, <1>3, <2>1, <2>2, <2>3, <2>4, <2>5
<1>5. session[authReq[r].sid].state = "live" /\ session[authReq[r].sid].pw < ended => session[authReq[r].sid].late = TRUE
  <2>1. session[authReq[r].sid].late \in BOOLEAN
    BY <1>3 DEF SessionsInv, SessionsTypeOK, SessionRow
  <2> QED
    BY <1>3, <2>1 DEF SessionsInv, ResetEndsSessions
<1>6. CASE Done(r)
  BY <1>1, <1>2, <1>6, DoneQuietlyInv
<1>7. CASE Goto(r, "revoke") /\ authReq[r].op = "logout"
  BY <1>1, <1>7, GoesOnWithSession
<1>8. CASE Goto(r, "family") /\ authReq[r].op = "refresh"
  BY <1>1, <1>8, GoesOnWithSession
<1>9. CASE Goto(r, "user") /\ authReq[r].op = "refresh" /\ session[authReq[r].sid].state = "live"
  BY <1>1, <1>5, <1>9, GoesOnWithSession
<1> QED
  BY <1>4, <1>6, <1>7, <1>8, <1>9

LEMMA ActiveUserInv ==
  ASSUME SessionsInv, NEW r \in AuthReqs, ActiveUser(r)
  PROVE  SessionsInv'
<1>1. /\ At(r, "user") /\ ~At(r, "idle") /\ ~At(r, "replace") /\ ~At(r, "lock")
      /\ UNCHANGED <<session, reset, credentials, lockout, authOps, ended, forked>>
  BY DEF ActiveUser, At
<1>2. reset' \in [ResetIDs -> {"none", "pending", "used", "expired", "pruned"}]
  BY <1>1, ResetUnchanged
<1>3. \/ Done(r)
      \/ Goto(r, "create") /\ authReq[r].op = "refresh"
      \/ Goto(r, "forget")
  BY DEF ActiveUser, Is
<1>4. CASE Done(r)
  BY <1>1, <1>2, <1>4, DoneQuietlyInv
<1>5. CASE Goto(r, "create") /\ authReq[r].op = "refresh"
  <2>1. session[authReq[r].sid].pw < ended => session[authReq[r].sid].late = TRUE \/ authReq[r].old = TRUE
    BY <1>1, <1>5, AuthIsKnown DEF At, SignInFits
  <2> QED
    BY <1>1, <1>5, <2>1, GoesOnWithSession
<1>6. CASE Goto(r, "forget")
  BY <1>1, <1>2, <1>6, GotoQuietlyInv
<1> QED
  BY <1>3, <1>4, <1>5, <1>6

LEMMA TokenStepsInv ==
  ASSUME SessionsInv, NEW r \in AuthReqs, FindResetToken(r) \/ CheckCurrent(r) \/ SpendPending(r)
  PROVE  SessionsInv'
<1>1. /\ ~At(r, "idle") /\ ~At(r, "replace") /\ ~At(r, "lock")
      /\ UNCHANGED <<session, credentials, lockout, authOps, ended, forked>>
  BY DEF FindResetToken, CheckCurrent, SpendPending, At
<1>2. reset' \in [ResetIDs -> {"none", "pending", "used", "expired", "pruned"}]
  BY DEF FindResetToken, CheckCurrent, SpendPending, SessionsInv, SessionsTypeOK
<1>3. Goto(r, "password") \/ Goto(r, "all") \/ Done(r)
  BY DEF FindResetToken, CheckCurrent, SpendPending
<1> QED
  BY <1>1, <1>2, <1>3, DoneQuietlyInv, GotoQuietlyInv

LEMMA ForgetPendingInv ==
  ASSUME SessionsInv, NEW r \in AuthReqs, ForgetPending(r)
  PROVE  SessionsInv'
<1>1. /\ At(r, "forget") /\ ~At(r, "idle") /\ ~At(r, "replace") /\ ~At(r, "lock")
      /\ UNCHANGED <<session, reset, credentials, lockout, authOps, ended, forked>>
  BY DEF ForgetPending, At
<1>2. PICK b : b = authReq[r]
  OBVIOUS
<1>3. b \in AuthRequest /\ SignInFits(b)
  BY <1>1, <1>2, AuthIsKnown
<1>4. PICK S \in SUBSET ResetIDs : S = PendingOrExpired
  BY DEF PendingOrExpired
<1>5. PICK d : d = [b EXCEPT !.pc = "commit", !.spent = S]
  OBVIOUS
<1>6. d \in AuthRequest /\ d.pc = "commit" /\ d.op = b.op /\ d.gen = b.gen /\ d.sid = b.sid /\ d.old = b.old
  BY <1>3, <1>4, <1>5 DEF AuthRequest
<1>7. SignInFits(d)
  BY <1>3, <1>6 DEF SignInFits
<1>8. authReq' = [authReq EXCEPT ![r] = d]
  BY <1>2, <1>3, <1>4, <1>5 DEF ForgetPending, AuthRequest, SessionsInv, SessionsTypeOK
<1>9. authOps' \in 0..MaxAuthOps
  BY <1>1 DEF SessionsInv, SessionsTypeOK
<1> QED
  BY <1>1, <1>6, <1>7, <1>8, <1>9, QuietStepInv, ResetUnchanged

LEMMA CommitResetInv ==
  ASSUME SessionsInv, NEW r \in AuthReqs, CommitReset(r)
  PROVE  SessionsInv'
<1>1. /\ At(r, "commit") /\ ~At(r, "idle") /\ ~At(r, "replace") /\ ~At(r, "lock")
      /\ UNCHANGED <<session, credentials, lockout, authOps, ended, forked>>
  BY DEF CommitReset, At
<1>2. reset' \in [ResetIDs -> {"none", "pending", "used", "expired", "pruned"}]
  BY DEF CommitReset, SessionsInv, SessionsTypeOK
<1>3. CASE authReq[r].all
  <2>1. PICK b : b = authReq[r]
    OBVIOUS
  <2>2. b \in AuthRequest /\ SignInFits(b)
    BY <1>1, <2>1, AuthIsKnown
  <2>3. PICK d : d = [b EXCEPT !.pc = "all", !.spent = {}]
    OBVIOUS
  <2>4. d \in AuthRequest /\ d.pc = "all" /\ d.op = b.op /\ d.gen = b.gen /\ d.sid = b.sid /\ d.old = b.old
    BY <2>2, <2>3 DEF AuthRequest
  <2>5. SignInFits(d)
    BY <2>2, <2>4 DEF SignInFits
  <2>6. authReq' = [authReq EXCEPT ![r] = d]
    BY <1>3, <2>1, <2>3 DEF CommitReset
  <2>7. authOps' \in 0..MaxAuthOps
    BY <1>1 DEF SessionsInv, SessionsTypeOK
  <2> QED
    BY <1>1, <1>2, <2>4, <2>5, <2>6, <2>7, QuietStepInv
<1>4. CASE ~authReq[r].all
  BY <1>1, <1>2, <1>4, DoneQuietlyInv DEF CommitReset, Done
<1> QED
  BY <1>3, <1>4

LEMMA PlainStepInv ==
  ASSUME SessionsInv, NEW r \in AuthReqs, NEW d \in AuthRequest \cup {AuthIdle}, authReq' = [authReq EXCEPT ![r] = d],
         UNCHANGED <<session, reset, credentials, authOps, ended>>, forked \subseteq forked', forked' \subseteq SessionIDs,
         fails' \in Nat, guesses' \in Nat, locked' \in BOOLEAN, redisUp' \in BOOLEAN, GuessesFit',
         d # AuthIdle => SignInFits(d), At(r, "replace") => session[authReq[r].sid].family \in forked'
  PROVE  SessionsInv'
<1>1. session' = session /\ password' = password /\ issued' = issued /\ active' = active /\ ended' = ended /\ reset' = reset
      /\ authOps' = authOps
  BY DEF credentials
<1>2. SessionsTypeOK'
  BY <1>1 DEF SessionsInv, SessionsTypeOK
<1>3. RowsKept /\ NoneBorn /\ session' \in [SessionIDs -> SessionRow]
  BY <1>1, SessionsUnchanged
<1>4. issued' \in Nat /\ issued <= issued' /\ PasswordInForce'
  BY <1>1, SessionsAssumption DEF SessionsInv, SessionsTypeOK, PasswordInForce
<1>5. d # AuthIdle => SignInFits(d)'
  BY <1>1 DEF SignInFits
<1>6. SessionsCore'
  BY <1>1, <1>3, <1>4, <1>5, RequestStepInv
<1> QED
  BY <1>2, <1>6 DEF SessionsInv, SessionsCore

LEMMA RequestsCounted ==
  ASSUME NEW P \in SUBSET AuthReqs, NEW L \in SUBSET AuthReqs
  PROVE  /\ Cardinality(P) \in Nat /\ Cardinality(L) \in Nat /\ Cardinality(AuthReqs) \in Nat
         /\ Cardinality(P) <= Cardinality(AuthReqs) /\ Cardinality(L) <= Cardinality(AuthReqs)
         /\ P \cap L = {} => Cardinality(P) + Cardinality(L) <= Cardinality(AuthReqs)
         /\ \A r \in AuthReqs : /\ r \notin P => Cardinality(P \cup {r}) = Cardinality(P) + 1
                                /\ r \in P => Cardinality(P \ {r}) = Cardinality(P) - 1
<1>1. IsFiniteSet(AuthReqs) /\ IsFiniteSet(P) /\ IsFiniteSet(L)
  BY SessionsAssumption, FS_Subset
<1>2. Cardinality(P) \in Nat /\ Cardinality(L) \in Nat /\ Cardinality(AuthReqs) \in Nat
  BY <1>1, FS_CardinalityType
<1>3. Cardinality(P) <= Cardinality(AuthReqs) /\ Cardinality(L) <= Cardinality(AuthReqs)
  BY <1>1, FS_Subset
<1>4. ASSUME P \cap L = {} PROVE Cardinality(P) + Cardinality(L) <= Cardinality(AuthReqs)
  <2>1. Cardinality(P \cup L) = Cardinality(P) + Cardinality(L) - Cardinality(P \cap L)
    BY <1>1, FS_Union
  <2>2. Cardinality(P \cap L) = 0
    BY <1>4, FS_EmptySet
  <2>3. P \cup L \subseteq AuthReqs
    OBVIOUS
  <2>4. Cardinality(P \cup L) <= Cardinality(AuthReqs)
    BY <1>1, <2>3, FS_Subset
  <2> QED
    BY <1>2, <2>1, <2>2, <2>4
<1>5. ASSUME NEW r \in AuthReqs
      PROVE  /\ r \notin P => Cardinality(P \cup {r}) = Cardinality(P) + 1
             /\ r \in P => Cardinality(P \ {r}) = Cardinality(P) - 1
  BY <1>1, FS_AddElement, FS_RemoveElement
<1> QED
  BY <1>2, <1>3, <1>4, <1>5

LEMMA NoGuessesFit ==
  ASSUME guesses' = 0, fails' \in Nat
  PROVE  GuessesFit'
<1>1. PastCheck' \in SUBSET AuthReqs /\ Locking' \in SUBSET AuthReqs
  BY DEF PastCheck, Locking
<1>2. Cardinality(PastCheck') \in Nat /\ Cardinality(Locking') \in Nat /\ Cardinality(AuthReqs) \in Nat
      /\ Cardinality(PastCheck') <= Cardinality(AuthReqs)
  BY <1>1, RequestsCounted
<1> QED
  BY <1>2, SessionsAssumption DEF GuessesFit

(* How one request's step changes the two counts.                          *)
LEMMA CountsMove ==
  ASSUME SessionsInv, NEW r \in AuthReqs, NEW d \in AuthRequest \cup {AuthIdle}, authReq' = [authReq EXCEPT ![r] = d]
  PROVE  /\ Locking' = IF d.pc = "lock" THEN Locking \cup {r} ELSE Locking \ {r}
         /\ PastCheck' = IF d.pc = "failed" \/ (d.pc = "find" /\ d.op = "login") THEN PastCheck \cup {r} ELSE PastCheck \ {r}
         /\ PastCheck \in SUBSET AuthReqs /\ Locking \in SUBSET AuthReqs /\ PastCheck \cap Locking = {}
         /\ guesses \in Nat /\ fails \in Nat /\ locked \in BOOLEAN /\ redisUp \in BOOLEAN /\ MaxFailures \in Nat \ {0}
<1>1. authReq'[r] = d /\ \A q \in AuthReqs \ {r} : authReq'[q] = authReq[q]
  BY DEF SessionsInv, SessionsTypeOK
<1>2. Locking' = IF d.pc = "lock" THEN Locking \cup {r} ELSE Locking \ {r}
  BY <1>1 DEF Locking, At
<1>3. PastCheck' = IF d.pc = "failed" \/ (d.pc = "find" /\ d.op = "login") THEN PastCheck \cup {r} ELSE PastCheck \ {r}
  BY <1>1 DEF PastCheck, At, Is
<1>4. PastCheck \in SUBSET AuthReqs /\ Locking \in SUBSET AuthReqs /\ PastCheck \cap Locking = {}
  BY DEF PastCheck, Locking, At
<1>5. guesses \in Nat /\ fails \in Nat /\ locked \in BOOLEAN /\ redisUp \in BOOLEAN /\ MaxFailures \in Nat \ {0}
  BY SessionsAssumption DEF SessionsInv, SessionsTypeOK
<1> QED
  BY <1>2, <1>3, <1>4, <1>5

LEMMA IdleFits == AuthIdle \in AuthRequest \cup {AuthIdle} /\ AuthIdle.pc = "idle"
BY DEF AuthIdle

LEMMA CheckLockedInv ==
  ASSUME SessionsInv, NEW r \in AuthReqs, CheckLocked(r)
  PROVE  SessionsInv'
<1>1. /\ At(r, "check") /\ ~At(r, "idle") /\ ~At(r, "replace") /\ ~At(r, "lock")
      /\ UNCHANGED <<session, reset, credentials, lockout, authOps, ended, forked>>
  BY DEF CheckLocked, At
<1>2. CASE ~Unlocked
  BY <1>1, <1>2, DoneQuietlyInv, ResetUnchanged DEF CheckLocked
<1>3. CASE Unlocked
  <2>1. PICK b : b = authReq[r]
    OBVIOUS
  <2>2. b \in AuthRequest /\ SignInFits(b)
    BY <1>1, <2>1, AuthIsKnown
  <2>3. PICK d : d = [b EXCEPT !.pc = "find"]
    OBVIOUS
  <2>4. d \in AuthRequest /\ SignInFits(d) /\ d.pc = "find"
    BY <2>2, <2>3, GotoFits
  <2>5. authReq' = [authReq EXCEPT ![r] = d]
    BY <1>3, <2>1, <2>2, <2>3 DEF CheckLocked, Goto, SessionsInv, SessionsTypeOK, AuthRequest
  <2>6. fails' = fails /\ guesses' = guesses /\ locked' = locked /\ redisUp' = redisUp
    BY <1>1 DEF lockout
  <2>7. /\ guesses \in Nat /\ fails \in Nat /\ locked \in BOOLEAN /\ redisUp \in BOOLEAN
        /\ Locking' = Locking \ {r} /\ r \notin Locking
    BY <1>1, <2>4, <2>5, CountsMove DEF Locking
  <2>8. Locking' = Locking
    BY <2>7
  <2>9. GuessesFit'
    <3>1. CASE redisUp
      <4>1. ~locked
        BY <1>3, <3>1 DEF Unlocked
      <4> QED
        BY <2>6, <2>8, <3>1, <4>1 DEF SessionsInv, GuessesFit
    <3>2. CASE ~redisUp
      <4>1. guesses' = 0
        BY <2>6, <3>2 DEF SessionsInv, GuessesFit
      <4> QED
        BY <2>6, <2>7, <4>1, NoGuessesFit
    <3> QED
      BY <3>1, <3>2
  <2> QED
    BY <1>1, <2>4, <2>5, <2>6, <2>7, <2>9, PlainStepInv DEF SessionsInv, SessionsTypeOK
<1> QED
  BY <1>2, <1>3

LEMMA LoginFailedInv ==
  ASSUME SessionsInv, NEW r \in AuthReqs, LoginFailed(r)
  PROVE  SessionsInv'
<1>1. /\ At(r, "failed") /\ ~At(r, "idle") /\ ~At(r, "replace") /\ ~At(r, "lock") /\ r \in PastCheck
      /\ UNCHANGED <<session, reset, credentials, locked, redisUp, authOps, ended, forked>>
  BY DEF LoginFailed, At, PastCheck
<1>2. CASE ~redisUp
  BY <1>1, <1>2, DoneQuietlyInv, ResetUnchanged DEF LoginFailed, lockout
<1>3. CASE redisUp
  <2>1. fails' = fails + 1 /\ guesses' = guesses + 1
    BY <1>3 DEF LoginFailed
  <2>2. PICK d : d = IF fails + 1 >= MaxFailures THEN [authReq[r] EXCEPT !.pc = "lock"] ELSE AuthIdle
    OBVIOUS
  <2>3. /\ fails + 1 >= MaxFailures => d \in AuthRequest /\ SignInFits(d) /\ d.pc = "lock"
        /\ ~(fails + 1 >= MaxFailures) => d = AuthIdle /\ d.pc = "idle"
    BY <1>1, <2>2, GotoFits, AuthIsKnown, IdleFits
  <2>4. authReq' = [authReq EXCEPT ![r] = d]
    <3>1. CASE fails + 1 >= MaxFailures
      BY <1>1, <1>3, <2>2, <3>1, AuthIsKnown DEF LoginFailed, Goto, SessionsInv, SessionsTypeOK, AuthRequest
    <3>2. CASE ~(fails + 1 >= MaxFailures)
      BY <1>3, <2>2, <3>2 DEF LoginFailed, Done
    <3> QED
      BY <3>1, <3>2
  <2>5. d \in AuthRequest \cup {AuthIdle} /\ (d # AuthIdle => SignInFits(d))
    BY <2>3
  <2>6. /\ PastCheck \in SUBSET AuthReqs /\ Locking \in SUBSET AuthReqs
        /\ guesses \in Nat /\ fails \in Nat /\ locked \in BOOLEAN /\ redisUp \in BOOLEAN /\ MaxFailures \in Nat \ {0}
    BY <2>4, <2>5, CountsMove
  <2>7. PastCheck' = PastCheck \ {r} /\ Locking' = IF d.pc = "lock" THEN Locking \cup {r} ELSE Locking \ {r}
    BY <2>3, <2>4, <2>5, CountsMove
  <2>8. r \notin Locking
    BY <1>1 DEF Locking
  <2>9. Cardinality(PastCheck') = Cardinality(PastCheck) - 1
    BY <1>1, <2>6, <2>7, RequestsCounted
  <2>10. Cardinality(PastCheck) \in Nat /\ Cardinality(Locking) \in Nat /\ Cardinality(AuthReqs) \in Nat
    BY <2>6, RequestsCounted
  <2>11. /\ fails + 1 >= MaxFailures => Cardinality(Locking') = Cardinality(Locking) + 1
         /\ ~(fails + 1 >= MaxFailures) => Cardinality(Locking') = Cardinality(Locking)
    <3>1. CASE fails + 1 >= MaxFailures
      <4>1. Locking' = Locking \cup {r}
        BY <2>3, <2>7, <3>1
      <4> QED
        BY <2>6, <2>8, <3>1, <4>1, RequestsCounted
    <3>2. CASE ~(fails + 1 >= MaxFailures)
      <4>1. Locking' = Locking
        BY <2>3, <2>7, <2>8, <3>2
      <4> QED
        BY <3>2, <4>1
    <3> QED
      BY <3>1, <3>2
  <2>12. GuessesFit'
    BY <1>1, <1>3, <2>1, <2>6, <2>9, <2>10, <2>11 DEF SessionsInv, GuessesFit
  <2>13. fails' \in Nat /\ guesses' \in Nat /\ locked' \in BOOLEAN /\ redisUp' \in BOOLEAN
    BY <1>1, <2>1, <2>6
  <2>14. forked \subseteq forked' /\ forked' \subseteq SessionIDs /\ UNCHANGED <<session, reset, credentials, authOps, ended>>
    BY <1>1 DEF SessionsInv, SessionsTypeOK
  <2> QED
    BY <1>1, <2>4, <2>5, <2>12, <2>13, <2>14, PlainStepInv
<1> QED
  BY <1>2, <1>3

LEMMA LockAccountInv ==
  ASSUME SessionsInv, NEW r \in AuthReqs, LockAccount(r)
  PROVE  SessionsInv'
<1>1. /\ At(r, "lock") /\ ~At(r, "idle") /\ ~At(r, "replace") /\ r \in Locking
      /\ UNCHANGED <<session, reset, credentials, redisUp, guesses, authOps, ended, forked>>
      /\ authReq' = [authReq EXCEPT ![r] = AuthIdle]
  BY DEF LockAccount, At, Locking, Done
<1>2. /\ PastCheck \in SUBSET AuthReqs /\ Locking \in SUBSET AuthReqs /\ PastCheck \cap Locking = {}
      /\ guesses \in Nat /\ fails \in Nat /\ locked \in BOOLEAN /\ redisUp \in BOOLEAN /\ MaxFailures \in Nat \ {0}
      /\ PastCheck' = PastCheck \ {r}
  BY <1>1, IdleFits, CountsMove
<1>3. PastCheck' = PastCheck
  BY <1>1, <1>2
<1>4. fails' \in Nat /\ locked' \in BOOLEAN /\ redisUp' \in BOOLEAN /\ guesses' \in Nat
  <2>1. fails' \in Nat /\ guesses' \in Nat
    BY <1>1, <1>2 DEF LockAccount
  <2>2. redisUp' \in BOOLEAN
    BY <1>1, <1>2
  <2>3. locked' = TRUE \/ locked' = locked
    BY DEF LockAccount
  <2>4. locked' \in BOOLEAN
    BY <1>2, <2>3
  <2> QED
    BY <2>1, <2>2, <2>4
<1>5. GuessesFit'
  <2>1. CASE ~redisUp
    <3>1. guesses' = 0
      BY <1>1, <2>1 DEF SessionsInv, GuessesFit
    <3> QED
      BY <1>4, <3>1, NoGuessesFit
  <2>2. CASE redisUp
    <3>1. locked' = TRUE /\ guesses' = guesses /\ redisUp'
      BY <1>1, <2>2 DEF LockAccount
    <3>2. /\ Cardinality(PastCheck) \in Nat /\ Cardinality(Locking) \in Nat /\ Cardinality(AuthReqs) \in Nat
          /\ Cardinality(PastCheck) + Cardinality(Locking) <= Cardinality(AuthReqs)
      BY <1>2, RequestsCounted
    <3>3. guesses + Cardinality(PastCheck) <= MaxFailures - 1 + Cardinality(AuthReqs)
      BY <1>2, <3>2 DEF SessionsInv, GuessesFit
    <3> QED
      BY <1>3, <3>1, <3>3 DEF GuessesFit
  <2> QED
    BY <2>1, <2>2
<1> QED
  BY <1>1, <1>4, <1>5, IdleFits, PlainStepInv DEF SessionsInv, SessionsTypeOK

LEMMA ResetAttemptsInv ==
  ASSUME SessionsInv, NEW r \in AuthReqs, ResetAttempts(r)
  PROVE  SessionsInv'
<1>1. /\ At(r, "passed") /\ ~At(r, "idle") /\ ~At(r, "replace") /\ ~At(r, "lock") /\ Goto(r, "issue")
      /\ UNCHANGED <<session, reset, credentials, locked, redisUp, authOps, ended, forked>>
  BY DEF ResetAttempts, At
<1>2. PICK b : b = authReq[r]
  OBVIOUS
<1>3. b \in AuthRequest /\ SignInFits(b) /\ b.pc = "passed"
  BY <1>1, <1>2, AuthIsKnown DEF At
<1>4. PICK d : d = [b EXCEPT !.pc = "issue"]
  OBVIOUS
<1>5. d \in AuthRequest /\ d.pc = "issue" /\ d.op = b.op /\ d.gen = b.gen /\ d.sid = b.sid /\ d.old = b.old
  BY <1>3, <1>4 DEF AuthRequest
<1>6. SignInFits(d)
  BY <1>3, <1>5 DEF SignInFits
<1>7. authReq' = [authReq EXCEPT ![r] = d]
  BY <1>1, <1>2, <1>3, <1>4 DEF Goto, SessionsInv, SessionsTypeOK, AuthRequest
<1>8. guesses \in Nat /\ fails \in Nat /\ locked \in BOOLEAN /\ redisUp \in BOOLEAN
  BY <1>5, <1>7, CountsMove
<1>9. fails' \in Nat /\ guesses' \in Nat /\ GuessesFit'
  <2>1. CASE redisUp
    <3>1. fails' = 0 /\ guesses' = 0
      BY <2>1 DEF ResetAttempts
    <3> QED
      BY <3>1, NoGuessesFit
  <2>2. CASE ~redisUp
    <3>1. fails' = fails /\ guesses' = guesses
      BY <2>2 DEF ResetAttempts
    <3> QED
      BY <1>1, <1>5, <1>7, <1>8, <3>1, LockoutIdles
  <2> QED
    BY <2>1, <2>2
<1>10. locked' \in BOOLEAN /\ redisUp' \in BOOLEAN
  BY <1>1, <1>8
<1>11. forked \subseteq forked' /\ forked' \subseteq SessionIDs /\ UNCHANGED <<session, reset, credentials, authOps, ended>>
  BY <1>1 DEF SessionsInv, SessionsTypeOK
<1> QED
  BY <1>1, <1>5, <1>6, <1>7, <1>9, <1>10, <1>11, PlainStepInv

LEMMA RequestFailsInv ==
  ASSUME SessionsInv, NEW r \in AuthReqs, RequestFails(r)
  PROVE  SessionsInv'
<1>1. /\ ~At(r, "idle") /\ authReq' = [authReq EXCEPT ![r] = AuthIdle]
      /\ UNCHANGED <<session, reset, credentials, fails, locked, redisUp, authOps, ended>>
  BY DEF RequestFails, Done
<1>2. /\ PastCheck \in SUBSET AuthReqs /\ Locking \in SUBSET AuthReqs /\ Locking' = Locking \ {r}
      /\ guesses \in Nat /\ fails \in Nat /\ locked \in BOOLEAN /\ redisUp \in BOOLEAN /\ MaxFailures \in Nat \ {0}
      /\ PastCheck' = PastCheck \ {r}
  BY <1>1, IdleFits, CountsMove
<1>3. fails' \in Nat /\ locked' \in BOOLEAN /\ redisUp' \in BOOLEAN
  BY <1>1, <1>2
<1>4. guesses' \in Nat /\ GuessesFit'
  <2>1. CASE ~At(r, "lock")
    <3>1. guesses' = guesses
      BY <2>1 DEF RequestFails
    <3> QED
      BY <1>1, <1>2, <2>1, <3>1, IdleFits, LockoutIdles
  <2>2. CASE At(r, "lock") /\ guesses = 0
    <3>1. guesses' = 0
      BY <2>2 DEF RequestFails
    <3> QED
      BY <1>3, <3>1, NoGuessesFit
  <2>3. CASE At(r, "lock") /\ guesses > 0
    <3>1. guesses' = guesses - 1
      BY <2>3 DEF RequestFails
    <3>2. r \in Locking
      BY <2>3 DEF Locking
    <3>3. /\ Cardinality(Locking') = Cardinality(Locking) - 1 /\ Cardinality(Locking) \in Nat
          /\ Cardinality(PastCheck) \in Nat /\ Cardinality(AuthReqs) \in Nat
      BY <1>2, <3>2, RequestsCounted
    <3>4. r \notin PastCheck
      BY <2>3 DEF PastCheck, At
    <3>5. PastCheck' = PastCheck
      BY <1>2, <3>4
    <3>6. Cardinality(PastCheck') = Cardinality(PastCheck)
      BY <3>5
    <3> QED
      BY <1>1, <1>2, <2>3, <3>1, <3>3, <3>6 DEF SessionsInv, GuessesFit
  <2> QED
    BY <1>2, <2>1, <2>2, <2>3
<1>5. /\ forked \subseteq forked' /\ forked' \subseteq SessionIDs
      /\ At(r, "replace") => session[authReq[r].sid].family \in forked'
  <2>1. CASE At(r, "replace")
    <3>1. authReq[r].sid \in SessionIDs
      BY <1>1, <2>1, AuthIsKnown DEF SignInFits, At
    <3>2. session[authReq[r].sid].family \in SessionIDs
      BY <3>1 DEF SessionsInv, SessionsTypeOK, SessionRow
    <3>3. forked' = forked \cup {session[authReq[r].sid].family}
      BY <2>1 DEF RequestFails
    <3> QED
      BY <3>2, <3>3 DEF SessionsInv, SessionsTypeOK
  <2>2. CASE ~At(r, "replace")
    BY <2>2 DEF RequestFails, SessionsInv, SessionsTypeOK
  <2> QED
    BY <2>1, <2>2
<1>6. UNCHANGED <<session, reset, credentials, authOps, ended>>
  BY <1>1
<1> QED
  BY <1>1, <1>3, <1>4, <1>5, <1>6, IdleFits, PlainStepInv

LEMMA UpdatePasswordInv ==
  ASSUME SessionsInv, NEW r \in AuthReqs, UpdatePassword(r)
  PROVE  SessionsInv'
<1> USE SessionsAssumption
<1>1. /\ At(r, "password") /\ ~At(r, "idle") /\ ~At(r, "replace") /\ ~At(r, "lock") /\ issued < MaxPasswords
      /\ issued' = issued + 1 /\ password' = issued + 1
      /\ UNCHANGED <<session, reset, active, lockout, authOps, ended, forked>>
  BY DEF UpdatePassword, At
<1>2. PICK n : n = issued + 1
  OBVIOUS
<1>3. n \in 1..MaxPasswords /\ issued \in 0..MaxPasswords /\ ended \in 0..MaxPasswords /\ ended <= issued /\ issued' = n
  BY <1>1, <1>2 DEF SessionsInv, SessionsTypeOK, PasswordInForce
<1>4. PICK b : b = authReq[r]
  OBVIOUS
<1>5. b \in AuthRequest /\ SignInFits(b)
  BY <1>1, <1>4, AuthIsKnown
<1>6. PICK x \in {"spend", "all"} : x = AfterPassword(r)
  BY DEF AfterPassword
<1>7. PICK d : d = IF Is(r, "reset") \/ b.all THEN [b EXCEPT !.pc = x, !.gen = n] ELSE AuthIdle
  OBVIOUS
<1>8. authReq' = [authReq EXCEPT ![r] = d]
  BY <1>2, <1>4, <1>6, <1>7 DEF UpdatePassword
<1>9. /\ d \in AuthRequest \cup {AuthIdle} /\ d.pc \in {"spend", "all", "idle"}
      /\ d # AuthIdle => d.pc = x /\ d.gen = n /\ d.op = b.op /\ d.sid = b.sid
  <2>1. CASE Is(r, "reset") \/ b.all
    <3>1. d = [b EXCEPT !.pc = x, !.gen = n]
      BY <1>7, <2>1
    <3>2. n \in 0..MaxPasswords /\ x \in {"spend", "all"}
      BY <1>3, <1>6
    <3>3. d \in AuthRequest /\ d.pc = x /\ d.gen = n /\ d.op = b.op /\ d.sid = b.sid
      BY <1>5, <3>1, <3>2 DEF AuthRequest
    <3> QED
      BY <3>2, <3>3
  <2>2. CASE ~(Is(r, "reset") \/ b.all)
    BY <1>7, <2>2, IdleFits
  <2> QED
    BY <2>1, <2>2
<1>10. d # AuthIdle => SignInFits(d)'
  <2> SUFFICES ASSUME d # AuthIdle PROVE SignInFits(d)'
    OBVIOUS
  <2>1. session' = session /\ ended' = ended /\ issued' = n /\ d.gen = n /\ n <= n
    BY <1>1, <1>3, <1>9
  <2> QED
    BY <1>5, <1>9, <2>1 DEF SignInFits
<1>11. SessionsTypeOK'
  <2>1. password' \in (0..MaxPasswords) \cup {ErasedPassword} /\ {issued', ended'} \subseteq 0..MaxPasswords
    BY <1>1, <1>2, <1>3
  <2> QED
    BY <1>1, <1>8, <1>9, <2>1 DEF SessionsInv, SessionsTypeOK, lockout
<1>12. PasswordInForce' /\ issued' \in Nat /\ issued <= issued'
  BY <1>1, <1>2, <1>3 DEF PasswordInForce
<1>13. GuessesFit'
  BY <1>1, <1>8, <1>9, LockoutIdles DEF lockout
<1>14. SessionsCore'
  BY <1>1, <1>8, <1>9, <1>10, <1>12, SessionsUnchanged, RequestStepInv
<1> QED
  BY <1>11, <1>13, <1>14 DEF SessionsInv, SessionsCore

LEMMA RevokingIsSafe ==
  ASSUME SessionsInv, NEW S, RevokeAll(S), \A s \in S \cap SessionIDs : session[s].state # "none"
  PROVE  /\ session' \in [SessionIDs -> SessionRow] /\ RowsKept /\ NoneBorn
         /\ \A s \in S \cap SessionIDs : session'[s].state = "revoked"
         /\ \A s \in SessionIDs \ S : session'[s] = session[s]
<1>1. session \in [SessionIDs -> SessionRow]
  BY DEF SessionsInv, SessionsTypeOK
<1>2. session' = [s \in SessionIDs |-> IF s \in S THEN [session[s] EXCEPT !.state = "revoked"] ELSE session[s]]
  BY DEF RevokeAll
<1>3. \A s \in SessionIDs \ S : session'[s] = session[s]
  BY <1>2
<1>4. \A s \in S \cap SessionIDs : /\ session'[s] \in SessionRow /\ session'[s].state = "revoked" /\ session'[s].family = session[s].family
                                   /\ session'[s].pw = session[s].pw /\ session'[s].late = session[s].late
  BY <1>1, <1>2 DEF SessionRow
<1>5. session' \in [SessionIDs -> SessionRow]
  BY <1>1, <1>2, <1>3, <1>4
<1> QED
  BY <1>3, <1>4, <1>5 DEF RowsKept, NoneBorn

(* A request revokes sessions and is done.                                 *)
LEMMA RevokeAndDoneInv ==
  ASSUME SessionsInv, NEW r \in AuthReqs, NEW S, RevokeAll(S), \A s \in S \cap SessionIDs : session[s].state # "none",
         Done(r), UNCHANGED <<reset, credentials, lockout, authOps, ended, forked>>, ~At(r, "lock"),
         At(r, "replace") => authReq[r].sid \in SessionIDs /\ session'[authReq[r].sid].state # "live"
  PROVE  SessionsInv'
<1>1. session' \in [SessionIDs -> SessionRow] /\ RowsKept /\ NoneBorn
  BY RevokingIsSafe
<1>2. /\ password' = password /\ issued' = issued /\ active' = active /\ fails' = fails /\ locked' = locked
      /\ redisUp' = redisUp /\ guesses' = guesses /\ authReq' = [authReq EXCEPT ![r] = AuthIdle]
      /\ ended' = ended /\ forked' = forked /\ reset' = reset /\ authOps' = authOps
  BY DEF credentials, lockout, Done
<1>3. SessionsTypeOK'
  BY <1>1, <1>2 DEF SessionsInv, SessionsTypeOK
<1>4. issued' \in Nat /\ issued <= issued' /\ PasswordInForce'
  BY <1>2, SessionsAssumption DEF SessionsInv, SessionsTypeOK, PasswordInForce
<1>5. SessionsCore'
  BY <1>1, <1>2, <1>4, IdleFits, RequestStepInv
<1>6. GuessesFit'
  BY <1>2, IdleFits, LockoutIdles
<1> QED
  BY <1>3, <1>5, <1>6 DEF SessionsInv, SessionsCore

LEMMA RevokeFamilyInv ==
  ASSUME SessionsInv, NEW r \in AuthReqs, RevokeFamily(r)
  PROVE  SessionsInv'
<1>1. PICK S : S = LiveIn(session[authReq[r].sid].family)
  OBVIOUS
<1>2. \A s \in S \cap SessionIDs : session[s].state # "none"
  BY <1>1 DEF LiveIn
<1>3. /\ RevokeAll(S) /\ Done(r) /\ UNCHANGED <<reset, credentials, lockout, authOps, ended, forked>>
      /\ ~At(r, "lock") /\ ~At(r, "replace")
  BY <1>1 DEF RevokeFamily, At
<1> QED
  BY <1>2, <1>3, RevokeAndDoneInv

LEMMA ReplaceOrRevokeInv ==
  ASSUME SessionsInv, NEW r \in AuthReqs, ReplaceSession(r) \/ RevokeSession(r)
  PROVE  SessionsInv'
<1>1. /\ RevokeAll(Replaced(r)) /\ Done(r) /\ UNCHANGED <<reset, credentials, lockout, authOps, ended, forked>>
      /\ ~At(r, "lock") /\ ~At(r, "idle")
  BY DEF ReplaceSession, RevokeSession, At
<1>2. authReq[r].sid \in SessionIDs /\ session[authReq[r].sid].state # "none"
  BY <1>1, AuthIsKnown DEF ReplaceSession, RevokeSession, At, SignInFits
<1>3. PICK S : S = Replaced(r)
  OBVIOUS
<1>4. \A s \in S \cap SessionIDs : session[s].state # "none"
  BY <1>2, <1>3 DEF Replaced
<1>5. session'[authReq[r].sid].state # "live"
  <2>1. /\ \A s \in S \cap SessionIDs : session'[s].state = "revoked"
        /\ \A s \in SessionIDs \ S : session'[s] = session[s]
    BY <1>1, <1>3, <1>4, RevokingIsSafe
  <2>2. CASE authReq[r].sid \in S
    BY <1>2, <2>1, <2>2
  <2>3. CASE authReq[r].sid \notin S
    BY <1>2, <1>3, <2>1, <2>3 DEF Replaced
  <2> QED
    BY <2>2, <2>3
<1> QED
  BY <1>1, <1>2, <1>3, <1>4, <1>5, RevokeAndDoneInv

(* The steps that belong to no request.                                    *)
LEMMA EnvironmentInv ==
  ASSUME SessionsInv, authReq' = authReq, session' \in [SessionIDs -> SessionRow], RowsKept, NoneBorn,
         reset' \in [ResetIDs -> {"none", "pending", "used", "expired", "pruned"}],
         password' \in (0..MaxPasswords) \cup {ErasedPassword}, active' \in BOOLEAN, active' => active /\ password' = password,
         fails' \in Nat, guesses' \in Nat, locked' \in BOOLEAN, redisUp' \in BOOLEAN, GuessesFit',
         UNCHANGED <<issued, authOps, ended, forked>>
  PROVE  SessionsInv'
<1>1. SessionsTypeOK'
  BY DEF SessionsInv, SessionsTypeOK
<1>2. PasswordInForce'
  BY DEF SessionsInv, PasswordInForce
<1>3. SignInsFit'
  <2> SUFFICES ASSUME NEW q \in AuthReqs, authReq[q] # AuthIdle PROVE SignInFits(authReq[q])'
    BY DEF SignInsFit
  <2>1. PICK e : e = authReq[q]
    OBVIOUS
  <2>2. e \in AuthRequest /\ SignInFits(e)
    BY <2>1 DEF SessionsInv, SignInsFit, SessionsTypeOK
  <2>3. issued' \in Nat /\ issued <= issued'
    BY SessionsAssumption DEF SessionsInv, SessionsTypeOK
  <2>4. SignInFits(e)'
    BY <2>2, <2>3, SignInGoesOn
  <2>5. e = authReq'[q]
    BY <2>1
  <2> QED
    BY <2>4, <2>5
<1>4. RotationsEnd
  BY DEF RotationsEnd, Rotating, At
<1>5. ResetEndsSessions' /\ FamiliesBegun' /\ OneUsable'
  BY <1>4, SessionsStay
<1> QED
  BY <1>1, <1>2, <1>3, <1>5 DEF SessionsInv

LEMMA LockoutRests ==
  ASSUME SessionsInv, authReq' = authReq, UNCHANGED lockout
  PROVE  /\ GuessesFit' /\ fails' \in Nat /\ guesses' \in Nat /\ locked' \in BOOLEAN /\ redisUp' \in BOOLEAN
<1>1. fails' = fails /\ locked' = locked /\ redisUp' = redisUp /\ guesses' = guesses
  BY DEF lockout
<1>2. Locking' = Locking /\ PastCheck' = PastCheck
  BY DEF Locking, PastCheck, At, Is
<1>3. GuessesFit'
  BY <1>1, <1>2, LockoutStays
<1> QED
  BY <1>1, <1>3 DEF SessionsInv, SessionsTypeOK

LEMMA TimePassesInv ==
  ASSUME SessionsInv,
         \/ \E s \in SessionIDs : ExpireSession(s) \/ PruneSession(s)
         \/ \E k \in ResetIDs : ExpireToken(k) \/ PruneToken(k)
  PROVE  SessionsInv'
<1>1. authReq' = authReq /\ UNCHANGED lockout /\ UNCHANGED <<issued, authOps, ended, forked>> /\ password' = password /\ active' = active
  BY DEF ExpireSession, PruneSession, ExpireToken, PruneToken, credentials
<1>2. session \in [SessionIDs -> SessionRow] /\ reset \in [ResetIDs -> {"none", "pending", "used", "expired", "pruned"}]
  BY DEF SessionsInv, SessionsTypeOK
<1>3. reset' \in [ResetIDs -> {"none", "pending", "used", "expired", "pruned"}]
  BY <1>2 DEF ExpireSession, PruneSession, ExpireToken, PruneToken
<1>4. session' \in [SessionIDs -> SessionRow] /\ RowsKept /\ NoneBorn
  <2>1. CASE session' = session
    BY <2>1, SessionsUnchanged
  <2>2. ASSUME NEW s \in SessionIDs, ExpireSession(s) \/ PruneSession(s)
        PROVE  session' \in [SessionIDs -> SessionRow] /\ RowsKept /\ NoneBorn
    <3>1. PICK n : n = session'[s]
      OBVIOUS
    <3>2. /\ n \in SessionRow /\ n.family = session[s].family /\ n.pw = session[s].pw /\ n.late = session[s].late
          /\ n.state # "none" /\ (n.state = "live" => session[s].state = "live") /\ session[s].state # "none"
          /\ session' = [session EXCEPT ![s] = n]
      <4>1. CASE ExpireSession(s)
        BY <1>2, <3>1, <4>1 DEF ExpireSession, SessionRow
      <4>2. CASE PruneSession(s)
        BY <1>2, <3>1, <4>2 DEF PruneSession, SessionRow
      <4> QED
        BY <2>2, <4>1, <4>2
    <3> QED
      BY <1>2, <3>2 DEF RowsKept, NoneBorn
  <2> QED
    BY <2>1, <2>2 DEF ExpireToken, PruneToken
<1>5. active' \in BOOLEAN /\ password' \in (0..MaxPasswords) \cup {ErasedPassword}
  BY <1>1 DEF SessionsInv, SessionsTypeOK
<1> QED
  BY <1>1, <1>3, <1>4, <1>5, LockoutRests, EnvironmentInv

LEMMA EraseAccountInv ==
  ASSUME SessionsInv, EraseAccount
  PROVE  SessionsInv'
<1>1. authReq' = authReq /\ UNCHANGED lockout /\ UNCHANGED <<issued, authOps, ended, forked>> /\ password' = ErasedPassword
  BY DEF EraseAccount
<1>2. session \in [SessionIDs -> SessionRow] /\ reset \in [ResetIDs -> {"none", "pending", "used", "expired", "pruned"}]
  BY DEF SessionsInv, SessionsTypeOK
<1>3. reset' \in [ResetIDs -> {"none", "pending", "used", "expired", "pruned"}]
  BY <1>2 DEF EraseAccount
<1>4. session' \in [SessionIDs -> SessionRow] /\ RowsKept /\ NoneBorn
  <2>1. session' = [s \in SessionIDs |-> IF session[s].state = "none" THEN session[s] ELSE [session[s] EXCEPT !.state = "pruned"]]
    BY DEF EraseAccount
  <2>2. \A s \in SessionIDs : /\ session'[s] \in SessionRow /\ session'[s].family = session[s].family /\ session'[s].pw = session[s].pw
                              /\ session'[s].late = session[s].late
                              /\ session'[s].state = IF session[s].state = "none" THEN "none" ELSE "pruned"
    BY <1>2, <2>1 DEF SessionRow
  <2>3. session' \in [SessionIDs -> SessionRow]
    BY <2>1, <2>2
  <2>4. RowsKept
    BY <2>2 DEF RowsKept
  <2>5. NoneBorn
    BY <2>2 DEF NoneBorn
  <2> QED
    BY <2>3, <2>4, <2>5
<1>5. active' = FALSE
  BY DEF EraseAccount
<1> QED
  BY <1>1, <1>3, <1>4, <1>5, LockoutRests, EnvironmentInv

LEMMA LockoutTimesInv ==
  ASSUME SessionsInv, LockExpires \/ FailuresExpire \/ RedisToggles
  PROVE  SessionsInv'
<1>1. /\ guesses' = 0 /\ authReq' = authReq /\ session' = session /\ reset' = reset /\ UNCHANGED <<issued, authOps, ended, forked>>
      /\ password' = password /\ active' = active
  BY DEF LockExpires, FailuresExpire, RedisToggles, credentials
<1>2. fails' \in Nat
  BY DEF LockExpires, FailuresExpire, RedisToggles, SessionsInv, SessionsTypeOK
<1>3. locked' \in BOOLEAN
  BY DEF LockExpires, FailuresExpire, RedisToggles, SessionsInv, SessionsTypeOK
<1>4. redisUp' \in BOOLEAN
  BY DEF LockExpires, FailuresExpire, RedisToggles, SessionsInv, SessionsTypeOK
<1>5. GuessesFit'
  BY <1>1, <1>2, NoGuessesFit
<1>6. active' \in BOOLEAN /\ password' \in (0..MaxPasswords) \cup {ErasedPassword}
  BY <1>1 DEF SessionsInv, SessionsTypeOK
<1> QED
  BY <1>1, <1>2, <1>3, <1>4, <1>5, <1>6, SessionsUnchanged, ResetUnchanged, EnvironmentInv

(* A session is created by request r: what the others rely on stays.       *)
LEMMA BirthKeeps ==
  ASSUME SessionsInv, NEW s \in SessionIDs, session[s].state = "none", NEW n \in SessionRow,
         n.state = "live", session' = [session EXCEPT ![s] = n]
  PROVE  /\ session' \in [SessionIDs -> SessionRow] /\ RowsKept /\ session'[s] = n
         /\ \A x \in SessionIDs \ {s} : session'[x] = session[x]
<1>1. session \in [SessionIDs -> SessionRow]
  BY DEF SessionsInv, SessionsTypeOK
<1>2. session'[s] = n /\ \A x \in SessionIDs \ {s} : session'[x] = session[x]
  BY <1>1
<1> QED
  BY <1>1, <1>2 DEF RowsKept

LEMMA BirthInv ==
  ASSUME SessionsInv, NEW r \in AuthReqs, NEW d \in AuthRequest \cup {AuthIdle}, authReq' = [authReq EXCEPT ![r] = d],
         NEW s \in SessionIDs, session[s].state = "none", NEW n \in SessionRow, n.state = "live",
         session' = [session EXCEPT ![s] = n], n.pw < ended => n.late = TRUE,
         n.family = s \/ session[n.family].state # "none",
         UNCHANGED <<reset, credentials, lockout, authOps, ended>>, forked' \subseteq SessionIDs,
         d # AuthIdle => SignInFits(d), ~At(r, "lock"), d.pc \in {"replace", "idle"}, OneUsable'
  PROVE  SessionsInv'
<1>1. /\ session' \in [SessionIDs -> SessionRow] /\ RowsKept /\ session'[s] = n
      /\ \A x \in SessionIDs \ {s} : session'[x] = session[x]
  BY BirthKeeps
<1>2. /\ password' = password /\ issued' = issued /\ active' = active /\ fails' = fails /\ locked' = locked
      /\ redisUp' = redisUp /\ guesses' = guesses /\ ended' = ended /\ reset' = reset /\ authOps' = authOps
  BY DEF credentials, lockout
<1>3. SessionsTypeOK'
  BY <1>1, <1>2 DEF SessionsInv, SessionsTypeOK
<1>4. issued' \in Nat /\ issued <= issued' /\ PasswordInForce'
  BY <1>2, SessionsAssumption DEF SessionsInv, SessionsTypeOK, PasswordInForce
<1>5. GuessesFit'
  BY <1>2, LockoutIdles
<1>6. SignInsFit'
  <2> SUFFICES ASSUME NEW q \in AuthReqs, authReq'[q] # AuthIdle PROVE SignInFits(authReq[q])'
    BY DEF SignInsFit
  <2>1. PICK e : e = authReq'[q]
    OBVIOUS
  <2>2. e \in AuthRequest /\ SignInFits(e)
    <3>1. authReq \in [AuthReqs -> AuthRequest \cup {AuthIdle}]
      BY DEF SessionsInv, SessionsTypeOK
    <3>2. CASE q = r
      BY <2>1, <3>1, <3>2
    <3>3. CASE q # r
      BY <2>1, <3>1, <3>3 DEF SessionsInv, SignInsFit
    <3> QED
      BY <3>2, <3>3
  <2>3. SignInFits(e)'
    BY <1>1, <1>2, <1>4, <2>2, SignInGoesOn
  <2> QED
    BY <2>1, <2>3
<1>7. ResetEndsSessions'
  <2> SUFFICES ASSUME NEW x \in SessionIDs, session'[x].state = "live", session'[x].pw < ended' PROVE session'[x].late
    BY DEF ResetEndsSessions
  <2>1. CASE x = s
    BY <1>1, <1>2, <2>1
  <2>2. CASE x # s
    BY <1>1, <1>2, <2>2 DEF SessionsInv, ResetEndsSessions
  <2> QED
    BY <2>1, <2>2
<1>8. FamiliesBegun'
  <2> SUFFICES ASSUME NEW x \in SessionIDs, session'[x].state # "none" PROVE session'[session'[x].family].state # "none"
    BY DEF FamiliesBegun
  <2>1. \A y \in SessionIDs : session[y].state # "none" => session'[y].state # "none"
    BY <1>1
  <2>2. session'[s].state # "none"
    BY <1>1
  <2>3. CASE x = s
    BY <1>1, <2>1, <2>2, <2>3 DEF SessionRow
  <2>4. CASE x # s
    <3>1. session'[x] = session[x] /\ session[x].family \in SessionIDs
      BY <1>1, <2>4 DEF SessionsInv, SessionsTypeOK, SessionRow
    <3> QED
      BY <2>1, <3>1 DEF SessionsInv, FamiliesBegun
  <2> QED
    BY <2>3, <2>4
<1> QED
  BY <1>3, <1>4, <1>5, <1>6, <1>7, <1>8 DEF SessionsInv

LEMMA IssuePairInv ==
  ASSUME SessionsInv, NEW r \in AuthReqs, IssuePair(r)
  PROVE  SessionsInv'
<1>1. /\ At(r, "issue") /\ ~At(r, "idle") /\ ~At(r, "lock") /\ authReq' = [authReq EXCEPT ![r] = AuthIdle]
      /\ UNCHANGED <<reset, credentials, lockout, authOps, ended, forked>>
  BY DEF IssuePair, At, Done
<1>2. PICK b : b = authReq[r]
  OBVIOUS
<1>3. b \in AuthRequest /\ SignInFits(b) /\ b.pc = "issue"
  BY <1>1, <1>2, AuthIsKnown DEF At
<1>4. b.gen \in 0..MaxPasswords /\ b.old \in BOOLEAN /\ (b.gen < ended => b.old = TRUE)
  BY <1>3 DEF AuthRequest, SignInFits
<1>5. PICK s \in SessionIDs : session[s].state = "none" /\ NewSession(s, s, b.gen, b.old)
  BY <1>2 DEF IssuePair
<1>6. PICK n : n = [state |-> "live", expired |-> FALSE, family |-> s, pw |-> b.gen, late |-> b.old]
  OBVIOUS
<1>7. n \in SessionRow /\ n.state = "live" /\ n.family = s /\ (n.pw < ended => n.late = TRUE)
  BY <1>4, <1>6 DEF SessionRow
<1>8. session' = [session EXCEPT ![s] = n]
  BY <1>5, <1>6 DEF NewSession
<1>9. session'[s] = n /\ \A x \in SessionIDs \ {s} : session'[x] = session[x]
  BY <1>5, <1>7, <1>8, BirthKeeps
<1>10. OneUsable'
  <2> SUFFICES ASSUME NEW f \in SessionIDs, f \notin forked', NEW x \in LiveIn(f)', NEW y \in LiveIn(f)',
                      x \notin RotatingFrom', y \notin RotatingFrom'
               PROVE  x = y
    BY DEF OneUsable
  <2>1. \A z \in SessionIDs : Rotating(z) => Rotating(z)'
    BY <1>1 DEF Rotating, At, SessionsInv, SessionsTypeOK
  <2>2. CASE f = s
    <3>1. \A z \in LiveIn(f)' : z = s
      <4> SUFFICES ASSUME NEW z \in LiveIn(f)', z # s PROVE FALSE
        OBVIOUS
      <4>1. z \in SessionIDs /\ session[z].state = "live" /\ session[z].family = s
        BY <1>9, <2>2 DEF LiveIn
      <4> QED
        BY <1>5, <4>1 DEF SessionsInv, FamiliesBegun
    <3> QED
      BY <3>1
  <2>3. CASE f # s
    <3>1. \A z \in LiveIn(f)' : z \in LiveIn(f)
      BY <1>7, <1>9, <2>3 DEF LiveIn
    <3>2. x \notin RotatingFrom /\ y \notin RotatingFrom
      BY <2>1 DEF RotatingFrom
    <3>3. f \notin forked
      BY <1>1
    <3> QED
      BY <3>1, <3>2, <3>3 DEF SessionsInv, OneUsable
  <2> QED
    BY <2>2, <2>3
<1>11. forked' \subseteq SessionIDs /\ UNCHANGED <<reset, credentials, lockout, authOps, ended>>
  BY <1>1 DEF SessionsInv, SessionsTypeOK
<1> QED
  BY <1>1, <1>5, <1>7, <1>8, <1>10, <1>11, IdleFits, BirthInv

LEMMA CreateSuccessorInv ==
  ASSUME SessionsInv, NEW r \in AuthReqs, CreateSuccessor(r)
  PROVE  SessionsInv'
<1>1. /\ At(r, "create") /\ ~At(r, "idle") /\ ~At(r, "lock") /\ ~At(r, "replace")
      /\ UNCHANGED <<reset, credentials, lockout, authOps, ended>>
  BY DEF CreateSuccessor, At
<1>2. PICK b : b = authReq[r]
  OBVIOUS
<1>3. b \in AuthRequest /\ SignInFits(b) /\ b.pc = "create"
  BY <1>1, <1>2, AuthIsKnown DEF At
<1>4. b.op = "refresh" /\ b.sid \in SessionIDs /\ session[b.sid].state # "none" /\ b.old \in BOOLEAN
  BY <1>3 DEF AuthRequest, SignInFits
<1>5. PICK p : p = session[b.sid]
  OBVIOUS
<1>6. p \in SessionRow /\ (p.pw < ended => p.late = TRUE \/ b.old = TRUE)
  BY <1>3, <1>4, <1>5 DEF SessionsInv, SessionsTypeOK, SignInFits
<1>7. PICK h \in BOOLEAN : h = (p.late \/ b.old)
  OBVIOUS
<1>8. p.pw < ended => h = TRUE
  BY <1>6, <1>7
<1>9. PICK s \in SessionIDs :
        /\ session[s].state = "none" /\ NewSession(s, p.family, p.pw, p.late \/ b.old)
        /\ authReq' = [authReq EXCEPT ![r].pc = "replace", ![r].new = s]
  BY <1>2, <1>5, Zenon DEF CreateSuccessor
<1>10. PICK n : n = [state |-> "live", expired |-> FALSE, family |-> p.family, pw |-> p.pw, late |-> h]
  OBVIOUS
<1>11. n \in SessionRow /\ n.state = "live" /\ n.family = p.family /\ n.pw = p.pw /\ n.late = h
  BY <1>6, <1>10 DEF SessionRow
<1>12. session' = [session EXCEPT ![s] = n]
  BY <1>7, <1>9, <1>10 DEF NewSession
<1>13. session'[s] = n /\ \A x \in SessionIDs \ {s} : session'[x] = session[x]
  BY <1>9, <1>11, <1>12, BirthKeeps
<1>14. PICK d : d = [b EXCEPT !.pc = "replace", !.new = s]
  OBVIOUS
<1>15. d \in AuthRequest /\ d.pc = "replace" /\ d.op = "refresh" /\ d.sid = b.sid /\ d.gen = b.gen
  BY <1>3, <1>4, <1>14 DEF AuthRequest
<1>16. authReq' = [authReq EXCEPT ![r] = d]
  BY <1>2, <1>3, <1>9, <1>14 DEF SessionsInv, SessionsTypeOK, AuthRequest
<1>17. SignInFits(d)
  BY <1>3, <1>4, <1>15 DEF SignInFits
<1>18. forked' = forked \cup (IF p.state = "live" /\ ~Rotating(b.sid) THEN {} ELSE {p.family})
  BY <1>2, <1>5 DEF CreateSuccessor
<1>19. p.family \in SessionIDs /\ session[p.family].state # "none" /\ forked' \subseteq SessionIDs
  BY <1>4, <1>5, <1>6, <1>18 DEF SessionRow, SessionsInv, FamiliesBegun, SessionsTypeOK
<1>20. authReq'[r] = d /\ \A q \in AuthReqs \ {r} : authReq'[q] = authReq[q]
  BY <1>16 DEF SessionsInv, SessionsTypeOK
<1>21. Rotating(b.sid)' /\ \A z \in SessionIDs : Rotating(z) => Rotating(z)'
  BY <1>1, <1>15, <1>20 DEF Rotating, At
<1>22. OneUsable'
  <2> SUFFICES ASSUME NEW f \in SessionIDs, f \notin forked', NEW x \in LiveIn(f)', NEW y \in LiveIn(f)',
                      x \notin RotatingFrom', y \notin RotatingFrom'
               PROVE  x = y
    BY DEF OneUsable
  <2>1. f \notin forked /\ x \in SessionIDs /\ y \in SessionIDs
    BY <1>18 DEF LiveIn
  <2>2. x \notin RotatingFrom /\ y \notin RotatingFrom /\ x # b.sid /\ y # b.sid
    BY <1>4, <1>21, <2>1 DEF RotatingFrom
  <2>3. \A z \in LiveIn(f)' : z = s \/ z \in LiveIn(f)
    BY <1>13 DEF LiveIn
  <2>4. CASE f # p.family
    <3>1. s \notin LiveIn(f)'
      BY <1>11, <1>13, <2>4 DEF LiveIn
    <3> QED
      BY <2>1, <2>2, <2>3, <3>1 DEF SessionsInv, OneUsable
  <2>5. CASE f = p.family
    <3>1. p.state = "live" /\ ~Rotating(b.sid)
      BY <1>18, <2>5
    <3>2. b.sid \in LiveIn(f) /\ b.sid \notin RotatingFrom
      BY <1>4, <1>5, <2>5, <3>1 DEF LiveIn, RotatingFrom
    <3>3. \A z \in LiveIn(f) : z \notin RotatingFrom => z = b.sid
      BY <2>1, <3>2 DEF SessionsInv, OneUsable
    <3> QED
      BY <2>2, <2>3, <3>3
  <2> QED
    BY <2>4, <2>5
<1>23. d # AuthIdle => SignInFits(d)
  BY <1>17
<1>24. n.pw < ended => n.late = TRUE
  BY <1>8, <1>11
<1>25. n.family = s \/ session[n.family].state # "none"
  BY <1>11, <1>19
<1> QED
  BY <1>1, <1>9, <1>11, <1>12, <1>15, <1>16, <1>19, <1>22, <1>23, <1>24, <1>25, BirthInv

LEMMA RevokeAllForUserInv ==
  ASSUME SessionsInv, NEW r \in AuthReqs, RevokeAllForUser(r)
  PROVE  SessionsInv'
<1> USE SessionsAssumption
<1>1. /\ At(r, "all") /\ ~At(r, "idle") /\ RevokeAll(RevokedForUser)
      /\ UNCHANGED <<reset, credentials, lockout, authOps, forked>>
  BY DEF RevokeAllForUser, At
<1>2. /\ password' = password /\ issued' = issued /\ active' = active /\ fails' = fails /\ locked' = locked
      /\ redisUp' = redisUp /\ guesses' = guesses /\ forked' = forked /\ reset' = reset /\ authOps' = authOps
  BY <1>1 DEF credentials, lockout
<1>3. authReq \in [AuthReqs -> AuthRequest \cup {AuthIdle}]
  BY DEF SessionsInv, SessionsTypeOK
<1>4. authReq[r] \in AuthRequest /\ SignInFits(authReq[r])
  BY <1>1, AuthIsKnown
<1>5. PICK g \in 0..MaxPasswords : g = authReq[r].gen /\ g <= issued
  BY <1>4 DEF AuthRequest, SignInFits
<1>6. issued \in 0..MaxPasswords /\ ended \in 0..MaxPasswords /\ ended <= issued
  BY DEF SessionsInv, SessionsTypeOK, PasswordInForce
<1>7. ended' = IF g > ended THEN g ELSE ended
  BY <1>5 DEF RevokeAllForUser
<1>8. ended' \in 0..MaxPasswords /\ ended' <= issued'
  BY <1>2, <1>5, <1>6, <1>7
<1>9. PasswordInForce'
  BY <1>2, <1>8 DEF SessionsInv, PasswordInForce
<1>10. /\ session' \in [SessionIDs -> SessionRow] /\ RowsKept /\ NoneBorn
       /\ \A s \in SessionIDs : session'[s].state # "live"
  <2>1. PICK S : S = RevokedForUser
    OBVIOUS
  <2>2. \A s \in S \cap SessionIDs : session[s].state # "none"
    BY <2>1 DEF RevokedForUser
  <2>3. /\ session' \in [SessionIDs -> SessionRow] /\ RowsKept /\ NoneBorn
        /\ \A s \in S \cap SessionIDs : session'[s].state = "revoked"
        /\ \A s \in SessionIDs \ S : session'[s] = session[s]
    BY <1>1, <2>1, <2>2, RevokingIsSafe
  <2>4. \A s \in SessionIDs \ S : session[s].state # "live"
    BY <2>1 DEF RevokedForUser
  <2>5. ASSUME NEW s \in SessionIDs PROVE session'[s].state # "live"
    <3>1. CASE s \in S
      BY <2>3, <3>1
    <3>2. CASE s \notin S
      BY <2>3, <2>4, <3>2
    <3> QED
      BY <3>1, <3>2
  <2> QED
    BY <2>3, <2>5
<1>11. /\ authReq'[r] = AuthIdle
       /\ \A q \in AuthReqs \ {r} : authReq[q] = AuthIdle => authReq'[q] = AuthIdle
       /\ \A q \in AuthReqs \ {r} : authReq[q] # AuthIdle => authReq'[q] = [authReq[q] EXCEPT !.old = TRUE]
       /\ authReq' = [q \in AuthReqs |-> authReq'[q]]
  <2>1. authReq' = [q \in AuthReqs |-> CASE q = r -> AuthIdle
                                         [] q # r /\ At(q, "idle") -> AuthIdle
                                         [] q # r /\ ~At(q, "idle") -> [authReq[q] EXCEPT !.old = TRUE]]
    BY DEF RevokeAllForUser
  <2>2. \A q \in AuthReqs : authReq[q] = AuthIdle <=> At(q, "idle")
    BY AuthIdleIsAlone DEF SessionsInv
  <2>3. authReq'[r] = AuthIdle
    BY <2>1
  <2>4. \A q \in AuthReqs \ {r} : authReq[q] = AuthIdle => authReq'[q] = AuthIdle
    BY <2>1, <2>2
  <2>5. \A q \in AuthReqs \ {r} : authReq[q] # AuthIdle => authReq'[q] = [authReq[q] EXCEPT !.old = TRUE]
    BY <2>1, <2>2
  <2>6. authReq' = [q \in AuthReqs |-> authReq'[q]]
    BY <2>1
  <2> QED
    BY <2>3, <2>4, <2>5, <2>6
<1>12. \A q \in AuthReqs \ {r} : authReq[q] # AuthIdle =>
         /\ authReq'[q] \in AuthRequest /\ authReq'[q].pc = authReq[q].pc /\ authReq'[q].op = authReq[q].op
         /\ authReq'[q].gen = authReq[q].gen /\ authReq'[q].sid = authReq[q].sid /\ authReq'[q].old = TRUE
  <2> SUFFICES ASSUME NEW q \in AuthReqs \ {r}, authReq[q] # AuthIdle
               PROVE  /\ authReq'[q] \in AuthRequest /\ authReq'[q].pc = authReq[q].pc /\ authReq'[q].op = authReq[q].op
                      /\ authReq'[q].gen = authReq[q].gen /\ authReq'[q].sid = authReq[q].sid /\ authReq'[q].old = TRUE
    OBVIOUS
  <2>1. PICK b \in AuthRequest : b = authReq[q]
    BY <1>3
  <2>2. authReq'[q] = [b EXCEPT !.old = TRUE]
    BY <1>11, <2>1
  <2>3. PICK e : e = [b EXCEPT !.old = TRUE]
    OBVIOUS
  <2>4. e \in AuthRequest /\ e.pc = b.pc /\ e.op = b.op /\ e.gen = b.gen /\ e.sid = b.sid /\ e.old = TRUE
    BY <2>3 DEF AuthRequest
  <2> QED
    BY <2>1, <2>2, <2>3, <2>4
<1>13. authReq' \in [AuthReqs -> AuthRequest \cup {AuthIdle}]
  <2>1. \A q \in AuthReqs : authReq'[q] \in AuthRequest \cup {AuthIdle}
    BY <1>11, <1>12
  <2> QED
    BY <1>11, <2>1
<1>14. SessionsTypeOK'
  BY <1>2, <1>8, <1>10, <1>13 DEF SessionsInv, SessionsTypeOK
<1>15. SignInsFit'
  <2> SUFFICES ASSUME NEW q \in AuthReqs, authReq'[q] # AuthIdle PROVE SignInFits(authReq[q])'
    BY DEF SignInsFit
  <2>1. q # r /\ authReq[q] # AuthIdle
    BY <1>11
  <2>2. PICK e : e = authReq'[q]
    OBVIOUS
  <2>3. PICK b : b = authReq[q]
    OBVIOUS
  <2>4. SignInFits(b) /\ b.pc = e.pc /\ b.op = e.op /\ b.gen = e.gen /\ b.sid = e.sid /\ e.old = TRUE
    BY <1>12, <2>1, <2>2, <2>3 DEF SessionsInv, SignInsFit
  <2>5. b.op \in {"refresh", "logout"} => b.sid \in SessionIDs /\ session'[b.sid].state # "none"
    BY <1>10, <2>4 DEF SignInFits, RowsKept
  <2>6. SignInFits(e)'
    BY <1>2, <2>4, <2>5 DEF SignInFits
  <2> QED
    BY <2>2, <2>6
<1>16. ResetEndsSessions'
  BY <1>10 DEF ResetEndsSessions
<1>17. FamiliesBegun'
  <2> SUFFICES ASSUME NEW s \in SessionIDs, session'[s].state # "none" PROVE session'[session'[s].family].state # "none"
    BY DEF FamiliesBegun
  <2>1. session[s].state # "none" /\ session[s].family \in SessionIDs /\ session'[s].family = session[s].family
    BY <1>10 DEF NoneBorn, RowsKept, SessionRow, SessionsInv, SessionsTypeOK
  <2> QED
    BY <1>10, <2>1 DEF SessionsInv, FamiliesBegun, RowsKept
<1>18. OneUsable'
  BY <1>10 DEF OneUsable, LiveIn
<1>19. GuessesFit'
  <2>1. \A q \in AuthReqs \ {r} : authReq'[q].pc = authReq[q].pc /\ (authReq[q] # AuthIdle => authReq'[q].op = authReq[q].op)
    BY <1>11, <1>12
  <2>2. authReq'[r].pc = "idle" /\ ~At(r, "lock")
    BY <1>1, <1>11 DEF AuthIdle, At
  <2>3. Locking \subseteq Locking'
    BY <2>1, <2>2 DEF Locking, At
  <2>4. PastCheck' \subseteq PastCheck
    <3> SUFFICES ASSUME NEW q \in PastCheck' PROVE q \in PastCheck
      OBVIOUS
    <3>1. q \in AuthReqs /\ q # r
      BY <2>2 DEF PastCheck, At, Is
    <3>2. authReq[q] # AuthIdle
      BY <2>1, <3>1 DEF PastCheck, At, Is, AuthIdle
    <3> QED
      BY <2>1, <3>1, <3>2 DEF PastCheck, At, Is
  <2> QED
    BY <1>2, <2>3, <2>4, LockoutStays
<1> QED
  BY <1>9, <1>14, <1>15, <1>16, <1>17, <1>18, <1>19 DEF SessionsInv

LEMMA SessionsNextInv ==
  ASSUME SessionsInv, [SessionsNext]_sessionsVars
  PROVE  SessionsInv'
<1>1. CASE UNCHANGED sessionsVars
  BY <1>1 DEF sessionsVars, SessionsInv, SessionsTypeOK, PasswordInForce, SignInsFit, SignInFits, ResetEndsSessions,
              FamiliesBegun, OneUsable, LiveIn, RotatingFrom, Rotating, GuessesFit, Locking, PastCheck, At, Is
<1>2. ASSUME NEW r \in AuthReqs,
             \/ BeginAuth(r) \/ RequestFails(r)
             \/ CheckLocked(r) \/ Authenticate(r) \/ LoginFailed(r) \/ LockAccount(r)
             \/ ResetAttempts(r) \/ IssuePair(r)
             \/ FindToken(r) \/ RevokeFamily(r) \/ ActiveUser(r) \/ CreateSuccessor(r)
             \/ ReplaceSession(r) \/ RevokeSession(r)
             \/ ForgetPending(r) \/ CommitReset(r) \/ FindResetToken(r) \/ CheckCurrent(r)
             \/ UpdatePassword(r) \/ SpendPending(r) \/ RevokeAllForUser(r)
      PROVE  SessionsInv'
  BY <1>2, BeginAuthInv, RequestFailsInv, CheckLockedInv, AuthenticateInv, LoginFailedInv, LockAccountInv,
     ResetAttemptsInv, IssuePairInv, FindTokenInv, RevokeFamilyInv, ActiveUserInv, CreateSuccessorInv,
     ReplaceOrRevokeInv, ForgetPendingInv, CommitResetInv, TokenStepsInv, UpdatePasswordInv, RevokeAllForUserInv
<1>3. CASE \/ \E s \in SessionIDs : ExpireSession(s) \/ PruneSession(s)
           \/ \E k \in ResetIDs : ExpireToken(k) \/ PruneToken(k)
  BY <1>3, TimePassesInv
<1>4. CASE EraseAccount
  BY <1>4, EraseAccountInv
<1>5. CASE LockExpires \/ FailuresExpire \/ RedisToggles
  BY <1>5, LockoutTimesInv
<1> QED
  BY <1>1, <1>2, <1>3, <1>4, <1>5 DEF SessionsNext

LEMMA SessionsKeepInv == SessionsSpec => []SessionsInv
BY SessionsInitInv, SessionsNextInv, PTL DEF SessionsSpec

(* A password reset that completed ends every older sign-in                *)
(* (RevokeAllForUser), for every number of sessions, tokens and concurrent *)
(* requests: what is live and older was under way when the reset revoked   *)
(* the others.                                                             *)
THEOREM ResetEndsSignIns == SessionsSpec => []ResetEndsSessions
<1>1. SessionsInv => ResetEndsSessions
  BY DEF SessionsInv
<1> QED
  BY <1>1, SessionsKeepInv, PTL

LEMMA OneTokenFollows ==
  ASSUME SessionsInv
  PROVE  OneTokenPerSignIn
<1> SUFFICES ASSUME NEW f \in SessionIDs, f \notin forked,
                    ~ \E r \in AuthReqs : At(r, "replace") /\ session[authReq[r].sid].family = f
             PROVE  Cardinality(LiveIn(f)) <= 1
  BY DEF OneTokenPerSignIn
<1>1. \A x \in LiveIn(f) : x \notin RotatingFrom
  BY DEF LiveIn, RotatingFrom, Rotating
<1>2. \A x, y \in LiveIn(f) : x = y
  BY <1>1 DEF SessionsInv, OneUsable
<1>3. CASE LiveIn(f) = {}
  BY <1>3, FS_EmptySet
<1>4. ASSUME NEW x \in LiveIn(f) PROVE Cardinality(LiveIn(f)) <= 1
  <2>1. LiveIn(f) = {x}
    BY <1>2
  <2>2. Cardinality({x}) = 1
    BY FS_Singleton
  <2> QED
    BY <2>1, <2>2
<1> QED
  BY <1>3, <1>4

LEMMA GuessesBoundedFollows ==
  ASSUME SessionsInv
  PROVE  GuessesBounded
<1>1. /\ Cardinality(PastCheck) \in Nat /\ Cardinality(Locking) \in Nat /\ Cardinality(AuthReqs) \in Nat
      /\ Cardinality(Locking) <= Cardinality(AuthReqs)
  <2>1. Locking \subseteq AuthReqs /\ PastCheck \subseteq AuthReqs
    BY DEF Locking, PastCheck
  <2> QED
    BY <2>1, SessionsAssumption, FS_Subset, FS_CardinalityType
<1>2. guesses \in Nat /\ MaxFailures \in Nat
  BY SessionsAssumption DEF SessionsInv, SessionsTypeOK
<1>3. CASE locked
  BY <1>1, <1>2, <1>3 DEF SessionsInv, GuessesFit, GuessesBounded
<1>4. CASE ~locked
  BY <1>1, <1>2, <1>4 DEF SessionsInv, GuessesFit, GuessesBounded
<1> QED
  BY <1>3, <1>4

(* A sign-in has one usable token unless a rotation failed or overlapped   *)
(* another one (Refresh, issuePair), and a lockout window lets in no more  *)
(* wrong passwords than the limit and the requests already past the check  *)
(* (Login, LoginLockout.Fail).                                             *)
THEOREM SessionsAreSound == SessionsSpec => []SessionsInvariant
<1>1. SessionsInv => SessionsInvariant
  BY OneTokenFollows, GuessesBoundedFollows DEF SessionsInv, SessionsInvariant
<1> QED
  BY <1>1, SessionsKeepInv, PTL

-----------------------------------------------------------------------------
(* Identity.  An address has one holder because every write is under the   *)
(* unique index.  A proof buys one thing because what it bought marks it   *)
(* gone in the same statement: for a sign-up token with the account, for   *)
(* an OAuth state before the request that consumed it goes on.             *)

StateConsumed(d) == d.op = "oauth" /\ d.pc \in {"find", "link", "resolve"}

IdFits(d) ==
  /\ d.op = "verify" => d.key \in RegIDs /\ reg[d.key].state # "none" /\ reg[d.key].email = d.email
  /\ d.op \in {"request", "confirm"} => d.user \in UserIDs
  /\ d.op = "confirm" => d.key \in ChangeIDs /\ change[d.key].state # "none"
  /\ d.op = "oauth" => d.key \in StateIDs
  /\ StateConsumed(d) => oauthState[d.key] = "gone" /\ spent[d.key] = 0

IdReqsFit == \A r \in IdReqs : idReq[r] # IdIdle => IdFits(idReq[r])

OneConsumer ==
  \A r, q \in IdReqs : /\ idReq[r] # IdIdle /\ idReq[q] # IdIdle
                       /\ StateConsumed(idReq[r]) /\ StateConsumed(idReq[q])
                       /\ idReq[r].key = idReq[q].key
                       => r = q

TokensName ==
  /\ \A k \in RegIDs : reg[k].state # "none" => reg[k].email \in Addresses
  /\ \A t \in ChangeIDs : change[t].state # "none" => change[t].user \in UserIDs /\ change[t].email \in Addresses
  /\ \A t \in ChangeIDs : change[t].state = "none" => change[t].user \notin UserIDs

OneHolder ==
  \A u, v \in UserIDs : /\ account[u].state # "none" /\ account[v].state # "none"
                        /\ account[u].email \in Addresses /\ account[u].email = account[v].email
                        => u = v

SpentIsGone ==
  /\ \A k \in RegIDs : spent[k] <= 1 /\ (spent[k] = 1 => reg[k].state = "gone")
  /\ \A s \in StateIDs : spent[s] <= 1 /\ (spent[s] = 1 => oauthState[s] = "gone")

IdentityInv == IdentityTypeOK /\ IdReqsFit /\ OneConsumer /\ TokensName /\ OneHolder /\ SpentIsGone

LEMMA IdIdleIsAlone ==
  /\ IdIdle.pc = "idle" /\ ~StateConsumed(IdIdle)
  /\ \A d \in IdRequest : d.pc # "idle" /\ d # IdIdle
<1>1. IdIdle.pc = "idle"
  BY DEF IdIdle
<1>2. \A d \in IdRequest : d.pc # "idle"
  BY DEF IdRequest
<1> QED
  BY <1>1, <1>2 DEF StateConsumed

LEMMA IdIsKnown ==
  ASSUME IdentityInv, NEW r \in IdReqs, idReq[r].pc # "idle"
  PROVE  idReq[r] \in IdRequest /\ IdFits(idReq[r]) /\ idReq[r] # IdIdle
BY IdIdleIsAlone DEF IdentityInv, IdentityTypeOK, IdReqsFit

LEMMA IdentityInitInv == IdentityInit => IdentityInv
<1> SUFFICES ASSUME IdentityInit PROVE IdentityInv
  OBVIOUS
<1> USE IdentityAssumption
<1>1. PICK u0 \in UserIDs, e0 \in Addresses :
        account = [v \in UserIDs |-> IF v = u0 THEN [state |-> "active", email |-> e0]
                                     ELSE [state |-> "none", email |-> Anonymous]]
  BY DEF IdentityInit
<1>2. account \in [UserIDs -> AccountRow] /\ OneHolder
  <2>1. \A v \in UserIDs : account[v] \in AccountRow
    BY <1>1 DEF AccountRow
  <2>2. \A v \in UserIDs : v # u0 => account[v].state = "none"
    BY <1>1
  <2> QED
    BY <1>1, <2>1, <2>2 DEF OneHolder
<1>3. reg \in [RegIDs -> RegRow] /\ change \in [ChangeIDs -> ChangeRow] /\ TokensName
  BY DEF IdentityInit, RegRow, ChangeRow, TokensName
<1>4. IdentityTypeOK
  BY <1>2, <1>3 DEF IdentityInit, IdentityTypeOK
<1>5. IdReqsFit /\ OneConsumer
  BY DEF IdentityInit, IdReqsFit, OneConsumer
<1>6. SpentIsGone
  BY DEF IdentityInit, SpentIsGone
<1> QED
  BY <1>2, <1>3, <1>4, <1>5, <1>6 DEF IdentityInv

(* A step keeps what requests rely on.                                     *)
TokensLast ==
  /\ \A k \in RegIDs : reg[k].state # "none" => reg'[k].state # "none" /\ reg'[k].email = reg[k].email
  /\ \A t \in ChangeIDs : change[t].state # "none" => change'[t].state # "none"
  /\ \A s \in StateIDs : oauthState[s] = "gone" => oauthState'[s] = "gone"

IdTypes ==
  /\ account \in [UserIDs -> AccountRow] /\ reg \in [RegIDs -> RegRow] /\ change \in [ChangeIDs -> ChangeRow]
  /\ oauthState \in [StateIDs -> {"none", "saved", "gone"}] /\ linked \in UserIDs \cup {NoUser}
  /\ idOps \in 0..MaxIdOps /\ spent \in [RegIDs \cup StateIDs -> Nat]

IdData == IdTypes /\ TokensName /\ OneHolder /\ SpentIsGone

LEMMA IdFitsStill ==
  ASSUME TokensLast, NEW d \in IdRequest, IdFits(d), StateConsumed(d) => spent'[d.key] = spent[d.key]
  PROVE  IdFits(d)'
<1>1. d.op = "verify" => d.key \in RegIDs /\ reg'[d.key].state # "none" /\ reg'[d.key].email = d.email
  BY DEF IdFits, TokensLast
<1>2. d.op = "confirm" => d.key \in ChangeIDs /\ change'[d.key].state # "none"
  BY DEF IdFits, TokensLast
<1>3. StateConsumed(d) => oauthState'[d.key] = "gone" /\ spent'[d.key] = 0
  BY DEF IdFits, TokensLast, StateConsumed
<1> QED
  BY <1>1, <1>2, <1>3 DEF IdFits, StateConsumed

(* Request r becomes d.                                                    *)
LEMMA IdReqStepInv ==
  ASSUME IdentityInv, NEW r \in IdReqs, NEW d \in IdRequest \cup {IdIdle}, idReq' = [idReq EXCEPT ![r] = d],
         IdData', TokensLast, d # IdIdle => IdFits(d)',
         \A q \in IdReqs \ {r} : idReq[q] # IdIdle /\ StateConsumed(idReq[q]) =>
           /\ spent'[idReq[q].key] = spent[idReq[q].key]
           /\ d # IdIdle /\ StateConsumed(d) => d.key # idReq[q].key
  PROVE  IdentityInv'
<1>1. idReq \in [IdReqs -> IdRequest \cup {IdIdle}]
  BY DEF IdentityInv, IdentityTypeOK
<1>2. idReq'[r] = d /\ \A q \in IdReqs \ {r} : idReq'[q] = idReq[q]
  BY <1>1
<1>3. IdentityTypeOK'
  BY <1>1 DEF IdData, IdTypes, IdentityTypeOK
<1>4. IdReqsFit'
  <2> SUFFICES ASSUME NEW q \in IdReqs, idReq'[q] # IdIdle PROVE IdFits(idReq[q])'
    BY DEF IdReqsFit
  <2>1. PICK e : e = idReq'[q]
    OBVIOUS
  <2>2. CASE q = r
    <3>1. e = d
      BY <1>2, <2>1, <2>2
    <3>2. IdFits(e)'
      BY <2>1, <3>1
    <3> QED
      BY <2>1, <3>2
  <2>3. CASE q # r
    <3>1. e = idReq[q] /\ e \in IdRequest /\ IdFits(e) /\ (StateConsumed(e) => spent'[e.key] = spent[e.key])
      BY <1>1, <1>2, <2>1, <2>3 DEF IdentityInv, IdReqsFit
    <3>2. IdFits(e)'
      BY <3>1, IdFitsStill
    <3> QED
      BY <2>1, <3>2
  <2> QED
    BY <2>2, <2>3
<1>5. OneConsumer'
  <2> SUFFICES ASSUME NEW p \in IdReqs, NEW q \in IdReqs, idReq'[p] # IdIdle, idReq'[q] # IdIdle,
                      StateConsumed(idReq'[p]), StateConsumed(idReq'[q]), idReq'[p].key = idReq'[q].key
               PROVE  p = q
    BY DEF OneConsumer, StateConsumed
  <2>1. CASE p = r
    BY <1>2, <2>1
  <2>2. CASE q = r
    BY <1>2, <2>2
  <2>3. CASE p # r /\ q # r
    BY <1>2, <2>3 DEF IdentityInv, OneConsumer
  <2> QED
    BY <2>1, <2>2, <2>3
<1> QED
  BY <1>3, <1>4, <1>5 DEF IdentityInv, IdData

(* No request moves.                                                       *)
LEMMA IdEnvInv ==
  ASSUME IdentityInv, idReq' = idReq, spent' = spent, IdData', TokensLast
  PROVE  IdentityInv'
<1>1. IdentityTypeOK'
  BY DEF IdentityInv, IdData, IdTypes, IdentityTypeOK
<1>2. IdReqsFit'
  <2> SUFFICES ASSUME NEW q \in IdReqs, idReq[q] # IdIdle PROVE IdFits(idReq[q])'
    BY DEF IdReqsFit
  <2>1. PICK e : e = idReq[q]
    OBVIOUS
  <2>2. e \in IdRequest /\ IdFits(e)
    BY <2>1 DEF IdentityInv, IdReqsFit, IdentityTypeOK
  <2>3. IdFits(e)'
    BY <2>2, IdFitsStill
  <2>4. e = idReq'[q]
    BY <2>1
  <2> QED
    BY <2>3, <2>4
<1>3. OneConsumer'
  BY DEF IdentityInv, OneConsumer, StateConsumed
<1> QED
  BY <1>1, <1>2, <1>3 DEF IdentityInv, IdData

LEMMA IdDataStays ==
  ASSUME IdentityInv
  PROVE  /\ IdData
         /\ UNCHANGED <<reg, oauthState, spent>> => (SpentIsGone' /\ \A k \in RegIDs : reg'[k] = reg[k])
         /\ UNCHANGED <<reg, change>> => TokensName'
         /\ UNCHANGED account => OneHolder'
         /\ UNCHANGED <<reg, change, oauthState>> => TokensLast
<1>1. IdData
  BY DEF IdentityInv, IdData, IdTypes, IdentityTypeOK
<1>2. UNCHANGED <<reg, oauthState, spent>> => SpentIsGone'
  BY DEF IdentityInv, SpentIsGone
<1>3. UNCHANGED <<reg, change>> => TokensName'
  BY DEF IdentityInv, TokensName
<1>4. UNCHANGED account => OneHolder'
  BY DEF IdentityInv, OneHolder
<1>5. UNCHANGED <<reg, change, oauthState>> => TokensLast
  BY DEF TokensLast
<1> QED
  BY <1>1, <1>2, <1>3, <1>4, <1>5

(* Nothing stored changes but, at most, the link of the subject.           *)
LEMMA IdMovesInv ==
  ASSUME IdentityInv, NEW r \in IdReqs, NEW d \in IdRequest \cup {IdIdle}, idReq' = [idReq EXCEPT ![r] = d],
         UNCHANGED <<account, tokens, spent>>, linked' \in UserIDs \cup {NoUser}, idOps' \in 0..MaxIdOps,
         d # IdIdle => IdFits(d),
         d # IdIdle /\ StateConsumed(d) => StateConsumed(idReq[r]) /\ idReq[r] # IdIdle /\ d.key = idReq[r].key
  PROVE  IdentityInv'
<1>1. UNCHANGED <<account, reg, change, oauthState, spent>>
  BY DEF tokens
<1>2. IdData' /\ TokensLast
  <2>1. IdTypes'
    BY <1>1, IdDataStays DEF IdData, IdTypes
  <2> QED
    BY <1>1, <2>1, IdDataStays DEF IdData
<1>3. d # IdIdle => IdFits(d)'
  BY <1>1 DEF IdFits
<1>4. ASSUME NEW q \in IdReqs \ {r}, idReq[q] # IdIdle, StateConsumed(idReq[q])
      PROVE  /\ spent'[idReq[q].key] = spent[idReq[q].key]
             /\ d # IdIdle /\ StateConsumed(d) => d.key # idReq[q].key
  BY <1>1, <1>4 DEF IdentityInv, OneConsumer
<1> QED
  BY <1>2, <1>3, <1>4, IdReqStepInv

LEMMA IdDoneInv ==
  ASSUME IdentityInv, NEW r \in IdReqs, IdDone(r), UNCHANGED <<account, tokens, linked, idOps, spent>>
  PROVE  IdentityInv'
<1>1. linked' \in UserIDs \cup {NoUser} /\ idOps' \in 0..MaxIdOps /\ UNCHANGED <<account, tokens, spent>>
  BY DEF IdentityInv, IdentityTypeOK
<1>2. PICK d \in IdRequest \cup {IdIdle} : d = IdIdle
  OBVIOUS
<1> QED
  BY <1>1, <1>2, IdMovesInv DEF IdDone

(* The record of a request that goes on.                                   *)
LEMMA IdGotoFits ==
  ASSUME IdentityInv, NEW r \in IdReqs, idReq[r].pc # "idle", NEW x, IdGoto(r, x),
         x \in {"find", "hold", "consume", "insert", "revoke", "update", "mark", "link", "resolve"}
  PROVE  \E d \in IdRequest : /\ idReq' = [idReq EXCEPT ![r] = d] /\ d.pc = x /\ d.op = idReq[r].op
                              /\ d.key = idReq[r].key /\ d.user = idReq[r].user /\ d.email = idReq[r].email
<1>1. PICK b : b = idReq[r]
  OBVIOUS
<1>2. b \in IdRequest
  BY <1>1, IdIsKnown
<1>3. PICK d : d = [b EXCEPT !.pc = x]
  OBVIOUS
<1>4. d \in IdRequest /\ d.pc = x /\ d.op = b.op /\ d.key = b.key /\ d.user = b.user /\ d.email = b.email
  BY <1>2, <1>3 DEF IdRequest
<1>5. idReq' = [idReq EXCEPT ![r] = d]
  BY <1>1, <1>2, <1>3 DEF IdGoto, IdentityInv, IdentityTypeOK, IdRequest
<1> QED
  BY <1>1, <1>4, <1>5

LEMMA IdGotoInv ==
  ASSUME IdentityInv, NEW r \in IdReqs, idReq[r].pc # "idle", NEW x, IdGoto(r, x), idReq[r].op # "oauth",
         x \in {"find", "hold", "consume", "insert", "revoke", "update", "mark", "link", "resolve"},
         UNCHANGED <<account, tokens, linked, idOps, spent>>
  PROVE  IdentityInv'
<1>1. PICK d \in IdRequest : /\ idReq' = [idReq EXCEPT ![r] = d] /\ d.pc = x /\ d.op = idReq[r].op
                             /\ d.key = idReq[r].key /\ d.user = idReq[r].user /\ d.email = idReq[r].email
  BY IdGotoFits
<1>2. IdFits(d) /\ ~StateConsumed(d)
  <2>1. IdFits(idReq[r])
    BY IdIsKnown
  <2> QED
    BY <1>1, <2>1 DEF IdFits, StateConsumed
<1>3. linked' \in UserIDs \cup {NoUser} /\ idOps' \in 0..MaxIdOps /\ UNCHANGED <<account, tokens, spent>>
  BY DEF IdentityInv, IdentityTypeOK
<1> QED
  BY <1>1, <1>2, <1>3, IdMovesInv

LEMMA BeginIdInv ==
  ASSUME IdentityInv, NEW r \in IdReqs, NEW op, NEW pc, NEW user \in UserIDs \cup {NoUser}, NEW email \in Addresses,
         NEW key \in RegIDs \cup ChangeIDs \cup StateIDs \cup {NoUser}, BeginId(r, op, pc, user, email, key),
         \/ op \in {"register", "create"} /\ pc = "find"
         \/ op = "verify" /\ pc = "find" /\ key \in RegIDs /\ reg[key].state # "none" /\ reg[key].email = email
         \/ op = "request" /\ pc = "find" /\ user \in UserIDs
         \/ op = "confirm" /\ pc = "find" /\ user \in UserIDs /\ key \in ChangeIDs /\ change[key].state # "none"
         \/ op = "oauth" /\ pc = "consume" /\ key \in StateIDs
  PROVE  IdentityInv'
<1>1. PICK d : d = [op |-> op, pc |-> pc, user |-> user, email |-> email, key |-> key]
  OBVIOUS
<1>2. d.op = op /\ d.pc = pc /\ d.user = user /\ d.email = email /\ d.key = key
  BY <1>1
<1>3. d \in IdRequest
  BY <1>1 DEF IdRequest
<1>4. IdFits(d) /\ ~StateConsumed(d)
  BY <1>2 DEF IdFits, StateConsumed
<1>5. /\ idReq' = [idReq EXCEPT ![r] = d] /\ UNCHANGED <<account, tokens, spent>>
      /\ linked' \in UserIDs \cup {NoUser} /\ idOps' \in 0..MaxIdOps
  BY <1>1, IdentityAssumption DEF BeginId, IdentityInv, IdentityTypeOK
<1> QED
  BY <1>3, <1>4, <1>5, IdMovesInv

LEMMA IdBeginsInv ==
  ASSUME IdentityInv, NEW r \in IdReqs, BeginRegister(r) \/ BeginCreate(r) \/ BeginChange(r) \/ BeginCallback(r)
  PROVE  IdentityInv'
<1>1. CASE BeginRegister(r)
  <2>1. ASSUME NEW e \in Addresses, BeginId(r, "register", "find", NoUser, e, NoUser) PROVE IdentityInv'
    BY <2>1, BeginIdInv
  <2>2. ASSUME NEW k \in RegIDs, reg[k].state # "none", BeginId(r, "verify", "find", NoUser, reg[k].email, k) PROVE IdentityInv'
    <3>1. PICK e \in Addresses : e = reg[k].email
      BY <2>2 DEF IdentityInv, TokensName
    <3> QED
      BY <2>2, <3>1, BeginIdInv
  <2> QED
    BY <1>1, <2>1, <2>2 DEF BeginRegister
<1>2. CASE BeginCreate(r)
  <2>1. ASSUME NEW e \in Addresses, BeginId(r, "create", "find", NoUser, e, NoUser) PROVE IdentityInv'
    BY <2>1, BeginIdInv
  <2> QED
    BY <1>2, <2>1 DEF BeginCreate
<1>3. CASE BeginChange(r)
  <2>1. ASSUME NEW u \in UserIDs, NEW e \in Addresses, BeginId(r, "request", "find", u, e, NoUser) PROVE IdentityInv'
    BY <2>1, BeginIdInv
  <2>2. ASSUME NEW t \in ChangeIDs, change[t].state # "none", BeginId(r, "confirm", "find", change[t].user, change[t].email, t)
        PROVE  IdentityInv'
    <3>1. PICK u \in UserIDs, e \in Addresses : u = change[t].user /\ e = change[t].email
      BY <2>2 DEF IdentityInv, TokensName
    <3> QED
      BY <2>2, <3>1, BeginIdInv
  <2> QED
    BY <1>3, <2>1, <2>2 DEF BeginChange
<1>4. CASE BeginCallback(r)
  <2>1. ASSUME NEW s \in StateIDs, NEW e \in Addresses, BeginId(r, "oauth", "consume", NoUser, e, s) PROVE IdentityInv'
    BY <2>1, BeginIdInv
  <2> QED
    BY <1>4, <2>1 DEF BeginCallback
<1> QED
  BY <1>1, <1>2, <1>3, <1>4

(* The steps that only look.                                               *)
LEMMA IdLooksInv ==
  ASSUME IdentityInv, NEW r \in IdReqs,
         \/ IdFails(r) \/ RegisterFind(r) \/ VerifyFind(r) \/ EnsureIdentityFree(r)
         \/ RequestChecks(r) \/ EmailChangeToken(r) \/ ConfirmChecks(r)
  PROVE  IdentityInv'
<1>1. UNCHANGED <<account, tokens, linked, idOps, spent>>
  BY DEF IdFails, RegisterFind, VerifyFind, EnsureIdentityFree, RequestChecks, EmailChangeToken, ConfirmChecks
<1>2. CASE IdDone(r)
  BY <1>1, <1>2, IdDoneInv
<1>3. ASSUME NEW x \in {"insert", "revoke", "hold", "update"}, IdGoto(r, x), idReq[r].pc # "idle", idReq[r].op # "oauth"
      PROVE  IdentityInv'
  BY <1>1, <1>3, IdGotoInv
<1>4. CASE RegisterFind(r)
  BY <1>2, <1>3, <1>4 DEF RegisterFind, IdAt
<1>5. CASE VerifyFind(r)
  BY <1>2, <1>3, <1>5 DEF VerifyFind, IdAt
<1>6. CASE EnsureIdentityFree(r)
  BY <1>2, <1>3, <1>6 DEF EnsureIdentityFree, IdAt
<1>7. CASE RequestChecks(r)
  BY <1>2, <1>3, <1>7 DEF RequestChecks, IdAt
<1>8. CASE EmailChangeToken(r)
  BY <1>2, <1>3, <1>8 DEF EmailChangeToken, IdAt
<1>9. CASE ConfirmChecks(r)
  BY <1>2, <1>3, <1>9 DEF ConfirmChecks, IdAt
<1>10. CASE IdFails(r)
  BY <1>2, <1>10 DEF IdFails
<1> QED
  BY <1>4, <1>5, <1>6, <1>7, <1>8, <1>9, <1>10

(* A request ends with what it wrote.                                      *)
LEMMA IdEndsInv ==
  ASSUME IdentityInv, NEW r \in IdReqs, IdDone(r), IdData', TokensLast,
         \A q \in IdReqs \ {r} : idReq[q] # IdIdle /\ StateConsumed(idReq[q]) => spent'[idReq[q].key] = spent[idReq[q].key]
  PROVE  IdentityInv'
<1>1. PICK d \in IdRequest \cup {IdIdle} : d = IdIdle
  OBVIOUS
<1>2. idReq' = [idReq EXCEPT ![r] = d]
  BY <1>1 DEF IdDone
<1> QED
  BY <1>1, <1>2, IdReqStepInv

LEMMA StartRegistrationInv ==
  ASSUME IdentityInv, NEW r \in IdReqs, StartRegistration(r)
  PROVE  IdentityInv'
<1>1. UNCHANGED <<account, change, oauthState, linked, idOps, spent>> /\ IdDone(r)
  BY DEF StartRegistration
<1>2. PICK e \in Addresses : e = idReq[r].email
  <2>1. idReq[r] \in IdRequest
    BY IdIsKnown DEF StartRegistration, IdAt
  <2> QED
    BY <2>1 DEF IdRequest
<1>3. CASE UNCHANGED reg
  BY <1>1, <1>3, IdDoneInv DEF tokens
<1>4. ASSUME NEW k \in RegIDs, reg[k].state = "none", reg' = [reg EXCEPT ![k] = [state |-> "live", email |-> e]]
      PROVE  IdentityInv'
  <2>1. PICK w : w = [state |-> "live", email |-> e]
    OBVIOUS
  <2>2. w \in RegRow /\ w.state = "live" /\ w.email = e
    BY <2>1 DEF RegRow
  <2>3. reg \in [RegIDs -> RegRow] /\ reg' = [reg EXCEPT ![k] = w]
    BY <1>4, <2>1 DEF IdentityInv, IdentityTypeOK
  <2>4. IdTypes'
    BY <1>1, <2>2, <2>3, IdDataStays DEF IdData, IdTypes
  <2>5. TokensLast
    BY <1>1, <1>4, <2>3 DEF TokensLast
  <2>6. TokensName'
    BY <1>1, <2>2, <2>3 DEF IdentityInv, TokensName
  <2>7. SpentIsGone'
    BY <1>1, <1>4, <2>3 DEF IdentityInv, SpentIsGone
  <2>8. OneHolder'
    BY <1>1, IdDataStays
  <2> QED
    BY <1>1, <2>4, <2>5, <2>6, <2>7, <2>8, IdEndsInv DEF IdData
<1> QED
  BY <1>2, <1>3, <1>4 DEF StartRegistration

(* users.Create gives the address to one who has none.                     *)
LEMMA CreateUserHolds ==
  ASSUME IdentityInv, NEW e \in Addresses, CreateUser(e)
  PROVE  account' \in [UserIDs -> AccountRow] /\ OneHolder'
<1>1. PICK u \in UserIDs : /\ account[u].state = "none"
                           /\ account' = [account EXCEPT ![u] = [state |-> "active", email |-> e]]
  BY DEF CreateUser
<1>2. PICK w : w = [state |-> "active", email |-> e]
  OBVIOUS
<1>3. w \in AccountRow /\ w.email = e
  BY <1>2 DEF AccountRow
<1>4. account \in [UserIDs -> AccountRow] /\ account' = [account EXCEPT ![u] = w]
  BY <1>1, <1>2 DEF IdentityInv, IdentityTypeOK
<1>5. \A v \in UserIDs : account[v].state # "none" => account[v].email # e
  BY DEF CreateUser, Holders
<1> QED
  BY <1>3, <1>4, <1>5 DEF IdentityInv, OneHolder

LEMMA AdminCreateUserInv ==
  ASSUME IdentityInv, NEW r \in IdReqs, AdminCreateUser(r)
  PROVE  IdentityInv'
<1>1. UNCHANGED <<tokens, linked, idOps, spent>> /\ IdDone(r)
  BY DEF AdminCreateUser
<1>2. PICK e \in Addresses : e = idReq[r].email
  <2>1. idReq[r] \in IdRequest
    BY IdIsKnown DEF AdminCreateUser, IdAt
  <2> QED
    BY <2>1 DEF IdRequest
<1>3. CASE UNCHANGED account
  BY <1>1, <1>3, IdDoneInv
<1>4. CASE CreateUser(e)
  <2>1. account' \in [UserIDs -> AccountRow] /\ OneHolder'
    BY <1>4, CreateUserHolds
  <2>2. UNCHANGED <<reg, change, oauthState>>
    BY <1>1 DEF tokens
  <2>3. IdTypes'
    BY <1>1, <2>1, <2>2, IdDataStays DEF IdData, IdTypes
  <2>4. TokensLast /\ TokensName' /\ SpentIsGone'
    BY <1>1, <2>2, IdDataStays
  <2> QED
    BY <1>1, <2>1, <2>3, <2>4, IdEndsInv DEF IdData
<1> QED
  BY <1>2, <1>3, <1>4 DEF AdminCreateUser

LEMMA CreateRegisteredUserInv ==
  ASSUME IdentityInv, NEW r \in IdReqs, CreateRegisteredUser(r)
  PROVE  IdentityInv'
<1>1. UNCHANGED <<change, oauthState, linked, idOps>> /\ IdDone(r)
  BY DEF CreateRegisteredUser
<1>2. idReq[r] \in IdRequest /\ IdFits(idReq[r]) /\ idReq[r].op = "verify"
  BY IdIsKnown DEF CreateRegisteredUser, IdAt
<1>3. PICK e \in Addresses, k \in RegIDs : e = idReq[r].email /\ k = idReq[r].key /\ reg[k].email = e
  BY <1>2 DEF IdRequest, IdFits
<1>4. CASE UNCHANGED <<account, reg, spent>>
  BY <1>1, <1>4, IdDoneInv DEF tokens
<1>5. ASSUME reg[k].state \in {"live", "expired"}, CreateUser(e),
             reg' = [j \in RegIDs |-> IF reg[j].email = e /\ reg[j].state \in {"live", "expired"}
                                      THEN [reg[j] EXCEPT !.state = "gone"] ELSE reg[j]],
             spent' = [spent EXCEPT ![k] = @ + 1]
      PROVE  IdentityInv'
  <2>1. account' \in [UserIDs -> AccountRow] /\ OneHolder'
    BY <1>5, CreateUserHolds
  <2>2. reg \in [RegIDs -> RegRow] /\ spent \in [RegIDs \cup StateIDs -> Nat]
    BY DEF IdentityInv, IdentityTypeOK
  <2>3. reg' \in [RegIDs -> RegRow]
    BY <1>5, <2>2 DEF RegRow
  <2>4. \A j \in RegIDs : reg'[j].email = reg[j].email /\ (reg'[j].state = reg[j].state \/ reg'[j].state = "gone")
    BY <1>5, <2>2 DEF RegRow
  <2>5. \A j \in RegIDs : reg[j].state \in {"none", "gone"} => reg'[j] = reg[j]
    BY <1>5, <2>2 DEF RegRow
  <2>6. reg'[k].state = "gone"
    BY <1>3, <1>5, <2>2 DEF RegRow
  <2>7. spent[k] = 0
    BY <1>5, <2>2 DEF IdentityInv, SpentIsGone
  <2>8. spent'[k] = 1 /\ (\A j \in RegIDs \cup StateIDs : j # k => spent'[j] = spent[j]) /\ spent' \in [RegIDs \cup StateIDs -> Nat]
    BY <1>5, <2>2, <2>7
  <2>9. IdTypes'
    BY <1>1, <2>1, <2>3, <2>8, IdDataStays DEF IdData, IdTypes
  <2>10. TokensLast
    BY <1>1, <2>4 DEF TokensLast
  <2>11. TokensName'
    BY <1>1, <2>4, <2>5, <2>2 DEF IdentityInv, TokensName, RegRow
  <2>12. SpentIsGone'
    <3>1. ASSUME NEW j \in RegIDs PROVE spent'[j] <= 1 /\ (spent'[j] = 1 => reg'[j].state = "gone")
      <4>1. CASE j = k
        BY <4>1, <2>6, <2>8
      <4>2. CASE j # k
        BY <4>2, <2>5, <2>8 DEF IdentityInv, SpentIsGone
      <4> QED
        BY <4>1, <4>2
    <3>2. ASSUME NEW s \in StateIDs PROVE spent'[s] <= 1 /\ (spent'[s] = 1 => oauthState'[s] = "gone")
      BY <1>1, <2>8, IdentityAssumption DEF IdentityInv, SpentIsGone
    <3> QED
      BY <3>1, <3>2 DEF SpentIsGone
  <2>13. \A q \in IdReqs \ {r} : idReq[q] # IdIdle /\ StateConsumed(idReq[q]) => spent'[idReq[q].key] = spent[idReq[q].key]
    <3> SUFFICES ASSUME NEW q \in IdReqs, idReq[q] # IdIdle, StateConsumed(idReq[q])
                 PROVE  spent'[idReq[q].key] = spent[idReq[q].key]
      OBVIOUS
    <3>1. idReq[q].key \in StateIDs
      BY DEF IdentityInv, IdReqsFit, IdFits, StateConsumed
    <3> QED
      BY <2>8, <3>1, IdentityAssumption
  <2> QED
    BY <1>1, <2>1, <2>9, <2>10, <2>11, <2>12, <2>13, IdEndsInv DEF IdData
<1> QED
  BY <1>3, <1>4, <1>5 DEF CreateRegisteredUser

(* A step that writes tokens of change, and no others.                     *)
LEMMA ChangesAreData ==
  ASSUME IdentityInv, UNCHANGED <<account, reg, oauthState, idOps, spent>>, linked' \in UserIDs \cup {NoUser},
         change' \in [ChangeIDs -> ChangeRow],
         \A t \in ChangeIDs : \/ change'[t] = change[t]
                              \/ change'[t].user \in UserIDs /\ change'[t].email \in Addresses /\ change'[t].state # "none"
                              \/ /\ change'[t].user = change[t].user /\ change'[t].email = change[t].email
                                 /\ change'[t].state # "none" /\ change[t].state # "none"
  PROVE  IdData' /\ TokensLast
<1>1. IdTypes'
  BY IdDataStays DEF IdData, IdTypes
<1>2. OneHolder' /\ SpentIsGone'
  BY IdDataStays
<1>3. \A t \in ChangeIDs : change'[t].state # "none" => change'[t].user \in UserIDs /\ change'[t].email \in Addresses
  BY DEF IdentityInv, TokensName
<1>4. \A t \in ChangeIDs : change'[t].state = "none" => change'[t].user \notin UserIDs
  BY DEF IdentityInv, TokensName
<1>5. TokensName'
  BY <1>3, <1>4 DEF IdentityInv, TokensName
<1>6. \A t \in ChangeIDs : change[t].state # "none" => change'[t].state # "none"
  OBVIOUS
<1>7. TokensLast
  BY <1>6 DEF TokensLast
<1> QED
  BY <1>1, <1>2, <1>5, <1>7 DEF IdData

LEMMA RevokePendingInv ==
  ASSUME IdentityInv, NEW r \in IdReqs, RevokePending(r)
  PROVE  IdentityInv'
<1>1. UNCHANGED <<account, reg, oauthState, linked, idOps, spent>> /\ IdGoto(r, "insert")
  BY DEF RevokePending
<1>2. idReq[r].pc # "idle" /\ idReq[r].op = "request"
  BY DEF RevokePending, IdAt
<1>3. PICK d \in IdRequest : /\ idReq' = [idReq EXCEPT ![r] = d] /\ d.pc = "insert" /\ d.op = idReq[r].op
                             /\ d.key = idReq[r].key /\ d.user = idReq[r].user /\ d.email = idReq[r].email
  BY <1>1, <1>2, IdGotoFits
<1>4. PICK u : u = idReq[r].user
  OBVIOUS
<1>5. change \in [ChangeIDs -> ChangeRow]
  BY DEF IdentityInv, IdentityTypeOK
<1>6. change' = [t \in ChangeIDs |-> IF change[t].user = u /\ change[t].state \in {"pending", "expired"}
                                     THEN [change[t] EXCEPT !.state = "used"] ELSE change[t]]
  BY <1>4 DEF RevokePending
<1>7. change' \in [ChangeIDs -> ChangeRow]
  BY <1>5, <1>6 DEF ChangeRow
<1>8. ASSUME NEW t \in ChangeIDs
      PROVE  \/ change'[t] = change[t]
             \/ /\ change'[t].user = change[t].user /\ change'[t].email = change[t].email
                /\ change'[t].state # "none" /\ change[t].state # "none"
  BY <1>5, <1>6 DEF ChangeRow
<1>9. linked' \in UserIDs \cup {NoUser}
  BY <1>1 DEF IdentityInv, IdentityTypeOK
<1>10. IdData' /\ TokensLast
  BY <1>1, <1>7, <1>8, <1>9, ChangesAreData
<1>11. IdFits(d)' /\ ~StateConsumed(d)
  <2>1. IdFits(idReq[r])
    BY <1>2, IdIsKnown
  <2>2. d.user \in UserIDs
    BY <1>2, <1>3, <2>1 DEF IdFits
  <2> QED
    BY <1>2, <1>3, <2>2 DEF IdFits, StateConsumed
<1> QED
  BY <1>1, <1>3, <1>10, <1>11, IdReqStepInv

LEMMA IssueChangeInv ==
  ASSUME IdentityInv, NEW r \in IdReqs, IssueChange(r)
  PROVE  IdentityInv'
<1>1. UNCHANGED <<account, reg, oauthState, linked, idOps, spent>> /\ IdDone(r)
  BY DEF IssueChange
<1>2. idReq[r] \in IdRequest /\ IdFits(idReq[r]) /\ idReq[r].op = "request"
  BY IdIsKnown DEF IssueChange, IdAt
<1>3. PICK u \in UserIDs, e \in Addresses : u = idReq[r].user /\ e = idReq[r].email
  BY <1>2 DEF IdRequest, IdFits
<1>4. PICK k \in ChangeIDs : change' = [change EXCEPT ![k] = [state |-> "pending", user |-> u, email |-> e]]
  BY <1>3 DEF IssueChange
<1>5. PICK w : w = [state |-> "pending", user |-> u, email |-> e]
  OBVIOUS
<1>6. w \in ChangeRow /\ w.state = "pending" /\ w.user = u /\ w.email = e
  BY <1>5 DEF ChangeRow
<1>7. change \in [ChangeIDs -> ChangeRow] /\ change' = [change EXCEPT ![k] = w]
  BY <1>4, <1>5 DEF IdentityInv, IdentityTypeOK
<1>8. change' \in [ChangeIDs -> ChangeRow]
  BY <1>6, <1>7
<1>9. ASSUME NEW t \in ChangeIDs
      PROVE  \/ change'[t] = change[t]
             \/ change'[t].user \in UserIDs /\ change'[t].email \in Addresses /\ change'[t].state # "none"
  BY <1>6, <1>7
<1>10. linked' \in UserIDs \cup {NoUser}
  BY <1>1 DEF IdentityInv, IdentityTypeOK
<1>11. IdData' /\ TokensLast
  BY <1>1, <1>8, <1>9, <1>10, ChangesAreData
<1> QED
  BY <1>1, <1>11, IdEndsInv

(* A token of change gets another state.                                   *)
LEMMA ChangeStateIsData ==
  ASSUME IdentityInv, UNCHANGED <<account, reg, oauthState, linked, idOps, spent>>, NEW k \in ChangeIDs,
         change[k].state # "none", NEW x \in {"used", "expired"}, change' = [change EXCEPT ![k].state = x]
  PROVE  IdData' /\ TokensLast
<1>1. change \in [ChangeIDs -> ChangeRow]
  BY DEF IdentityInv, IdentityTypeOK
<1>2. PICK b : b = change[k]
  OBVIOUS
<1>3. PICK w : w = [b EXCEPT !.state = x]
  OBVIOUS
<1>4. b \in ChangeRow /\ w \in ChangeRow /\ w.state = x /\ w.user = b.user /\ w.email = b.email
  BY <1>1, <1>2, <1>3 DEF ChangeRow
<1>5. change' = [change EXCEPT ![k] = w]
  BY <1>1, <1>2, <1>3, <1>4
<1>6. change' \in [ChangeIDs -> ChangeRow]
  BY <1>1, <1>4, <1>5
<1>7. ASSUME NEW t \in ChangeIDs
      PROVE  \/ change'[t] = change[t]
             \/ /\ change'[t].user = change[t].user /\ change'[t].email = change[t].email
                /\ change'[t].state # "none" /\ change[t].state # "none"
  BY <1>1, <1>2, <1>4, <1>5
<1>8. linked' \in UserIDs \cup {NoUser}
  BY DEF IdentityInv, IdentityTypeOK
<1> QED
  BY <1>6, <1>7, <1>8, ChangesAreData

LEMMA MarkUsedInv ==
  ASSUME IdentityInv, NEW r \in IdReqs, MarkUsed(r)
  PROVE  IdentityInv'
<1>1. UNCHANGED <<account, reg, oauthState, linked, idOps, spent>> /\ IdDone(r)
  BY DEF MarkUsed
<1>2. IdFits(idReq[r]) /\ idReq[r].op = "confirm"
  BY IdIsKnown DEF MarkUsed, IdAt
<1>3. PICK k \in ChangeIDs : k = idReq[r].key /\ change[k].state # "none"
  BY <1>2 DEF IdFits
<1>4. change' = [change EXCEPT ![k].state = "used"]
  BY <1>3 DEF MarkUsed
<1>5. IdData' /\ TokensLast
  BY <1>1, <1>3, <1>4, ChangeStateIsData
<1> QED
  BY <1>1, <1>5, IdEndsInv

LEMMA UpdateEmailInv ==
  ASSUME IdentityInv, NEW r \in IdReqs, UpdateEmail(r)
  PROVE  IdentityInv'
<1>1. UNCHANGED <<tokens, linked, idOps, spent>>
  BY DEF UpdateEmail
<1>2. idReq[r] \in IdRequest /\ IdFits(idReq[r]) /\ idReq[r].op = "confirm" /\ idReq[r].pc # "idle"
  BY IdIsKnown DEF UpdateEmail, IdAt
<1>3. PICK u \in UserIDs, e \in Addresses : u = idReq[r].user /\ e = idReq[r].email
  BY <1>2 DEF IdRequest, IdFits
<1>4. CASE IdDone(r) /\ UNCHANGED account
  BY <1>1, <1>4, IdDoneInv
<1>5. ASSUME Updatable(u, e), account' = [account EXCEPT ![u].email = e], IdGoto(r, "mark") PROVE IdentityInv'
  <2>1. PICK d \in IdRequest : /\ idReq' = [idReq EXCEPT ![r] = d] /\ d.pc = "mark" /\ d.op = idReq[r].op
                               /\ d.key = idReq[r].key /\ d.user = idReq[r].user /\ d.email = idReq[r].email
    BY <1>2, <1>5, IdGotoFits
  <2>2. account \in [UserIDs -> AccountRow]
    BY DEF IdentityInv, IdentityTypeOK
  <2>3. PICK b : b = account[u]
    OBVIOUS
  <2>4. PICK w : w = [b EXCEPT !.email = e]
    OBVIOUS
  <2>5. b \in AccountRow /\ w \in AccountRow /\ w.state = b.state /\ w.email = e
    BY <2>2, <2>3, <2>4 DEF AccountRow
  <2>6. account' = [account EXCEPT ![u] = w] /\ account' \in [UserIDs -> AccountRow]
    BY <1>5, <2>2, <2>3, <2>4, <2>5
  <2>7. \A v \in UserIDs \ {u} : account[v].state # "none" => account[v].email # e
    BY <1>5 DEF Updatable, EmailAvailable, Holders
  <2>8. OneHolder'
    BY <2>2, <2>5, <2>6, <2>7 DEF IdentityInv, OneHolder
  <2>9. UNCHANGED <<reg, change, oauthState>>
    BY <1>1 DEF tokens
  <2>10. IdTypes'
    BY <1>1, <2>6, <2>9, IdDataStays DEF IdData, IdTypes
  <2>11. TokensLast /\ TokensName' /\ SpentIsGone'
    BY <1>1, <2>9, IdDataStays
  <2>12. IdFits(d)' /\ ~StateConsumed(d)
    BY <1>1, <1>2, <2>1, <2>9 DEF IdFits, StateConsumed
  <2>13. IdData'
    BY <2>8, <2>10, <2>11 DEF IdData
  <2> QED
    BY <1>1, <2>1, <2>11, <2>12, <2>13, IdReqStepInv
<1> QED
  BY <1>3, <1>4, <1>5 DEF UpdateEmail

(* A state saved for the provider is used up, or was never there.          *)
LEMMA OAuthCallbackInv ==
  ASSUME IdentityInv, NEW r \in IdReqs, OAuthCallback(r)
  PROVE  IdentityInv'
<1>1. UNCHANGED <<account, reg, change, linked, idOps, spent>>
  BY DEF OAuthCallback
<1>2. idReq[r] \in IdRequest /\ IdFits(idReq[r]) /\ idReq[r].op = "oauth" /\ idReq[r].pc # "idle"
  BY IdIsKnown DEF OAuthCallback, IdAt
<1>3. PICK s \in StateIDs : s = idReq[r].key
  BY <1>2 DEF IdFits
<1>4. CASE IdDone(r) /\ UNCHANGED oauthState
  BY <1>1, <1>4, IdDoneInv DEF tokens
<1>5. ASSUME oauthState[s] = "saved", oauthState' = [oauthState EXCEPT ![s] = "gone"], IdGoto(r, "find")
      PROVE  IdentityInv'
  <2>1. PICK d \in IdRequest : /\ idReq' = [idReq EXCEPT ![r] = d] /\ d.pc = "find" /\ d.op = idReq[r].op
                               /\ d.key = idReq[r].key /\ d.user = idReq[r].user /\ d.email = idReq[r].email
    BY <1>2, <1>5, IdGotoFits
  <2>2. oauthState \in [StateIDs -> {"none", "saved", "gone"}] /\ spent \in [RegIDs \cup StateIDs -> Nat]
    BY DEF IdentityInv, IdentityTypeOK
  <2>3. oauthState'[s] = "gone" /\ \A z \in StateIDs : z # s => oauthState'[z] = oauthState[z]
    BY <1>5, <2>2
  <2>4. spent[s] = 0
    BY <1>5, <2>2 DEF IdentityInv, SpentIsGone
  <2>5. IdTypes'
    BY <1>1, <1>5, <2>2, IdDataStays DEF IdData, IdTypes
  <2>6. SpentIsGone'
    BY <1>1, <2>3 DEF IdentityInv, SpentIsGone
  <2>7. TokensLast
    BY <1>1, <2>3 DEF TokensLast
  <2>8. IdData'
    BY <1>1, <2>5, <2>6, IdDataStays DEF IdData
  <2>9. IdFits(d)'
    BY <1>1, <1>2, <1>3, <2>1, <2>3, <2>4 DEF IdFits, StateConsumed
  <2>10. ASSUME NEW q \in IdReqs \ {r}, idReq[q] # IdIdle, StateConsumed(idReq[q]) PROVE d.key # idReq[q].key
    <3>1. oauthState[idReq[q].key] = "gone"
      BY <2>10 DEF IdentityInv, IdReqsFit, IdFits
    <3> QED
      BY <1>3, <1>5, <2>1, <3>1
  <2>11. \A q \in IdReqs \ {r} : idReq[q] # IdIdle /\ StateConsumed(idReq[q]) =>
           /\ spent'[idReq[q].key] = spent[idReq[q].key]
           /\ d # IdIdle /\ StateConsumed(d) => d.key # idReq[q].key
    BY <1>1, <2>10
  <2> QED
    BY <2>1, <2>7, <2>8, <2>9, <2>11, IdReqStepInv
<1> QED
  BY <1>3, <1>4, <1>5 DEF OAuthCallback, ConsumeState

(* The request that consumed a state keeps it.                             *)
LEMMA OAuthMovesInv ==
  ASSUME IdentityInv, NEW r \in IdReqs, idReq[r].pc # "idle", StateConsumed(idReq[r]),
         UNCHANGED <<account, tokens, idOps, spent>>, linked' \in UserIDs \cup {NoUser},
         NEW d \in IdRequest, idReq' = [idReq EXCEPT ![r] = d], d.op = "oauth", d.pc \in {"link", "resolve"}, d.key = idReq[r].key
  PROVE  IdentityInv'
<1>1. IdFits(idReq[r]) /\ idReq[r] # IdIdle
  BY IdIsKnown
<1>2. IdFits(d)
  BY <1>1 DEF IdFits, StateConsumed
<1>3. idOps' \in 0..MaxIdOps
  BY DEF IdentityInv, IdentityTypeOK
<1> QED
  BY <1>1, <1>2, <1>3, IdMovesInv

LEMMA OAuthUserInv ==
  ASSUME IdentityInv, NEW r \in IdReqs, OAuthUser(r)
  PROVE  IdentityInv'
<1>1. UNCHANGED <<account, tokens, linked, idOps, spent>>
  BY DEF OAuthUser
<1>2. idReq[r] \in IdRequest /\ idReq[r].pc # "idle" /\ idReq[r].op = "oauth" /\ StateConsumed(idReq[r])
  BY IdIsKnown DEF OAuthUser, IdAt, StateConsumed
<1>3. CASE IdDone(r)
  BY <1>1, <1>3, IdDoneInv
<1>4. ASSUME NEW u \in UserIDs, NEW x \in {"link", "resolve"}, idReq' = [idReq EXCEPT ![r].pc = x, ![r].user = u]
      PROVE  IdentityInv'
  <2>1. PICK b : b = idReq[r]
    OBVIOUS
  <2>2. PICK d : d = [b EXCEPT !.pc = x, !.user = u]
    OBVIOUS
  <2>3. b \in IdRequest
    BY <1>2, <2>1
  <2>4. d \in IdRequest /\ d.op = b.op /\ d.pc = x /\ d.key = b.key
    BY <2>2, <2>3 DEF IdRequest
  <2>5. idReq' = [idReq EXCEPT ![r] = d]
    BY <1>4, <2>1, <2>2, <2>3 DEF IdentityInv, IdentityTypeOK, IdRequest
  <2>6. linked' \in UserIDs \cup {NoUser}
    BY <1>1 DEF IdentityInv, IdentityTypeOK
  <2> QED
    BY <1>1, <1>2, <2>1, <2>4, <2>5, <2>6, OAuthMovesInv
<1>5. linked # NoUser => linked \in UserIDs
  BY DEF IdentityInv, IdentityTypeOK
<1>6. \A e : Holders(e) \subseteq UserIDs
  BY DEF Holders
<1> QED
  BY <1>3, <1>4, <1>5, <1>6 DEF OAuthUser

LEMMA LinkByEmailInv ==
  ASSUME IdentityInv, NEW r \in IdReqs, LinkByEmail(r)
  PROVE  IdentityInv'
<1>1. UNCHANGED <<account, tokens, idOps, spent>>
  BY DEF LinkByEmail
<1>2. idReq[r] \in IdRequest /\ idReq[r].pc # "idle" /\ idReq[r].op = "oauth" /\ StateConsumed(idReq[r])
  BY IdIsKnown DEF LinkByEmail, IdAt, StateConsumed
<1>3. CASE IdDone(r) /\ UNCHANGED linked
  BY <1>1, <1>3, IdDoneInv
<1>4. CASE linked' = idReq[r].user /\ IdGoto(r, "resolve")
  <2>1. PICK d \in IdRequest : /\ idReq' = [idReq EXCEPT ![r] = d] /\ d.pc = "resolve" /\ d.op = idReq[r].op
                               /\ d.key = idReq[r].key /\ d.user = idReq[r].user /\ d.email = idReq[r].email
    BY <1>2, <1>4, IdGotoFits
  <2>2. linked' \in UserIDs \cup {NoUser}
    BY <1>2, <1>4 DEF IdRequest
  <2> QED
    BY <1>1, <1>2, <2>1, <2>2, OAuthMovesInv
<1> QED
  BY <1>3, <1>4 DEF LinkByEmail

LEMMA OAuthSignInInv ==
  ASSUME IdentityInv, NEW r \in IdReqs, OAuthSignIn(r)
  PROVE  IdentityInv'
<1>1. UNCHANGED <<account, tokens, linked, idOps>> /\ IdDone(r)
  BY DEF OAuthSignIn
<1>2. idReq[r] # IdIdle /\ IdFits(idReq[r]) /\ StateConsumed(idReq[r])
  BY IdIsKnown DEF OAuthSignIn, IdAt, StateConsumed
<1>3. PICK s \in StateIDs : s = idReq[r].key /\ oauthState[s] = "gone" /\ spent[s] = 0
  BY <1>2 DEF IdFits, StateConsumed
<1>4. CASE UNCHANGED spent
  BY <1>1, <1>4, IdDoneInv
<1>5. CASE spent' = [spent EXCEPT ![s] = @ + 1]
  <2>1. UNCHANGED <<reg, change, oauthState>> /\ spent \in [RegIDs \cup StateIDs -> Nat]
    BY <1>1 DEF tokens, IdentityInv, IdentityTypeOK
  <2>2. /\ spent'[s] = 1 /\ spent' \in [RegIDs \cup StateIDs -> Nat]
        /\ \A k \in RegIDs \cup StateIDs : k # s => spent'[k] = spent[k]
    BY <1>3, <1>5, <2>1
  <2>3. IdTypes'
    BY <1>1, <2>1, <2>2, IdDataStays DEF IdData, IdTypes
  <2>4. TokensLast /\ TokensName' /\ OneHolder'
    BY <1>1, <2>1, IdDataStays
  <2>5. SpentIsGone'
    <3>1. ASSUME NEW k \in RegIDs PROVE spent'[k] <= 1 /\ (spent'[k] = 1 => reg'[k].state = "gone")
      BY <2>1, <2>2, IdentityAssumption DEF IdentityInv, SpentIsGone
    <3>2. ASSUME NEW z \in StateIDs PROVE spent'[z] <= 1 /\ (spent'[z] = 1 => oauthState'[z] = "gone")
      BY <1>3, <2>1, <2>2 DEF IdentityInv, SpentIsGone
    <3> QED
      BY <3>1, <3>2 DEF SpentIsGone
  <2>6. ASSUME NEW q \in IdReqs \ {r}, idReq[q] # IdIdle, StateConsumed(idReq[q])
        PROVE  spent'[idReq[q].key] = spent[idReq[q].key]
    <3>1. idReq[q].key \in StateIDs
      BY <2>6 DEF IdentityInv, IdReqsFit, IdFits, StateConsumed
    <3>2. idReq[q].key # s
      BY <1>2, <1>3, <2>6 DEF IdentityInv, OneConsumer
    <3> QED
      BY <2>2, <3>1, <3>2
  <2>7. IdData'
    BY <2>3, <2>4, <2>5 DEF IdData
  <2> QED
    BY <1>1, <2>4, <2>6, <2>7, IdEndsInv
<1> QED
  BY <1>3, <1>4, <1>5 DEF OAuthSignIn

(* A sign-up token lapses, or is swept away.                               *)
LEMMA RegistrationEndsInv ==
  ASSUME IdentityInv, NEW k \in RegIDs, PruneRegistration(k) \/ RegistrationExpires(k)
  PROVE  IdentityInv'
<1>1. UNCHANGED <<account, change, oauthState, linked, idReq, idOps, spent>>
  BY DEF PruneRegistration, RegistrationExpires
<1>2. PICK x \in {"expired", "gone"} : reg' = [reg EXCEPT ![k].state = x] /\ reg[k].state \in {"live", "expired"}
  BY DEF PruneRegistration, RegistrationExpires
<1>3. reg \in [RegIDs -> RegRow]
  BY DEF IdentityInv, IdentityTypeOK
<1>4. PICK b : b = reg[k]
  OBVIOUS
<1>5. PICK w : w = [b EXCEPT !.state = x]
  OBVIOUS
<1>6. b \in RegRow /\ w \in RegRow /\ w.state = x /\ w.email = b.email
  BY <1>3, <1>4, <1>5 DEF RegRow
<1>7. reg' = [reg EXCEPT ![k] = w]
  BY <1>2, <1>3, <1>4, <1>5, <1>6
<1>8. IdTypes'
  BY <1>1, <1>3, <1>6, <1>7, IdDataStays DEF IdData, IdTypes
<1>9. TokensLast
  BY <1>1, <1>3, <1>4, <1>6, <1>7 DEF TokensLast
<1>10. TokensName'
  BY <1>1, <1>2, <1>3, <1>4, <1>6, <1>7 DEF IdentityInv, TokensName
<1>11. SpentIsGone'
  BY <1>1, <1>2, <1>3, <1>7 DEF IdentityInv, SpentIsGone
<1>12. OneHolder'
  BY <1>1, IdDataStays
<1> QED
  BY <1>1, <1>8, <1>9, <1>10, <1>11, <1>12, IdEnvInv DEF IdData

(* A state is saved, or lapses.                                            *)
LEMMA OAuthStatesInv ==
  ASSUME IdentityInv, NEW s \in StateIDs, OAuthStart(s) \/ OAuthStateLapses(s)
  PROVE  IdentityInv'
<1>1. UNCHANGED <<account, reg, change, linked, idReq, idOps, spent>>
  BY DEF OAuthStart, OAuthStateLapses
<1>2. PICK x \in {"saved", "gone"} : oauthState' = [oauthState EXCEPT ![s] = x] /\ oauthState[s] # "gone"
  BY DEF OAuthStart, OAuthStateLapses
<1>3. oauthState \in [StateIDs -> {"none", "saved", "gone"}]
  BY DEF IdentityInv, IdentityTypeOK
<1>4. IdTypes'
  BY <1>1, <1>2, <1>3, IdDataStays DEF IdData, IdTypes
<1>5. TokensLast
  BY <1>1, <1>2, <1>3 DEF TokensLast
<1>6. SpentIsGone'
  BY <1>1, <1>2, <1>3 DEF IdentityInv, SpentIsGone
<1>7. OneHolder' /\ TokensName'
  BY <1>1, IdDataStays
<1> QED
  BY <1>1, <1>4, <1>5, <1>6, <1>7, IdEnvInv DEF IdData

LEMMA ChangeExpiresInv ==
  ASSUME IdentityInv, NEW t \in ChangeIDs, ChangeExpires(t)
  PROVE  IdentityInv'
<1>1. /\ UNCHANGED <<account, reg, oauthState, linked, idOps, spent>> /\ idReq' = idReq
      /\ change[t].state # "none" /\ change' = [change EXCEPT ![t].state = "expired"]
  BY DEF ChangeExpires
<1>2. IdData' /\ TokensLast
  BY <1>1, ChangeStateIsData
<1> QED
  BY <1>1, <1>2, IdEnvInv

LEMMA EraseIdentityInv ==
  ASSUME IdentityInv, NEW u \in UserIDs, EraseIdentity(u)
  PROVE  IdentityInv'
<1>1. UNCHANGED <<reg, oauthState, idReq, idOps, spent>>
  BY DEF EraseIdentity
<1>2. PICK w : w = [state |-> "erased", email |-> Anonymous]
  OBVIOUS
<1>3. w \in AccountRow /\ w.email \notin Addresses
  BY <1>2, IdentityAssumption DEF AccountRow
<1>4. account \in [UserIDs -> AccountRow] /\ account' = [account EXCEPT ![u] = w]
  BY <1>2 DEF IdentityInv, IdentityTypeOK, EraseIdentity
<1>5. OneHolder'
  BY <1>3, <1>4 DEF IdentityInv, OneHolder
<1>6. change \in [ChangeIDs -> ChangeRow]
  BY DEF IdentityInv, IdentityTypeOK
<1>7. change' = [t \in ChangeIDs |-> IF change[t].user = u THEN [change[t] EXCEPT !.state = "used"] ELSE change[t]]
  BY DEF EraseIdentity
<1>8. change' \in [ChangeIDs -> ChangeRow]
  BY <1>6, <1>7 DEF ChangeRow
<1>9. linked' \in UserIDs \cup {NoUser}
  BY DEF EraseIdentity, IdentityInv, IdentityTypeOK
<1>10. IdTypes'
  BY <1>1, <1>3, <1>4, <1>8, <1>9, IdDataStays DEF IdData, IdTypes
<1>11. TokensLast
  BY <1>1, <1>6, <1>7 DEF TokensLast, ChangeRow
<1>12. TokensName' /\ SpentIsGone'
  <2>1. ASSUME NEW t \in ChangeIDs
        PROVE  /\ change'[t].state # "none" => change'[t].user \in UserIDs /\ change'[t].email \in Addresses
               /\ change'[t].state = "none" => change'[t].user \notin UserIDs
    <3>1. PICK c : c = change[t]
      OBVIOUS
    <3>2. c \in ChangeRow
      BY <1>6, <3>1
    <3>3. CASE c.user = u
      <4>1. change'[t].state = "used" /\ change'[t].user = u /\ change'[t].email = c.email
        BY <1>6, <1>7, <3>1, <3>2, <3>3 DEF ChangeRow
      <4>2. c.state # "none"
        BY <3>1, <3>3 DEF IdentityInv, TokensName
      <4>3. c.email \in Addresses
        BY <3>1, <4>2 DEF IdentityInv, TokensName
      <4> QED
        BY <4>1, <4>3
    <3>4. CASE c.user # u
      <4>1. change'[t] = change[t]
        BY <1>7, <3>1, <3>4
      <4> QED
        BY <4>1 DEF IdentityInv, TokensName
    <3> QED
      BY <3>3, <3>4
  <2>2. TokensName'
    BY <1>1, <2>1 DEF IdentityInv, TokensName
  <2> QED
    BY <1>1, <2>2, IdDataStays
<1> QED
  BY <1>1, <1>5, <1>10, <1>11, <1>12, IdEnvInv DEF IdData

LEMMA IdentityNextInv == IdentityInv /\ [IdentityNext]_identityVars => IdentityInv'
<1> SUFFICES ASSUME IdentityInv, [IdentityNext]_identityVars PROVE IdentityInv'
  OBVIOUS
<1>1. CASE UNCHANGED identityVars
  <2>1. UNCHANGED <<account, reg, change, oauthState, linked, idOps, spent, idReq>>
    BY <1>1 DEF identityVars
  <2>2. IdTypes'
    BY <2>1, IdDataStays DEF IdData, IdTypes
  <2> QED
    BY <2>1, <2>2, IdDataStays, IdEnvInv DEF IdData
<1>2. ASSUME NEW r \in IdReqs,
             \/ BeginRegister(r) \/ BeginCreate(r) \/ BeginChange(r) \/ BeginCallback(r) \/ IdFails(r)
             \/ RegisterFind(r) \/ StartRegistration(r) \/ VerifyFind(r)
             \/ CreateRegisteredUser(r) \/ EnsureIdentityFree(r) \/ AdminCreateUser(r) \/ RequestChecks(r)
             \/ RevokePending(r) \/ IssueChange(r) \/ EmailChangeToken(r) \/ ConfirmChecks(r) \/ UpdateEmail(r)
             \/ MarkUsed(r) \/ OAuthCallback(r) \/ OAuthUser(r) \/ LinkByEmail(r) \/ OAuthSignIn(r)
      PROVE  IdentityInv'
  BY <1>2, IdBeginsInv, IdLooksInv, StartRegistrationInv, CreateRegisteredUserInv, AdminCreateUserInv,
     RevokePendingInv, IssueChangeInv, UpdateEmailInv, MarkUsedInv, OAuthCallbackInv, OAuthUserInv,
     LinkByEmailInv, OAuthSignInInv
<1>3. ASSUME NEW k \in RegIDs, PruneRegistration(k) \/ RegistrationExpires(k) PROVE IdentityInv'
  BY <1>3, RegistrationEndsInv
<1>4. ASSUME NEW t \in ChangeIDs, ChangeExpires(t) PROVE IdentityInv'
  BY <1>4, ChangeExpiresInv
<1>5. ASSUME NEW s \in StateIDs, OAuthStart(s) \/ OAuthStateLapses(s) PROVE IdentityInv'
  BY <1>5, OAuthStatesInv
<1>6. ASSUME NEW u \in UserIDs, EraseIdentity(u) PROVE IdentityInv'
  BY <1>6, EraseIdentityInv
<1> QED
  BY <1>1, <1>2, <1>3, <1>4, <1>5, <1>6 DEF IdentityNext

LEMMA IdentityInvIsEnough == IdentityInv => IdentityInvariant
<1> SUFFICES ASSUME IdentityInv PROVE IdentityInvariant
  OBVIOUS
<1>1. AddressHeldOnce
  <2> SUFFICES ASSUME NEW e \in Addresses PROVE Cardinality(Holders(e)) <= 1
    BY DEF AddressHeldOnce
  <2>1. CASE Holders(e) = {}
    BY <2>1, FS_EmptySet
  <2>2. ASSUME NEW u \in Holders(e) PROVE Cardinality(Holders(e)) <= 1
    <3>1. Holders(e) = {u}
      BY <2>2 DEF Holders, IdentityInv, OneHolder
    <3> QED
      BY <3>1, FS_Singleton
  <2> QED
    BY <2>1, <2>2
<1>2. ProofSpentOnce
  BY DEF IdentityInv, SpentIsGone, ProofSpentOnce
<1> QED
  BY <1>1, <1>2 DEF IdentityInv, IdentityInvariant

(* However sign-ups, administrators, changes of address, provider          *)
(* sign-ins and erasures overlap, an address belongs to one account, a     *)
(* sign-up token makes one account and an OAuth state signs in once        *)
(* (VerifyEmail, AdminCreateUser, ConfirmEmailChange, OAuthCallback), for  *)
(* any number of accounts, addresses, tokens and requests.                 *)
THEOREM AddressesAndProofsHaveOneOwner == IdentitySpec => []IdentityInvariant
<1>1. IdentityInit => IdentityInv
  BY IdentityInitInv
<1>2. IdentityInv /\ [IdentityNext]_identityVars => IdentityInv'
  BY IdentityNextInv
<1>3. IdentityInv => IdentityInvariant
  BY IdentityInvIsEnough
<1> QED
  BY <1>1, <1>2, <1>3, PTL DEF IdentitySpec

-----------------------------------------------------------------------------
(* Roles.  WildcardIsProtected needs that a request under way is not about *)
(* the protected role's permissions and grants no wildcard, that what it   *)
(* saw are rows it is about, and that rules read to be put in force had    *)
(* the wildcard where it belongs.                                          *)

WildcardKept(rows) == WildcardHolders(rows) = {Admin}

CallFits(q) ==
  /\ q.pc \in {"begun", "first", "second"} =>
       /\ q.op # "none" /\ "*" \notin q.keys
       /\ q.op \in {"assign", "revoke"} => q.u \in Members /\ q.keys = {}
       /\ q.op \notin {"assign", "revoke"} => q.r # Admin
  /\ q.pc \in {"first", "second"} => q.saw \subseteq Target(q)
  /\ q.pc = "second" => q.sawRules \subseteq Target(q)
  /\ q.pc = "apply" => WildcardKept(q.sawRules)

RolesInv ==
  /\ RolesTypeOK
  /\ WildcardIsProtected
  /\ \A b \in Reloaders : loading[b].busy => WildcardKept(loading[b].rows)
  /\ \A c \in RoleCalls : CallFits(rcall[c])

(* Rows that are taken away are not the administrators' wildcard, and rows *)
(* that are added no other one.                                            *)
LEMMA WildcardStays ==
  ASSUME NEW rows, WildcardKept(rows), NEW gone, <<"p", Admin, "*">> \notin gone, NEW new,
         \A r \in RoleNames : <<"p", r, "*">> \notin new
  PROVE  WildcardKept((rows \ gone) \cup new)
<1>1. Admin \in RoleNames
  BY DEF RoleNames
<1> QED
  BY <1>1 DEF WildcardKept, WildcardHolders

(* What a request is about.                                                *)
LEMMA TargetSpares ==
  ASSUME NEW q \in RoleCall, CallFits(q), q.pc \in {"begun", "first", "second"}
  PROVE  /\ <<"p", Admin, "*">> \notin Target(q)
         /\ Added(q) \subseteq Rows /\ \A r \in RoleNames : <<"p", r, "*">> \notin Added(q)
<1>1. /\ q.op \in {"create", "delete", "set", "assign", "revoke"} /\ q.r \in RoleNames /\ q.keys \subseteq Keys
      /\ "*" \notin q.keys
  BY DEF RoleCall, CallFits
<1>2. CASE q.op \in {"assign", "revoke"}
  <2>1. q.u \in Members /\ q.keys = {} /\ Target(q) = {<<"g", q.u, q.r>>}
    BY <1>2 DEF CallFits, Target
  <2>2. Added(q) \subseteq {<<"g", q.u, q.r>>}
    BY <2>1 DEF Added
  <2>3. <<"g", q.u, q.r>> \in Rows
    BY <1>1, <2>1 DEF Rows
  <2> QED
    BY <2>1, <2>2, <2>3
<1>3. CASE q.op \in {"create", "delete", "set"}
  <2>1. q.r # Admin
    BY <1>3 DEF CallFits
  <2>2. Target(q) \subseteq ({"g"} \X Members \X {q.r}) \cup ({"p"} \X {q.r} \X Keys)
    BY <1>3 DEF Target
  <2>3. Added(q) = {"p"} \X {q.r} \X q.keys
    BY <1>3 DEF Added
  <2>4. Added(q) \subseteq Rows
    BY <1>1, <2>3 DEF Rows
  <2> QED
    BY <1>1, <2>1, <2>2, <2>3, <2>4
<1> QED
  BY <1>1, <1>2, <1>3

(* One request moves on.                                                   *)
LEMMA CallMoves ==
  ASSUME RolesInv, NEW c \in RoleCalls, NEW q \in RoleCall, CallFits(q), rcall' = [rcall EXCEPT ![c] = q],
         UNCHANGED loading, WildcardIsProtected', roles' \subseteq RoleNames, grants' \subseteq Rows, rules' \subseteq Rows,
         policy' \in [Instances -> SUBSET Rows], announced' \subseteq Instances, roleOps' \in 0..MaxRoleOps
  PROVE  RolesInv'
<1>1. rcall \in [RoleCalls -> RoleCall]
  BY DEF RolesInv, RolesTypeOK
<1>2. RolesTypeOK'
  BY <1>1 DEF RolesInv, RolesTypeOK
<1>3. \A d \in RoleCalls : CallFits(rcall[d])'
  <2>1. ASSUME NEW d \in RoleCalls PROVE CallFits(rcall[d])'
    <3>1. CASE d = c
      BY <1>1, <3>1 DEF CallFits, Target, WildcardKept, WildcardHolders
    <3>2. CASE d # c
      <4>1. rcall'[d] = rcall[d] /\ CallFits(rcall[d])
        BY <1>1, <3>2 DEF RolesInv
      <4> QED
        BY <4>1 DEF CallFits, Target, WildcardKept, WildcardHolders
    <3> QED
      BY <3>1, <3>2
  <2> QED
    BY <2>1
<1> QED
  BY <1>2, <1>3 DEF RolesInv, WildcardKept, WildcardHolders

(* Every request is well formed.                                           *)
LEMMA CallTyped ==
  ASSUME RolesInv, NEW c \in RoleCalls
  PROVE  /\ rcall[c] \in RoleCall /\ CallFits(rcall[c])
         /\ rcall[c] = [pc |-> rcall[c].pc, at |-> rcall[c].at, op |-> rcall[c].op, u |-> rcall[c].u, r |-> rcall[c].r,
                        keys |-> rcall[c].keys, saw |-> rcall[c].saw, sawRules |-> rcall[c].sawRules]
  BY DEF RolesInv, RolesTypeOK, RoleCall

(* A request that has ended fits.                                          *)
LEMMA NoRoleCallFits == NoRoleCall \in RoleCall /\ CallFits(NoRoleCall)
<1>1. (CHOOSE i \in Instances : TRUE) \in Instances
  BY RolesAssumption
<1>2. NoRoleCall \in RoleCall
  BY <1>1 DEF NoRoleCall, RoleCall, RoleNames
<1>3. NoRoleCall.pc = "idle"
  BY DEF NoRoleCall
<1> QED
  BY <1>2, <1>3 DEF CallFits

(* A request ends, or a step of it touches nothing else.                   *)
LEMMA QuietCall ==
  ASSUME RolesInv, NEW c \in RoleCalls, NEW q \in RoleCall, CallFits(q), rcall' = [rcall EXCEPT ![c] = q],
         UNCHANGED <<roles, grants, rules, policy, loading>>, announced' \subseteq Instances, roleOps' \in 0..MaxRoleOps
  PROVE  RolesInv'
<1>1. WildcardIsProtected'
  BY DEF RolesInv, WildcardIsProtected, WildcardHolders
<1>2. /\ roles' \subseteq RoleNames /\ grants' \subseteq Rows /\ rules' \subseteq Rows
      /\ policy' \in [Instances -> SUBSET Rows]
  BY DEF RolesInv, RolesTypeOK
<1> QED
  BY <1>1, <1>2, CallMoves

-----------------------------------------------------------------------------
(* Steps of a request.                                                     *)

LEMMA RoleRequestFits ==
  ASSUME RolesInv, NEW c \in RoleCalls, RoleRequest(c)
  PROVE  RolesInv'
<1>1. PICK i \in Instances, actor \in Members, u \in Members, r \in RoleNames,
           op \in {"create", "delete", "set", "assign", "revoke"}, keys \in SUBSET (Keys \ {"*"}) :
        /\ Enforce(i, actor, "roles") /\ Permitted(actor, op, u, r)
        /\ op \in {"delete", "assign", "revoke"} => keys = {}
        /\ rcall' = [rcall EXCEPT ![c] = [pc |-> "begun", at |-> i, op |-> op, r |-> r, keys |-> keys, saw |-> {}, sawRules |-> {},
                                           u |-> IF op \in {"assign", "revoke"} THEN u ELSE NoMember]]
  BY DEF RoleRequest
<1>2. PICK v : v = IF op \in {"assign", "revoke"} THEN u ELSE NoMember
  OBVIOUS
<1>3. PICK q : q = [pc |-> "begun", at |-> i, op |-> op, u |-> v, r |-> r, keys |-> keys, saw |-> {}, sawRules |-> {}]
  OBVIOUS
<1>5. rcall' = [rcall EXCEPT ![c] = q]
  BY <1>1, <1>2, <1>3
<1>6. q \in RoleCall
  BY <1>2, <1>3 DEF RoleCall
<1>7. CallFits(q)
  BY <1>1, <1>2, <1>3 DEF CallFits, Permitted
<1>8. /\ UNCHANGED <<roles, grants, rules, policy, loading, announced>> /\ roleOps' \in 0..MaxRoleOps
  BY RolesAssumption DEF RoleRequest, RolesInv, RolesTypeOK
<1>9. announced' \subseteq Instances
  BY <1>8 DEF RolesInv, RolesTypeOK
<1> QED
  BY <1>5, <1>6, <1>7, <1>8, <1>9, QuietCall

(* What the first statement saw are rows the request is about.             *)
LEMMA RoleFirstFits ==
  ASSUME RolesInv, NEW c \in RoleCalls, FirstStatement(c)
  PROVE  RolesInv'
<1>1. PICK p : p = rcall[c]
  OBVIOUS
<1>2. /\ p \in RoleCall /\ CallFits(p) /\ p.pc = "begun"
      /\ p = [pc |-> p.pc, at |-> p.at, op |-> p.op, u |-> p.u, r |-> p.r, keys |-> p.keys, saw |-> p.saw,
              sawRules |-> p.sawRules]
  BY <1>1, CallTyped DEF FirstStatement
<1>3. PICK seen : seen = grants \cap Target(p)
  OBVIOUS
<1>4. seen \subseteq Rows /\ seen \subseteq Target(p)
  BY <1>3 DEF RolesInv, RolesTypeOK
<1>5. PICK q : q = [p EXCEPT !.pc = "first", !.saw = seen]
  OBVIOUS
<1>6. q \in RoleCall
  BY <1>2, <1>4, <1>5 DEF RoleCall
<1>7. /\ q.pc = "first" /\ q.saw = seen /\ q.op = p.op /\ q.u = p.u /\ q.r = p.r /\ q.keys = p.keys
  BY <1>2, <1>5
<1>8. Target(q) = Target(p)
  BY <1>7 DEF Target
<1>9. CallFits(q)
  BY <1>2, <1>4, <1>7, <1>8 DEF CallFits
<1>10. rcall \in [RoleCalls -> RoleCall]
  BY DEF RolesInv, RolesTypeOK
<1>11. rcall' = [rcall EXCEPT ![c] = q] \/ rcall' = [rcall EXCEPT ![c] = NoRoleCall]
  BY <1>1, <1>3, <1>5, <1>10 DEF FirstStatement, EndRoleCall
<1>12. UNCHANGED <<roles, grants, rules, policy, loading, announced, roleOps>>
  BY DEF FirstStatement
<1>13. announced' \subseteq Instances /\ roleOps' \in 0..MaxRoleOps
  BY <1>12 DEF RolesInv, RolesTypeOK
<1> QED
  BY <1>6, <1>9, <1>11, <1>12, <1>13, NoRoleCallFits, QuietCall

(* So is what the second saw.                                              *)
LEMMA RoleSecondFits ==
  ASSUME RolesInv, NEW c \in RoleCalls, SecondStatement(c)
  PROVE  RolesInv'
<1>1. PICK p : p = rcall[c]
  OBVIOUS
<1>2. /\ p \in RoleCall /\ CallFits(p) /\ p.pc = "first"
      /\ p = [pc |-> p.pc, at |-> p.at, op |-> p.op, u |-> p.u, r |-> p.r, keys |-> p.keys, saw |-> p.saw,
              sawRules |-> p.sawRules]
  BY <1>1, CallTyped DEF SecondStatement
<1>3. PICK seen : seen = rules \cap Target(p)
  OBVIOUS
<1>4. seen \subseteq Rows /\ seen \subseteq Target(p)
  BY <1>3 DEF RolesInv, RolesTypeOK
<1>5. PICK q : q = [p EXCEPT !.pc = "second", !.sawRules = seen]
  OBVIOUS
<1>6. q \in RoleCall
  BY <1>2, <1>4, <1>5 DEF RoleCall
<1>7. /\ q.pc = "second" /\ q.saw = p.saw /\ q.sawRules = seen /\ q.op = p.op /\ q.u = p.u /\ q.r = p.r
      /\ q.keys = p.keys
  BY <1>2, <1>5
<1>8. Target(q) = Target(p)
  BY <1>7 DEF Target
<1>9. CallFits(q)
  BY <1>2, <1>4, <1>7, <1>8 DEF CallFits
<1>10. rcall \in [RoleCalls -> RoleCall]
  BY DEF RolesInv, RolesTypeOK
<1>11. rcall' = [rcall EXCEPT ![c] = q]
  BY <1>1, <1>3, <1>5, <1>10 DEF SecondStatement
<1>12. UNCHANGED <<roles, grants, rules, policy, loading, announced, roleOps>>
  BY DEF SecondStatement
<1>13. announced' \subseteq Instances /\ roleOps' \in 0..MaxRoleOps
  BY <1>12 DEF RolesInv, RolesTypeOK
<1> QED
  BY <1>6, <1>9, <1>11, <1>12, <1>13, QuietCall

(* A commit takes and adds only rows the request is about.                 *)
LEMMA RoleCommitFits ==
  ASSUME RolesInv, NEW c \in RoleCalls, CommitWrite(c)
  PROVE  RolesInv'
<1>1. PICK q : q = rcall[c]
  OBVIOUS
<1>2. q \in RoleCall /\ CallFits(q) /\ q.pc = "second"
  BY <1>1, CallTyped DEF CommitWrite
<1>3. /\ <<"p", Admin, "*">> \notin Target(q)
      /\ Added(q) \subseteq Rows /\ \A r \in RoleNames : <<"p", r, "*">> \notin Added(q)
  BY <1>2, TargetSpares
<1>4. q.saw \subseteq Target(q) /\ q.sawRules \subseteq Target(q)
  BY <1>2 DEF CallFits
<1>5. PICK new : new = IF q.op = "assign" /\ q.saw # {} THEN {} ELSE Added(q)
  OBVIOUS
<1>6. new \subseteq Added(q)
  BY <1>5
<1>7. UNCHANGED <<policy, loading, announced, roleOps>>
  BY DEF CommitWrite
<1>8. announced' \subseteq Instances /\ roleOps' \in 0..MaxRoleOps /\ policy' \in [Instances -> SUBSET Rows]
  BY <1>7 DEF RolesInv, RolesTypeOK
<1>9. CASE EndRoleCall(c) /\ UNCHANGED <<roles, grants, rules>>
  BY <1>7, <1>8, <1>9, NoRoleCallFits, QuietCall DEF EndRoleCall
<1>10. CASE /\ roles' = CASE q.op = "create" -> roles \cup {q.r} [] q.op = "delete" -> roles \ {q.r} [] OTHER -> roles
            /\ grants' = IF q.op = "assign" THEN grants \cup new
                         ELSE (grants \ (IF q.op = "delete" THEN Target(q) ELSE q.saw)) \cup new
            /\ rules' = IF q.op = "assign" THEN rules \cup (IF q.sawRules = {} THEN Added(q) ELSE {})
                        ELSE (rules \ q.sawRules) \cup new
            /\ rcall' = [rcall EXCEPT ![c] = [NoRoleCall EXCEPT !.pc = "load", !.at = q.at]]
  <2>1. q.r \in RoleNames /\ q.at \in Instances /\ (q.op = "delete" => q.r # Admin)
    BY <1>2 DEF RoleCall, CallFits
  <2>2. roles' \subseteq RoleNames /\ Admin \in roles'
    BY <1>10, <2>1 DEF RolesInv, RolesTypeOK, WildcardIsProtected
  <2>3. PICK gone, more, goneRules, moreRules :
          /\ gone = IF q.op = "assign" THEN {} ELSE IF q.op = "delete" THEN Target(q) ELSE q.saw
          /\ more = new
          /\ goneRules = IF q.op = "assign" THEN {} ELSE q.sawRules
          /\ moreRules = IF q.op # "assign" THEN new ELSE IF q.sawRules = {} THEN Added(q) ELSE {}
    OBVIOUS
  <2>4. /\ gone \subseteq Target(q) /\ more \subseteq Added(q)
        /\ goneRules \subseteq Target(q) /\ moreRules \subseteq Added(q)
    BY <1>4, <1>6, <2>3
  <2>5. grants' = (grants \ gone) \cup more /\ rules' = (rules \ goneRules) \cup moreRules
    BY <1>10, <2>3
  <2>6. PICK before, beforeRules : before = grants /\ beforeRules = rules
    OBVIOUS
  <2>7. /\ WildcardKept(before) /\ WildcardKept(beforeRules) /\ before \subseteq Rows /\ beforeRules \subseteq Rows
    BY <2>6 DEF RolesInv, RolesTypeOK, WildcardIsProtected, WildcardKept
  <2>8. /\ WildcardKept((before \ gone) \cup more) /\ (before \ gone) \cup more \subseteq Rows
        /\ WildcardKept((beforeRules \ goneRules) \cup moreRules) /\ (beforeRules \ goneRules) \cup moreRules \subseteq Rows
    <3>1. /\ <<"p", Admin, "*">> \notin gone /\ \A r \in RoleNames : <<"p", r, "*">> \notin more
          /\ <<"p", Admin, "*">> \notin goneRules /\ \A r \in RoleNames : <<"p", r, "*">> \notin moreRules
      BY <1>3, <2>4
    <3>2. WildcardKept((before \ gone) \cup more)
      BY <2>7, <3>1, WildcardStays
    <3>3. WildcardKept((beforeRules \ goneRules) \cup moreRules)
      BY <2>7, <3>1, WildcardStays
    <3>4. (before \ gone) \cup more \subseteq Rows /\ (beforeRules \ goneRules) \cup moreRules \subseteq Rows
      BY <1>3, <2>4, <2>7
    <3> QED
      BY <3>2, <3>3, <3>4
  <2>14. /\ WildcardHolders(grants') = {Admin} /\ WildcardHolders(rules') = {Admin}
         /\ grants' \subseteq Rows /\ rules' \subseteq Rows
    BY <2>5, <2>6, <2>8 DEF WildcardKept
  <2>9. WildcardIsProtected'
    BY <1>7, <2>2, <2>14 DEF RolesInv, WildcardIsProtected, WildcardHolders
  <2>10. PICK d : d = [NoRoleCall EXCEPT !.pc = "load", !.at = q.at]
    OBVIOUS
  <2>11. d \in RoleCall /\ d.pc = "load"
    BY <2>1, <2>10, NoRoleCallFits DEF RoleCall
  <2>12. CallFits(d)
    BY <2>11 DEF CallFits
  <2>13. rcall' = [rcall EXCEPT ![c] = d]
    BY <1>10, <2>10
  <2> QED
    BY <1>7, <1>8, <2>2, <2>9, <2>11, <2>12, <2>13, <2>14, CallMoves
<1> QED
  BY <1>1, <1>5, <1>9, <1>10 DEF CommitWrite

(* The rules read back are in force once they are applied.                 *)
LEMMA RoleReloadFits ==
  ASSUME RolesInv, NEW c \in RoleCalls, LoadPolicy(c) \/ ApplyPolicy(c) \/ Notify(c) \/ RoleCallDies(c)
  PROVE  RolesInv'
<1>1. PICK p : p = rcall[c]
  OBVIOUS
<1>2. /\ p \in RoleCall /\ CallFits(p)
      /\ p = [pc |-> p.pc, at |-> p.at, op |-> p.op, u |-> p.u, r |-> p.r, keys |-> p.keys, saw |-> p.saw,
              sawRules |-> p.sawRules]
  BY <1>1, CallTyped
<1>3. rcall \in [RoleCalls -> RoleCall] /\ roleOps \in 0..MaxRoleOps /\ announced \subseteq Instances
  BY DEF RolesInv, RolesTypeOK
<1>4. CASE LoadPolicy(c)
  <2>1. PICK read : read = rules
    OBVIOUS
  <2>2. read \subseteq Rows /\ WildcardKept(read)
    BY <2>1 DEF RolesInv, RolesTypeOK, WildcardIsProtected, WildcardKept
  <2>3. PICK q : q = [p EXCEPT !.pc = "apply", !.sawRules = read]
    OBVIOUS
  <2>4. q \in RoleCall /\ q.pc = "apply" /\ q.sawRules = read
    BY <1>2, <2>2, <2>3 DEF RoleCall
  <2>5. CallFits(q)
    BY <2>2, <2>4 DEF CallFits
  <2>6. rcall' = [rcall EXCEPT ![c] = q]
    BY <1>1, <1>3, <1>4, <2>1, <2>3 DEF LoadPolicy
  <2> QED
    BY <1>3, <1>4, <2>4, <2>5, <2>6, QuietCall DEF LoadPolicy
<1>5. CASE ApplyPolicy(c)
  <2>1. p.pc = "apply" /\ p.at \in Instances /\ p.sawRules \subseteq Rows /\ WildcardKept(p.sawRules)
    BY <1>1, <1>2, <1>5 DEF ApplyPolicy, RoleCall, CallFits
  <2>2. PICK q : q = [p EXCEPT !.pc = "notify", !.sawRules = {}]
    OBVIOUS
  <2>3. q \in RoleCall /\ q.pc = "notify"
    BY <1>2, <2>2 DEF RoleCall
  <2>4. CallFits(q)
    BY <2>3 DEF CallFits
  <2>5. rcall' = [rcall EXCEPT ![c] = q] /\ policy' = [policy EXCEPT ![p.at] = p.sawRules]
    BY <1>1, <1>3, <1>5, <2>2 DEF ApplyPolicy
  <2>6. UNCHANGED <<roles, grants, rules, loading, announced, roleOps>>
    BY <1>5 DEF ApplyPolicy
  <2>7. policy' \in [Instances -> SUBSET Rows]
    BY <2>1, <2>5 DEF RolesInv, RolesTypeOK
  <2>8. WildcardIsProtected'
    <3>1. ASSUME NEW i \in Instances PROVE WildcardHolders(policy'[i]) = {Admin}
      <4>1. policy'[i] = IF i = p.at THEN p.sawRules ELSE policy[i]
        BY <2>5 DEF RolesInv, RolesTypeOK
      <4>2. WildcardHolders(p.sawRules) = {Admin} /\ WildcardHolders(policy[i]) = {Admin}
        BY <2>1 DEF RolesInv, WildcardIsProtected, WildcardKept
      <4> QED
        BY <4>1, <4>2
    <3> QED
      BY <2>6, <3>1 DEF RolesInv, WildcardIsProtected, WildcardHolders
  <2>9. roles' \subseteq RoleNames /\ grants' \subseteq Rows /\ rules' \subseteq Rows
    BY <2>6 DEF RolesInv, RolesTypeOK
  <2> QED
    BY <1>3, <2>3, <2>4, <2>5, <2>6, <2>7, <2>8, <2>9, CallMoves
<1>6. CASE Notify(c)
  <2>1. announced' \subseteq Instances /\ UNCHANGED <<roles, grants, rules, policy, loading, roleOps>>
    BY <1>3, <1>6 DEF Notify
  <2> QED
    BY <1>3, <1>6, <2>1, NoRoleCallFits, QuietCall DEF Notify, EndRoleCall
<1>7. CASE RoleCallDies(c)
  BY <1>3, <1>7, NoRoleCallFits, QuietCall DEF RoleCallDies, EndRoleCall
<1> QED
  BY <1>4, <1>5, <1>6, <1>7

(* PolicySync reads the rules, and later puts what it read in force.       *)
LEMMA RoleSyncFits ==
  ASSUME RolesInv, NEW b \in Reloaders, OnAnnouncement(b[1]) \/ OnTick(b[1]) \/ ReloadPolicy(b)
  PROVE  RolesInv'
<1>1. UNCHANGED <<roles, grants, rules, rcall, roleOps>> /\ announced' \subseteq Instances
  BY DEF OnAnnouncement, OnTick, ReloadPolicy, RolesInv, RolesTypeOK
<1>2. \A c \in RoleCalls : CallFits(rcall[c])'
  BY <1>1 DEF RolesInv, CallFits, Target, WildcardKept, WildcardHolders
<1>3. loading \in [Reloaders -> [busy : BOOLEAN, rows : SUBSET Rows]] /\ policy \in [Instances -> SUBSET Rows]
  BY DEF RolesInv, RolesTypeOK
<1>i. PICK i \in Instances : i = b[1]
  BY DEF Reloaders
<1>4. CASE OnAnnouncement(i) \/ OnTick(i)
  <2>1. PICK l : l = [busy |-> TRUE, rows |-> rules]
    OBVIOUS
  <2>2. /\ \E k \in Reloaders : loading' = [loading EXCEPT ![k] = l]
        /\ policy' = policy
    BY <1>4, <2>1 DEF OnAnnouncement, OnTick, Reloaders
  <2>3. l \in [busy : BOOLEAN, rows : SUBSET Rows] /\ WildcardHolders(l.rows) = {Admin}
    BY <2>1 DEF RolesInv, RolesTypeOK, WildcardIsProtected
  <2>4. loading' \in [Reloaders -> [busy : BOOLEAN, rows : SUBSET Rows]]
    BY <1>3, <2>2, <2>3
  <2>5. ASSUME NEW j \in Reloaders, loading'[j].busy PROVE WildcardHolders(loading'[j].rows) = {Admin}
    <3>1. loading'[j] \in {l, loading[j]}
      BY <1>3, <2>2
    <3> QED
      BY <2>3, <2>5, <3>1 DEF RolesInv, WildcardKept
  <2>6. RolesTypeOK'
    BY <1>1, <2>2, <2>4 DEF RolesInv, RolesTypeOK
  <2>7. WildcardIsProtected'
    BY <1>1, <2>2 DEF RolesInv, WildcardIsProtected, WildcardHolders
  <2> QED
    BY <1>2, <2>5, <2>6, <2>7 DEF RolesInv, WildcardKept, WildcardHolders
<1>5. CASE ReloadPolicy(b)
  <2>1. PICK rows : rows = loading[b].rows
    OBVIOUS
  <2>2. loading' = [loading EXCEPT ![b] = NotLoading] /\ policy' = [policy EXCEPT ![i] = rows]
    BY <1>5, <1>i, <2>1 DEF ReloadPolicy
  <2>3. WildcardHolders(rows) = {Admin} /\ rows \subseteq Rows
    BY <1>3, <1>5, <2>1 DEF ReloadPolicy, RolesInv, WildcardKept
  <2>4. loading' \in [Reloaders -> [busy : BOOLEAN, rows : SUBSET Rows]] /\ policy' \in [Instances -> SUBSET Rows]
    BY <1>3, <2>2, <2>3 DEF NotLoading
  <2>5. ASSUME NEW j \in Reloaders, loading'[j].busy PROVE WildcardHolders(loading'[j].rows) = {Admin}
    <3>1. loading'[j] = IF j = b THEN NotLoading ELSE loading[j]
      BY <1>3, <2>2
    <3>2. NotLoading.busy = FALSE
      BY DEF NotLoading
    <3> QED
      BY <2>5, <3>1, <3>2 DEF RolesInv, WildcardKept
  <2>6. RolesTypeOK'
    BY <1>1, <2>4 DEF RolesInv, RolesTypeOK
  <2>7. ASSUME NEW j \in Instances PROVE WildcardHolders(policy'[j]) = {Admin}
    <3>1. policy'[j] = IF j = i THEN rows ELSE policy[j]
      BY <1>3, <2>2
    <3> QED
      BY <2>3, <3>1 DEF RolesInv, WildcardIsProtected
  <2>8. WildcardIsProtected'
    BY <1>1, <2>7 DEF RolesInv, WildcardIsProtected, WildcardHolders
  <2> QED
    BY <1>2, <2>5, <2>6, <2>8 DEF RolesInv, WildcardKept, WildcardHolders
<1> QED
  BY <1>i, <1>4, <1>5

(* The seed has one administrators' wildcard.                              *)
LEMMA RolesInitInv == RolesInit => RolesInv
<1> SUFFICES ASSUME RolesInit PROVE RolesInv
  OBVIOUS
<1>1. Seeded \subseteq Rows /\ Admin \in RoleNames
  BY DEF Seeded, Rows, RoleNames, Keys
<1>2. WildcardHolders(Seeded) = {Admin}
  BY <1>1 DEF WildcardHolders, Seeded
<1>3. NotLoading \in [busy : BOOLEAN, rows : SUBSET Rows] /\ NotLoading.busy = FALSE
  BY DEF NotLoading
<1>4. RolesTypeOK
  BY <1>1, <1>3, NoRoleCallFits, RolesAssumption DEF RolesInit, RolesTypeOK
<1>5. WildcardIsProtected
  BY <1>1, <1>2 DEF RolesInit, WildcardIsProtected
<1> QED
  BY <1>3, <1>4, <1>5, NoRoleCallFits DEF RolesInit, RolesInv

(* Every step keeps it there.                                              *)
LEMMA RolesNextInv == RolesInv /\ [RolesNext]_roleVars => RolesInv'
<1> SUFFICES ASSUME RolesInv, [RolesNext]_roleVars PROVE RolesInv'
  OBVIOUS
<1>1. CASE RolesNext
  <2>1. ASSUME NEW i \in Instances, OnAnnouncement(i) \/ OnTick(i) PROVE RolesInv'
    <3>1. <<i, "timer">> \in Reloaders /\ <<i, "timer">>[1] = i
      BY DEF Reloaders
    <3> QED
      BY <2>1, <3>1, RoleSyncFits
  <2> QED
    BY <1>1, <2>1, RoleRequestFits, RoleFirstFits, RoleSecondFits, RoleCommitFits, RoleReloadFits, RoleSyncFits DEF RolesNext
<1>2. CASE UNCHANGED roleVars
  BY <1>2 DEF roleVars, RolesInv, RolesTypeOK, WildcardIsProtected, CallFits, Target, WildcardKept, WildcardHolders
<1> QED
  BY <1>1, <1>2

(* Whatever requests overlap, die or fail and however late instances       *)
(* reload: the protected role exists and holds the wildcard permission in  *)
(* the tables, the rules and every instance's policy, and no custom role   *)
(* ever does (ProtectedRole, WildcardPermission, SetPermissions, Delete).  *)
THEOREM WildcardStaysProtected == RolesSpec => []RolesInvariant
<1>1. RolesInv => RolesInvariant
  BY DEF RolesInv, RolesInvariant
<1> QED
  BY <1>1, RolesInitInv, RolesNextInv, PTL DEF RolesSpec
=============================================================================
