-------------------------- MODULE OperationsProofs --------------------------
(***************************************************************************)
(* Proofs about impersonation, the job scheduler, the analytics exports,   *)
(* consent, the daily salts and the privacy requests, for any number of    *)
(* sessions, requests, replicas, builders, subjects, events, days and      *)
(* processors.  The components share no variables; each has its inductive  *)
(* invariant.                                                              *)
(***************************************************************************)
EXTENDS Impersonation, Scheduler, AnalyticsExports, Consent, LiveAnalytics, PrivacyRequests, TLAPS,
        FiniteSetTheorems

-----------------------------------------------------------------------------
(* Impersonation.  EndRecordedOnce needs that a request which is about to  *)
(* end a session names one, and a state that is an end.                    *)

EndsNameSession ==
  \A r \in ImpReqs : impReq[r].pc \in {"close", "end"} =>
    impReq[r].id \in ImpIDs /\ impReq[r].to \in {"exited", "expired", "revoked"}

UsesNameSession ==
  \A r \in ImpReqs : (impReq[r].pc = "get" /\ impReq[r].op = "use") \/ impReq[r].pc = "enforce" => impReq[r].id \in ImpIDs

OneActive == \A i, j \in ImpIDs : imp[i].state = "active" /\ imp[j].state = "active" => i = j

EventsMatch ==
  \A i \in ImpIDs : /\ recorded[i].started = IF imp[i].state = "none" THEN 0 ELSE 1
                    /\ recorded[i].ended = IF imp[i].state \in {"none", "active"} THEN 0 ELSE 1

ImpersonationInv ==
  /\ ImpersonationTypeOK
  /\ EndsNameSession
  /\ UsesNameSession
  /\ OneActive
  /\ EventsMatch

(* The initial states, with nobody or one session at work.                 *)
LEMMA ImpersonationInitInv == ImpersonationInit => ImpersonationInv
<1> SUFFICES ASSUME ImpersonationInit PROVE ImpersonationInv
  OBVIOUS
<1> USE ImpersonationAssumption
<1>1. PICK I \in SUBSET ImpIDs :
        /\ Cardinality(I) <= 1
        /\ imp = [i \in ImpIDs |-> IF i \in I THEN [state |-> "active", lapsed |-> FALSE, base |-> 1]
                                   ELSE [state |-> "none", lapsed |-> FALSE, base |-> 0]]
        /\ recorded = [i \in ImpIDs |-> [started |-> IF i \in I THEN 1 ELSE 0, ended |-> 0]]
  BY DEF ImpersonationInit
<1>2. ImpersonationTypeOK
  BY <1>1 DEF ImpersonationInit, ImpersonationTypeOK, ImpRow, ImpState, ImpIdle, AllPermissions
<1>3. EventsMatch
  BY <1>1 DEF EventsMatch
<1>4. EndsNameSession /\ UsesNameSession
  BY DEF ImpersonationInit, EndsNameSession, UsesNameSession, ImpIdle
<1>5. OneActive
  <2>1. IsFiniteSet(I)
    BY FS_Subset
  <2>2. I = {} \/ \E x : I = {x}
    BY <1>1, <2>1, FS_CardinalityType, FS_EmptySet, FS_Singleton
  <2> QED
    BY <1>1, <2>2 DEF OneActive
<1> QED
  BY <1>2, <1>3, <1>4, <1>5 DEF ImpersonationInv

(* Ending a session: only an active one changes, with one event.           *)
LEMMA EndKeepsInv ==
  ASSUME ImpersonationInv, NEW i \in ImpIDs, NEW to \in {"exited", "expired", "revoked"}, End(i, to)
  PROVE  /\ imp' \in [ImpIDs -> ImpRow] /\ recorded' \in [ImpIDs -> [started : Nat, ended : Nat]]
         /\ OneActive' /\ EventsMatch'
<1>1. imp \in [ImpIDs -> ImpRow] /\ recorded \in [ImpIDs -> [started : Nat, ended : Nat]]
  BY DEF ImpersonationInv, ImpersonationTypeOK
<1>2. CASE imp[i].state = "active"
  <2>1. imp' = [imp EXCEPT ![i].state = to] /\ recorded' = [recorded EXCEPT ![i].ended = @ + 1]
    BY <1>2 DEF End, Endable
  <2>2. imp' \in [ImpIDs -> ImpRow] /\ recorded' \in [ImpIDs -> [started : Nat, ended : Nat]]
    BY <1>1, <2>1 DEF ImpRow, ImpState
  <2>3. OneActive'
    BY <1>1, <2>1 DEF ImpersonationInv, OneActive, ImpRow
  <2>4. EventsMatch'
    BY <1>1, <1>2, <2>1 DEF ImpersonationInv, EventsMatch, ImpRow
  <2> QED
    BY <2>2, <2>3, <2>4
<1>3. CASE imp[i].state # "active"
  <2>1. UNCHANGED <<imp, recorded>>
    BY <1>3 DEF End, Endable
  <2> QED
    BY <1>1, <2>1 DEF ImpersonationInv, OneActive, EventsMatch
<1> QED
  BY <1>2, <1>3

(* A request moves on.                                                     *)
LEMMA RequestMoves ==
  ASSUME ImpersonationInv, NEW r \in ImpReqs, NEW q \in ImpRequest \cup {ImpIdle},
         impReq' = [impReq EXCEPT ![r] = q],
         q.pc \in {"close", "end"} => q.id \in ImpIDs /\ q.to \in {"exited", "expired", "revoked"},
         (q.pc = "get" /\ q.op = "use") \/ q.pc = "enforce" => q.id \in ImpIDs
  PROVE  impReq' \in [ImpReqs -> ImpRequest \cup {ImpIdle}] /\ EndsNameSession' /\ UsesNameSession'
<1>1. impReq \in [ImpReqs -> ImpRequest \cup {ImpIdle}]
  BY DEF ImpersonationInv, ImpersonationTypeOK
<1>2. impReq'[r] = q /\ \A p \in ImpReqs \ {r} : impReq'[p] = impReq[p]
  BY <1>1
<1> QED
  BY <1>1, <1>2 DEF ImpersonationInv, EndsNameSession, UsesNameSession

(* A step of a request, before it changes a session.                       *)
LEMMA RequestKeepsInv ==
  ASSUME ImpersonationInv, NEW r \in ImpReqs,
         \/ BeginImp(r) \/ ImpFails(r) \/ AuthorizeStart(r) \/ EligibleTarget(r) \/ FindLapsed(r)
         \/ VerifyGet(r) \/ VerifyEnforce(r) \/ StopFind(r)
  PROVE  ImpersonationInv'
<1> USE ImpersonationAssumption
<1>1. ImpersonationTypeOK /\ imp \in [ImpIDs -> ImpRow]
  BY DEF ImpersonationInv, ImpersonationTypeOK
<1>2. impReq[r] \in ImpRequest \cup {ImpIdle}
  BY <1>1 DEF ImpersonationTypeOK
<1>3. impReq[r].pc # "idle" => impReq[r] \in ImpRequest
  BY <1>2 DEF ImpIdle
<1>4. UNCHANGED <<imp, families, signedIn, accounts, grant, sweep, recorded>> /\ impOps' \in 0..MaxImpOps
  <2>1. impOps \in 0..MaxImpOps /\ MaxImpOps \in Nat
    BY <1>1 DEF ImpersonationTypeOK
  <2>2. UNCHANGED impOps \/ (impOps < MaxImpOps /\ impOps' = impOps + 1)
    BY DEF BeginImp, ImpFails, AuthorizeStart, EligibleTarget, FindLapsed, VerifyGet, VerifyEnforce, StopFind
  <2>3. UNCHANGED <<imp, families, signedIn, accounts, grant, sweep, recorded>>
    BY DEF BeginImp, ImpFails, AuthorizeStart, EligibleTarget, FindLapsed, VerifyGet, VerifyEnforce, StopFind, standing
  <2> QED
    BY <2>1, <2>2, <2>3
<1>5. \E q \in ImpRequest \cup {ImpIdle} :
        /\ impReq' = [impReq EXCEPT ![r] = q]
        /\ q.pc \in {"close", "end"} => q.id \in ImpIDs /\ q.to \in {"exited", "expired", "revoked"}
        /\ (q.pc = "get" /\ q.op = "use") \/ q.pc = "enforce" => q.id \in ImpIDs
  <2> DEFINE Good(q) == /\ q \in ImpRequest \cup {ImpIdle}
                        /\ impReq' = [impReq EXCEPT ![r] = q]
                        /\ q.pc \in {"close", "end"} => q.id \in ImpIDs /\ q.to \in {"exited", "expired", "revoked"}
                        /\ (q.pc = "get" /\ q.op = "use") \/ q.pc = "enforce" => q.id \in ImpIDs
  <2>1. ASSUME ImpDone(r) PROVE Good(ImpIdle)
    BY <2>1 DEF ImpDone, ImpIdle
  <2>2. ASSUME NEW pc \in {"eligible", "lapsed", "create", "enforce"}, impReq[r].pc # "idle", ImpGoto(r, pc),
               pc = "enforce" => impReq[r].id \in ImpIDs
        PROVE  Good([impReq[r] EXCEPT !.pc = pc])
    <3>1. impReq' = [impReq EXCEPT ![r] = [impReq[r] EXCEPT !.pc = pc]]
      BY <1>1, <2>2 DEF ImpGoto, ImpersonationTypeOK
    <3> QED
      BY <1>3, <2>2, <3>1 DEF ImpRequest
  <2>3. ASSUME NEW i \in ImpIDs, NEW pc \in {"close", "end"}, NEW to \in {"exited", "expired", "revoked"},
               impReq[r].pc # "idle", impReq' = [impReq EXCEPT ![r].pc = pc, ![r].id = i, ![r].to = to]
        PROVE  Good([impReq[r] EXCEPT !.pc = pc, !.id = i, !.to = to])
    <3>1. impReq' = [impReq EXCEPT ![r] = [impReq[r] EXCEPT !.pc = pc, !.id = i, !.to = to]]
      BY <1>1, <2>3 DEF ImpersonationTypeOK
    <3> QED
      BY <1>3, <2>3, <3>1 DEF ImpRequest, ImpState
  <2>4. ASSUME NEW to \in {"exited", "expired", "revoked"}, impReq[r].pc # "idle", impReq[r].id \in ImpIDs,
               impReq' = [impReq EXCEPT ![r].pc = "end", ![r].to = to]
        PROVE  Good([impReq[r] EXCEPT !.pc = "end", !.to = to])
    <3>1. impReq' = [impReq EXCEPT ![r] = [impReq[r] EXCEPT !.pc = "end", !.to = to]]
      BY <1>1, <2>4 DEF ImpersonationTypeOK
    <3> QED
      BY <1>3, <2>4, <3>1 DEF ImpRequest, ImpState
  <2> HIDE DEF Good
  <2>5. CASE BeginImp(r)
    <3>1. PICK op \in {"start", "use", "stop"}, f \in 1..families, i \in {NoImp} \cup ImpIDs :
            /\ op = "use" => i # NoImp
            /\ impReq' = [impReq EXCEPT ![r] = [op |-> op, family |-> f, id |-> i, to |-> "none",
                                                pc |-> IF op = "start" THEN "authorize" ELSE "get"]]
      BY <2>5 DEF BeginImp
    <3>2. f \in 0..MaxFamilies
      BY <1>1 DEF ImpersonationTypeOK
    <3>3. Good([op |-> op, family |-> f, id |-> i, to |-> "none", pc |-> IF op = "start" THEN "authorize" ELSE "get"])
      BY <3>1, <3>2 DEF Good, ImpRequest, ImpState
    <3> QED
      BY <3>3 DEF Good
  <2>6. CASE ImpFails(r) \/ AuthorizeStart(r) \/ EligibleTarget(r) \/ VerifyEnforce(r)
    <3>1. CASE ImpDone(r) \/ (impReq[r].pc # "idle" /\ \E pc \in {"eligible", "lapsed"} : ImpGoto(r, pc))
      BY <2>1, <2>2, <3>1 DEF Good
    <3>2. CASE VerifyEnforce(r) /\ ~ImpDone(r)
      <4>1. /\ impReq[r].pc # "idle" /\ impReq[r].id \in ImpIDs
            /\ impReq' = [impReq EXCEPT ![r].pc = "end", ![r].to = "revoked"]
        BY <3>2 DEF VerifyEnforce, ImpAt, ImpersonationInv, UsesNameSession
      <4> QED
        BY <2>4, <4>1 DEF Good
    <3> QED
      BY <2>6, <3>1, <3>2 DEF ImpFails, AuthorizeStart, EligibleTarget, ImpAt
  <2>7. CASE FindLapsed(r)
    BY <2>2, <2>3, <2>7 DEF FindLapsed, ImpAt, ActiveImp, Good
  <2>8. CASE VerifyGet(r)
    BY <2>1, <2>2, <2>4, <2>8 DEF VerifyGet, ImpAt, Good, ImpersonationInv, UsesNameSession
  <2>9. CASE StopFind(r)
    BY <2>1, <2>3, <2>9 DEF StopFind, ImpAt, ActiveImp, Good
  <2> QED
    BY <2>5, <2>6, <2>7, <2>8, <2>9
<1>6. impReq' \in [ImpReqs -> ImpRequest \cup {ImpIdle}] /\ EndsNameSession' /\ UsesNameSession'
  BY <1>5, RequestMoves
<1>7. ImpersonationTypeOK'
  BY <1>1, <1>4, <1>6 DEF ImpersonationTypeOK
<1>8. OneActive' /\ EventsMatch'
  BY <1>4 DEF ImpersonationInv, OneActive, EventsMatch
<1> QED
  BY <1>6, <1>7, <1>8 DEF ImpersonationInv

(* A request that ends or opens a session.                                 *)
LEMMA RequestEndsKeepsInv ==
  ASSUME ImpersonationInv, NEW r \in ImpReqs, CloseLapsed(r) \/ CreateImp(r) \/ EndImp(r)
  PROVE  ImpersonationInv'
<1> USE ImpersonationAssumption
<1>1. ImpersonationTypeOK /\ imp \in [ImpIDs -> ImpRow] /\ recorded \in [ImpIDs -> [started : Nat, ended : Nat]]
  BY DEF ImpersonationInv, ImpersonationTypeOK
<1>2. impReq[r].pc # "idle" /\ impReq[r] \in ImpRequest
  BY <1>1 DEF ImpersonationTypeOK, CloseLapsed, CreateImp, EndImp, ImpAt, ImpIdle
<1>3. UNCHANGED <<families, signedIn, accounts, grant, sweep, impOps>>
  BY DEF CloseLapsed, CreateImp, EndImp, standing
<1>4. impReq' \in [ImpReqs -> ImpRequest \cup {ImpIdle}] /\ EndsNameSession' /\ UsesNameSession'
  <2>1. CASE CloseLapsed(r)
    <3> DEFINE q == [impReq[r] EXCEPT !.pc = "create"]
    <3>1. impReq' = [impReq EXCEPT ![r] = q]
      BY <1>1, <2>1 DEF CloseLapsed, ImpGoto, ImpersonationTypeOK
    <3>2. q \in ImpRequest /\ q.pc = "create"
      BY <1>2 DEF ImpRequest
    <3> HIDE DEF q
    <3> QED
      BY <3>1, <3>2, RequestMoves
  <2>2. CASE CreateImp(r) \/ EndImp(r)
    <3>1. impReq' = [impReq EXCEPT ![r] = ImpIdle]
      BY <2>2 DEF CreateImp, EndImp, ImpDone
    <3> QED
      BY <3>1, RequestMoves DEF ImpIdle
  <2> QED
    BY <2>1, <2>2
<1>5. imp' \in [ImpIDs -> ImpRow] /\ recorded' \in [ImpIDs -> [started : Nat, ended : Nat]] /\ OneActive' /\ EventsMatch'
  <2>1. CASE CloseLapsed(r) \/ EndImp(r)
    <3>1. /\ impReq[r].id \in ImpIDs /\ impReq[r].to \in {"exited", "expired", "revoked"}
          /\ End(impReq[r].id, impReq[r].to)
      BY <2>1 DEF CloseLapsed, EndImp, ImpAt, ImpersonationInv, EndsNameSession
    <3> QED
      BY <3>1, EndKeepsInv
  <2>2. CASE CreateImp(r) /\ ActiveImp = {}
    <3>1. PICK i \in ImpIDs :
            /\ imp[i].state = "none"
            /\ imp' = [imp EXCEPT ![i] = [state |-> "active", lapsed |-> FALSE, base |-> impReq[r].family]]
            /\ recorded' = [recorded EXCEPT ![i].started = @ + 1]
      BY <2>2 DEF CreateImp
    <3>2. \A j \in ImpIDs : imp[j].state # "active"
      BY <2>2 DEF ActiveImp
    <3>3. imp' \in [ImpIDs -> ImpRow] /\ recorded' \in [ImpIDs -> [started : Nat, ended : Nat]]
      BY <1>1, <1>2, <3>1 DEF ImpRow, ImpState, ImpRequest
    <3>4. OneActive'
      BY <1>1, <3>1, <3>2 DEF OneActive
    <3>5. EventsMatch'
      BY <1>1, <3>1 DEF ImpersonationInv, EventsMatch
    <3> QED
      BY <3>3, <3>4, <3>5
  <2>3. CASE CreateImp(r) /\ ActiveImp # {}
    <3>1. UNCHANGED <<imp, recorded>>
      BY <2>3 DEF CreateImp
    <3> QED
      BY <1>1, <3>1 DEF ImpersonationInv, OneActive, EventsMatch
  <2> QED
    BY <2>1, <2>2, <2>3
<1>6. ImpersonationTypeOK'
  BY <1>1, <1>3, <1>4, <1>5 DEF ImpersonationTypeOK
<1> QED
  BY <1>4, <1>5, <1>6 DEF ImpersonationInv

(* Time, the expiry job, sign-ins, accounts and roles.                     *)
LEMMA SurroundingsKeepInv ==
  ASSUME ImpersonationInv, UNCHANGED impReq,
         \/ ListExpired \/ \E i \in ImpIDs : EndExpired(i) \/ ImpLapses(i)
         \/ \E f \in signedIn : SignOut(f)
         \/ SignIn \/ CloseAccount
         \/ \E who \in {"actor", "target"} : Regrant(who)
  PROVE  ImpersonationInv'
<1> USE ImpersonationAssumption
<1>1. ImpersonationTypeOK /\ imp \in [ImpIDs -> ImpRow] /\ recorded \in [ImpIDs -> [started : Nat, ended : Nat]]
  BY DEF ImpersonationInv, ImpersonationTypeOK
<1>2. EndsNameSession' /\ UsesNameSession'
  BY DEF ImpersonationInv, EndsNameSession, UsesNameSession
<1>3. CASE \E i \in ImpIDs : EndExpired(i)
  <2>1. PICK i \in ImpIDs : EndExpired(i)
    BY <1>3
  <2>2. imp' \in [ImpIDs -> ImpRow] /\ recorded' \in [ImpIDs -> [started : Nat, ended : Nat]] /\ OneActive' /\ EventsMatch'
    BY <2>1, EndKeepsInv DEF EndExpired
  <2>3. UNCHANGED <<families, signedIn, accounts, grant, impOps>> /\ sweep' \subseteq sweep
    BY <2>1 DEF EndExpired, standing
  <2> QED
    BY <1>1, <1>2, <2>2, <2>3 DEF ImpersonationInv, ImpersonationTypeOK
<1>4. CASE \E i \in ImpIDs : ImpLapses(i)
  <2>1. PICK i \in ImpIDs : ImpLapses(i)
    BY <1>4
  <2>2. imp' = [imp EXCEPT ![i].lapsed = TRUE] /\ UNCHANGED <<families, signedIn, accounts, grant, sweep, impOps, recorded>>
    BY <2>1 DEF ImpLapses, standing
  <2>3. imp' \in [ImpIDs -> ImpRow] /\ \A j \in ImpIDs : imp'[j].state = imp[j].state
    BY <1>1, <2>2 DEF ImpRow
  <2> QED
    BY <1>1, <1>2, <2>2, <2>3 DEF ImpersonationInv, ImpersonationTypeOK, OneActive, EventsMatch
<1>5. CASE ListExpired \/ (\E f \in signedIn : SignOut(f)) \/ SignIn \/ CloseAccount
           \/ \E who \in {"actor", "target"} : Regrant(who)
  <2>1. UNCHANGED <<imp, recorded>>
    BY <1>5 DEF ListExpired, SignOut, SignIn, CloseAccount, Regrant
  <2>2. sweep' \subseteq ImpIDs /\ accounts' \in BOOLEAN
    BY <1>1, <1>5 DEF ListExpired, SignOut, SignIn, CloseAccount, Regrant, standing, Expired, ActiveImp,
                      ImpersonationTypeOK
  <2>3. families' \in 1..MaxFamilies /\ signedIn' \subseteq 1..MaxFamilies
    <3>1. families \in 1..MaxFamilies /\ signedIn \subseteq 1..MaxFamilies /\ MaxFamilies \in Nat
      BY <1>1 DEF ImpersonationTypeOK
    <3>2. CASE SignIn
      BY <3>1, <3>2 DEF SignIn
    <3>3. CASE ~SignIn
      BY <1>5, <3>1, <3>3 DEF ListExpired, SignOut, CloseAccount, Regrant, standing
    <3> QED
      BY <3>2, <3>3
  <2>4. grant' \in [{"actor", "target"} -> SUBSET AllPermissions] /\ impOps' \in 0..MaxImpOps
    <3>1. /\ grant \in [{"actor", "target"} -> SUBSET AllPermissions] /\ impOps \in 0..MaxImpOps /\ MaxImpOps \in Nat
      BY <1>1 DEF ImpersonationTypeOK
    <3>2. CASE \E who \in {"actor", "target"} : Regrant(who)
      BY <3>1, <3>2 DEF Regrant
    <3>3. CASE ~\E who \in {"actor", "target"} : Regrant(who)
      BY <1>5, <3>1, <3>3 DEF ListExpired, SignOut, SignIn, CloseAccount, standing
    <3> QED
      BY <3>2, <3>3
  <2> QED
    BY <1>1, <1>2, <2>1, <2>2, <2>3, <2>4 DEF ImpersonationInv, ImpersonationTypeOK, OneActive, EventsMatch
<1> QED
  BY <1>3, <1>4, <1>5

(* Every step of the component keeps the invariant.                        *)
LEMMA ImpersonationNextInv == ImpersonationInv /\ [ImpersonationNext]_impersonationVars => ImpersonationInv'
<1> SUFFICES ASSUME ImpersonationInv, [ImpersonationNext]_impersonationVars PROVE ImpersonationInv'
  OBVIOUS
<1>1. CASE UNCHANGED impersonationVars
  BY <1>1 DEF impersonationVars, ImpersonationInv, ImpersonationTypeOK, EndsNameSession, UsesNameSession, OneActive,
              EventsMatch
<1>2. ASSUME ImpersonationNext, \A r \in ImpReqs : ~(\/ BeginImp(r) \/ ImpFails(r) \/ AuthorizeStart(r)
               \/ EligibleTarget(r) \/ FindLapsed(r) \/ CloseLapsed(r) \/ CreateImp(r) \/ VerifyGet(r)
               \/ VerifyEnforce(r) \/ StopFind(r) \/ EndImp(r))
      PROVE  ImpersonationInv'
  <2>1. UNCHANGED impReq
    BY <1>2 DEF ImpersonationNext, ListExpired, EndExpired, ImpLapses, SignOut, SignIn, CloseAccount, Regrant
  <2> QED
    BY <1>2, <2>1, SurroundingsKeepInv DEF ImpersonationNext
<1> QED
  BY <1>1, <1>2, RequestKeepsInv, RequestEndsKeepsInv

(* However many requests, sign-ins and runs of the expiry job race, a staff *)
(* member has one active impersonation, and each session one start event    *)
(* and exactly when it is over one end event (Start, Stop, Verify,          *)
(* ExpireStale).                                                            *)
THEOREM ImpersonationIsRecorded == ImpersonationSpec => []ImpersonationInvariant
<1>1. ImpersonationInv => ImpersonationInvariant
  <2> SUFFICES ASSUME ImpersonationInv PROVE Cardinality(ActiveImp) <= 1
    BY DEF ImpersonationInv, ImpersonationInvariant, EndRecordedOnce, EventsMatch
  <2>1. ActiveImp = {} \/ \E i \in ImpIDs : ActiveImp = {i}
    BY DEF ImpersonationInv, OneActive, ActiveImp
  <2>2. CASE ActiveImp = {}
    BY <2>2, FS_EmptySet
  <2>3. ASSUME NEW i \in ImpIDs, ActiveImp = {i} PROVE Cardinality(ActiveImp) <= 1
    <3>1. Cardinality({i}) = 1
      BY FS_Singleton
    <3> QED
      BY <2>3, <3>1
  <2> QED
    BY <2>1, <2>2, <2>3
<1> QED
  BY <1>1, ImpersonationInitInv, ImpersonationNextInv, PTL DEF ImpersonationSpec

-----------------------------------------------------------------------------
(* The scheduler.  RunsOncePerInterval needs that a goroutine between the  *)
(* lock and the end of its job holds the lock, unless its connection has   *)
(* dropped, that what it found due is still due when it starts, and that   *)
(* the stored start is the last one.                                       *)

LockIsHeld ==
  \A p \in Replicas : PcOf(p) \in {"due", "start"} \/ (Running(p) /\ ~replica[p].dropped) => jobLock = p

StartIsDue == \A p \in Replicas : PcOf(p) = "start" => IsDue(p)

LastStartStored == starts # <<>> => jobRow.started = starts[Len(starts)]

StartsSpaced == \A i \in 1..(Len(starts) - 1) : starts[i + 1] >= starts[i] + every

SchedulerInv ==
  /\ SchedulerTypeOK
  /\ LockIsHeld
  /\ StartIsDue
  /\ LastStartStored
  /\ StartsSpaced

(* Nobody holds the lock and nothing has started.                          *)
LEMMA SchedulerInitInv == SchedulerInit => SchedulerInv
<1> SUFFICES ASSUME SchedulerInit PROVE SchedulerInv
  OBVIOUS
<1> USE SchedulerAssumption
<1>1. SchedulerTypeOK
  BY DEF SchedulerInit, SchedulerTypeOK, JobRow, Goroutine, Resting, never
<1>2. LockIsHeld /\ StartIsDue /\ LastStartStored /\ StartsSpaced
  BY DEF SchedulerInit, LockIsHeld, StartIsDue, LastStartStored, StartsSpaced, PcOf, Running, Resting
<1> QED
  BY <1>1, <1>2 DEF SchedulerInv

(* A replica does something that stores no start: the others keep what     *)
(* they had, and the lock goes nowhere but from or to the replica.         *)
LEMMA ReplicaStep ==
  ASSUME SchedulerInv, NEW p \in Replicas, NEW g \in Goroutine,
         replica' = [replica EXCEPT ![p] = g],
         UNCHANGED <<job, clock, starts>>, forced' \in 0..MaxForced, faults' \in 0..MaxFaults,
         jobRow' \in JobRow, jobRow'.started = jobRow.started,
         \/ jobLock' = jobLock
         \/ jobLock = NoReplica /\ jobLock' = p
         \/ jobLock = p /\ jobLock' = NoReplica,
         g.pc \in {"due", "start"} \/ (g.pc = "run" /\ ~g.dropped) => jobLock' = p,
         g.pc = "start" => g.forced \/ jobRow.started = never \/ g.now >= jobRow.started + every
  PROVE  SchedulerInv'
<1> USE SchedulerAssumption
<1>1. replica \in [Replicas -> Goroutine] /\ SchedulerTypeOK
  BY DEF SchedulerInv, SchedulerTypeOK
<1>2. replica'[p] = g /\ \A q \in Replicas \ {p} : replica'[q] = replica[q]
  BY <1>1
<1>3. SchedulerTypeOK'
  BY <1>1 DEF SchedulerTypeOK
<1>4. every' = every
  BY DEF every
<1>5. LockIsHeld'
  <2> SUFFICES ASSUME NEW q \in Replicas, (PcOf(q) \in {"due", "start"} \/ (Running(q) /\ ~replica[q].dropped))'
               PROVE  jobLock' = q
    BY DEF LockIsHeld
  <2>1. CASE q = p
    BY <1>2, <2>1 DEF PcOf, Running
  <2>2. CASE q # p
    BY <1>1, <1>2, <2>2 DEF SchedulerInv, LockIsHeld, PcOf, Running
  <2> QED
    BY <2>1, <2>2
<1>6. StartIsDue'
  BY <1>2, <1>4 DEF SchedulerInv, StartIsDue, IsDue, PcOf
<1>7. LastStartStored' /\ StartsSpaced'
  BY <1>4 DEF SchedulerInv, LastStartStored, StartsSpaced
<1> QED
  BY <1>3, <1>5, <1>6, <1>7 DEF SchedulerInv

(* A run starts under the lock: the interval has passed since the last     *)
(* stored start, and nobody else is between the check and the start.       *)
LEMMA StartRunKeepsInv ==
  ASSUME SchedulerInv, NEW p \in Replicas, StartRun(p)
  PROVE  SchedulerInv'
<1> USE SchedulerAssumption
<1>1. replica \in [Replicas -> Goroutine] /\ SchedulerTypeOK /\ starts \in Seq(0..MaxClock) /\ jobRow \in JobRow
  BY DEF SchedulerInv, SchedulerTypeOK
<1>2. /\ PcOf(p) = "start" /\ jobLock = p /\ replica[p] \in Goroutine /\ replica[p].now \in 0..MaxClock
      /\ IsDue(p)
  BY <1>1 DEF StartRun, SchedulerInv, LockIsHeld, StartIsDue, Goroutine
<1>3. /\ replica' = [replica EXCEPT ![p] = [replica[p] EXCEPT !.pc = "run", !.part = 1]]
      /\ [replica[p] EXCEPT !.pc = "run", !.part = 1] \in Goroutine
      /\ UNCHANGED <<job, clock, jobLock, forced, faults>>
  BY <1>1, <1>2 DEF StartRun, Goroutine
<1>4. jobRow' \in JobRow /\ jobRow'.started = replica[p].now
  <2>1. jobRow' = [jobRow EXCEPT !.started = replica[p].now] /\ MaxClock \in Nat
    BY DEF StartRun
  <2>2. replica[p].now \in never..MaxClock
    BY <1>2, <2>1 DEF never
  <2> QED
    BY <1>1, <2>1, <2>2 DEF JobRow
<1>5. /\ starts' \in Seq(0..MaxClock)
      /\ starts' # <<>> => starts'[Len(starts')] = replica[p].now
      /\ starts' = <<>> \/ (~replica[p].forced /\ starts' = Append(starts, replica[p].now))
  <2>1. PICK n \in 0..MaxClock : n = replica[p].now
    BY <1>2
  <2>2. starts' = <<>> \/ (~replica[p].forced /\ starts' = Append(starts, n))
    BY <2>1 DEF StartRun
  <2>3. CASE starts' = <<>>
    BY <2>3
  <2>4. CASE starts' = Append(starts, n)
    BY <1>1, <2>1, <2>2, <2>4
  <2> QED
    BY <2>1, <2>2, <2>3, <2>4
<1>6. PcOf(p)' = "run" /\ \A q \in Replicas \ {p} : replica'[q] = replica[q] /\ PcOf(q) \notin {"due", "start"}
  BY <1>1, <1>2, <1>3 DEF SchedulerInv, LockIsHeld, PcOf, Goroutine
<1>7. SchedulerTypeOK'
  <2>1. replica' \in [Replicas -> Goroutine]
    BY <1>1, <1>3
  <2>2. starts' \in Seq(0..MaxClock)
    BY <1>5
  <2>3. jobRow' \in JobRow
    BY <1>4
  <2>4. UNCHANGED <<job, clock, jobLock, forced, faults>>
    BY <1>3
  <2> QED
    BY <1>1, <2>1, <2>2, <2>3, <2>4 DEF SchedulerTypeOK
<1>8. LockIsHeld'
  BY <1>1, <1>2, <1>3, <1>6 DEF SchedulerInv, LockIsHeld, PcOf, Running
<1>9. StartIsDue'
  BY <1>6 DEF StartIsDue, PcOf
<1>10. LastStartStored'
  BY <1>4, <1>5 DEF LastStartStored
<1>11. StartsSpaced'
  <2>1. CASE starts' = <<>>
    BY <2>1 DEF StartsSpaced
  <2>2. CASE ~replica[p].forced /\ starts' = Append(starts, replica[p].now)
    <3> SUFFICES ASSUME NEW i \in 1..(Len(starts') - 1) PROVE starts'[i + 1] >= starts'[i] + every
      BY DEF StartsSpaced, every, StartRun
    <3>1. Len(starts') = Len(starts) + 1 /\ i \in 1..Len(starts) /\ starts'[i] = starts[i]
      BY <1>1, <1>2, <2>2
    <3>2. CASE i < Len(starts)
      <4>1. starts'[i + 1] = starts[i + 1] /\ i \in 1..(Len(starts) - 1)
        BY <1>1, <1>2, <2>2, <3>1, <3>2
      <4> QED
        BY <3>1, <4>1 DEF SchedulerInv, StartsSpaced
    <3>3. CASE i = Len(starts)
      <4>1. starts'[i + 1] = replica[p].now /\ starts # <<>> /\ starts[i] \in 0..MaxClock
        BY <1>1, <1>2, <2>2, <3>1, <3>3
      <4>2. jobRow.started = starts[i] /\ jobRow.started # never
        BY <3>3, <4>1 DEF SchedulerInv, LastStartStored, never
      <4> QED
        BY <1>2, <2>2, <3>1, <4>1, <4>2 DEF IsDue
    <3> QED
      BY <1>1, <3>1, <3>2, <3>3
  <2> QED
    BY <1>5, <2>1, <2>2
<1> QED
  BY <1>7, <1>8, <1>9, <1>10, <1>11 DEF SchedulerInv

(* Every other step of a replica.                                          *)
LEMMA ReplicaKeepsInv ==
  ASSUME SchedulerInv, NEW p \in Replicas,
         \/ Tick(p) \/ RunNow(p) \/ TryLock(p) \/ CheckDue(p) \/ RunPart(p) \/ FinishRun(p)
         \/ ReplicaCrash(p) \/ ConnectionDrops(p)
  PROVE  SchedulerInv'
<1> USE SchedulerAssumption
<1>1. replica \in [Replicas -> Goroutine] /\ SchedulerTypeOK /\ jobRow \in JobRow /\ replica[p] \in Goroutine
  BY DEF SchedulerInv, SchedulerTypeOK
<1>2. /\ clock \in 0..MaxClock /\ forced \in 0..MaxForced /\ faults \in 0..MaxFaults
      /\ MaxForced \in Nat /\ MaxFaults \in Nat /\ jobLock \in Replicas \cup {NoReplica}
  BY <1>1 DEF SchedulerTypeOK
<1>3. Resting \in Goroutine /\ Resting.pc = "idle"
  BY DEF Resting, Goroutine
<1>4. CASE Tick(p) \/ RunNow(p)
  <2> DEFINE g(f) == [pc |-> "lock", now |-> clock, forced |-> f, part |-> 0, failed |-> FALSE, dropped |-> FALSE]
  <2>1. PICK f \in BOOLEAN : replica' = [replica EXCEPT ![p] = g(f)]
    <3>1. Tick(p) => replica' = [replica EXCEPT ![p] = g(FALSE)]
      BY DEF Tick, Resting
    <3>2. RunNow(p) => replica' = [replica EXCEPT ![p] = g(TRUE)]
      BY DEF RunNow, Resting
    <3> QED
      BY <1>4, <3>1, <3>2
  <2>2. g(f) \in Goroutine /\ g(f).pc = "lock"
    BY <1>2 DEF Goroutine
  <2>3. UNCHANGED <<job, clock, jobLock, jobRow, faults, starts>> /\ forced' \in 0..MaxForced
    BY <1>2, <1>4 DEF Tick, RunNow
  <2> HIDE DEF g
  <2> QED
    BY <1>1, <1>2, <2>1, <2>2, <2>3, ReplicaStep
<1>5. CASE TryLock(p)
  <2>1. CASE jobLock = NoReplica
    <3> DEFINE g == [replica[p] EXCEPT !.pc = "due"]
    <3>1. replica' = [replica EXCEPT ![p] = g] /\ g \in Goroutine /\ g.pc = "due" /\ jobLock' = p
      BY <1>1, <1>5, <2>1 DEF TryLock, ToPc, Goroutine
    <3>2. UNCHANGED <<job, clock, jobRow, forced, faults, starts>>
      BY <1>5 DEF TryLock
    <3> HIDE DEF g
    <3> QED
      BY <1>1, <1>2, <2>1, <3>1, <3>2, ReplicaStep
  <2>2. CASE jobLock # NoReplica
    <3>1. replica' = [replica EXCEPT ![p] = Resting] /\ UNCHANGED <<jobLock, job, clock, jobRow, forced, faults, starts>>
      BY <1>5, <2>2 DEF TryLock
    <3> QED
      BY <1>1, <1>2, <1>3, <3>1, ReplicaStep
  <2> QED
    BY <2>1, <2>2
<1>6. CASE CheckDue(p)
  <2>1. UNCHANGED <<job, clock, jobRow, forced, faults, starts>> /\ jobLock = p
    BY <1>6 DEF CheckDue, SchedulerInv, LockIsHeld
  <2>2. CASE IsDue(p)
    <3> DEFINE g == [replica[p] EXCEPT !.pc = "start"]
    <3>1. /\ replica' = [replica EXCEPT ![p] = g] /\ g \in Goroutine /\ g.pc = "start" /\ jobLock' = jobLock
          /\ g.forced = replica[p].forced /\ g.now = replica[p].now
      BY <1>1, <1>6, <2>2 DEF CheckDue, ToPc, Goroutine
    <3>2. g.forced \/ jobRow.started = never \/ g.now >= jobRow.started + every
      BY <2>2, <3>1 DEF IsDue
    <3> HIDE DEF g
    <3> QED
      BY <1>1, <1>2, <2>1, <3>1, <3>2, ReplicaStep
  <2>3. CASE ~IsDue(p)
    <3>1. replica' = [replica EXCEPT ![p] = Resting] /\ jobLock' = NoReplica
      BY <1>6, <2>1, <2>3 DEF CheckDue, Stop, Unlock
    <3> QED
      BY <1>1, <1>2, <1>3, <2>1, <3>1, ReplicaStep
  <2> QED
    BY <2>2, <2>3
<1>7. CASE RunPart(p)
  <2>1. PICK f \in BOOLEAN : replica' = [replica EXCEPT ![p].part = @ + 1, ![p].failed = @ \/ f]
    BY <1>7 DEF RunPart
  <2>a. PICK h \in BOOLEAN : h = (replica[p].failed \/ f)
    OBVIOUS
  <2> DEFINE g == [replica[p] EXCEPT !.part = @ + 1, !.failed = h]
  <2>2. replica' = [replica EXCEPT ![p] = g]
    BY <1>1, <2>1, <2>a
  <2>3. g \in Goroutine /\ g.pc = "run" /\ g.dropped = replica[p].dropped
    <3>1. replica[p].part \in Nat /\ replica[p].part + 1 \in Nat /\ replica[p].pc = "run"
      <4>1. replica[p].pc = "run"
        BY <1>7, Zenon DEF RunPart, PcOf
      <4> QED
        BY <1>1, <4>1 DEF Goroutine
    <3> QED
      BY <1>1, <3>1 DEF Goroutine
  <2>4. UNCHANGED <<job, clock, jobLock, jobRow, forced, faults, starts>>
    BY <1>7 DEF RunPart
  <2>5. ~g.dropped => jobLock' = p
    BY <1>7, <2>3, <2>4 DEF RunPart, SchedulerInv, LockIsHeld, Running
  <2> HIDE DEF g
  <2> QED
    BY <1>1, <1>2, <2>2, <2>3, <2>4, <2>5, ReplicaStep
<1>8. CASE FinishRun(p)
  <2>1. replica' = [replica EXCEPT ![p] = Resting] /\ jobLock' = IF jobLock = p THEN NoReplica ELSE jobLock
    BY <1>8 DEF FinishRun, Stop, Unlock
  <2>2. jobRow' \in JobRow /\ jobRow'.started = jobRow.started
    <3>1. replica[p].failed \in BOOLEAN /\ jobRow.runs + 1 \in Nat
      BY <1>1 DEF JobRow, Goroutine
    <3>2. jobRow' \in {jobRow, [jobRow EXCEPT !.finished = TRUE, !.failed = replica[p].failed, !.runs = @ + 1]}
      BY <1>8 DEF FinishRun
    <3> QED
      BY <1>1, <3>1, <3>2 DEF JobRow
  <2>3. UNCHANGED <<job, clock, forced, faults, starts>>
    BY <1>8 DEF FinishRun
  <2> QED
    BY <1>1, <1>2, <1>3, <2>1, <2>2, <2>3, ReplicaStep
<1>9. CASE ReplicaCrash(p)
  <2>1. replica' = [replica EXCEPT ![p] = Resting] /\ jobLock' = IF jobLock = p THEN NoReplica ELSE jobLock
    BY <1>9 DEF ReplicaCrash, CrashUnlocks, Unlock
  <2>2. UNCHANGED <<job, clock, jobRow, forced, starts>> /\ faults' \in 0..MaxFaults
    BY <1>2, <1>9 DEF ReplicaCrash
  <2> QED
    BY <1>1, <1>2, <1>3, <2>1, <2>2, ReplicaStep
<1>10. CASE ConnectionDrops(p)
  <2> DEFINE g == IF PcOf(p) = "run" THEN [replica[p] EXCEPT !.dropped = TRUE] ELSE Resting
  <2>1. replica' = [replica EXCEPT ![p] = g] /\ jobLock = p /\ jobLock' = NoReplica
    BY <1>10 DEF ConnectionDrops
  <2>2. g \in Goroutine /\ g.pc \in {"idle", "run"} /\ (g.pc = "run" => g.dropped)
    BY <1>1, <1>3 DEF PcOf, Goroutine
  <2>3. UNCHANGED <<job, clock, jobRow, forced, starts>> /\ faults' \in 0..MaxFaults
    BY <1>2, <1>10 DEF ConnectionDrops
  <2> HIDE DEF g
  <2> QED
    BY <1>1, <1>2, <2>1, <2>2, <2>3, ReplicaStep
<1> QED
  BY <1>4, <1>5, <1>6, <1>7, <1>8, <1>9, <1>10

(* A clock tick and a stuttering step.                                     *)
LEMMA SchedulerNextInv == SchedulerInv /\ [SchedulerNext]_schedulerVars => SchedulerInv'
<1> SUFFICES ASSUME SchedulerInv, [SchedulerNext]_schedulerVars PROVE SchedulerInv'
  OBVIOUS
<1>1. CASE ClockTicks \/ UNCHANGED schedulerVars
  <2>1. UNCHANGED <<job, jobLock, jobRow, replica, forced, faults, starts>> /\ clock' \in 0..MaxClock
    BY <1>1, SchedulerAssumption DEF ClockTicks, schedulerVars, SchedulerInv, SchedulerTypeOK
  <2> QED
    BY <2>1 DEF SchedulerInv, SchedulerTypeOK, LockIsHeld, StartIsDue, LastStartStored, StartsSpaced, IsDue, every,
                PcOf, Running
<1> QED
  BY <1>1, StartRunKeepsInv, ReplicaKeepsInv DEF SchedulerNext

(* Each job runs once per interval across any number of replicas, crashes  *)
(* and dropped connections (TryRun, RunNow, the advisory lock).            *)
THEOREM RunsOnce == SchedulerSpec => []SchedulerInvariant
<1>1. SchedulerInv => SchedulerInvariant
  BY DEF SchedulerInv, SchedulerInvariant, RunsOncePerInterval, LockIsHeld, StartsSpaced
<1> QED
  BY <1>1, SchedulerInitInv, SchedulerNextInv, PTL DEF SchedulerSpec

-----------------------------------------------------------------------------
(* Analytics exports.  DownloadsExist needs that the purge and a builder   *)
(* are never after the same archive: what expired is settled, without a    *)
(* builder, and stays so; the purge deletes only what expired; and a       *)
(* builder that is about to complete has stored its archive.               *)

ExpiredIsSettled ==
  \A e \in Exports :
    /\ export[e].key => export[e].status # "none"
    /\ export[e].expired => /\ export[e].status \in {"completed", "failed"}
                            /\ \A b \in Builders : builder[b].id # e

BuilderKnows(q) ==
  /\ q.pc \in {"build", "put", "complete", "fail"} => q.id \in Exports
  /\ q.pc = "complete" => q.id \in archives
  /\ \A e \in q.todo : export[e].expired

BuildersKnow == \A b \in Builders : BuilderKnows(builder[b])

KeyedAreStored == \A e \in Exports : export[e].key /\ ~export[e].expired => e \in archives

ExportsInv ==
  /\ ExportsTypeOK
  /\ ExpiredIsSettled
  /\ BuildersKnow
  /\ KeyedAreStored

(* Nothing was exported.                                                   *)
LEMMA ExportsInitInv == ExportsInit => ExportsInv
<1> SUFFICES ASSUME ExportsInit PROVE ExportsInv
  OBVIOUS
<1> USE ExportsAssumption
<1>1. ExportsTypeOK
  BY DEF ExportsInit, ExportsTypeOK, ExportRow, NoExport, Build, NoBuild
<1>2. ExpiredIsSettled /\ BuildersKnow /\ KeyedAreStored
  BY DEF ExportsInit, ExpiredIsSettled, BuildersKnow, BuilderKnows, KeyedAreStored, NoExport, NoBuild
<1> QED
  BY <1>1, <1>2 DEF ExportsInv

(* A builder does something else; of the rows, only one changes, and it    *)
(* neither expires nor stops being expired.                                *)
LEMMA BuilderMoves ==
  ASSUME ExportsInv, NEW b \in Builders, NEW q \in Build,
         builder' = [builder EXCEPT ![b] = q],
         BuilderKnows(q)',
         \A e \in Exports : q.id = e => q.id = builder[b].id \/ ~export[e].expired,
         buildersLost' \in 0..MaxBuildersLost, archives \subseteq archives', archives' \subseteq Exports,
         NEW x \in Exports, NEW exportRow \in ExportRow, export' = [export EXCEPT ![x] = exportRow],
         exportRow.expired = export[x].expired,
         exportRow.key => exportRow.status # "none",
         exportRow.expired => exportRow.status = export[x].status,
         exportRow.key /\ ~exportRow.expired => export[x].key \/ x \in archives
  PROVE  ExportsInv'
<1> USE ExportsAssumption
<1>1. export \in [Exports -> ExportRow] /\ builder \in [Builders -> Build] /\ ExportsTypeOK
  BY DEF ExportsInv, ExportsTypeOK
<1>2. /\ export'[x] = exportRow /\ \A e \in Exports \ {x} : export'[e] = export[e]
      /\ builder'[b] = q /\ \A c \in Builders \ {b} : builder'[c] = builder[c]
      /\ \A e \in Exports : export'[e].expired = export[e].expired
  BY <1>1
<1>3. ExportsTypeOK'
  BY <1>1 DEF ExportsTypeOK
<1>4. ExpiredIsSettled'
  BY <1>2 DEF ExportsInv, ExpiredIsSettled
<1>5. BuildersKnow'
  <2> SUFFICES ASSUME NEW c \in Builders, c # b PROVE BuilderKnows(builder[c])'
    BY <1>2 DEF BuildersKnow
  <2>1. builder[c].todo \subseteq Exports /\ builder'[c] = builder[c] /\ BuilderKnows(builder[c])
    BY <1>1, <1>2 DEF Build, ExportsInv, BuildersKnow
  <2> QED
    BY <1>2, <2>1 DEF BuilderKnows
<1>6. KeyedAreStored'
  BY <1>2 DEF ExportsInv, KeyedAreStored
<1> QED
  BY <1>3, <1>4, <1>5, <1>6 DEF ExportsInv

(* A builder does something else and no row changes.                       *)
LEMMA BuilderMovesAlone ==
  ASSUME ExportsInv, NEW b \in Builders, NEW q \in Build,
         builder' = [builder EXCEPT ![b] = q],
         BuilderKnows(q)', q.id \in {0, builder[b].id},
         buildersLost' \in 0..MaxBuildersLost, archives \subseteq archives', archives' \subseteq Exports,
         UNCHANGED export
  PROVE  ExportsInv'
<1> USE ExportsAssumption
<1>1. export \in [Exports -> ExportRow] /\ builder \in [Builders -> Build] /\ ExportsTypeOK
  BY DEF ExportsInv, ExportsTypeOK
<1>2. builder'[b] = q /\ \A c \in Builders \ {b} : builder'[c] = builder[c]
  BY <1>1
<1>3. ExportsTypeOK'
  BY <1>1 DEF ExportsTypeOK
<1>4. ExpiredIsSettled'
  BY <1>2 DEF ExportsInv, ExpiredIsSettled, Exports
<1>5. BuildersKnow'
  BY <1>2 DEF ExportsInv, BuildersKnow, BuilderKnows
<1>6. KeyedAreStored'
  BY DEF ExportsInv, KeyedAreStored
<1> QED
  BY <1>3, <1>4, <1>5, <1>6 DEF ExportsInv

(* A build, from the claim to its end.                                     *)
LEMMA BuildKeepsInv ==
  ASSUME ExportsInv, NEW b \in Builders,
         \/ ClaimExport(b) \/ BuildArchive(b) \/ PutExport(b) \/ CompleteBuild(b) \/ BuildFails(b) \/ FailExport(b)
         \/ BuilderDies(b)
  PROVE  ExportsInv'
<1> USE ExportsAssumption
<1>1. /\ export \in [Exports -> ExportRow] /\ builder \in [Builders -> Build] /\ builder[b] \in Build
      /\ buildersLost \in 0..MaxBuildersLost /\ archives \subseteq Exports /\ MaxBuildersLost \in Nat
      /\ BuilderKnows(builder[b])
  BY DEF ExportsInv, ExportsTypeOK, BuildersKnow
<1>2. NoBuild \in Build /\ NoBuild.id = 0 /\ BuilderKnows(NoBuild)' /\ \A e \in Exports : NoBuild.id # e
  BY DEF NoBuild, Build, BuilderKnows, Exports
<1>3. CASE ClaimExport(b)
  <2>1. PICK e \in Exports :
          /\ ClaimableExport(e)
          /\ export' = [export EXCEPT ![e] = [@ EXCEPT !.status = "running", !.stale = FALSE,
                                                      !.attempts = export[e].attempts + 1]]
          /\ builder' = [builder EXCEPT ![b] =
                           [NoBuild EXCEPT !.pc = "build", !.id = e, !.attempts = export[e].attempts + 1]]
    BY <1>3 DEF ClaimExport
  <2> DEFINE exportRow == [export[e] EXCEPT !.status = "running", !.stale = FALSE, !.attempts = @ + 1]
  <2>0. PICK q : q = [NoBuild EXCEPT !.pc = "build", !.id = e, !.attempts = export[e].attempts + 1]
    OBVIOUS
  <2>2. export' = [export EXCEPT ![e] = exportRow] /\ builder' = [builder EXCEPT ![b] = q]
    <3>1. export' = [export EXCEPT ![e] = exportRow]
      BY <1>1, <2>1
    <3> HIDE DEF exportRow
    <3> QED
      BY <2>0, <2>1, <3>1
  <2>3. /\ exportRow \in ExportRow /\ exportRow.expired = export[e].expired /\ exportRow.key = export[e].key /\ exportRow.status = "running"
        /\ q \in Build /\ q.id = e /\ q.pc = "build" /\ q.todo = {}
    <3>1. export[e] \in ExportRow /\ export[e].attempts + 1 \in Nat /\ e \in 0..MaxExports
      BY <1>1 DEF ExportRow, Exports
    <3>2. q \in Build /\ q.id = e /\ q.pc = "build" /\ q.todo = {}
      <4> HIDE DEF exportRow
      <4> QED
        BY <2>0, <3>1 DEF NoBuild, Build
    <3> QED
      BY <3>1, <3>2 DEF ExportRow
  <2>4. ~export[e].expired
    BY <2>1 DEF ClaimableExport, ExportOpen, ExportsInv, ExpiredIsSettled
  <2>5. UNCHANGED <<archives, buildersLost>>
    BY <1>3 DEF ClaimExport
  <2> HIDE DEF exportRow
  <2>6. BuilderKnows(q)'
    BY <2>3 DEF BuilderKnows
  <2> QED
    BY <1>1, <2>2, <2>3, <2>4, <2>5, <2>6, BuilderMoves
<1>4. CASE BuildArchive(b) \/ PutExport(b)
  <2>1. PICK pc \in {"put", "complete"} : builder' = [builder EXCEPT ![b].pc = pc] /\ (pc = "complete" => PutExport(b))
    BY <1>4 DEF BuildArchive, PutExport, BuildGoto
  <2>0. PICK q : q = [builder[b] EXCEPT !.pc = pc]
    OBVIOUS
  <2>2. builder' = [builder EXCEPT ![b] = q] /\ q \in Build /\ q.pc = pc /\ q.id = builder[b].id /\ q.todo = builder[b].todo
    BY <1>1, <2>0, <2>1 DEF Build
  <2>3. builder[b].id \in Exports /\ UNCHANGED <<export, buildersLost>>
    BY <1>1, <1>4 DEF BuildArchive, PutExport, BuilderKnows
  <2>4. archives \subseteq archives' /\ archives' \subseteq Exports /\ (pc = "complete" => builder[b].id \in archives')
    BY <1>1, <1>4, <2>1, <2>3 DEF BuildArchive, PutExport, Stored
  <2>5. BuilderKnows(q)'
    BY <1>1, <2>2, <2>3, <2>4 DEF BuilderKnows
  <2> QED
    BY <1>1, <2>2, <2>3, <2>4, <2>5, BuilderMovesAlone
<1>5. CASE CompleteBuild(b)
  <2> DEFINE e == builder[b].id
             exportRow == [export[e] EXCEPT !.status = "completed", !.key = TRUE, !.expired = FALSE]
  <2>1. e \in Exports /\ e \in archives /\ ~export[e].expired
    BY <1>1, <1>5 DEF CompleteBuild, BuilderKnows, ExportsInv, ExpiredIsSettled, ExportRow
  <2>2. /\ export' = [export EXCEPT ![e] = exportRow] /\ exportRow \in ExportRow /\ exportRow.expired = export[e].expired
        /\ exportRow.status = "completed" /\ ~exportRow.expired
    <3>1. export[e] \in ExportRow /\ export[e].expired = FALSE
      BY <1>1, <2>1 DEF ExportRow
    <3>2. exportRow \in ExportRow /\ exportRow.expired = FALSE /\ exportRow.status = "completed"
      BY <3>1 DEF ExportRow
    <3>3. export' = [export EXCEPT ![e] = exportRow]
      BY <1>1, <1>5 DEF CompleteBuild
    <3> HIDE DEF exportRow
    <3> QED
      BY <3>1, <3>2, <3>3
  <2>3. builder' = [builder EXCEPT ![b] = NoBuild] /\ UNCHANGED <<archives, buildersLost>>
    BY <1>5 DEF CompleteBuild
  <2> HIDE DEF exportRow, e
  <2> QED
    BY <1>1, <1>2, <2>1, <2>2, <2>3, BuilderMoves
<1>6. CASE BuildFails(b)
  <2>0. PICK q : q = IF builder[b].id = 0 THEN NoBuild ELSE [builder[b] EXCEPT !.pc = "fail"]
    OBVIOUS
  <2>1. builder' = [builder EXCEPT ![b] = q] /\ UNCHANGED <<export, archives, buildersLost>>
    BY <1>1, <1>6, <2>0 DEF BuildFails
  <2>2. q \in Build /\ q.id = builder[b].id /\ q.pc \in {"idle", "fail"} /\ q.todo \in {{}, builder[b].todo}
        /\ (q.pc = "fail" => q.id \in Exports)
    BY <1>1, <2>0 DEF NoBuild, Build, Exports
  <2>3. BuilderKnows(q)'
    BY <1>1, <2>1, <2>2 DEF BuilderKnows
  <2> QED
    BY <1>1, <2>1, <2>2, <2>3, BuilderMovesAlone
<1>7. CASE FailExport(b)
  <2> DEFINE e == builder[b].id
             exportRow == [export[e] EXCEPT !.status = IF builder[b].attempts >= MaxBuilds THEN "failed" ELSE "pending"]
  <2>1. builder' = [builder EXCEPT ![b] = NoBuild] /\ UNCHANGED <<archives, buildersLost>>
    BY <1>7 DEF FailExport
  <2>2. e \in Exports /\ ~export[e].expired
    BY <1>1, <1>7 DEF FailExport, BuilderKnows, ExportsInv, ExpiredIsSettled
  <2>3. CASE export' = export
    BY <1>1, <1>2, <2>1, <2>3, BuilderMovesAlone
  <2>4. CASE export' = [export EXCEPT ![e] = exportRow]
    <3>1. /\ exportRow \in ExportRow /\ exportRow.expired = export[e].expired /\ exportRow.key = export[e].key
          /\ exportRow.status \in {"failed", "pending"}
      BY <1>1, <2>2 DEF ExportRow
    <3> HIDE DEF exportRow, e
    <3> QED
      BY <1>1, <1>2, <2>1, <2>2, <2>4, <3>1, BuilderMoves
  <2>5. export' = export \/ export' = [export EXCEPT ![e] = exportRow]
    BY <1>1, <1>7, <2>2 DEF FailExport
  <2> QED
    BY <2>3, <2>4, <2>5
<1>8. CASE BuilderDies(b)
  <2>1. builder' = [builder EXCEPT ![b] = NoBuild] /\ UNCHANGED <<export, archives>> /\ buildersLost' \in 0..MaxBuildersLost
    BY <1>1, <1>8 DEF BuilderDies
  <2> QED
    BY <1>1, <1>2, <2>1, BuilderMovesAlone
<1> QED
  BY <1>3, <1>4, <1>5, <1>6, <1>7, <1>8

(* The purge deletes archives of expired exports only.                     *)
LEMMA PurgeKeepsInv ==
  ASSUME ExportsInv, NEW b \in Builders, PurgeExports(b) \/ DeleteExport(b) \/ ClearExport(b)
  PROVE  ExportsInv'
<1> USE ExportsAssumption
<1>1. /\ export \in [Exports -> ExportRow] /\ builder \in [Builders -> Build] /\ builder[b] \in Build
      /\ buildersLost \in 0..MaxBuildersLost /\ archives \subseteq Exports
      /\ BuilderKnows(builder[b]) /\ ExportsTypeOK
  BY DEF ExportsInv, ExportsTypeOK, BuildersKnow
<1>2. CASE PurgeExports(b)
  <2>0. PICK q : q = [NoBuild EXCEPT !.pc = "delete", !.todo = ExpiredExports]
    OBVIOUS
  <2>1. builder' = [builder EXCEPT ![b] = q] /\ UNCHANGED <<export, archives, buildersLost>>
    BY <1>2, <2>0 DEF PurgeExports
  <2>2. q \in Build /\ q.id = 0 /\ q.pc = "delete" /\ q.todo = ExpiredExports
    <3>1. PICK todo \in SUBSET Exports : todo = ExpiredExports
      BY DEF ExpiredExports
    <3>2. q = [NoBuild EXCEPT !.pc = "delete", !.todo = todo]
      BY <2>0, <3>1
    <3>3. q = [pc |-> "delete", id |-> 0, attempts |-> 0, todo |-> todo]
      BY <3>2 DEF NoBuild
    <3>4. 0 \in 0..MaxExports /\ 0 \in Nat
      OBVIOUS
    <3> QED
      BY <3>1, <3>3, <3>4 DEF Build
  <2>3. BuilderKnows(q)'
    BY <2>1, <2>2 DEF BuilderKnows, ExpiredExports
  <2> QED
    BY <1>1, <2>1, <2>2, <2>3, BuilderMovesAlone
<1>3. CASE DeleteExport(b)
  <2>1. PICK e \in builder[b].todo : archives' = archives \ {e}
    BY <1>3 DEF DeleteExport
  <2>2. e \in Exports /\ export[e].expired
    BY <1>1, <2>1 DEF Build, BuilderKnows
  <2>3. builder' = [builder EXCEPT ![b].pc = "clear"] /\ UNCHANGED <<export, buildersLost>>
    BY <1>3 DEF DeleteExport, BuildGoto
  <2>4. /\ \A c \in Builders : builder'[c].id = builder[c].id /\ builder'[c].todo = builder[c].todo
        /\ builder'[b].pc = "clear" /\ \A c \in Builders \ {b} : builder'[c] = builder[c]
        /\ builder' \in [Builders -> Build]
    BY <1>1, <2>3 DEF Build
  <2>5. ExportsTypeOK'
    BY <1>1, <2>1, <2>3, <2>4 DEF ExportsTypeOK
  <2>6. ExpiredIsSettled' /\ KeyedAreStored'
    BY <2>1, <2>2, <2>3, <2>4 DEF ExportsInv, ExpiredIsSettled, KeyedAreStored
  <2>7. BuildersKnow'
    <3> SUFFICES ASSUME NEW c \in Builders PROVE BuilderKnows(builder[c])'
      BY DEF BuildersKnow
    <3>1. BuilderKnows(builder[c]) /\ builder[c].id # e
      BY <2>2 DEF ExportsInv, BuildersKnow, ExpiredIsSettled
    <3> QED
      BY <2>1, <2>3, <2>4, <3>1 DEF BuilderKnows
  <2> QED
    BY <2>5, <2>6, <2>7 DEF ExportsInv
<1>4. CASE ClearExport(b)
  <2>1. PICK e \in builder[b].todo :
          /\ export' = [export EXCEPT ![e].key = FALSE]
          /\ builder' = [builder EXCEPT ![b] = IF @.todo = {e} THEN NoBuild
                                               ELSE [@ EXCEPT !.pc = "delete", !.todo = builder[b].todo \ {e}]]
    BY <1>4 DEF ClearExport
  <2>2. e \in Exports /\ \A f \in builder[b].todo : export[f].expired
    BY <1>1, <2>1 DEF Build, BuilderKnows
  <2>0. PICK q : q = IF builder[b].todo = {e} THEN NoBuild ELSE [builder[b] EXCEPT !.pc = "delete", !.todo = @ \ {e}]
    OBVIOUS
  <2> DEFINE exportRow == [export[e] EXCEPT !.key = FALSE]
  <2>3. builder' = [builder EXCEPT ![b] = q] /\ export' = [export EXCEPT ![e] = exportRow]
        /\ UNCHANGED <<archives, buildersLost>>
    BY <1>1, <1>4, <2>0, <2>1, <2>2 DEF ClearExport
  <2>4. /\ q \in Build /\ q.id \in {0, builder[b].id} /\ q.pc \in {"idle", "delete"} /\ q.todo \subseteq builder[b].todo
        /\ exportRow \in ExportRow /\ ~exportRow.key /\ exportRow.expired = export[e].expired /\ exportRow.status = export[e].status
    <3>1. export[e] \in ExportRow /\ exportRow \in ExportRow /\ exportRow.key = FALSE /\ exportRow.expired = export[e].expired
          /\ exportRow.status = export[e].status
      BY <1>1, <2>2 DEF ExportRow
    <3> HIDE DEF exportRow
    <3>2. q \in Build /\ q.id \in {0, builder[b].id} /\ q.pc \in {"idle", "delete"} /\ q.todo \subseteq builder[b].todo
      <4>1. PICK todo \in SUBSET Exports : todo = builder[b].todo \ {e}
        BY <1>1 DEF Build
      <4>2. builder[b].todo = {e} => q \in Build /\ q.id = 0 /\ q.pc = "idle" /\ q.todo = {}
        BY <2>0 DEF NoBuild, Build
      <4>3. builder[b].todo # {e} => q = [builder[b] EXCEPT !.pc = "delete", !.todo = todo]
        BY <2>0, <4>1
      <4>4. q = [builder[b] EXCEPT !.pc = "delete", !.todo = todo]
              => q \in Build /\ q.id = builder[b].id /\ q.pc = "delete" /\ q.todo = todo
        BY <1>1, <4>1 DEF Build
      <4> QED
        BY <4>1, <4>2, <4>3, <4>4
    <3> QED
      BY <3>1, <3>2
  <2> HIDE DEF exportRow
  <2>5. \A f \in Exports : export'[f].expired = export[f].expired
    BY <1>1, <2>2, <2>3, <2>4
  <2>6. BuilderKnows(q)'
    <3>1. q.todo \subseteq Exports
      BY <2>4 DEF Build
    <3> QED
      BY <2>2, <2>4, <2>5, <3>1 DEF BuilderKnows
  <2>7. \A f \in Exports : q.id = f => q.id = builder[b].id \/ ~export[f].expired
    BY <2>4 DEF Exports
  <2>8. (exportRow.key => exportRow.status # "none") /\ (exportRow.key /\ ~exportRow.expired => export[e].key \/ e \in archives)
    BY <2>4
  <2>9. archives' = archives /\ buildersLost' = buildersLost
    BY <2>3
  <2> QED
    BY <1>1, <2>2, <2>3, <2>4, <2>6, <2>7, <2>8, <2>9, BuilderMoves
<1> QED
  BY <1>2, <1>3, <1>4

(* Requests, retention and the stale claim, which leave the builders alone.*)
LEMMA ExportRowKeepsInv ==
  ASSUME ExportsInv, RequestExport \/ \E e \in Exports : ExportExpires(e) \/ ExportStale(e)
  PROVE  ExportsInv'
<1> USE ExportsAssumption
<1>1. /\ export \in [Exports -> ExportRow] /\ builder \in [Builders -> Build] /\ ExportsTypeOK
      /\ buildersLost \in 0..MaxBuildersLost /\ MaxBuildersLost \in Nat
  BY DEF ExportsInv, ExportsTypeOK
<1>2. UNCHANGED <<archives, builder>> /\ buildersLost' \in 0..MaxBuildersLost
  BY <1>1 DEF RequestExport, ExportExpires, ExportStale
<1>3. CASE RequestExport \/ \E e \in Exports : ExportStale(e)
  <2>1. PICK e \in Exports :
          \/ export[e].status = "none" /\ export' = [export EXCEPT ![e].status = "pending"]
          \/ export[e].status = "running" /\ export' = [export EXCEPT ![e].stale = TRUE]
    BY <1>3 DEF RequestExport, ExportStale
  <2>2. /\ export' \in [Exports -> ExportRow] /\ ~export[e].expired
        /\ \A f \in Exports : export'[f].expired = export[f].expired /\ export'[f].key = export[f].key
        /\ \A f \in Exports \ {e} : export'[f] = export[f]
        /\ export'[e].status # "none"
    <3>1. export[e] \in ExportRow /\ ~export[e].expired
      BY <1>1, <2>1 DEF ExportsInv, ExpiredIsSettled
    <3>2. PICK exportRow \in ExportRow : /\ export' = [export EXCEPT ![e] = exportRow] /\ exportRow.status # "none"
                                   /\ exportRow.expired = export[e].expired /\ exportRow.key = export[e].key
      <4>1. CASE export' = [export EXCEPT ![e].status = "pending"]
        <5>1. PICK exportRow : exportRow = [export[e] EXCEPT !.status = "pending"]
          OBVIOUS
        <5>2. exportRow \in ExportRow /\ exportRow.status # "none" /\ exportRow.expired = export[e].expired /\ exportRow.key = export[e].key
          BY <3>1, <5>1 DEF ExportRow
        <5>3. export' = [export EXCEPT ![e] = exportRow]
          BY <1>1, <4>1, <5>1
        <5> QED
          BY <5>2, <5>3
      <4>2. CASE export' = [export EXCEPT ![e].stale = TRUE] /\ export[e].status = "running"
        <5>1. PICK exportRow : exportRow = [export[e] EXCEPT !.stale = TRUE]
          OBVIOUS
        <5>2. exportRow \in ExportRow /\ exportRow.status # "none" /\ exportRow.expired = export[e].expired /\ exportRow.key = export[e].key
          BY <3>1, <4>2, <5>1 DEF ExportRow
        <5>3. export' = [export EXCEPT ![e] = exportRow]
          BY <1>1, <4>2, <5>1
        <5> QED
          BY <5>2, <5>3
      <4> QED
        BY <2>1, <4>1, <4>2
    <3> QED
      BY <1>1, <3>1, <3>2
  <2>3. BuildersKnow'
    <3> SUFFICES ASSUME NEW c \in Builders PROVE BuilderKnows(builder[c])'
      BY DEF BuildersKnow
    <3>1. builder[c].todo \subseteq Exports /\ BuilderKnows(builder[c])
      BY <1>1 DEF Build, ExportsInv, BuildersKnow
    <3> QED
      BY <1>2, <2>2, <3>1 DEF BuilderKnows
  <2> QED
    BY <1>1, <1>2, <2>2, <2>3 DEF ExportsInv, ExportsTypeOK, ExpiredIsSettled, KeyedAreStored
<1>4. CASE \E e \in Exports : ExportExpires(e)
  <2>1. PICK e \in Exports : ExportExpires(e)
    BY <1>4
  <2>2. /\ export' = [export EXCEPT ![e].expired = TRUE] /\ export[e].key /\ ~ExportOpen(e)
        /\ \A b \in Builders : builder[b].id # e
    BY <2>1 DEF ExportExpires, BuilderOf
  <2>3. export[e].status \in {"completed", "failed"}
    BY <1>1, <2>2 DEF ExportOpen, ExportRow, ExportsInv, ExpiredIsSettled
  <2>4. /\ export' \in [Exports -> ExportRow] /\ export'[e].expired
        /\ \A f \in Exports \ {e} : export'[f] = export[f]
        /\ \A f \in Exports : export'[f].status = export[f].status /\ export'[f].key = export[f].key
    BY <1>1, <2>2 DEF ExportRow
  <2>5. BuildersKnow'
    <3> SUFFICES ASSUME NEW c \in Builders PROVE BuilderKnows(builder[c])'
      BY DEF BuildersKnow
    <3>1. builder[c].todo \subseteq Exports /\ BuilderKnows(builder[c])
      BY <1>1 DEF Build, ExportsInv, BuildersKnow
    <3> QED
      BY <1>2, <2>4, <3>1 DEF BuilderKnows
  <2> QED
    BY <1>1, <1>2, <2>2, <2>3, <2>4, <2>5 DEF ExportsInv, ExportsTypeOK, ExpiredIsSettled, KeyedAreStored
<1> QED
  BY <1>3, <1>4

(* Every step of the component keeps the invariant.                        *)
LEMMA ExportsNextInv == ExportsInv /\ [ExportsNext]_exportsVars => ExportsInv'
<1> SUFFICES ASSUME ExportsInv, [ExportsNext]_exportsVars PROVE ExportsInv'
  OBVIOUS
<1>1. CASE UNCHANGED exportsVars
  BY <1>1 DEF exportsVars, ExportsInv, ExportsTypeOK, ExpiredIsSettled, BuildersKnow, BuilderKnows, KeyedAreStored
<1> QED
  BY <1>1, BuildKeepsInv, PurgeKeepsInv, ExportRowKeepsInv DEF ExportsNext

(* A completed export that is not expired has its archive, however the     *)
(* builders overlap, fail, die and are overtaken and whenever the purge    *)
(* runs (ProcessPending, build, PurgeExpired).                             *)
THEOREM DownloadsAreThere == ExportsSpec => []ExportsInvariant
<1>1. ExportsInv => ExportsInvariant
  BY DEF ExportsInv, ExportsInvariant, DownloadsExist, KeyedAreStored
<1> QED
  BY <1>1, ExportsInitInv, ExportsNextInv, PTL DEF ExportsSpec

-----------------------------------------------------------------------------
(* Consent.  An event that is stored under a subject was stored while its  *)
(* consent stood, unless it is marked late; a row comes to be withdrawn or *)
(* erased only in the transaction that deletes what is stored.  The writer *)
(* leaves its loop only once stop is closed.                               *)

ConsentInv ==
  /\ ConsentTypeOK /\ WithdrawalForgets /\ DrainIsComplete
  /\ writer # "run" => stopped

LEMMA ConsentTypes ==
  /\ Undecided \in [Purposes -> Statuses] /\ NoSubject \in SubjectRow /\ NoEvent \in Event
  /\ Subjects \subseteq 0..MaxSubjects /\ 0 \notin Subjects
<1>1. Undecided \in [Purposes -> Statuses]
  BY DEF Undecided, Statuses
<1>2. NoSubject \in SubjectRow
  BY <1>1 DEF NoSubject, SubjectRow
<1>3. NoEvent \in Event
  BY ConsentAssumption DEF NoEvent, Event
<1>4. Subjects \subseteq 0..MaxSubjects /\ 0 \notin Subjects
  BY ConsentAssumption DEF Subjects
<1> QED
  BY <1>1, <1>2, <1>3, <1>4

LEMMA ConsentInitInv == ConsentInit => ConsentInv
<1> SUFFICES ASSUME ConsentInit PROVE ConsentInv
  OBVIOUS
<1>1. ConsentTypeOK
  <2>1. row \in [Subjects -> SubjectRow] /\ event \in [Events -> Event]
    BY ConsentTypes DEF ConsentInit
  <2>2. call \in [Calls -> Call \cup {NoCall}] /\ token \in 0..MaxSubjects /\ consentOps \in 0..MaxConsentOps
    BY ConsentAssumption DEF ConsentInit
  <2>3. stopped \in BOOLEAN /\ writer \in {"run", "drain", "done"}
    BY DEF ConsentInit
  <2> QED
    BY <2>1, <2>2, <2>3 DEF ConsentTypeOK
<1>2. \A e \in Events : event[e].at = "none"
  BY DEF ConsentInit, NoEvent
<1> QED
  BY <1>1, <1>2 DEF ConsentInv, ConsentInit, WithdrawalForgets, DrainIsComplete

(* The events of a step that takes away some of those stored.              *)
LEMMA DeletesAreFine ==
  ASSUME ConsentInv, NEW S, UNCHANGED <<stopped, writer>>,
         event' = [e \in Events |-> IF event[e].of \in S /\ event[e].at = "stored"
                                    THEN [event[e] EXCEPT !.at = "deleted"] ELSE event[e]]
  PROVE  /\ event' \in [Events -> Event] /\ DrainIsComplete'
         /\ \A e \in Events : event'[e].at = "stored" => event'[e] = event[e] /\ event[e].of \notin S
<1>1. event \in [Events -> Event]
  BY DEF ConsentInv, ConsentTypeOK
<1>2. ASSUME NEW e \in Events
      PROVE  /\ event'[e] \in Event
             /\ event'[e].at = "stored" => event'[e] = event[e] /\ event[e].of \notin S
             /\ event'[e].at \in {"queued", "batch"} => event'[e] = event[e]
  <2>1. PICK v : v = event[e]
    OBVIOUS
  <2>2. v \in Event
    BY <1>1, <2>1
  <2>3. CASE v.of \in S /\ v.at = "stored"
    <3>1. event'[e] = [v EXCEPT !.at = "deleted"]
      BY <2>1, <2>3
    <3> QED
      BY <2>2, <3>1 DEF Event
  <2>4. CASE ~(v.of \in S /\ v.at = "stored")
    <3>1. event'[e] = v
      BY <2>1, <2>4
    <3> QED
      BY <2>1, <2>2, <2>4, <3>1
  <2> QED
    BY <2>3, <2>4
<1>3. event' \in [Events -> Event]
  <2>1. event' = [e \in Events |-> event'[e]]
    OBVIOUS
  <2> QED
    BY <1>2, <2>1
<1>4. DrainIsComplete'
  BY <1>2 DEF ConsentInv, DrainIsComplete
<1> QED
  BY <1>2, <1>3, <1>4

(* A transaction on the row of s, which deletes its events if it withdraws *)
(* analytics.                                                              *)
LEMMA RowStepInv ==
  ASSUME ConsentInv, NEW s \in Subjects, NEW w \in SubjectRow, row' = [row EXCEPT ![s] = w], w.state # "erased",
         \/ event' = event /\ (w.consent["analytics"] = "withdrawn" => row[s].consent["analytics"] = "withdrawn")
         \/ event' = Saved(s, "withdrawn"),
         token' \in 0..MaxSubjects, call' \in [Calls -> Call \cup {NoCall}], UNCHANGED <<consentOps, stopped, writer>>
  PROVE  ConsentInv'
<1>1. row \in [Subjects -> SubjectRow] /\ event \in [Events -> Event]
  BY DEF ConsentInv, ConsentTypeOK
<1>2. row' \in [Subjects -> SubjectRow] /\ row'[s] = w /\ \A t \in Subjects : t # s => row'[t] = row[t]
  BY <1>1
<1>3. /\ event' \in [Events -> Event] /\ DrainIsComplete'
      /\ \A e \in Events : event'[e].at = "stored" =>
           /\ event'[e] = event[e]
           /\ event[e].of = s => (w.consent["analytics"] = "withdrawn" => row[s].consent["analytics"] = "withdrawn")
  <2>1. CASE event' = event /\ (w.consent["analytics"] = "withdrawn" => row[s].consent["analytics"] = "withdrawn")
    BY <1>1, <2>1 DEF ConsentInv, DrainIsComplete
  <2>2. CASE event' = Saved(s, "withdrawn")
    <3>1. PICK S : S = {s}
      OBVIOUS
    <3>2. event' = [e \in Events |-> IF event[e].of \in S /\ event[e].at = "stored"
                                     THEN [event[e] EXCEPT !.at = "deleted"] ELSE event[e]]
      BY <2>2, <3>1 DEF Saved
    <3>3. /\ event' \in [Events -> Event] /\ DrainIsComplete'
          /\ \A e \in Events : event'[e].at = "stored" => event'[e] = event[e] /\ event[e].of \notin S
      BY <3>2, DeletesAreFine
    <3> QED
      BY <3>1, <3>3
  <2> QED
    BY <2>1, <2>2
<1>4. WithdrawalForgets'
  <2> SUFFICES ASSUME NEW e \in Events, event'[e].at = "stored", event'[e].of # 0,
                      row'[event'[e].of].state = "erased" \/ row'[event'[e].of].consent["analytics"] = "withdrawn"
               PROVE  event'[e].late
    BY DEF WithdrawalForgets, Forgotten
  <2>1. event'[e] = event[e]
    BY <1>3
  <2>2. event[e].of \in Subjects
    BY <1>1, <2>1, ConsentAssumption DEF Event, Subjects
  <2>3. row[event[e].of].state = "erased" \/ row[event[e].of].consent["analytics"] = "withdrawn"
    BY <1>2, <1>3, <2>1, <2>2
  <2> QED
    BY <2>1, <2>3 DEF ConsentInv, WithdrawalForgets, Forgotten
<1>5. ConsentTypeOK'
  BY <1>2, <1>3 DEF ConsentInv, ConsentTypeOK
<1> QED
  BY <1>3, <1>4, <1>5 DEF ConsentInv

(* A call that only begins or ends.                                        *)
LEMMA CallOnlyInv ==
  ASSUME ConsentInv, NEW c \in Calls, NEW d \in Call \cup {NoCall}, Calling(c, d), consentOps' \in 0..MaxConsentOps,
         UNCHANGED <<row, token, event, stopped, writer>>
  PROVE  ConsentInv'
<1>1. call' \in [Calls -> Call \cup {NoCall}]
  BY DEF ConsentInv, ConsentTypeOK, Calling
<1>2. ConsentTypeOK'
  BY <1>1 DEF ConsentInv, ConsentTypeOK
<1>3. WithdrawalForgets' /\ DrainIsComplete'
  BY DEF ConsentInv, WithdrawalForgets, DrainIsComplete, Forgotten
<1> QED
  BY <1>2, <1>3 DEF ConsentInv

LEMMA SubjectByTokenFits ==
  ASSUME ConsentInv
  PROVE  SubjectByToken \in 0..MaxSubjects /\ Standing(SubjectByToken) \in [Purposes -> Statuses]
<1>1. token \in 0..MaxSubjects /\ row \in [Subjects -> SubjectRow]
  BY DEF ConsentInv, ConsentTypeOK
<1>2. SubjectByToken \in 0..MaxSubjects
  BY <1>1, ConsentAssumption DEF SubjectByToken
<1>3. SubjectByToken # 0 => row[SubjectByToken] \in SubjectRow
  BY <1>1, <1>2, ConsentAssumption DEF Subjects
<1> QED
  BY <1>2, <1>3, ConsentTypes DEF Standing, SubjectRow

LEMMA ConsentBeginsInv ==
  ASSUME ConsentInv, NEW c \in Calls, BeginStore(c) \/ BeginWithdraw(c) \/ CallFails(c)
  PROVE  ConsentInv'
<1>1. UNCHANGED <<row, token, event, stopped, writer>>
  BY DEF BeginStore, BeginWithdraw, CallFails
<1>2. CASE BeginStore(c)
  <2>1. PICK choice \in ConsentChoices, user \in BOOLEAN :
          Calling(c, [op |-> "store", of |-> SubjectByToken, choice |-> choice, user |-> user,
                      read |-> Standing(SubjectByToken)])
    BY <1>2 DEF BeginStore
  <2>2. PICK d : d = [op |-> "store", of |-> SubjectByToken, choice |-> choice, user |-> user,
                      read |-> Standing(SubjectByToken)]
    OBVIOUS
  <2>3. d \in Call
    BY <2>2, SubjectByTokenFits DEF Call
  <2>4. consentOps' \in 0..MaxConsentOps
    BY <1>2, ConsentAssumption DEF BeginStore, ConsentInv, ConsentTypeOK
  <2> QED
    BY <1>1, <2>1, <2>2, <2>3, <2>4, CallOnlyInv
<1>3. CASE BeginWithdraw(c)
  <2>1. PICK p \in Purposes :
          Calling(c, [op |-> "withdraw", of |-> token, purpose |-> p, read |-> row[token].linked])
    BY <1>3 DEF BeginWithdraw
  <2>2. PICK d : d = [op |-> "withdraw", of |-> token, purpose |-> p, read |-> row[token].linked]
    OBVIOUS
  <2>3. token \in Subjects /\ row \in [Subjects -> SubjectRow]
    BY <1>3, ConsentAssumption DEF BeginWithdraw, SubjectByToken, Subjects, ConsentInv, ConsentTypeOK
  <2>4. PICK h \in BOOLEAN : h = row[token].linked
    BY <2>3 DEF SubjectRow
  <2>5. d \in Call
    BY <2>2, <2>3, <2>4 DEF Call, Subjects
  <2>6. consentOps' \in 0..MaxConsentOps
    BY <1>3, ConsentAssumption DEF BeginWithdraw, ConsentInv, ConsentTypeOK
  <2> QED
    BY <1>1, <2>1, <2>2, <2>5, <2>6, CallOnlyInv
<1>4. CASE CallFails(c)
  <2>1. PICK d \in Call \cup {NoCall} : d = NoCall
    OBVIOUS
  <2>2. consentOps' \in 0..MaxConsentOps
    BY <1>4 DEF CallFails, ConsentInv, ConsentTypeOK
  <2>3. Calling(c, d)
    BY <1>4, <2>1 DEF CallFails
  <2> QED
    BY <1>1, <2>2, <2>3, CallOnlyInv
<1> QED
  BY <1>2, <1>3, <1>4

LEMMA DecideFits ==
  ASSUME NEW status \in Statuses, NEW granted \in BOOLEAN
  PROVE  Decide(status, granted) \in Statuses
BY DEF Decide, Statuses

LEMMA ChoiceFits ==
  ASSUME NEW choice \in ConsentChoices
  PROVE  DOMAIN choice \subseteq Purposes /\ \A p \in DOMAIN choice : choice[p] \in BOOLEAN
<1>1. PICK P \in SUBSET Purposes : choice \in [P -> BOOLEAN]
  BY DEF ConsentChoices
<1> QED
  BY <1>1

LEMMA CommitStoreInv ==
  ASSUME ConsentInv, NEW c \in Calls, CommitStore(c)
  PROVE  ConsentInv'
<1>1. UNCHANGED <<consentOps, stopped, writer>> /\ Calling(c, NoCall)
  BY DEF CommitStore
<1>2. PICK in : in = call[c]
  OBVIOUS
<1>3. in.op = "store"
  BY <1>2 DEF CommitStore
<1>4. in \in [op : {"store"}, of : 0..MaxSubjects, choice : ConsentChoices, user : BOOLEAN, read : [Purposes -> Statuses]]
  BY <1>2, <1>3 DEF ConsentInv, ConsentTypeOK, Call, NoCall
<1> DEFINE after == [p \in Purposes |-> IF p \in DOMAIN call[c].choice THEN Decide(call[c].read[p], call[c].choice[p])
                                        ELSE call[c].read[p]]
           saved == {p \in DOMAIN call[c].choice : call[c].read[p] # after[p]}
           kept(s) == [p \in Purposes |-> IF p \in saved THEN after[p] ELSE row[s].consent[p]]
           link(s) == IF "authenticated_analytics" \in DOMAIN call[c].choice
                      THEN call[c].choice["authenticated_analytics"] ELSE row[s].linked
<1>5. \/ UNCHANGED <<row, token, event>>
      \/ \E s \in Subjects \cup {call[c].of} :
           /\ s = call[c].of => call[c].of # 0
           /\ row' = [row EXCEPT ![s] = [state |-> "live", consent |-> kept(s), linked |-> link(s)]]
           /\ token' = s
           /\ event' = IF "analytics" \in saved THEN Saved(s, after["analytics"]) ELSE event
  BY ConsentTypes DEF CommitStore
<1>7. after \in [Purposes -> Statuses]
  <2>1. ASSUME NEW p \in Purposes PROVE after[p] \in Statuses
    <3>1. in.read[p] \in Statuses /\ (p \in DOMAIN in.choice => in.choice[p] \in BOOLEAN)
      BY <1>4, ChoiceFits
    <3> QED
      BY <1>2, <3>1, DecideFits
  <2> QED
    BY <2>1
<1>8. row \in [Subjects -> SubjectRow] /\ token \in 0..MaxSubjects /\ call \in [Calls -> Call \cup {NoCall}]
  BY DEF ConsentInv, ConsentTypeOK
<1>9. call' \in [Calls -> Call \cup {NoCall}]
  BY <1>1, <1>8 DEF Calling
<1>10. ASSUME NEW s \in Subjects,
              row' = [row EXCEPT ![s] = [state |-> "live", consent |-> kept(s), linked |-> link(s)]],
              token' = s,
              event' = IF "analytics" \in saved THEN Saved(s, after["analytics"]) ELSE event
       PROVE  ConsentInv'
  <2>1. PICK k : k = kept(s)
    OBVIOUS
  <2>2. row[s] \in SubjectRow
    BY <1>8
  <2>3. k \in [Purposes -> Statuses]
    BY <1>7, <2>1, <2>2 DEF SubjectRow
  <2>4. PICK h \in BOOLEAN : h = link(s)
    BY <1>2, <1>4, <2>2, ChoiceFits DEF SubjectRow
  <2>5. PICK w : w = [state |-> "live", consent |-> k, linked |-> h]
    OBVIOUS
  <2>6. w \in SubjectRow /\ w.state = "live" /\ w.consent = k
    BY <2>3, <2>4, <2>5 DEF SubjectRow
  <2>7. row' = [row EXCEPT ![s] = w]
    BY <1>10, <2>1, <2>4, <2>5
  <2>8. k["analytics"] = IF "analytics" \in saved THEN after["analytics"] ELSE row[s].consent["analytics"]
    BY <2>1 DEF Purposes
  <2>9. \/ event' = event /\ (w.consent["analytics"] = "withdrawn" => row[s].consent["analytics"] = "withdrawn")
        \/ event' = Saved(s, "withdrawn")
    <3>1. CASE "analytics" \notin saved
      BY <1>10, <2>6, <2>8, <3>1
    <3>2. CASE "analytics" \in saved /\ after["analytics"] = "withdrawn"
      BY <1>10, <3>2
    <3>3. CASE "analytics" \in saved /\ after["analytics"] # "withdrawn"
      BY <1>10, <2>6, <2>8, <3>3 DEF Saved
    <3> QED
      BY <3>1, <3>2, <3>3
  <2>10. token' \in 0..MaxSubjects
    BY <1>10, ConsentTypes
  <2> QED
    BY <1>1, <1>9, <2>6, <2>7, <2>9, <2>10, RowStepInv
<1>11. CASE UNCHANGED <<row, token, event>>
  <2>1. PICK d \in Call \cup {NoCall} : d = NoCall
    OBVIOUS
  <2>2. Calling(c, d) /\ consentOps' \in 0..MaxConsentOps
    BY <1>1, <2>1 DEF ConsentInv, ConsentTypeOK
  <2> QED
    BY <1>1, <1>11, <2>2, CallOnlyInv
<1>12. in.of # 0 => in.of \in Subjects
  BY <1>4, ConsentAssumption DEF Subjects
<1> QED
  BY <1>2, <1>5, <1>10, <1>11, <1>12

LEMMA CommitWithdrawInv ==
  ASSUME ConsentInv, NEW c \in Calls, CommitWithdraw(c)
  PROVE  ConsentInv'
<1>1. UNCHANGED <<token, consentOps, stopped, writer>> /\ Calling(c, NoCall)
  BY DEF CommitWithdraw
<1>2. PICK in : in = call[c]
  OBVIOUS
<1>3. in.op = "withdraw"
  BY <1>2 DEF CommitWithdraw
<1>4. in \in [op : {"withdraw"}, of : 1..MaxSubjects, purpose : Purposes, read : BOOLEAN]
  BY <1>2, <1>3 DEF ConsentInv, ConsentTypeOK, Call, NoCall
<1>5. PICK s \in Subjects : s = call[c].of
  BY <1>2, <1>4 DEF Subjects
<1> DEFINE withdrawn == {p \in (IF call[c].purpose = "analytics" THEN Purposes ELSE {call[c].purpose}) :
                           row[call[c].of].consent[p] = "granted"}
<1>6. \/ UNCHANGED <<row, event>>
      \/ /\ row[call[c].of].state = "live"
         /\ row' = [row EXCEPT ![call[c].of] = [row[call[c].of] EXCEPT
                       !.consent = [p \in Purposes |-> IF p \in withdrawn THEN "withdrawn" ELSE @[p]],
                       !.linked = @ /\ ~call[c].read]]
         /\ event' = IF "analytics" \in withdrawn THEN Saved(call[c].of, "withdrawn") ELSE event
  BY DEF CommitWithdraw
<1>7. row \in [Subjects -> SubjectRow] /\ token \in 0..MaxSubjects /\ call \in [Calls -> Call \cup {NoCall}]
  BY DEF ConsentInv, ConsentTypeOK
<1>8. call' \in [Calls -> Call \cup {NoCall}]
  BY <1>1, <1>7 DEF Calling
<1>9. CASE UNCHANGED <<row, event>>
  <2>1. PICK d \in Call \cup {NoCall} : d = NoCall
    OBVIOUS
  <2>2. Calling(c, d) /\ consentOps' \in 0..MaxConsentOps
    BY <1>1, <2>1 DEF ConsentInv, ConsentTypeOK
  <2> QED
    BY <1>1, <1>9, <2>2, CallOnlyInv
<1>10. ASSUME row[s].state = "live",
              row' = [row EXCEPT ![s] = [row[s] EXCEPT
                        !.consent = [p \in Purposes |-> IF p \in withdrawn THEN "withdrawn" ELSE @[p]],
                        !.linked = @ /\ ~call[c].read]],
              event' = IF "analytics" \in withdrawn THEN Saved(s, "withdrawn") ELSE event
       PROVE  ConsentInv'
  <2>1. PICK k : k = [p \in Purposes |-> IF p \in withdrawn THEN "withdrawn" ELSE row[s].consent[p]]
    OBVIOUS
  <2>2. PICK b : b = row[s]
    OBVIOUS
  <2>3. b \in SubjectRow
    BY <1>7, <2>2
  <2>4. k \in [Purposes -> Statuses]
    BY <2>1, <2>2, <2>3 DEF SubjectRow, Statuses
  <2>5. PICK h \in BOOLEAN : h = (row[s].linked /\ ~call[c].read)
    OBVIOUS
  <2>6. PICK w : w = [b EXCEPT !.consent = k, !.linked = h]
    OBVIOUS
  <2>7. w \in SubjectRow /\ w.state = b.state /\ w.consent = k
    BY <2>3, <2>4, <2>5, <2>6 DEF SubjectRow
  <2>8. row' = [row EXCEPT ![s] = w]
    BY <1>10, <2>1, <2>2, <2>5, <2>6
  <2>9. k["analytics"] = IF "analytics" \in withdrawn THEN "withdrawn" ELSE row[s].consent["analytics"]
    BY <2>1 DEF Purposes
  <2>10. \/ event' = event /\ (w.consent["analytics"] = "withdrawn" => row[s].consent["analytics"] = "withdrawn")
         \/ event' = Saved(s, "withdrawn")
    BY <1>10, <2>7, <2>9
  <2>11. w.state # "erased"
    BY <1>10, <2>2, <2>7
  <2> QED
    BY <1>1, <1>7, <1>8, <2>7, <2>8, <2>10, <2>11, RowStepInv
<1> QED
  BY <1>5, <1>6, <1>9, <1>10

LEMMA EraseLinkedInv ==
  ASSUME ConsentInv, EraseLinked
  PROVE  ConsentInv'
<1>1. PICK gone : gone = {s \in Subjects : row[s].linked}
  OBVIOUS
<1>2. /\ row' = [s \in Subjects |-> IF s \in gone THEN [NoSubject EXCEPT !.state = "erased"] ELSE row[s]]
      /\ event' = [e \in Events |-> IF event[e].of \in gone /\ event[e].at = "stored"
                                    THEN [event[e] EXCEPT !.at = "deleted"] ELSE event[e]]
      /\ UNCHANGED <<token, call, consentOps, stopped, writer>>
  BY <1>1 DEF EraseLinked
<1>3. PICK w : w = [NoSubject EXCEPT !.state = "erased"]
  OBVIOUS
<1>4. w \in SubjectRow
  BY <1>3, ConsentTypes DEF SubjectRow
<1>5. row \in [Subjects -> SubjectRow] /\ event \in [Events -> Event]
  BY DEF ConsentInv, ConsentTypeOK
<1>6. row' \in [Subjects -> SubjectRow] /\ \A s \in Subjects : s \notin gone => row'[s] = row[s]
  BY <1>2, <1>3, <1>4, <1>5
<1>7. /\ event' \in [Events -> Event] /\ DrainIsComplete'
      /\ \A e \in Events : event'[e].at = "stored" => event'[e] = event[e] /\ event[e].of \notin gone
  BY <1>2, DeletesAreFine
<1>8. WithdrawalForgets'
  <2> SUFFICES ASSUME NEW e \in Events, event'[e].at = "stored", event'[e].of # 0,
                      row'[event'[e].of].state = "erased" \/ row'[event'[e].of].consent["analytics"] = "withdrawn"
               PROVE  event'[e].late
    BY DEF WithdrawalForgets, Forgotten
  <2>1. event'[e] = event[e] /\ event[e].of \notin gone
    BY <1>7
  <2>2. event[e].of \in Subjects
    BY <1>5, <2>1, ConsentAssumption DEF Event, Subjects
  <2>3. row'[event[e].of] = row[event[e].of]
    BY <1>6, <2>1, <2>2
  <2> QED
    BY <2>1, <2>3 DEF ConsentInv, WithdrawalForgets, Forgotten
<1>9. ConsentTypeOK'
  BY <1>2, <1>6, <1>7 DEF ConsentInv, ConsentTypeOK
<1> QED
  BY <1>2, <1>7, <1>8, <1>9 DEF ConsentInv

(* One event moves on, and is not stored by that.                          *)
LEMMA EventMovesInv ==
  ASSUME ConsentInv, NEW e \in Events, NEW d \in Event, Move(e, d), UNCHANGED <<traffic, stopped, writer>>,
         d.at # "stored", d.at \in {"queued", "batch"} /\ writer = "done" => d.afterStop
  PROVE  ConsentInv'
<1>1. event \in [Events -> Event] /\ event' = [event EXCEPT ![e] = d] /\ UNCHANGED <<row, token, call, consentOps>>
  BY DEF ConsentInv, ConsentTypeOK, Move, traffic
<1>2. event'[e] = d /\ event' \in [Events -> Event] /\ \A x \in Events : x # e => event'[x] = event[x]
  BY <1>1
<1>3. ConsentTypeOK'
  BY <1>1, <1>2 DEF ConsentInv, ConsentTypeOK
<1>4. WithdrawalForgets'
  BY <1>1, <1>2 DEF ConsentInv, WithdrawalForgets, Forgotten
<1>5. DrainIsComplete'
  BY <1>2 DEF ConsentInv, DrainIsComplete
<1> QED
  BY <1>3, <1>4, <1>5 DEF ConsentInv

LEMMA EventsInv ==
  ASSUME ConsentInv, NEW e \in Events, IngestEvent(e) \/ CheckStop(e) \/ SendEvent(e) \/ TakeEvent(e)
  PROVE  ConsentInv'
<1>1. PICK v : v = event[e]
  OBVIOUS
<1>2. v \in Event /\ token \in 0..MaxSubjects /\ stopped \in BOOLEAN
  BY <1>1 DEF ConsentInv, ConsentTypeOK
<1>3. UNCHANGED <<traffic, stopped, writer>>
  BY DEF IngestEvent, CheckStop, SendEvent, TakeEvent
<1>4. CASE IngestEvent(e)
  <2>1. PICK o \in 0..MaxSubjects : Move(e, [v EXCEPT !.at = "gated", !.of = o])
    <3>1. 0 \in 0..MaxSubjects
      BY ConsentAssumption
    <3> QED
      BY <1>1, <1>2, <1>4, <3>1 DEF IngestEvent
  <2>2. PICK d : d = [v EXCEPT !.at = "gated", !.of = o]
    OBVIOUS
  <2>3. d \in Event /\ d.at = "gated"
    BY <1>2, <2>2 DEF Event
  <2> QED
    BY <1>3, <2>1, <2>2, <2>3, EventMovesInv
<1>5. CASE CheckStop(e)
  <2>1. PICK x \in {"dropped", "sending"} : Move(e, [v EXCEPT !.at = x])
    BY <1>1, <1>5 DEF CheckStop
  <2>2. PICK d : d = [v EXCEPT !.at = x]
    OBVIOUS
  <2>3. d \in Event /\ d.at = x
    BY <1>2, <2>2 DEF Event
  <2> QED
    BY <1>3, <2>1, <2>2, <2>3, EventMovesInv
<1>6. CASE SendEvent(e)
  <2>1. PICK x \in {"queued", "dropped"} : Move(e, [v EXCEPT !.at = x, !.afterStop = stopped])
    BY <1>1, <1>6 DEF SendEvent
  <2>2. PICK d : d = [v EXCEPT !.at = x, !.afterStop = stopped]
    OBVIOUS
  <2>3. d \in Event /\ d.at = x /\ d.afterStop = stopped
    BY <1>2, <2>2 DEF Event
  <2>4. writer = "done" => d.afterStop
    BY <2>3 DEF ConsentInv
  <2> QED
    BY <1>3, <2>1, <2>2, <2>3, <2>4, EventMovesInv
<1>7. CASE TakeEvent(e)
  <2>1. Move(e, [v EXCEPT !.at = "batch"]) /\ writer # "done"
    BY <1>1, <1>7 DEF TakeEvent
  <2>2. PICK d : d = [v EXCEPT !.at = "batch"]
    OBVIOUS
  <2>3. d \in Event /\ d.at = "batch"
    BY <1>2, <2>2 DEF Event
  <2> QED
    BY <1>3, <2>1, <2>2, <2>3, EventMovesInv
<1> QED
  BY <1>4, <1>5, <1>6, <1>7

(* What a flush stores is late if its subject is forgotten by then.        *)
LEMMA FlushedFits ==
  ASSUME ConsentInv, NEW ok \in BOOLEAN
  PROVE  /\ Flushed(ok) \in [Events -> Event]
         /\ \A e \in Events : /\ Flushed(ok)[e].at # "batch"
                              /\ Flushed(ok)[e].at = "queued" => event[e].at = "queued"
                              /\ Flushed(ok)[e].at = "stored" /\ Forgotten(Flushed(ok)[e].of) => Flushed(ok)[e].late
<1> DEFINE f == Flushed(ok)
<1>1. ASSUME NEW e \in Events
      PROVE  /\ f[e] \in Event /\ f[e].at # "batch"
             /\ f[e].at = "queued" => event[e].at = "queued"
             /\ f[e].at = "stored" /\ Forgotten(f[e].of) => f[e].late
  <2>1. PICK v : v = event[e]
    OBVIOUS
  <2>2. v \in Event
    BY <2>1 DEF ConsentInv, ConsentTypeOK
  <2>3. CASE v.at # "batch"
    <3>1. f[e] = v
      BY <2>1, <2>3 DEF Flushed
    <3> QED
      BY <2>1, <2>2, <2>3, <3>1 DEF ConsentInv, WithdrawalForgets
  <2>4. CASE v.at = "batch"
    <3>1. PICK x \in {"stored", "dropped"} : x = IF ok THEN "stored" ELSE "dropped"
      OBVIOUS
    <3>2. PICK h \in BOOLEAN : h = Forgotten(v.of)
      BY DEF Forgotten
    <3>3. f[e] = [v EXCEPT !.at = x, !.late = h]
      BY <2>1, <2>4, <3>1, <3>2 DEF Flushed
    <3>4. f[e] \in Event /\ f[e].at = x /\ f[e].late = h /\ f[e].of = v.of
      BY <2>2, <3>3 DEF Event
    <3> QED
      BY <3>2, <3>4
  <2> QED
    BY <2>3, <2>4
<1>2. f = [e \in Events |-> f[e]]
  BY DEF Flushed
<1>3. f \in [Events -> Event]
  BY <1>1, <1>2
<1> QED
  BY <1>1, <1>3

LEMMA WriterInv ==
  ASSUME ConsentInv, Flush \/ CloseWriter \/ SeeStop \/ EndDrain
  PROVE  ConsentInv'
<1>1. UNCHANGED <<row, token, call, consentOps>>
  BY DEF Flush, CloseWriter, SeeStop, EndDrain, traffic
<1>2. CASE CloseWriter \/ SeeStop
  <2>1. event' = event /\ stopped' \in BOOLEAN /\ writer' \in {"run", "drain", "done"}
        /\ (writer' = "done" => writer = "done") /\ (writer' # "run" => stopped')
    BY <1>2 DEF CloseWriter, SeeStop, ConsentInv, ConsentTypeOK
  <2>2. ConsentTypeOK'
    BY <1>1, <2>1 DEF ConsentInv, ConsentTypeOK
  <2>3. WithdrawalForgets' /\ DrainIsComplete'
    BY <1>1, <2>1 DEF ConsentInv, WithdrawalForgets, DrainIsComplete, Forgotten
  <2> QED
    BY <2>1, <2>2, <2>3 DEF ConsentInv
<1>3. ASSUME NEW ok \in BOOLEAN, event' = Flushed(ok), stopped' = stopped, writer' \in {writer, "done"},
             writer' = "done" => stopped /\ Held("queued") = {}
      PROVE  ConsentInv'
  <2>1. /\ event' \in [Events -> Event]
        /\ \A e \in Events : /\ event'[e].at # "batch"
                             /\ event'[e].at = "queued" => event[e].at = "queued"
                             /\ event'[e].at = "stored" /\ Forgotten(event'[e].of) => event'[e].late
    BY <1>3, FlushedFits
  <2>2. ConsentTypeOK'
    BY <1>1, <1>3, <2>1 DEF ConsentInv, ConsentTypeOK
  <2>3. WithdrawalForgets'
    BY <1>1, <2>1 DEF WithdrawalForgets, Forgotten
  <2>4. DrainIsComplete'
    BY <1>3, <2>1 DEF DrainIsComplete, Held
  <2> QED
    BY <1>3, <2>2, <2>3, <2>4 DEF ConsentInv
<1>4. CASE Flush
  BY <1>3, <1>4 DEF Flush
<1>5. CASE EndDrain
  <2>1. event' = Flushed(TRUE) /\ stopped' = stopped /\ writer' = "done" /\ Held("queued") = {} /\ stopped
    BY <1>5 DEF EndDrain, LastFlush, ConsentInv
  <2> QED
    BY <1>3, <2>1
<1> QED
  BY <1>2, <1>4, <1>5

LEMMA ConsentNextInv == ConsentInv /\ [ConsentNext]_consentVars => ConsentInv'
<1> SUFFICES ASSUME ConsentInv, [ConsentNext]_consentVars PROVE ConsentInv'
  OBVIOUS
<1>1. CASE UNCHANGED consentVars
  <2>1. UNCHANGED <<row, token, call, consentOps, event, stopped, writer>>
    BY <1>1 DEF consentVars
  <2>2. ConsentTypeOK' /\ DrainIsComplete' /\ WithdrawalForgets'
    BY <2>1 DEF ConsentInv, ConsentTypeOK, DrainIsComplete, WithdrawalForgets, Forgotten
  <2> QED
    BY <2>1, <2>2 DEF ConsentInv
<1>2. ASSUME NEW c \in Calls, BeginStore(c) \/ CommitStore(c) \/ BeginWithdraw(c) \/ CommitWithdraw(c) \/ CallFails(c)
      PROVE  ConsentInv'
  BY <1>2, ConsentBeginsInv, CommitStoreInv, CommitWithdrawInv
<1>3. ASSUME NEW e \in Events, IngestEvent(e) \/ CheckStop(e) \/ SendEvent(e) \/ TakeEvent(e) PROVE ConsentInv'
  BY <1>3, EventsInv
<1> QED
  BY <1>1, <1>2, <1>3, EraseLinkedInv, WriterInv DEF ConsentNext

(* However consent calls, erasures, ingestion and the writer's shutdown    *)
(* overlap, what is stored under a withdrawn or erased subject was in      *)
(* flight when it withdrew, and a closed writer has settled every event it *)
(* accepted before stop (Withdraw, DeleteSubjectEvents, Writer.drain), for *)
(* any number of calls, subjects and events.                               *)
THEOREM WithdrawnConsentIsKept == ConsentSpec => []ConsentInvariant
<1>1. ConsentInit => ConsentInv
  BY ConsentInitInv
<1>2. ConsentInv /\ [ConsentNext]_consentVars => ConsentInv'
  BY ConsentNextInv
<1>3. ConsentInv => ConsentInvariant
  BY DEF ConsentInv, ConsentInvariant
<1> QED
  BY <1>1, <1>2, <1>3, PTL DEF ConsentSpec

-----------------------------------------------------------------------------
(* Daily salts.  Who asks, asks for today or tomorrow.  The shared salt a  *)
(* replica holds is the stored one as long as its day has not passed, for  *)
(* no one destroys that row; afterwards nobody stores one for the day.     *)

SaltTypes ==
  /\ today \in 1..MaxDay /\ saltTable \in [1..MaxDay -> Salt]
  /\ salts \in [SaltReplicas -> DailySalts] /\ drawn \in Salt

Asking(r) == salts[r].pc # "idle" => salts[r].asked \in {today, today + 1} \cap (1..MaxDay)

HeldIsStored(r) ==
  salts[r].shared => /\ salts[r].day \in 1..MaxDay /\ salts[r].salt # 0
                     /\ salts[r].day >= today => saltTable[salts[r].day] = salts[r].salt

SaltsInv ==
  /\ SaltTypes /\ SaltsAgree
  /\ \A r \in SaltReplicas : Asking(r) /\ HeldIsStored(r)

(* One replica moves on from d's place, and the table keeps what is still  *)
(* needed: the salts of today and later.                                   *)
LEMMA ReplicaMoves ==
  ASSUME SaltsInv, NEW r \in SaltReplicas, NEW d \in DailySalts, salts' = [salts EXCEPT ![r] = d], UNCHANGED today,
         saltTable' \in [1..MaxDay -> Salt], drawn' \in Salt,
         \A k \in 1..MaxDay : k >= today /\ saltTable[k] # 0 => saltTable'[k] = saltTable[k],
         d.pc # "idle" => d.asked \in {today, today + 1} \cap (1..MaxDay),
         d.shared => \/ d.day = salts[r].day /\ d.salt = salts[r].salt /\ salts[r].shared
                     \/ d.day \in 1..MaxDay /\ d.day >= today /\ d.salt # 0 /\ saltTable'[d.day] = d.salt
  PROVE  SaltsInv'
<1>1. SaltTypes'
  BY DEF SaltsInv, SaltTypes
<1>2. ASSUME NEW q \in SaltReplicas PROVE Asking(q)'
  BY DEF SaltsInv, SaltTypes, Asking
<1>3. ASSUME NEW q \in SaltReplicas PROVE HeldIsStored(q)'
  <2>1. HeldIsStored(q)
    BY DEF SaltsInv
  <2>2. salts[q].day \in 1..MaxDay /\ salts[q].salt # 0 /\ salts[q].day >= today /\ saltTable[salts[q].day] = salts[q].salt
        => saltTable'[salts[q].day] = salts[q].salt
    OBVIOUS
  <2>3. CASE q # r
    BY <2>1, <2>2, <2>3 DEF SaltsInv, SaltTypes, HeldIsStored
  <2>4. CASE q = r
    BY <2>1, <2>2, <2>4 DEF SaltsInv, SaltTypes, HeldIsStored
  <2> QED
    BY <2>3, <2>4
<1>4. ASSUME NEW q \in SaltReplicas, q # r, salts[q].shared, d.shared, salts[q].day = d.day
      PROVE  salts[q].salt = d.salt
  <2>1. CASE d.day = salts[r].day /\ d.salt = salts[r].salt /\ salts[r].shared
    BY <1>4, <2>1 DEF SaltsInv, SaltsAgree
  <2>2. CASE d.day \in 1..MaxDay /\ d.day >= today /\ d.salt # 0 /\ saltTable'[d.day] = d.salt
    <3>1. salts[q].salt # 0 /\ saltTable[d.day] = salts[q].salt
      BY <1>4, <2>2 DEF SaltsInv, HeldIsStored
    <3> QED
      BY <2>2, <3>1
  <2> QED
    BY <1>4, <2>1, <2>2
<1>5. SaltsAgree'
  BY <1>4 DEF SaltsAgree, SaltsInv, SaltTypes
<1> QED
  BY <1>1, <1>2, <1>3, <1>5 DEF SaltsInv

LEMMA SaltStep ==
  ASSUME SaltsInv, NEW r \in SaltReplicas,
         \/ AskSalt(r) \/ InsertSalt(r) \/ SelectSalt(r) \/ LocalSalt(r) \/ ReplicaRestarts(r) \/ CrossesMidnight(r)
  PROVE  SaltsInv'
<1>1. PICK e \in DailySalts : e = salts[r]
  BY DEF SaltsInv, SaltTypes
<1>2. /\ today \in 1..MaxDay /\ saltTable \in [1..MaxDay -> Salt] /\ drawn \in Salt /\ MaxDay \in Nat /\ MaxSalts \in Nat
      /\ salts \in [SaltReplicas -> DailySalts]
  BY LiveBounds DEF SaltsInv, SaltTypes
<1>3. e.pc # "idle" => e.asked \in {today, today + 1} \cap (1..MaxDay)
  BY <1>1 DEF SaltsInv, Asking
<1>4. CASE AskSalt(r)
  <2>1. PICK k \in 1..MaxDay : k = DayOf(r) /\ k \in {today, today + 1}
    BY <1>2 DEF DayOf
  <2>2. PICK d : d = [e EXCEPT !.pc = "insert", !.asked = k]
    OBVIOUS
  <2>3. d \in DailySalts /\ d.asked = k /\ d.day = e.day /\ d.salt = e.salt /\ d.shared = e.shared
    <3>1. k \in 0..MaxDay
      BY <1>2
    <3>2. d.asked = k /\ d \in DailySalts
      BY <1>1, <2>2, <3>1 DEF DailySalts
    <3> QED
      BY <1>1, <2>2, <3>2 DEF DailySalts
  <2>4. salts' = [salts EXCEPT ![r] = d] /\ UNCHANGED <<today, drawn>>
    BY <1>1, <1>2, <1>4, <2>1, <2>2 DEF AskSalt
  <2>5. saltTable' = [x \in 1..MaxDay |-> IF x < k - 1 THEN 0 ELSE saltTable[x]]
    BY <1>2, <1>4, <2>1 DEF AskSalt, KeepFrom
  <2>6. saltTable' \in [1..MaxDay -> Salt]
    BY <1>2, <2>5 DEF Salt
  <2>7. \A x \in 1..MaxDay : x >= today /\ saltTable[x] # 0 => saltTable'[x] = saltTable[x]
    BY <1>2, <2>1, <2>5
  <2> QED
    BY <1>1, <1>2, <2>1, <2>3, <2>4, <2>6, <2>7, ReplicaMoves
<1>5. CASE InsertSalt(r)
  <2>1. PICK d : d = [e EXCEPT !.pc = "select"]
    OBVIOUS
  <2>2. d \in DailySalts /\ d.asked = e.asked /\ d.day = e.day /\ d.salt = e.salt /\ d.shared = e.shared
    BY <1>1, <2>1 DEF DailySalts
  <2>3. salts' = [salts EXCEPT ![r] = d] /\ today' = today
    BY <1>1, <1>2, <1>5, <2>1 DEF InsertSalt
  <2>4. drawn' \in Salt /\ e.asked \in {today, today + 1} \cap (1..MaxDay)
    BY <1>1, <1>2, <1>3, <1>5 DEF InsertSalt, Salt
  <2>5. saltTable' = [saltTable EXCEPT ![e.asked] = IF saltTable[e.asked] = 0 THEN drawn' ELSE saltTable[e.asked]]
    BY <1>1, <1>2, <1>5 DEF InsertSalt
  <2>6. saltTable' \in [1..MaxDay -> Salt]
    BY <1>2, <2>4, <2>5
  <2>7. \A x \in 1..MaxDay : x >= today /\ saltTable[x] # 0 => saltTable'[x] = saltTable[x]
    BY <1>2, <2>4, <2>5
  <2> QED
    BY <1>1, <1>2, <2>2, <2>3, <2>4, <2>6, <2>7, ReplicaMoves
<1>6. CASE SelectSalt(r)
  <2>1. e.asked \in {today, today + 1} \cap (1..MaxDay)
    BY <1>1, <1>3, <1>6 DEF SelectSalt
  <2>2. PICK k \in 1..MaxDay : k = e.asked /\ k >= today
    BY <1>2, <2>1
  <2>3. PICK x \in Salt : x = saltTable[k]
    BY <1>2
  <2>4. PICK d : d = [e EXCEPT !.pc = "idle", !.day = k, !.shared = TRUE, !.salt = x]
    OBVIOUS
  <2>5. d \in DailySalts /\ d.pc = "idle" /\ d.day = k /\ d.salt = x
    BY <1>1, <1>2, <2>2, <2>3, <2>4 DEF DailySalts
  <2>6. salts' = [salts EXCEPT ![r] = d] /\ UNCHANGED <<today, saltTable, drawn>> /\ x # 0
    BY <1>1, <1>2, <1>6, <2>2, <2>3, <2>4 DEF SelectSalt
  <2> QED
    BY <1>2, <2>2, <2>3, <2>5, <2>6, ReplicaMoves
<1>7. CASE LocalSalt(r)
  <2>1. UNCHANGED <<today, saltTable>>
    BY <1>7 DEF LocalSalt
  <2>2. CASE e.day = e.asked
    <3>1. PICK d : d = [e EXCEPT !.pc = "idle"]
      OBVIOUS
    <3>2. d \in DailySalts /\ d.pc = "idle" /\ d.day = e.day /\ d.salt = e.salt /\ d.shared = e.shared
      BY <1>1, <3>1 DEF DailySalts
    <3>3. salts' = [salts EXCEPT ![r] = d] /\ drawn' = drawn
      BY <1>1, <1>2, <1>7, <2>2, <3>1 DEF LocalSalt
    <3> QED
      BY <1>1, <1>2, <2>1, <3>2, <3>3, ReplicaMoves
  <2>3. CASE e.day # e.asked
    <3>1. PICK x \in Salt : x = drawn + 1 /\ drawn' = x
      BY <1>1, <1>2, <1>7, <2>3 DEF LocalSalt, Salt
    <3>2. PICK d : d = [e EXCEPT !.pc = "idle", !.day = e.asked, !.salt = x, !.shared = FALSE]
      OBVIOUS
    <3>3. d \in DailySalts /\ d.pc = "idle" /\ d.shared = FALSE
      BY <1>1, <3>1, <3>2 DEF DailySalts
    <3>4. salts' = [salts EXCEPT ![r] = d]
      BY <1>1, <1>2, <1>7, <2>3, <3>1, <3>2 DEF LocalSalt
    <3> QED
      BY <1>2, <2>1, <3>1, <3>3, <3>4, ReplicaMoves
  <2> QED
    BY <2>2, <2>3
<1>8. CASE ReplicaRestarts(r)
  <2>1. NoSalt \in DailySalts /\ NoSalt.pc = "idle" /\ NoSalt.shared = FALSE
    BY <1>2 DEF NoSalt, DailySalts, Salt
  <2>2. salts' = [salts EXCEPT ![r] = NoSalt] /\ UNCHANGED <<today, saltTable, drawn>>
    BY <1>8 DEF ReplicaRestarts
  <2> QED
    BY <1>2, <2>1, <2>2, ReplicaMoves
<1>9. CASE CrossesMidnight(r)
  <2>1. PICK d : d = [e EXCEPT !.ahead = TRUE]
    OBVIOUS
  <2>2. d \in DailySalts /\ d.pc = e.pc /\ d.asked = e.asked /\ d.day = e.day /\ d.salt = e.salt /\ d.shared = e.shared
    BY <1>1, <2>1 DEF DailySalts
  <2>3. salts' = [salts EXCEPT ![r] = d] /\ UNCHANGED <<today, saltTable, drawn>>
    BY <1>1, <1>2, <1>9, <2>1 DEF CrossesMidnight
  <2> QED
    BY <1>1, <1>2, <1>3, <2>2, <2>3, ReplicaMoves
<1> QED
  BY <1>4, <1>5, <1>6, <1>7, <1>8, <1>9

(* Midnight passes for all: what was today's is now agreed on.             *)
LEMMA DayTurnsInv ==
  ASSUME SaltsInv, DayTurns
  PROVE  SaltsInv'
<1>1. /\ today \in 1..MaxDay /\ today' = today + 1 /\ today' \in 1..MaxDay /\ UNCHANGED <<saltTable, drawn>>
      /\ salts \in [SaltReplicas -> DailySalts]
  BY LiveBounds DEF SaltsInv, SaltTypes, DayTurns
<1>2. ASSUME NEW r \in SaltReplicas
      PROVE  /\ salts'[r] \in DailySalts /\ salts'[r].pc = "idle" /\ salts'[r].day = salts[r].day
             /\ salts'[r].salt = salts[r].salt /\ salts'[r].shared = salts[r].shared
  <2>1. PICK e \in DailySalts : e = salts[r] /\ e.pc = "idle"
    BY <1>1 DEF DayTurns
  <2>2. salts'[r] = [e EXCEPT !.ahead = FALSE]
    BY <2>1 DEF DayTurns
  <2> QED
    BY <2>1, <2>2 DEF DailySalts
<1>3. SaltTypes'
  <2>1. salts' = [r \in SaltReplicas |-> salts'[r]]
    BY DEF DayTurns
  <2> QED
    BY <1>1, <1>2, <2>1 DEF SaltsInv, SaltTypes
<1>4. SaltsAgree'
  BY <1>2 DEF SaltsInv, SaltsAgree
<1>5. \A r \in SaltReplicas : Asking(r)'
  BY <1>2 DEF Asking
<1>6. ASSUME NEW r \in SaltReplicas PROVE HeldIsStored(r)'
  <2>1. HeldIsStored(r)
    BY DEF SaltsInv
  <2> QED
    BY <1>1, <1>2, <2>1 DEF HeldIsStored
<1> QED
  BY <1>3, <1>4, <1>5, <1>6 DEF SaltsInv

(* Every replica starts with no salt, and every step of the salts, the     *)
(* turn of the day included, keeps them agreed.                            *)
LEMMA SaltsInitInv == LiveInit => SaltsInv
  BY LiveBounds DEF LiveInit, SaltsInv, SaltTypes, SaltsAgree, Asking, HeldIsStored, NoSalt, DailySalts, Salt

LEMMA SaltsNextInv == SaltsInv /\ [BoardNext \/ SaltNext]_<<boardVars, saltVars>> => SaltsInv'
<1> SUFFICES ASSUME SaltsInv, [BoardNext \/ SaltNext]_<<boardVars, saltVars>> PROVE SaltsInv'
  OBVIOUS
<1>1. CASE UNCHANGED saltVars
  BY <1>1 DEF saltVars, SaltsInv, SaltTypes, SaltsAgree, Asking, HeldIsStored
<1>2. CASE SaltNext
  BY <1>2, SaltStep, DayTurnsInv DEF SaltNext
<1> QED
  BY <1>1, <1>2 DEF BoardNext


(* For every number of replicas and days: replicas that hold the shared    *)
(* salt of a day hold the same one, though they ask at once, fail, restart *)
(* and read midnight off different clocks (dailySalts.at, DailySalt,       *)
(* SaltKeepFrom).                                                          *)
THEOREM ReplicasShareTheSalt == LiveSpec => []SaltsAgree
<1>1. SaltsInv => SaltsAgree
  BY DEF SaltsInv
<1> QED
  BY <1>1, SaltsInitInv, SaltsNextInv, PTL DEF LiveSpec

-----------------------------------------------------------------------------
(* Privacy requests.  A processor works on a row of the kind its step is   *)
(* for, and its archive is one that was stored.  As long as no two         *)
(* processors have overlapped, at most one has claimed a row; an erasure   *)
(* past its list has still to delete every archive with personal data that *)
(* a row points at; and once the account is erased no such archive is left *)
(* and no document read before is under way.                               *)

Left(w) == CASE w.pc = "delete" -> {w.todo[n] : n \in DOMAIN w.todo}
             [] w.pc = "clear"  -> {w.todo[n] : n \in DOMAIN w.todo \ {1}}
             [] OTHER           -> {}

PointsAt(i) == <<request[i].key, TRUE>> \in store
Clean == \A i \in PrivacyIDs : ~PointsAt(i)

WorkSound(w) ==
  /\ w.pc = "idle" => w = Free
  /\ w.pc \in {"read", "put", "complete"} => w.id \in PrivacyIDs /\ request[w.id].kind = "export"
  /\ w.pc \in {"list", "tx"} => w.id \in PrivacyIDs /\ request[w.id].kind = "erase"
  /\ w.pc = "fail" => w.id \in PrivacyIDs
  /\ w.pc \in {"delete", "clear"} => w.todo # <<>> /\ (w.id # noID => w.id \in PrivacyIDs /\ request[w.id].kind = "erase")
  /\ w.key <= puts
  /\ w.pc = "complete" /\ <<w.key, TRUE>> \in store => w.personal

WorkClean(w) ==
  /\ account = "erased" /\ w.pc \in {"put", "complete"} => ~w.personal
  /\ w.id # noID /\ w.pc \in {"delete", "clear", "tx"} =>
       \A i \in PrivacyIDs : PointsAt(i) => <<i, request[i].key>> \in Left(w)

KeysKnown ==
  /\ \A i \in PrivacyIDs : request[i].key <= puts
  /\ \A o \in store : o[1] <= puts

ErasedIsErased ==
  \A i \in PrivacyIDs : request[i].kind = "erase" /\ request[i].status = "completed" => account = "erased"

AloneIsClean ==
  /\ \A p, q \in Processors : processor[p].id # noID /\ processor[q].id # noID => p = q
  /\ \A p \in Processors : WorkClean(processor[p])
  /\ account = "erased" => Clean

PrivacyInv ==
  /\ PrivacyTypeOK /\ KeysKnown /\ ErasedIsErased
  /\ \A p \in Processors : WorkSound(processor[p])
  /\ ~overlapped => AloneIsClean

(* What a step may not do to the rows and the bucket, whoever takes it.    *)
RowsKept ==
  /\ \A i \in PrivacyIDs : request[i].kind # "none" => request'[i].kind = request[i].kind
  /\ puts' \in Nat /\ puts <= puts'
  /\ \A o \in store' : o \in store \/ o[1] > puts

(* The step points no row at an archive with personal data.                *)
Quiet ==
  /\ account' = account
  /\ \A i \in PrivacyIDs : PointsAt(i)' => request'[i].key = request[i].key /\ PointsAt(i)

LEMMA PrivacyTypes ==
  /\ Free \in Work /\ NoRequest \in RequestRow /\ Free.id = noID /\ Free.pc = "idle" /\ Free.key = 0
  /\ \A w \in Work : w.key \in Nat /\ w.id \in 0..MaxRequests /\ w.todo \in Seq(PrivacyIDs \X (0..MaxPuts))
                     /\ w.personal \in BOOLEAN /\ w.attempts \in Nat
  /\ \A r \in RequestRow : r.key \in Nat /\ r.attempts \in Nat /\ r.expired \in BOOLEAN /\ r.stale \in BOOLEAN
<1>1. Free \in Work /\ Free.id = noID /\ Free.pc = "idle" /\ Free.key = 0
  <2>1. <<>> \in Seq(PrivacyIDs \X (0..MaxPuts)) /\ MaxRequests \in Nat /\ MaxPuts \in Nat
    BY PrivacyAssumption
  <2>2. 0 \in 0..MaxRequests /\ 0 \in 0..MaxPuts
    BY <2>1
  <2> QED
    BY <2>1, <2>2 DEF Free, Work, noID, noKey
<1>2. NoRequest \in RequestRow
  BY PrivacyAssumption DEF NoRequest, RequestRow, noKey
<1>3. \A w \in Work : w.key \in Nat /\ w.id \in 0..MaxRequests /\ w.todo \in Seq(PrivacyIDs \X (0..MaxPuts))
                      /\ w.personal \in BOOLEAN /\ w.attempts \in Nat
  BY PrivacyAssumption DEF Work
<1>4. \A r \in RequestRow : r.key \in Nat /\ r.attempts \in Nat /\ r.expired \in BOOLEAN /\ r.stale \in BOOLEAN
  BY PrivacyAssumption DEF RequestRow
<1> QED
  BY <1>1, <1>2, <1>3, <1>4

(* A processor that does not move stays sound.                             *)
LEMMA OthersSound ==
  ASSUME PrivacyInv, RowsKept, NEW w \in Work, WorkSound(w)
  PROVE  WorkSound(w)'
<1>1. w.key \in Nat /\ puts \in Nat
  BY PrivacyTypes, PrivacyAssumption DEF PrivacyInv, PrivacyTypeOK
<1>2. w.key <= puts'
  BY <1>1 DEF WorkSound, RowsKept
<1>3. <<w.key, TRUE>> \in store' => <<w.key, TRUE>> \in store
  BY <1>1 DEF WorkSound, RowsKept
<1>4. \A i \in PrivacyIDs : request[i].kind \in {"export", "erase"} => request'[i].kind = request[i].kind
  BY DEF RowsKept
<1> QED
  BY <1>2, <1>3, <1>4 DEF WorkSound

LEMMA OthersClean ==
  ASSUME PrivacyInv, Quiet, NEW w, WorkClean(w)
  PROVE  WorkClean(w)'
<1>1. \A i \in PrivacyIDs : PointsAt(i)' => PointsAt(i) /\ request'[i].key = request[i].key
  BY DEF Quiet
<1>2. Left(w)' = Left(w)
  BY DEF Left
<1> QED
  BY <1>1, <1>2 DEF WorkClean, Quiet

(* Who has claimed nothing has nothing to keep clean.                      *)
LEMMA UnclaimedClean ==
  ASSUME NEW w, WorkSound(w), w.id = noID
  PROVE  WorkClean(w)'
<1>1. noID \notin PrivacyIDs
  BY PrivacyAssumption DEF noID, PrivacyIDs
<1>2. w.pc \notin {"put", "complete"}
  BY <1>1 DEF WorkSound
<1> QED
  BY <1>2 DEF WorkClean

(* One processor moves on to d.                                            *)
LEMMA ProcessorMoves ==
  ASSUME PrivacyInv, NEW p \in Processors, NEW d \in Work, processor' = [processor EXCEPT ![p] = d],
         PrivacyTypeOK', KeysKnown', ErasedIsErased', RowsKept, WorkSound(d)',
         ~overlapped' => /\ ~overlapped /\ WorkClean(d)' /\ (account' = "erased" => Clean')
                         /\ d.id # noID /\ processor[p].id = noID => \A q \in Processors \ {p} : processor[q].id = noID
                         /\ Quiet \/ \A q \in Processors \ {p} : processor[q].id = noID
  PROVE  PrivacyInv'
<1>1. processor \in [Processors -> Work] /\ \A q \in Processors : processor'[q] = IF q = p THEN d ELSE processor[q]
  BY DEF PrivacyInv, PrivacyTypeOK
<1>2. \A q \in Processors : WorkSound(processor[q]) /\ processor[q] \in Work
  BY <1>1 DEF PrivacyInv
<1>3. ASSUME NEW q \in Processors PROVE WorkSound(processor[q])'
  <2>1. CASE q = p
    <3>1. processor'[q] = d
      BY <1>1, <2>1
    <3> QED
      BY <3>1 DEF WorkSound
  <2>2. CASE q # p
    <3>1. PICK w \in Work : w = processor[q] /\ w = processor'[q]
      BY <1>1, <1>2, <2>2
    <3>2. WorkSound(w)'
      BY <1>2, <3>1, OthersSound
    <3> QED
      BY <3>1, <3>2 DEF WorkSound
  <2> QED
    BY <2>1, <2>2
<1>4. ASSUME ~overlapped' PROVE AloneIsClean'
  <2>1. AloneIsClean /\ \A q \in Processors : WorkClean(processor[q])
    BY <1>4 DEF PrivacyInv, AloneIsClean
  <2>2. ASSUME NEW q \in Processors PROVE WorkClean(processor[q])'
    <3>1. CASE q = p
      <4>1. processor'[q] = d
        BY <1>1, <3>1
      <4> QED
        BY <1>4, <4>1 DEF WorkClean, Left
    <3>2. CASE q # p
      <4>1. PICK w : w = processor[q] /\ w = processor'[q] /\ WorkSound(w) /\ WorkClean(w)
        BY <1>1, <1>2, <2>1, <3>2
      <4>2. WorkClean(w)'
        BY <1>4, <3>2, <4>1, OthersClean, UnclaimedClean
      <4>3. w = processor'[q]
        BY <4>1
      <4>4. Left(processor[q])' = Left(w)
        BY <4>3 DEF Left
      <4>5. Left(w)' = Left(w)
        BY DEF Left
      <4> QED
        BY <4>2, <4>3, <4>4, <4>5 DEF WorkClean
    <3> QED
      BY <3>1, <3>2
  <2>3. ASSUME NEW q \in Processors, NEW r \in Processors, processor'[q].id # noID, processor'[r].id # noID
        PROVE  q = r
    <3>1. \A x, y \in Processors : processor[x].id # noID /\ processor[y].id # noID => x = y
      BY <2>1 DEF AloneIsClean
    <3>2. \A x \in Processors : x # p => processor'[x] = processor[x]
      BY <1>1
    <3>3. processor'[p] = d
      BY <1>1
    <3>4. CASE processor[p].id # noID
      BY <2>3, <3>1, <3>2, <3>4
    <3>5. CASE processor[p].id = noID
      BY <1>4, <2>3, <3>1, <3>2, <3>3, <3>5
    <3> QED
      BY <3>4, <3>5
  <2> QED
    BY <1>4, <2>2, <2>3 DEF AloneIsClean
<1> QED
  BY <1>3, <1>4 DEF PrivacyInv

(* No processor moves.                                                     *)
LEMMA RowsMove ==
  ASSUME PrivacyInv, UNCHANGED <<processor, store, puts, account, overlapped>>,
         PrivacyTypeOK', KeysKnown', ErasedIsErased', RowsKept, Quiet
  PROVE  PrivacyInv'
<1>1. \A q \in Processors : WorkSound(processor[q]) /\ processor[q] \in Work
  BY DEF PrivacyInv, PrivacyTypeOK
<1>2. ASSUME NEW q \in Processors PROVE WorkSound(processor[q])'
  <2>1. PICK w \in Work : w = processor[q] /\ w = processor'[q]
    BY <1>1
  <2>2. WorkSound(w)'
    BY <1>1, <2>1, OthersSound
  <2> QED
    BY <2>1, <2>2 DEF WorkSound
<1>3. ASSUME ~overlapped' PROVE AloneIsClean'
  <2>1. AloneIsClean /\ \A q \in Processors : WorkClean(processor[q])
    BY <1>3 DEF PrivacyInv, AloneIsClean
  <2>2. ASSUME NEW q \in Processors PROVE WorkClean(processor[q])'
    <3>1. PICK w : w = processor[q] /\ w = processor'[q] /\ WorkClean(w)
      BY <2>1
    <3>2. WorkClean(w)'
      BY <3>1, OthersClean
    <3> QED
      BY <3>1, <3>2 DEF WorkClean, Left
  <2>3. account' = "erased" => Clean'
    BY <2>1 DEF AloneIsClean, Clean, Quiet
  <2> QED
    BY <2>1, <2>2, <2>3 DEF AloneIsClean
<1> QED
  BY <1>2, <1>3 DEF PrivacyInv

(* A call of the API, an archive that expires, a row that goes stale.      *)
LEMMA OneRowMoves ==
  ASSUME PrivacyInv, UNCHANGED <<processor, store, puts, account, overlapped>>, lost' \in 0..MaxLost,
         asking' \in [Askers -> Kinds \cup {"idle"}],
         NEW i \in PrivacyIDs, NEW r \in RequestRow, request' = [request EXCEPT ![i] = r],
         r.key \in {noKey, request[i].key}, request[i].kind # "none" => r.kind = request[i].kind,
         r.status = "completed" => request[i].kind = r.kind /\ request[i].status = r.status
  PROVE  PrivacyInv'
<1>1. request \in [PrivacyIDs -> RequestRow] /\ \A j \in PrivacyIDs : request'[j] = IF j = i THEN r ELSE request[j]
  BY DEF PrivacyInv, PrivacyTypeOK
<1>2. puts \in Nat /\ store \subseteq (1..MaxPuts) \X BOOLEAN
  BY PrivacyAssumption DEF PrivacyInv, PrivacyTypeOK
<1>3. PrivacyTypeOK'
  BY <1>1 DEF PrivacyInv, PrivacyTypeOK
<1>4. KeysKnown'
  BY <1>1, <1>2 DEF PrivacyInv, KeysKnown, noKey
<1>5. ErasedIsErased'
  BY <1>1 DEF PrivacyInv, ErasedIsErased
<1>6. RowsKept
  BY <1>1, <1>2 DEF RowsKept
<1>7. \A b : <<noKey, b>> \notin store
  BY <1>2 DEF noKey
<1>8. Quiet
  BY <1>1, <1>7 DEF Quiet, PointsAt
<1> QED
  BY <1>3, <1>4, <1>5, <1>6, <1>8, RowsMove

LEMMA AskingInv ==
  ASSUME PrivacyInv, NEW a \in Askers, AskPrivacy(a) \/ CreateRequest(a)
  PROVE  PrivacyInv'
<1>1. /\ UNCHANGED <<store, account, processor, puts, lost, overlapped>> /\ lost \in 0..MaxLost
      /\ asking \in [Askers -> Kinds \cup {"idle"}]
  BY DEF PrivacyInv, PrivacyTypeOK, AskPrivacy, CreateRequest
<1>2. asking' \in [Askers -> Kinds \cup {"idle"}]
  BY <1>1 DEF AskPrivacy, CreateRequest
<1>3. CASE request' = request
  <2>1. UNCHANGED <<request, store, account, processor, puts, lost, overlapped>>
    BY <1>1, <1>3
  <2>2. PrivacyTypeOK'
    BY <1>2, <2>1 DEF PrivacyInv, PrivacyTypeOK
  <2>3. KeysKnown' /\ ErasedIsErased'
    BY <2>1 DEF PrivacyInv, KeysKnown, ErasedIsErased
  <2>4. RowsKept /\ Quiet
    <3>1. puts \in Nat
      BY PrivacyAssumption DEF PrivacyInv, PrivacyTypeOK
    <3>2. RowsKept
      BY <2>1, <3>1 DEF RowsKept
    <3>3. Quiet
      BY <2>1 DEF Quiet, PointsAt
    <3> QED
      BY <3>2, <3>3
  <2> QED
    BY <1>1, <2>2, <2>3, <2>4, RowsMove
<1>4. CASE request' # request
  <2>1. CreateRequest(a) /\ asking[a] # "idle"
    BY <1>4 DEF AskPrivacy, CreateRequest
  <2>2. PICK kind \in Kinds : kind = asking[a]
    BY <1>1, <2>1
  <2>3. PICK i \in PrivacyIDs :
          /\ request[i].kind = "none"
          /\ request' = [request EXCEPT ![i] = [NoRequest EXCEPT !.kind = asking[a], !.status = "pending"]]
    BY <1>4, <2>1 DEF CreateRequest
  <2>4. PICK e \in RequestRow : e = NoRequest /\ e.key = noKey
    BY PrivacyTypes DEF NoRequest
  <2>5. PICK r : r = [e EXCEPT !.kind = kind, !.status = "pending"]
    OBVIOUS
  <2>6. r \in RequestRow /\ r.key = noKey /\ r.status = "pending"
    BY <2>2, <2>4, <2>5 DEF RequestRow
  <2>7. request' = [request EXCEPT ![i] = r]
    BY <2>2, <2>3, <2>4, <2>5
  <2> QED
    BY <1>1, <1>2, <2>3, <2>6, <2>7, OneRowMoves
<1> QED
  BY <1>3, <1>4

LEMMA TimeInv ==
  ASSUME PrivacyInv, NEW i \in PrivacyIDs, ArchiveExpires(i) \/ GoStale(i)
  PROVE  PrivacyInv'
<1>1. /\ UNCHANGED <<store, account, asking, processor, puts, overlapped>> /\ lost \in 0..MaxLost
      /\ asking \in [Askers -> Kinds \cup {"idle"}] /\ request \in [PrivacyIDs -> RequestRow]
  BY DEF PrivacyInv, PrivacyTypeOK, ArchiveExpires, GoStale
<1>2. lost' \in 0..MaxLost
  BY <1>1, PrivacyAssumption DEF ArchiveExpires, GoStale
<1>3. PICK e \in RequestRow : e = request[i]
  BY <1>1
<1>4. CASE ArchiveExpires(i)
  <2>1. PICK r : r = [e EXCEPT !.expired = TRUE]
    OBVIOUS
  <2>2. r \in RequestRow /\ r.key = e.key /\ r.kind = e.kind /\ r.status = e.status
    BY <1>3, <2>1 DEF RequestRow
  <2>3. request' = [request EXCEPT ![i] = r]
    BY <1>1, <1>3, <1>4, <2>1 DEF ArchiveExpires
  <2> QED
    BY <1>1, <1>2, <1>3, <2>2, <2>3, OneRowMoves
<1>5. CASE GoStale(i)
  <2>1. PICK r : r = [e EXCEPT !.stale = TRUE]
    OBVIOUS
  <2>2. r \in RequestRow /\ r.key = e.key /\ r.kind = e.kind /\ r.status = e.status
    BY <1>3, <2>1 DEF RequestRow
  <2>3. request' = [request EXCEPT ![i] = r]
    BY <1>1, <1>3, <1>5, <2>1 DEF GoStale
  <2> QED
    BY <1>1, <1>2, <1>3, <2>2, <2>3, OneRowMoves
<1> QED
  BY <1>4, <1>5

(* A processor that is done.                                               *)
LEMMA FreeIsSound ==
  ASSUME puts \in Nat
  PROVE  WorkSound(Free) /\ WorkClean(Free)
<1>1. Free.pc = "idle" /\ Free.id = noID /\ Free.key <= puts
  BY DEF Free, noKey
<1> QED
  BY <1>1 DEF WorkSound, WorkClean

(* Only what the processor is doing changes.                               *)
LEMMA OnlyProcessorMoves ==
  ASSUME PrivacyInv, NEW p \in Processors, NEW d \in Work, processor' = [processor EXCEPT ![p] = d],
         UNCHANGED <<request, store, account, asking, puts, overlapped>>, lost' \in 0..MaxLost,
         WorkSound(d), ~overlapped => WorkClean(d), d.id \in {noID, processor[p].id}
  PROVE  PrivacyInv'
<1>1. PrivacyTypeOK'
  BY DEF PrivacyInv, PrivacyTypeOK
<1>2. KeysKnown' /\ ErasedIsErased'
  BY DEF PrivacyInv, KeysKnown, ErasedIsErased
<1>3. puts \in Nat
  BY PrivacyAssumption DEF PrivacyInv, PrivacyTypeOK
<1>4. RowsKept
  BY <1>3 DEF RowsKept
<1>5. Quiet
  BY DEF Quiet, PointsAt
<1>6. WorkSound(d)'
  BY <1>4, OthersSound
<1>7. ~overlapped => WorkClean(d)'
  BY <1>5, OthersClean
<1>8. ~overlapped /\ account' = "erased" => Clean'
  BY DEF PrivacyInv, AloneIsClean, Clean, PointsAt
<1> QED
  BY <1>1, <1>2, <1>4, <1>5, <1>6, <1>7, <1>8, ProcessorMoves

LEMMA WorkFacts ==
  ASSUME PrivacyInv, NEW p \in Processors
  PROVE  /\ processor[p] \in Work /\ WorkSound(processor[p]) /\ (~overlapped => WorkClean(processor[p]))
         /\ puts \in Nat /\ lost \in 0..MaxLost /\ processor \in [Processors -> Work]
         /\ request \in [PrivacyIDs -> RequestRow] /\ store \subseteq (1..MaxPuts) \X BOOLEAN
         /\ MaxPuts \in Nat /\ MaxRequests \in Nat /\ MaxLost \in Nat /\ noID \notin PrivacyIDs
         /\ PrivacyIDs \subseteq 0..MaxRequests
  BY PrivacyAssumption DEF PrivacyInv, PrivacyTypeOK, AloneIsClean, noID, PrivacyIDs

LEMMA StopsInv ==
  ASSUME PrivacyInv, NEW p \in Processors, StepFails(p) \/ ProcessorDies(p) \/ ReadDocument(p)
  PROVE  PrivacyInv'
<1>1. PICK w \in Work : w = processor[p] /\ WorkSound(w) /\ (~overlapped => WorkClean(w))
  BY WorkFacts
<1>2. UNCHANGED <<request, store, account, asking, puts, overlapped>>
  BY DEF StepFails, ProcessorDies, ReadDocument
<1>3. lost' \in 0..MaxLost
  BY WorkFacts DEF StepFails, ProcessorDies, ReadDocument
<1>4. CASE Finished(p)
  <2>1. Free \in Work /\ Free.id = noID /\ WorkSound(Free) /\ WorkClean(Free)
    BY WorkFacts, PrivacyTypes, FreeIsSound
  <2>2. processor' = [processor EXCEPT ![p] = Free]
    BY <1>4 DEF Finished
  <2> QED
    BY <1>2, <1>3, <2>1, <2>2, OnlyProcessorMoves
<1>5. CASE StepFails(p) /\ Goto(p, "fail") /\ w.id # noID
  <2>1. PICK d : d = [w EXCEPT !.pc = "fail"]
    OBVIOUS
  <2>2. d \in Work /\ d.pc = "fail" /\ d.id = w.id /\ d.key = w.key
    BY <1>1, <2>1 DEF Work
  <2>3. processor' = [processor EXCEPT ![p] = d]
    BY <1>1, <1>5, <2>1, WorkFacts DEF Goto
  <2>4. d.id \in PrivacyIDs
    BY <1>1, <1>5, <2>2, PrivacyTypes, WorkFacts DEF PrivacyIDs, noID
  <2>5. WorkSound(d) /\ WorkClean(d)
    BY <1>1, <2>2, <2>4 DEF WorkSound, WorkClean
  <2> QED
    BY <1>1, <1>2, <1>3, <2>2, <2>3, <2>5, OnlyProcessorMoves
<1>6. CASE ReadDocument(p)
  <2>1. PICK b \in BOOLEAN : b = (account = "active")
    <3>1. CASE account = "active"
      <4>1. TRUE = (account = "active")
        BY <3>1
      <4> QED
        BY <4>1
    <3>2. CASE account # "active"
      <4>1. FALSE = (account = "active")
        BY <3>2
      <4> QED
        BY <4>1
    <3> QED
      BY <3>1, <3>2
  <2>2. PICK d : d = [w EXCEPT !.pc = "put", !.personal = b]
    OBVIOUS
  <2>3. d \in Work /\ d.pc = "put" /\ d.personal = b /\ d.id = w.id /\ d.key = w.key
    BY <1>1, <2>1, <2>2 DEF Work
  <2>4. processor' = [processor EXCEPT ![p] = d] /\ w.pc = "read"
    BY <1>1, <1>6, <2>1, <2>2, WorkFacts DEF ReadDocument
  <2>5. account = "erased" => ~b
    BY <2>1
  <2>6. WorkSound(d) /\ WorkClean(d)
    BY <1>1, <2>3, <2>4, <2>5 DEF WorkSound, WorkClean
  <2> QED
    BY <1>1, <1>2, <1>3, <2>3, <2>4, <2>6, OnlyProcessorMoves
<1> QED
  BY <1>1, <1>4, <1>5, <1>6 DEF StepFails, ProcessorDies

(* An injective list as long as its set names every member of the set.     *)
LEMMA ListNamesAll ==
  ASSUME NEW S, IsFiniteSet(S), NEW s \in [1..Cardinality(S) -> S],
         \A j, k \in 1..Cardinality(S) : s[j] = s[k] => j = k
  PROVE  Cardinality(S) \in Nat /\ \A x \in S : \E j \in 1..Cardinality(S) : s[j] = x
<1>1. PICK n \in Nat : n = Cardinality(S)
  BY FS_CardinalityType
<1>2. s \in Injection(1..n, S)
  <2>1. s \in [1..n -> S] /\ \A j, k \in 1..n : s[j] = s[k] => j = k
    BY <1>1
  <2> QED
    BY <2>1 DEF Injection, IsInjective
<1>3. IsFiniteSet(1..n) /\ Cardinality(1..n) = n
  BY FS_Interval
<1>4. s \in Surjection(1..n, S)
  BY <1>1, <1>2, <1>3, FS_Injection
<1> QED
  BY <1>1, <1>4 DEF Surjection

(* The archives to delete are listed.                                      *)
LEMMA ListInv ==
  ASSUME PrivacyInv, NEW p \in Processors, NEW S, S \subseteq PrivacyIDs, NEW then, ListArchives(p, S, then),
         \/ processor[p].pc = "list" /\ S = AllArchives /\ then = "tx"
         \/ processor[p].pc = "idle" /\ S # {}
  PROVE  PrivacyInv'
<1>1. PICK w \in Work : w = processor[p] /\ WorkSound(w)
  BY WorkFacts
<1>2. UNCHANGED <<request, store, account, asking, puts, lost, overlapped>> /\ lost' \in 0..MaxLost
  BY WorkFacts DEF ListArchives
<1>3. IsFiniteSet(S)
  <2>1. IsFiniteSet(1..MaxRequests)
    BY WorkFacts, FS_Interval
  <2> QED
    BY <2>1, FS_Subset DEF PrivacyIDs
<1>4. PICK n \in Nat : n = Cardinality(S)
  BY <1>3, FS_CardinalityType
<1>5. PICK s \in [1..Cardinality(S) -> S] :
        /\ \A j, k \in 1..Cardinality(S) : s[j] = s[k] => j = k
        /\ processor' = [processor EXCEPT ![p].pc = IF S = {} THEN then ELSE "delete",
                            ![p].todo = [j \in 1..Cardinality(S) |-> <<s[j], request[s[j]].key>>]]
  BY Zenon DEF ListArchives
<1>6. \A x \in S : \E j \in 1..n : s[j] = x
  BY <1>3, <1>4, <1>5, ListNamesAll
<1>7. PICK list : list = [j \in 1..Cardinality(S) |-> <<s[j], request[s[j]].key>>]
  OBVIOUS
<1>8. list \in Seq(PrivacyIDs \X (0..MaxPuts)) /\ DOMAIN list = 1..n
  <2>1. \A j \in 1..n : s[j] \in PrivacyIDs /\ request[s[j]].key \in 0..MaxPuts
    BY <1>4, <1>5, WorkFacts DEF RequestRow
  <2>2. list \in [1..n -> PrivacyIDs \X (0..MaxPuts)]
    BY <1>4, <1>7, <2>1
  <2> QED
    BY <1>4, <2>2
<1>9. PICK next : next = IF S = {} THEN then ELSE "delete"
  OBVIOUS
<1>10. PICK d : d = [w EXCEPT !.pc = next, !.todo = list]
  OBVIOUS
<1>11. processor' = [processor EXCEPT ![p] = d]
  BY <1>1, <1>5, <1>7, <1>9, <1>10, WorkFacts
<1>12. next \in {"tx", "delete"} /\ (next = "tx" => S = {} /\ w.pc = "list") /\ (next = "delete" => S # {})
  BY <1>1, <1>9
<1>13. d \in Work /\ d.pc = next /\ d.todo = list /\ d.id = w.id /\ d.key = w.key
  BY <1>1, <1>8, <1>10, <1>12 DEF Work
<1>14. S # {} => list # <<>>
  <2>1. S # {} => n # 0
    BY <1>6
  <2> QED
    BY <1>4, <1>8, <2>1
<1>15. w.pc = "idle" => w.id = noID
  BY <1>1, PrivacyTypes DEF WorkSound
<1>16. WorkSound(d)
  BY <1>1, <1>12, <1>13, <1>14, <1>15 DEF WorkSound
<1>17. WorkClean(d)
  <2>1. CASE w.pc = "idle"
    BY <1>12, <1>13, <1>15, <2>1 DEF WorkClean
  <2>2. CASE w.pc # "idle"
    <3>1. S = AllArchives
      BY <1>1, <2>2
    <3>2. ASSUME NEW i \in PrivacyIDs, PointsAt(i) PROVE next = "delete" /\ <<i, request[i].key>> \in {list[x] : x \in DOMAIN list}
      <4>1. request[i].key # noKey
        BY <3>2, WorkFacts DEF PointsAt, noKey
      <4>2. i \in S
        BY <3>1, <4>1 DEF AllArchives
      <4>3. PICK j \in 1..n : s[j] = i
        BY <1>6, <4>2
      <4>4. list[j] = <<i, request[i].key>>
        BY <1>4, <1>7, <4>3
      <4> QED
        BY <1>8, <1>12, <4>2, <4>3, <4>4
    <3>3. \A i \in PrivacyIDs : PointsAt(i) => <<i, request[i].key>> \in Left(d)
      BY <1>13, <3>2 DEF Left
    <3> QED
      BY <1>12, <1>13, <3>3 DEF WorkClean
  <2> QED
    BY <2>1, <2>2
<1> QED
  BY <1>1, <1>2, <1>11, <1>13, <1>16, <1>17, OnlyProcessorMoves

(* The row a processor claims, settles or clears: the others stay.         *)
LEMMA RowChanges ==
  ASSUME PrivacyInv, NEW i \in PrivacyIDs, NEW r \in RequestRow, request' = [request EXCEPT ![i] = r],
         r.key <= puts', puts' \in Nat, puts <= puts', r.kind = request[i].kind,
         r.kind = "erase" /\ r.status = "completed" => account' = "erased" \/ request[i].status = "completed",
         account' \in {account, "erased"},
         \A o \in store' : o \in store \/ o[1] > puts, \A o \in store' : o[1] <= puts'
  PROVE  KeysKnown' /\ ErasedIsErased' /\ RowsKept /\ request' \in [PrivacyIDs -> RequestRow]
<1>1. request \in [PrivacyIDs -> RequestRow] /\ \A j \in PrivacyIDs : request'[j] = IF j = i THEN r ELSE request[j]
  BY DEF PrivacyInv, PrivacyTypeOK
<1>2. \A j \in PrivacyIDs : request[j].key \in Nat /\ request[j].key <= puts
  BY <1>1, PrivacyTypes DEF PrivacyInv, KeysKnown
<1>3. puts \in Nat
  BY PrivacyAssumption DEF PrivacyInv, PrivacyTypeOK
<1>4. KeysKnown'
  BY <1>1, <1>2, <1>3 DEF KeysKnown
<1>5. ErasedIsErased'
  BY <1>1 DEF PrivacyInv, ErasedIsErased
<1>6. RowsKept
  BY <1>1 DEF RowsKept
<1> QED
  BY <1>1, <1>4, <1>5, <1>6

LEMMA ClaimInv ==
  ASSUME PrivacyInv, NEW p \in Processors, ClaimNext(p)
  PROVE  PrivacyInv'
<1>1. UNCHANGED <<store, account, asking, puts, lost>> /\ processor[p].pc = "idle"
  BY DEF ClaimNext
<1>2. processor[p] = Free /\ processor[p].id = noID
  BY <1>1, WorkFacts, PrivacyTypes DEF WorkSound
<1>3. PICK i \in PrivacyIDs :
        /\ ClaimableRequest(i)
        /\ request' = [request EXCEPT ![i] =
              [request[i] EXCEPT !.status = "running", !.stale = FALSE, !.attempts = request[i].attempts + 1]]
        /\ processor' = [processor EXCEPT ![p] =
              [Free EXCEPT !.pc = IF request[i].kind = "export" THEN "read" ELSE "list",
                           !.id = i, !.attempts = request[i].attempts + 1]]
  BY DEF ClaimNext
<1>4. PICK e \in RequestRow : e = request[i]
  BY WorkFacts
<1>5. PICK n \in Nat : n = e.attempts + 1
  BY <1>4, PrivacyTypes
<1>6. PICK r : r = [e EXCEPT !.status = "running", !.stale = FALSE, !.attempts = n]
  OBVIOUS
<1>7. r \in RequestRow /\ r.kind = e.kind /\ r.key = e.key /\ r.status = "running"
  BY <1>4, <1>5, <1>6 DEF RequestRow
<1>8. request' = [request EXCEPT ![i] = r]
  BY <1>3, <1>4, <1>5, <1>6, WorkFacts
<1>9. e.kind \in {"export", "erase"}
  BY <1>3, <1>4 DEF ClaimableRequest, Open, RequestRow, Kinds
<1>10. PICK next : next = IF e.kind = "export" THEN "read" ELSE "list"
  OBVIOUS
<1>11. PICK f \in Work : f = Free /\ f.key = 0
  BY PrivacyTypes
<1>12. PICK d : d = [f EXCEPT !.pc = next, !.id = i, !.attempts = n]
  OBVIOUS
<1>13. d \in Work /\ d.pc = next /\ d.id = i /\ d.key = 0
  <2>1. next \in {"read", "list"} /\ i \in 0..MaxRequests
    BY <1>10, WorkFacts
  <2> QED
    BY <1>5, <1>11, <1>12, <2>1 DEF Work
<1>14. processor' = [processor EXCEPT ![p] = d]
  BY <1>3, <1>4, <1>5, <1>10, <1>11, <1>12
<1>15. overlapped' \in BOOLEAN /\ (~overlapped' => ~overlapped /\ \A q \in Processors \ {p} : processor[q].pc = "idle")
  <2>1. overlapped' = (overlapped \/ \E q \in Processors \ {p} : processor[q].pc # "idle")
    BY DEF ClaimNext
  <2>2. CASE overlapped \/ \E q \in Processors \ {p} : processor[q].pc # "idle"
    <3>1. overlapped' = TRUE
      BY <2>1, <2>2
    <3> QED
      BY <3>1
  <2>3. CASE ~(overlapped \/ \E q \in Processors \ {p} : processor[q].pc # "idle")
    <3>1. FALSE = (overlapped \/ \E q \in Processors \ {p} : processor[q].pc # "idle")
      BY <2>3
    <3>2. overlapped' = FALSE
      BY <2>1, <3>1
    <3> QED
      BY <2>3, <3>2
  <2> QED
    BY <2>2, <2>3
<1>16. e.key <= puts /\ \A o \in store : o[1] <= puts
  BY <1>4 DEF PrivacyInv, KeysKnown
<1>17. KeysKnown' /\ ErasedIsErased' /\ RowsKept /\ request' \in [PrivacyIDs -> RequestRow]
  <2>1. puts' = puts /\ puts' \in Nat /\ puts <= puts' /\ r.key <= puts' /\ account' \in {account, "erased"}
    BY <1>1, <1>7, <1>16, WorkFacts
  <2>2. r.kind = request[i].kind /\ r.status # "completed"
    BY <1>4, <1>7
  <2>3. \A o \in store' : o \in store \/ o[1] > puts
    BY <1>1
  <2>4. \A o \in store' : o[1] <= puts'
    BY <1>1, <1>16
  <2> QED
    BY <1>7, <1>8, <2>1, <2>2, <2>3, <2>4, RowChanges
<1>18. PrivacyTypeOK'
  BY <1>1, <1>13, <1>14, <1>15, <1>17 DEF PrivacyInv, PrivacyTypeOK
<1>19. WorkSound(d)'
  <2>1. request'[i].kind = e.kind
    BY <1>7, <1>8, WorkFacts
  <2>2. 0 <= puts'
    BY <1>1, WorkFacts
  <2> QED
    BY <1>9, <1>10, <1>13, <2>1, <2>2 DEF WorkSound
<1>20. WorkClean(d)'
  BY <1>10, <1>13 DEF WorkClean
<1>21. ~overlapped' => \A q \in Processors \ {p} : processor[q].id = noID
  <2>1. \A q \in Processors : processor[q].pc = "idle" => processor[q].id = noID
    BY WorkFacts, PrivacyTypes DEF WorkSound
  <2> QED
    BY <1>15, <2>1
<1>22. ~overlapped /\ account' = "erased" => Clean'
  <2>1. \A j \in PrivacyIDs : request'[j].key = request[j].key
    BY <1>4, <1>7, <1>8, WorkFacts
  <2> QED
    BY <1>1, <2>1 DEF PrivacyInv, AloneIsClean, Clean, PointsAt
<1> QED
  BY <1>13, <1>14, <1>15, <1>17, <1>18, <1>19, <1>20, <1>21, <1>22, ProcessorMoves

(* A processor settles its row and is free: Fail, CompleteExport or the    *)
(* transaction of an erasure.                                              *)
LEMMA SettlesInv ==
  ASSUME PrivacyInv, NEW p \in Processors, Finished(p), UNCHANGED <<store, asking, puts, lost, overlapped>>,
         processor[p].id \in PrivacyIDs,
         NEW r \in RequestRow, request' = [request EXCEPT ![processor[p].id] = r], r.key <= puts,
         r.kind = request[processor[p].id].kind, account' \in {account, "erased"},
         r.kind = "erase" /\ r.status = "completed" => account' = "erased" \/ request[processor[p].id].status = "completed",
         ~overlapped /\ account' = "erased" => <<r.key, TRUE>> \notin store /\ \A j \in PrivacyIDs \ {processor[p].id} : ~PointsAt(j)
  PROVE  PrivacyInv'
<1>1. PICK i \in PrivacyIDs : i = processor[p].id
  OBVIOUS
<1>2. \A o \in store : o[1] <= puts
  BY DEF PrivacyInv, KeysKnown
<1>3. KeysKnown' /\ ErasedIsErased' /\ RowsKept /\ request' \in [PrivacyIDs -> RequestRow]
  <2>1. puts' = puts /\ puts' \in Nat /\ puts <= puts' /\ r.key <= puts'
    BY WorkFacts
  <2>2. r.kind = request[i].kind /\ request' = [request EXCEPT ![i] = r]
    BY <1>1
  <2>3. r.kind = "erase" /\ r.status = "completed" => account' = "erased" \/ request[i].status = "completed"
    BY <1>1
  <2>4. \A o \in store' : o \in store \/ o[1] > puts
    OBVIOUS
  <2>5. \A o \in store' : o[1] <= puts'
    BY <1>2
  <2> QED
    BY <2>1, <2>2, <2>3, <2>4, <2>5, RowChanges
<1>4. Free \in Work /\ Free.id = noID /\ Free.pc = "idle" /\ processor' = [processor EXCEPT ![p] = Free]
  BY PrivacyTypes DEF Finished
<1>5. PrivacyTypeOK'
  BY <1>3, <1>4 DEF PrivacyInv, PrivacyTypeOK
<1>6. WorkSound(Free)'
  <2>1. WorkSound(Free)
    BY WorkFacts, FreeIsSound
  <2> QED
    BY <1>3, <1>4, <2>1, OthersSound
<1>7. WorkClean(Free)'
  BY <1>4 DEF WorkClean
<1>8. ~overlapped /\ account' = "erased" => Clean'
  <2>1. request'[i] = r /\ \A j \in PrivacyIDs \ {i} : request'[j] = request[j]
    BY <1>1, WorkFacts
  <2>2. SUFFICES ASSUME ~overlapped, account' = "erased", NEW j \in PrivacyIDs
                 PROVE  <<request'[j].key, TRUE>> \notin store'
    BY DEF Clean, PointsAt
  <2>3. <<r.key, TRUE>> \notin store /\ \A k \in PrivacyIDs \ {i} : <<request[k].key, TRUE>> \notin store
    BY <1>1, <2>2 DEF PointsAt
  <2>4. store' = store
    OBVIOUS
  <2>5. CASE j = i
    <3>1. request'[j].key = r.key
      BY <2>1, <2>5
    <3> QED
      BY <2>3, <2>4, <3>1
  <2>6. CASE j # i
    <3>1. request'[j].key = request[j].key
      BY <2>1, <2>6
    <3> QED
      BY <2>3, <2>4, <2>6, <3>1
  <2> QED
    BY <2>5, <2>6
<1>9. ~overlapped => \A q \in Processors \ {p} : processor[q].id = noID
  BY WorkFacts DEF PrivacyInv, AloneIsClean
<1> QED
  BY <1>3, <1>4, <1>5, <1>6, <1>7, <1>8, <1>9, ProcessorMoves

LEMMA FailInv ==
  ASSUME PrivacyInv, NEW p \in Processors, FailRequest(p)
  PROVE  PrivacyInv'
<1>1. /\ processor[p].pc = "fail" /\ Finished(p)
      /\ UNCHANGED <<store, account, asking, puts, lost, overlapped>>
  BY DEF FailRequest
<1>2. PICK i \in PrivacyIDs : i = processor[p].id
  BY <1>1, WorkFacts DEF WorkSound
<1>3. CASE request' = request
  <2>1. Free \in Work /\ Free.id = noID /\ WorkSound(Free) /\ WorkClean(Free)
    BY WorkFacts, PrivacyTypes, FreeIsSound
  <2>2. processor' = [processor EXCEPT ![p] = Free]
    BY <1>1 DEF Finished
  <2>3. lost' \in 0..MaxLost
    BY <1>1, WorkFacts
  <2>4. UNCHANGED <<request, store, account, asking, puts, overlapped>>
    BY <1>1, <1>3
  <2> QED
    BY <2>1, <2>2, <2>3, <2>4, OnlyProcessorMoves
<1>4. CASE request' # request
  <2>1. PICK next \in {"failed", "pending"} : request' = [request EXCEPT ![i].status = next]
    <3>1. PICK t : t = IF processor[p].attempts >= MaxTries THEN "failed" ELSE "pending"
      OBVIOUS
    <3>2. t \in {"failed", "pending"}
      BY <3>1
    <3>3. request' = [request EXCEPT ![i].status = t]
      BY <1>2, <1>4, <3>1 DEF FailRequest
    <3> QED
      BY <3>2, <3>3
  <2>2. PICK e \in RequestRow : e = request[i]
    BY WorkFacts
  <2>3. PICK r : r = [e EXCEPT !.status = next]
    OBVIOUS
  <2>4. r \in RequestRow /\ r.kind = e.kind /\ r.key = e.key /\ r.status # "completed"
    BY <2>1, <2>2, <2>3 DEF RequestRow
  <2>5. request' = [request EXCEPT ![i] = r]
    BY <2>1, <2>2, <2>3, WorkFacts
  <2>6. r.key <= puts
    BY <2>2, <2>4 DEF PrivacyInv, KeysKnown
  <2>7. ~overlapped /\ account' = "erased" => <<r.key, TRUE>> \notin store /\ \A j \in PrivacyIDs \ {i} : ~PointsAt(j)
    BY <1>1, <2>2, <2>4 DEF PrivacyInv, AloneIsClean, Clean, PointsAt
  <2>8. UNCHANGED <<store, asking, puts, lost, overlapped>> /\ account' \in {account, "erased"}
    BY <1>1
  <2>9. r.kind = request[i].kind
    BY <2>2, <2>4
  <2> QED
    BY <1>1, <1>2, <2>4, <2>5, <2>6, <2>7, <2>8, <2>9, SettlesInv
<1> QED
  BY <1>3, <1>4

LEMMA CompleteInv ==
  ASSUME PrivacyInv, NEW p \in Processors, CompleteExport(p)
  PROVE  PrivacyInv'
<1>1. /\ processor[p].pc = "complete" /\ Finished(p)
      /\ UNCHANGED <<store, account, asking, puts, lost, overlapped>>
  BY DEF CompleteExport
<1>2. PICK w \in Work : w = processor[p] /\ WorkSound(w) /\ (~overlapped => WorkClean(w))
  BY WorkFacts
<1>3. PICK i \in PrivacyIDs : i = w.id /\ request[i].kind = "export"
  BY <1>1, <1>2 DEF WorkSound
<1>4. PICK e \in RequestRow : e = request[i]
  BY WorkFacts
<1>5. PICK k \in 0..MaxPuts : k = w.key
  BY <1>2 DEF Work
<1>6. PICK r : r = [e EXCEPT !.status = "completed", !.key = k, !.expired = FALSE]
  OBVIOUS
<1>7. r \in RequestRow /\ r.kind = e.kind /\ r.key = k
  BY <1>4, <1>5, <1>6 DEF RequestRow
<1>8. request' = [request EXCEPT ![i] = r]
  BY <1>2, <1>3, <1>4, <1>5, <1>6 DEF CompleteExport
<1>9. r.key <= puts /\ r.kind = request[i].kind /\ r.kind # "erase"
  BY <1>2, <1>3, <1>4, <1>5, <1>7 DEF WorkSound
<1>10. ~overlapped /\ account' = "erased" => <<r.key, TRUE>> \notin store /\ \A j \in PrivacyIDs \ {i} : ~PointsAt(j)
  <2>1. SUFFICES ASSUME ~overlapped, account = "erased"
                 PROVE  <<r.key, TRUE>> \notin store /\ \A j \in PrivacyIDs \ {i} : ~PointsAt(j)
    BY <1>1
  <2>2. ~w.personal
    BY <1>1, <1>2, <2>1 DEF WorkClean
  <2>3. <<w.key, TRUE>> \notin store
    BY <1>1, <1>2, <2>2 DEF WorkSound
  <2>4. \A j \in PrivacyIDs \ {i} : ~PointsAt(j)
    BY <2>1 DEF PrivacyInv, AloneIsClean, Clean
  <2>5. r.key = w.key
    BY <1>5, <1>7
  <2> QED
    BY <2>3, <2>4, <2>5
<1>11. UNCHANGED <<store, asking, puts, lost, overlapped>> /\ account' \in {account, "erased"} /\ i = processor[p].id
  BY <1>1, <1>2, <1>3
<1> QED
  BY <1>1, <1>7, <1>8, <1>9, <1>10, <1>11, SettlesInv

LEMMA EraseInv ==
  ASSUME PrivacyInv, NEW p \in Processors, EraseAccount(p)
  PROVE  PrivacyInv'
<1>1. /\ processor[p].pc = "tx" /\ Finished(p) /\ account' = "erased"
      /\ UNCHANGED <<store, asking, puts, lost, overlapped>>
  BY DEF EraseAccount
<1>2. PICK w \in Work : w = processor[p] /\ WorkSound(w) /\ (~overlapped => WorkClean(w))
  BY WorkFacts
<1>3. PICK i \in PrivacyIDs : i = w.id
  BY <1>1, <1>2 DEF WorkSound
<1>4. PICK e \in RequestRow : e = request[i]
  BY WorkFacts
<1>5. PICK r : r = [e EXCEPT !.status = "completed", !.key = noKey]
  OBVIOUS
<1>6. r \in RequestRow /\ r.kind = e.kind /\ r.key = noKey
  <2>1. noKey \in 0..MaxPuts
    BY WorkFacts DEF noKey
  <2> QED
    BY <1>4, <1>5, <2>1 DEF RequestRow
<1>7. request' = [request EXCEPT ![i] = r]
  BY <1>2, <1>3, <1>4, <1>5 DEF EraseAccount
<1>8. r.key <= puts /\ r.kind = request[i].kind
  BY <1>4, <1>6, WorkFacts DEF noKey
<1>9. ~overlapped /\ account' = "erased" => <<r.key, TRUE>> \notin store /\ \A j \in PrivacyIDs \ {i} : ~PointsAt(j)
  <2>1. <<r.key, TRUE>> \notin store
    BY <1>6, WorkFacts DEF noKey
  <2>2. Left(w) = {} /\ w.id # noID
    BY <1>1, <1>2, <1>3, WorkFacts DEF Left
  <2>3. ~overlapped => \A j \in PrivacyIDs : ~PointsAt(j)
    BY <1>1, <1>2, <2>2 DEF WorkClean
  <2> QED
    BY <2>1, <2>3
<1>10. UNCHANGED <<store, asking, puts, lost, overlapped>> /\ account' \in {account, "erased"} /\ i = processor[p].id
  BY <1>1, <1>2, <1>3
<1> QED
  BY <1>1, <1>6, <1>7, <1>8, <1>9, <1>10, SettlesInv

LEMMA PutInv ==
  ASSUME PrivacyInv, NEW p \in Processors, PutArchive(p)
  PROVE  PrivacyInv'
<1>1. /\ processor[p].pc = "put" /\ puts < MaxPuts /\ puts' = puts + 1
      /\ UNCHANGED <<request, account, asking, lost, overlapped>>
  BY DEF PutArchive
<1>2. PICK w \in Work : w = processor[p] /\ WorkSound(w) /\ (~overlapped => WorkClean(w)) /\ w.personal \in BOOLEAN
  BY WorkFacts, PrivacyTypes
<1>3. PICK k \in 1..MaxPuts : k = puts + 1
  BY <1>1, WorkFacts
<1>4. store' = store \cup {<<k, w.personal>>}
  BY <1>2, <1>3 DEF PutArchive
<1>5. PICK d : d = [w EXCEPT !.pc = "complete", !.key = k]
  OBVIOUS
<1>6. d \in Work /\ d.pc = "complete" /\ d.key = k /\ d.id = w.id /\ d.personal = w.personal
  <2>1. k \in 0..MaxPuts
    BY <1>3, WorkFacts
  <2> QED
    BY <1>2, <1>5, <2>1 DEF Work
<1>7. processor' = [processor EXCEPT ![p] = d]
  BY <1>2, <1>3, <1>5, WorkFacts DEF PutArchive
<1>8. /\ \A i \in PrivacyIDs : request[i].key \in Nat /\ request[i].key <= puts
      /\ \A o \in store : o \in (1..MaxPuts) \X BOOLEAN /\ o[1] \in Nat /\ o[1] <= puts
  BY WorkFacts, PrivacyTypes DEF PrivacyInv, KeysKnown
<1>9. KeysKnown'
  <2>1. \A i \in PrivacyIDs : request'[i].key <= puts'
    BY <1>1, <1>8, WorkFacts
  <2>2. \A o \in store' : o[1] <= puts'
    BY <1>1, <1>3, <1>4, <1>8, WorkFacts
  <2> QED
    BY <2>1, <2>2 DEF KeysKnown
<1>10. ErasedIsErased'
  BY <1>1 DEF PrivacyInv, ErasedIsErased
<1>11. RowsKept
  <2>1. puts' \in Nat /\ puts <= puts'
    BY <1>1, WorkFacts
  <2>2. \A o \in store' : o \in store \/ o[1] > puts
    BY <1>3, <1>4, WorkFacts
  <2> QED
    BY <1>1, <2>1, <2>2 DEF RowsKept
<1>12. Quiet
  <2>1. ASSUME NEW i \in PrivacyIDs, <<request'[i].key, TRUE>> \in store' PROVE <<request[i].key, TRUE>> \in store
    <3>1. request'[i].key = request[i].key /\ request[i].key # k
      BY <1>1, <1>3, <1>8, WorkFacts
    <3> QED
      BY <1>4, <2>1, <3>1
  <2> QED
    BY <1>1, <2>1 DEF Quiet, PointsAt
<1>13. PrivacyTypeOK'
  <2>1. store' \subseteq (1..MaxPuts) \X BOOLEAN
    BY <1>2, <1>3, <1>4, <1>8
  <2>2. puts' \in 0..MaxPuts
    BY <1>1, WorkFacts
  <2> QED
    BY <1>1, <1>6, <1>7, <2>1, <2>2 DEF PrivacyInv, PrivacyTypeOK
<1>14. WorkSound(d)'
  <2>1. <<k, TRUE>> \notin store
    BY <1>3, <1>8, WorkFacts
  <2>2. <<d.key, TRUE>> \in store' => d.personal
    BY <1>4, <1>6, <2>1
  <2>3. d.id \in PrivacyIDs /\ request'[d.id].kind = "export"
    BY <1>1, <1>2, <1>6 DEF WorkSound
  <2>4. d.key <= puts'
    BY <1>1, <1>3, <1>6, WorkFacts
  <2> QED
    BY <1>6, <2>2, <2>3, <2>4 DEF WorkSound
<1>15. ~overlapped => WorkClean(d)'
  BY <1>1, <1>2, <1>6 DEF WorkClean
<1>16. ~overlapped /\ account' = "erased" => Clean'
  BY <1>12 DEF PrivacyInv, AloneIsClean, Clean, Quiet
<1> QED
  <2>1. d.id = processor[p].id
    BY <1>2, <1>6
  <2> QED
    BY <1>1, <1>6, <1>7, <1>9, <1>10, <1>11, <1>12, <1>13, <1>14, <1>15, <1>16, <2>1, ProcessorMoves

LEMMA DeleteInv ==
  ASSUME PrivacyInv, NEW p \in Processors, DeleteArchive(p)
  PROVE  PrivacyInv'
<1>1. /\ processor[p].pc = "delete" /\ Goto(p, "clear")
      /\ UNCHANGED <<request, account, asking, puts, lost, overlapped>>
  BY DEF DeleteArchive
<1>2. PICK w \in Work : w = processor[p] /\ WorkSound(w) /\ (~overlapped => WorkClean(w))
  BY WorkFacts
<1>3. PICK d : d = [w EXCEPT !.pc = "clear"]
  OBVIOUS
<1>4. d \in Work /\ d.pc = "clear" /\ d.key = w.key /\ d.id = w.id /\ d.todo = w.todo
  BY <1>2, <1>3 DEF Work
<1>5. processor' = [processor EXCEPT ![p] = d]
  BY <1>1, <1>2, <1>3, WorkFacts DEF Goto
<1>6. PICK k : k = w.todo[1][2]
  OBVIOUS
<1>7. store' = {o \in store : o[1] # k}
  BY <1>2, <1>6 DEF DeleteArchive
<1>8. store' \subseteq store
  BY <1>7
<1>9. KeysKnown' /\ ErasedIsErased'
  BY <1>1, <1>8 DEF PrivacyInv, KeysKnown, ErasedIsErased
<1>10. RowsKept
  BY <1>1, <1>8, WorkFacts DEF RowsKept
<1>11. Quiet
  BY <1>1, <1>8 DEF Quiet, PointsAt
<1>12. PrivacyTypeOK'
  <2>1. store' \subseteq (1..MaxPuts) \X BOOLEAN
    BY <1>8, WorkFacts
  <2> QED
    BY <1>1, <1>4, <1>5, <2>1 DEF PrivacyInv, PrivacyTypeOK
<1>13. WorkSound(d)
  BY <1>1, <1>2, <1>4 DEF WorkSound
<1>14. WorkSound(d)'
  BY <1>4, <1>10, <1>13, OthersSound
<1>15. ~overlapped => WorkClean(d)'
  <2>1. SUFFICES ASSUME ~overlapped, d.id # noID, NEW i \in PrivacyIDs, PointsAt(i)'
                 PROVE  <<i, request[i].key>> \in {w.todo[n] : n \in DOMAIN w.todo \ {1}}
    BY <1>1, <1>4 DEF WorkClean, Left
  <2>2. PointsAt(i) /\ request[i].key # k
    BY <1>1, <1>7, <2>1 DEF PointsAt
  <2>3. <<i, request[i].key>> \in {w.todo[n] : n \in DOMAIN w.todo}
    BY <1>1, <1>2, <1>4, <2>1, <2>2 DEF WorkClean, Left
  <2>4. PICK n \in DOMAIN w.todo : <<i, request[i].key>> = w.todo[n]
    BY <2>3
  <2>5. w.todo[n][2] = request[i].key
    BY <2>4
  <2>6. n # 1
    BY <1>6, <2>2, <2>5
  <2> QED
    BY <2>4, <2>6
<1>16. ~overlapped /\ account' = "erased" => Clean'
  BY <1>11 DEF PrivacyInv, AloneIsClean, Clean, Quiet
<1> QED
  <2>1. d.id = processor[p].id
    BY <1>2, <1>4
  <2> QED
    BY <1>1, <1>4, <1>5, <1>9, <1>10, <1>11, <1>12, <1>14, <1>15, <1>16, <2>1, ProcessorMoves

(* What is left to delete once the first archive of the list is gone.      *)
Listed(s) == {s[n] : n \in DOMAIN s}
AfterFirst(s) == {s[n] : n \in DOMAIN s \ {1}}

LEMMA TailLists ==
  ASSUME NEW S, NEW s \in Seq(S), s # <<>>, NEW rest, rest = Tail(s)
  PROVE  /\ rest \in Seq(S)
         /\ Listed(rest) = AfterFirst(s)
<1>1. Len(s) \in Nat \ {0} /\ DOMAIN s = 1..Len(s)
  OBVIOUS
<1>2. rest \in Seq(S) /\ Len(rest) = Len(s) - 1 /\ DOMAIN rest = 1..Len(s) - 1
  BY <1>1
<1>3. \A n \in 1..Len(s) - 1 : rest[n] = s[n + 1]
  BY <1>1
<1>4. ASSUME NEW x \in {rest[n] : n \in DOMAIN rest} PROVE x \in {s[n] : n \in DOMAIN s \ {1}}
  <2>1. PICK n \in 1..Len(s) - 1 : x = s[n + 1]
    BY <1>2, <1>3
  <2>2. n + 1 \in DOMAIN s \ {1}
    BY <1>1
  <2> QED
    BY <2>1, <2>2
<1>5. ASSUME NEW x \in {s[n] : n \in DOMAIN s \ {1}} PROVE x \in {rest[n] : n \in DOMAIN rest}
  <2>1. PICK n \in DOMAIN s \ {1} : x = s[n]
    OBVIOUS
  <2>2. n - 1 \in 1..Len(s) - 1 /\ n = (n - 1) + 1
    BY <1>1
  <2>3. x = rest[n - 1]
    BY <1>3, <2>1, <2>2
  <2> QED
    BY <1>2, <2>2, <2>3
<1> QED
  BY <1>2, <1>4, <1>5 DEF Listed, AfterFirst

LEMMA ClearInv ==
  ASSUME PrivacyInv, NEW p \in Processors, ClearArchive(p)
  PROVE  PrivacyInv'
<1>1. processor[p].pc = "clear" /\ UNCHANGED <<store, account, asking, puts, lost, overlapped>>
  BY DEF ClearArchive
<1>2. PICK w \in Work : w = processor[p] /\ WorkSound(w) /\ (~overlapped => WorkClean(w))
  BY WorkFacts
<1>3. w.todo \in Seq(PrivacyIDs \X (0..MaxPuts)) /\ w.todo # <<>>
  BY <1>1, <1>2, PrivacyTypes DEF WorkSound
<1>4. PICK i \in PrivacyIDs : i = w.todo[1][1]
  <2>1. w.todo[1] \in PrivacyIDs \X (0..MaxPuts)
    BY <1>3
  <2> QED
    BY <2>1
<1>4a. PICK rest : rest = Tail(w.todo)
  OBVIOUS
<1>5. /\ rest = Tail(w.todo) /\ rest \in Seq(PrivacyIDs \X (0..MaxPuts))
      /\ {rest[n] : n \in DOMAIN rest} = {w.todo[n] : n \in DOMAIN w.todo \ {1}}
  <2>1. PICK S : S = PrivacyIDs \X (0..MaxPuts)
    OBVIOUS
  <2>2. PICK all \in Seq(S) : all = w.todo /\ all # <<>>
    BY <1>3, <2>1
  <2>3. rest \in Seq(S) /\ Listed(rest) = AfterFirst(all)
    BY <1>4a, <2>2, TailLists
  <2>4. rest \in Seq(PrivacyIDs \X (0..MaxPuts))
    BY <2>1, <2>3
  <2>5. {rest[n] : n \in DOMAIN rest} = {w.todo[n] : n \in DOMAIN w.todo \ {1}}
    BY <2>2, <2>3, Zenon DEF Listed, AfterFirst
  <2> QED
    BY <1>4a, <2>4, <2>5
<1>6. PICK e \in RequestRow : e = request[i]
  BY WorkFacts
<1>7. PICK r : r = [e EXCEPT !.key = noKey]
  OBVIOUS
<1>8. r \in RequestRow /\ r.kind = e.kind /\ r.key = noKey /\ r.status = e.status
  <2>1. noKey \in 0..MaxPuts
    BY WorkFacts DEF noKey
  <2> QED
    BY <1>6, <1>7, <2>1 DEF RequestRow
<1>9. request' = [request EXCEPT ![i] = r]
  <2>1. request' = [request EXCEPT ![i].key = noKey]
    BY <1>2, <1>4 DEF ClearArchive
  <2> QED
    BY <1>6, <1>7, <2>1, WorkFacts
<1>10. request'[i] = r /\ \A j \in PrivacyIDs \ {i} : request'[j] = request[j]
  BY <1>9, WorkFacts
<1>11. KeysKnown' /\ ErasedIsErased' /\ RowsKept /\ request' \in [PrivacyIDs -> RequestRow]
  <2>1. puts' = puts /\ puts' \in Nat /\ puts <= puts' /\ r.key <= puts' /\ account' \in {account, "erased"}
    BY <1>1, <1>8, WorkFacts DEF noKey
  <2>2. r.kind = request[i].kind /\ r.status = request[i].status
    BY <1>6, <1>8
  <2>3. \A o \in store' : o \in store \/ o[1] > puts
    BY <1>1
  <2>4. \A o \in store' : o[1] <= puts'
    BY <1>1 DEF PrivacyInv, KeysKnown
  <2> QED
    BY <1>8, <1>9, <2>1, <2>2, <2>3, <2>4, RowChanges
<1>12. \A j \in PrivacyIDs : PointsAt(j)' => request'[j].key = request[j].key /\ PointsAt(j)
  <2>1. <<noKey, TRUE>> \notin store
    BY WorkFacts DEF noKey
  <2> QED
    BY <1>1, <1>8, <1>10, <2>1 DEF PointsAt
<1>13. Quiet
  BY <1>1, <1>12 DEF Quiet
<1>14. ~overlapped /\ account' = "erased" => Clean'
  BY <1>13 DEF PrivacyInv, AloneIsClean, Clean, Quiet
<1>15. ~overlapped /\ w.id # noID =>
         \A j \in PrivacyIDs : PointsAt(j)' => <<j, request'[j].key>> \in {rest[n] : n \in DOMAIN rest}
  <2>1. SUFFICES ASSUME ~overlapped, w.id # noID, NEW j \in PrivacyIDs, PointsAt(j)'
                 PROVE  <<j, request'[j].key>> \in {rest[n] : n \in DOMAIN rest}
    OBVIOUS
  <2>2. PointsAt(j) /\ request'[j].key = request[j].key
    BY <1>12, <2>1
  <2>3. <<j, request[j].key>> \in {w.todo[n] : n \in DOMAIN w.todo \ {1}}
    BY <1>1, <1>2, <2>1, <2>2 DEF WorkClean, Left
  <2> QED
    BY <1>5, <2>2, <2>3
<1>16. w.id # noID => w.id \in PrivacyIDs /\ request'[w.id].kind = "erase"
  <2>1. w.id # noID => w.id \in PrivacyIDs /\ request[w.id].kind = "erase"
    BY <1>1, <1>2 DEF WorkSound
  <2> QED
    BY <1>6, <1>8, <1>10, <2>1
<1>17. w.key <= puts'
  BY <1>1, <1>2 DEF WorkSound
<1>18. CASE rest # <<>>
  <2>1. PICK d : d = [w EXCEPT !.pc = "delete", !.todo = rest]
    OBVIOUS
  <2>2. d \in Work /\ d.pc = "delete" /\ d.todo = rest /\ d.id = w.id /\ d.key = w.key
    BY <1>2, <1>5, <2>1 DEF Work
  <2>3. processor' = [processor EXCEPT ![p] = d]
    BY <1>2, <1>5, <1>18, <2>1 DEF ClearArchive
  <2>4. PrivacyTypeOK'
    BY <1>1, <1>11, <2>2, <2>3 DEF PrivacyInv, PrivacyTypeOK
  <2>5. WorkSound(d)'
    BY <1>16, <1>17, <1>18, <2>2 DEF WorkSound
  <2>6. Left(d)' = {rest[n] : n \in DOMAIN rest}
    BY <2>2 DEF Left
  <2>7. ~overlapped => WorkClean(d)'
    BY <1>15, <2>2, <2>6 DEF WorkClean
  <2>8. d.id = processor[p].id
    BY <1>2, <2>2
  <2> QED
    BY <1>1, <1>11, <1>13, <1>14, <2>2, <2>3, <2>4, <2>5, <2>7, <2>8, ProcessorMoves
<1>19. CASE rest = <<>> /\ w.id = noID
  <2>1. Free \in Work /\ Free.id = noID /\ Free.pc = "idle"
    BY PrivacyTypes
  <2>2. processor' = [processor EXCEPT ![p] = Free]
    BY <1>2, <1>5, <1>19 DEF ClearArchive
  <2>3. PrivacyTypeOK'
    BY <1>1, <1>11, <2>1, <2>2 DEF PrivacyInv, PrivacyTypeOK
  <2>4. WorkSound(Free)'
    <3>1. WorkSound(Free)
      BY WorkFacts, FreeIsSound
    <3> QED
      BY <1>11, <2>1, <3>1, OthersSound
  <2>5. WorkClean(Free)'
    BY <2>1 DEF WorkClean
  <2> QED
    BY <1>1, <1>11, <1>13, <1>14, <2>1, <2>2, <2>3, <2>4, <2>5, ProcessorMoves
<1>20. CASE rest = <<>> /\ w.id # noID
  <2>1. PICK d : d = [w EXCEPT !.pc = "tx", !.todo = rest]
    OBVIOUS
  <2>2. d \in Work /\ d.pc = "tx" /\ d.id = w.id /\ d.key = w.key
    BY <1>2, <1>5, <1>20, <2>1 DEF Work
  <2>3. processor' = [processor EXCEPT ![p] = d]
    BY <1>2, <1>5, <1>20, <2>1 DEF ClearArchive
  <2>4. PrivacyTypeOK'
    BY <1>1, <1>11, <2>2, <2>3 DEF PrivacyInv, PrivacyTypeOK
  <2>5. WorkSound(d)'
    BY <1>16, <1>17, <1>20, <2>2 DEF WorkSound
  <2>6. ~overlapped => \A j \in PrivacyIDs : ~PointsAt(j)'
    <3>1. {rest[n] : n \in DOMAIN rest} = {}
      BY <1>20
    <3> QED
      BY <1>15, <1>20, <3>1
  <2>7. ~overlapped => WorkClean(d)'
    BY <2>2, <2>6 DEF WorkClean
  <2>8. d.id = processor[p].id
    BY <1>2, <2>2
  <2> QED
    BY <1>1, <1>11, <1>13, <1>14, <2>2, <2>3, <2>4, <2>5, <2>7, <2>8, ProcessorMoves
<1> QED
  BY <1>18, <1>19, <1>20

(* Requests, accounts and archives agree whatever processors die, slow     *)
(* down or fail: a completed erasure has anonymized the account and,       *)
(* unless two processors overlapped, left no archive with the user's data  *)
(* that a row points at (ProcessPending, erase, PurgeExpired).             *)
THEOREM ErasureLeavesNothing == PrivacySpec => []PrivacyInvariant
<1>1. PrivacyInit => PrivacyInv
  <2> SUFFICES ASSUME PrivacyInit PROVE PrivacyInv
    OBVIOUS
  <2>1. MaxPuts \in Nat /\ MaxLost \in Nat /\ MaxRequests \in Nat
    BY PrivacyAssumption
  <2>2. PrivacyTypeOK
    <3>1. request \in [PrivacyIDs -> RequestRow] /\ processor \in [Processors -> Work]
      BY PrivacyTypes DEF PrivacyInit
    <3>2. puts = 0 /\ lost = 0 /\ store = {} /\ account = "active"
      BY DEF PrivacyInit
    <3>3. asking \in [Askers -> Kinds \cup {"idle"}]
      BY DEF PrivacyInit
    <3>4. overlapped \in BOOLEAN
      BY Zenon DEF PrivacyInit
    <3>5. 0 \in 0..MaxPuts /\ 0 \in 0..MaxLost
      BY <2>1
    <3> QED
      BY <3>1, <3>2, <3>3, <3>4, <3>5 DEF PrivacyTypeOK
  <2>3. \A i \in PrivacyIDs : request[i].key = 0 /\ request[i].kind = "none"
    BY DEF PrivacyInit, NoRequest, noKey
  <2>4. KeysKnown /\ ErasedIsErased
    BY <2>3 DEF PrivacyInit, KeysKnown, ErasedIsErased
  <2>5. \A p \in Processors : processor[p] = Free
    BY DEF PrivacyInit
  <2>6. Free.id = noID /\ WorkSound(Free) /\ WorkClean(Free)
    BY PrivacyTypes, FreeIsSound DEF PrivacyInit
  <2>7. AloneIsClean
    BY <2>5, <2>6 DEF PrivacyInit, AloneIsClean
  <2> QED
    BY <2>2, <2>4, <2>5, <2>6, <2>7 DEF PrivacyInv
<1>2. PrivacyInv /\ [PrivacyNext]_privacyVars => PrivacyInv'
  <2> SUFFICES ASSUME PrivacyInv, [PrivacyNext]_privacyVars PROVE PrivacyInv'
    OBVIOUS
  <2>1. CASE \E a \in Askers : AskPrivacy(a) \/ CreateRequest(a)
    BY <2>1, AskingInv
  <2>2. ASSUME NEW p \in Processors, ProcessStep(p) \/ BeginPurge(p) \/ ProcessorDies(p) PROVE PrivacyInv'
    <3>1. CASE ListForErase(p)
      <4>1. processor[p].pc = "list" /\ ListArchives(p, AllArchives, "tx") /\ AllArchives \subseteq PrivacyIDs
        BY <3>1 DEF ListForErase, AllArchives
      <4> QED
        BY <4>1, ListInv
    <3>2. CASE BeginPurge(p)
      <4>1. /\ processor[p].pc = "idle" /\ ListArchives(p, ExpiredArchives, "idle")
            /\ ExpiredArchives \subseteq PrivacyIDs /\ ExpiredArchives # {}
        BY <3>2 DEF BeginPurge, ExpiredArchives
      <4> QED
        BY <4>1, ListInv
    <3> QED
      BY <2>2, <3>1, <3>2, ClaimInv, FailInv, PutInv, CompleteInv, DeleteInv, ClearInv, EraseInv, StopsInv
      DEF ProcessStep
  <2>3. CASE \E i \in PrivacyIDs : ArchiveExpires(i) \/ GoStale(i)
    BY <2>3, TimeInv
  <2>4. CASE UNCHANGED privacyVars
    <3>1. UNCHANGED <<request, store, account, asking, processor, puts, lost, overlapped>>
      BY <2>4 DEF privacyVars
    <3>2. PrivacyTypeOK' /\ KeysKnown' /\ ErasedIsErased'
      BY <3>1 DEF PrivacyInv, PrivacyTypeOK, KeysKnown, ErasedIsErased
    <3>3. puts \in Nat
      BY PrivacyAssumption DEF PrivacyInv, PrivacyTypeOK
    <3>4. RowsKept
      BY <3>1, <3>3 DEF RowsKept
    <3>5. Quiet
      BY <3>1 DEF Quiet, PointsAt
    <3> QED
      BY <3>1, <3>2, <3>4, <3>5, RowsMove
  <2> QED
    BY <2>1, <2>2, <2>3, <2>4 DEF PrivacyNext
<1>3. PrivacyInv => PrivacyInvariant
  BY DEF PrivacyInv, PrivacyInvariant, ErasureIsComplete, ErasedIsErased, AloneIsClean, Clean, PointsAt
<1> QED
  BY <1>1, <1>2, <1>3, PTL DEF PrivacySpec

-----------------------------------------------------------------------------
(* The live board.  SeriesIsExact needs that every event is in one place   *)
(* only (queued, in one batch, or counted), that no bucket is ahead of the *)
(* clock, and that a bucket which does not hold minute m of the window was *)
(* given no view for it.  Two minutes of the window never share a bucket.  *)

LiveKinds == {"view", "search", "other"}
Ring == [0..LiveMinutes - 1 -> MinuteBucket]
Known == UNION {[S -> 0..MaxMinute] : S \in SUBSET LiveSessions}
Active == [known : Known, capped : BOOLEAN]
Board == [ring : Ring, active : Active]
Counts == (1..MaxLiveEvents) \X LiveKinds \X (0..MaxMinute)

BoardTypes ==
  /\ minuteNow \in 0..MaxMinute /\ accepted \in 0..MaxLiveEvents
  /\ liveQueue \in Seq(LiveEvent) /\ liveTopic \subseteq Seq(LiveEvent)
  /\ minutes \in Ring /\ sessions \in Known /\ capped \in BOOLEAN
  /\ counted \subseteq Counts

Ids(q) == {q[i].id : i \in DOMAIN q}
Once(q) == \A i, j \in DOMAIN q : q[i].id = q[j].id => i = j
CountedIds == {c[1] : c \in counted}

EachInOnePlace ==
  /\ Once(liveQueue) /\ Ids(liveQueue) \subseteq 1..accepted
  /\ CountedIds \subseteq 1..accepted /\ Ids(liveQueue) \cap CountedIds = {}
  /\ \A b \in liveTopic : /\ Once(b) /\ Ids(b) \subseteq 1..accepted
                          /\ Ids(b) \cap Ids(liveQueue) = {} /\ Ids(b) \cap CountedIds = {}
  /\ \A b, c \in liveTopic : b # c => Ids(b) \cap Ids(c) = {}

ViewsOf(s, m) == {c \in s : c[2] = "view" /\ c[3] = m}
PointOf(ring, m) == IF ring[Bucket(m)].start = m THEN ring[Bucket(m)].views ELSE 0

RingExact(ring, s) ==
  /\ \A b \in 0..LiveMinutes - 1 : ring[b].start <= minuteNow
  /\ \A m \in 0..minuteNow : m >= Oldest => PointOf(ring, m) = Cardinality(ViewsOf(s, m))

CountOf(e) == <<e.id, e.kind, AtMost(e.at)>>

CountedInThePast == \A c \in counted : c[3] <= minuteNow

BoardInv == BoardTypes /\ EachInOnePlace /\ CountedInThePast /\ RingExact(minutes, counted)

(* The bounds are positive.                                                *)
LEMMA BoardBounds ==
  /\ LiveMinutes \in Nat \ {0} /\ MaxMinute \in Nat \ {0} /\ MaxLiveEvents \in Nat \ {0} /\ LiveMaxSessions \in Nat \ {0}
  /\ ActiveMinutes \in Nat \ {0} /\ LiveQueueSize \in Nat \ {0} /\ MaxDay \in Nat \ {0} /\ MaxSalts \in Nat \ {0}
  BY LiveBounds

(* The places of the ring.                                                 *)
LEMMA BucketInRing == ASSUME NEW m \in Nat PROVE Bucket(m) \in 0..LiveMinutes - 1
  BY BoardBounds DEF Bucket

(* The remainder is in terms of the quotient.                              *)
LEMMA ModIs ==
  ASSUME NEW m \in Nat, NEW n \in Nat \ {0}
  PROVE  \E q \in Int : m % n = m - n * q
<1>1. PICK q \in Int : q = m \div n
  OBVIOUS
<1>2. m % n = m - n * q
  BY <1>1
<1> QED
  BY <1>2

(* Two minutes of one window fall in different buckets.                    *)
LEMMA BucketsApart ==
  ASSUME NEW m \in Nat, NEW k \in Nat, Bucket(m) = Bucket(k), m - k < LiveMinutes, k - m < LiveMinutes
  PROVE  m = k
<1>1. PICK n \in Nat \ {0} : n = LiveMinutes
  BY BoardBounds
<1>2. PICK q \in Int : m % n = m - n * q
  BY ModIs
<1>3. PICK p \in Int : k % n = k - n * p
  BY ModIs
<1>4. PICK d \in Int : d = q - p
  OBVIOUS
<1>5. n * q - n * p = n * d
  BY <1>4
<1>6. m - k = n * d
  BY <1>1, <1>2, <1>3, <1>5 DEF Bucket
<1>7. d >= 1 => n * d >= n
  OBVIOUS
<1>8. d <= -1 => n * d <= -n
  OBVIOUS
<1>9. d = 0 => n * d = 0
  OBVIOUS
<1> QED
  BY <1>1, <1>6, <1>7, <1>8, <1>9

-----------------------------------------------------------------------------
(* Board.Add counts one event.                                             *)

LEMMA CountInBucket ==
  ASSUME BoardTypes, NEW ring \in Ring, NEW e \in LiveEvent
  PROVE  /\ CountIn(ring, e) \in Ring
         /\ AtMost(e.at) \in 0..minuteNow
         /\ \A m \in 0..minuteNow : Bucket(m) # Bucket(AtMost(e.at)) => PointOf(CountIn(ring, e), m) = PointOf(ring, m)
         /\ PointOf(CountIn(ring, e), AtMost(e.at)) = PointOf(ring, AtMost(e.at)) + (IF e.kind = "view" THEN 1 ELSE 0)
         /\ \A b \in 0..LiveMinutes - 1 : CountIn(ring, e)[b].start \in {ring[b].start, AtMost(e.at)}
         /\ e.kind \in {"view", "search"} => CountIn(ring, e)[Bucket(AtMost(e.at))].start = AtMost(e.at)
<1>1. PICK m : m = AtMost(e.at)
  OBVIOUS
<1>2. m \in 0..minuteNow /\ m \in Nat
  BY <1>1 DEF AtMost, BoardTypes, LiveEvent
<1>3. PICK k : k = Bucket(m) /\ k \in 0..LiveMinutes - 1
  BY <1>2, BucketInRing
<1>4. PICK old \in MinuteBucket : /\ old = BucketFor(ring, m) /\ old.start = m
                                  /\ old.views = (IF ring[k].start = m THEN ring[k].views ELSE 0)
  <2>1. ring[k] \in MinuteBucket
    BY <1>3 DEF Ring
  <2>2. [start |-> m, views |-> 0, searches |-> 0] \in MinuteBucket
    BY <1>2 DEF MinuteBucket
  <2>3. BucketFor(ring, m) = IF ring[k].start = m THEN ring[k] ELSE [start |-> m, views |-> 0, searches |-> 0]
    BY <1>3 DEF BucketFor
  <2> QED
    BY <2>1, <2>2, <2>3
<1>5. CASE e.kind = "view"
  <2>1. PICK new : new = [old EXCEPT !.views = old.views + 1]
    OBVIOUS
  <2>2. new \in MinuteBucket /\ new.start = m /\ new.views = old.views + 1
    BY <2>1, <1>4 DEF MinuteBucket
  <2>3. CountIn(ring, e) = [ring EXCEPT ![k] = new]
    BY <1>1, <1>3, <1>4, <1>5, <2>1 DEF CountIn
  <2>4. PICK next : next = [ring EXCEPT ![k] = new]
    OBVIOUS
  <2>5. next \in Ring /\ next[k] = new /\ \A b \in 0..LiveMinutes - 1 : b # k => next[b] = ring[b]
    BY <2>4, <2>2, <1>3 DEF Ring
  <2>6. PointOf(next, m) = PointOf(ring, m) + 1
    BY <2>5, <2>2, <1>3, <1>4 DEF PointOf
  <2>7. \A j \in 0..minuteNow : Bucket(j) # k => PointOf(next, j) = PointOf(ring, j)
    <3> SUFFICES ASSUME NEW j \in 0..minuteNow, Bucket(j) # k PROVE PointOf(next, j) = PointOf(ring, j)
      OBVIOUS
    <3>1. Bucket(j) \in 0..LiveMinutes - 1
      BY BucketInRing DEF BoardTypes
    <3> QED
      BY <3>1, <2>5 DEF PointOf
  <2> QED
    BY <1>1, <1>2, <1>3, <1>5, <2>2, <2>3, <2>4, <2>5, <2>6, <2>7
<1>6. CASE e.kind = "search"
  <2>1. PICK new : new = [old EXCEPT !.searches = old.searches + 1]
    OBVIOUS
  <2>2. new \in MinuteBucket /\ new.start = m /\ new.views = old.views
    BY <2>1, <1>4 DEF MinuteBucket
  <2>3. CountIn(ring, e) = [ring EXCEPT ![k] = new]
    BY <1>1, <1>3, <1>4, <1>6, <2>1 DEF CountIn
  <2>4. PICK next : next = [ring EXCEPT ![k] = new]
    OBVIOUS
  <2>5. next \in Ring /\ next[k] = new /\ \A b \in 0..LiveMinutes - 1 : b # k => next[b] = ring[b]
    BY <2>4, <2>2, <1>3 DEF Ring
  <2>6. PointOf(next, m) = PointOf(ring, m) /\ PointOf(ring, m) \in Nat
    BY <2>5, <2>2, <1>3, <1>4 DEF PointOf, MinuteBucket
  <2>7. \A j \in 0..minuteNow : Bucket(j) # k => PointOf(next, j) = PointOf(ring, j)
    <3> SUFFICES ASSUME NEW j \in 0..minuteNow, Bucket(j) # k PROVE PointOf(next, j) = PointOf(ring, j)
      OBVIOUS
    <3>1. Bucket(j) \in 0..LiveMinutes - 1
      BY BucketInRing DEF BoardTypes
    <3> QED
      BY <3>1, <2>5 DEF PointOf
  <2>8. PointOf(next, m) = PointOf(ring, m) + (IF e.kind = "view" THEN 1 ELSE 0)
    BY <1>6, <2>6
  <2> QED
    BY <1>1, <1>2, <1>3, <2>2, <2>3, <2>4, <2>5, <2>7, <2>8
<1>7. CASE e.kind \notin {"view", "search"}
  <2>1. CountIn(ring, e) = ring
    BY <1>7 DEF CountIn
  <2>2. PointOf(ring, m) \in Nat
    BY <1>3, <1>4 DEF PointOf, MinuteBucket
  <2> QED
    BY <1>1, <1>2, <1>7, <2>1, <2>2
<1> QED
  BY <1>5, <1>6, <1>7

(* Touching a session keeps the sessions well formed.                      *)
LEMMA TouchKeepsActive ==
  ASSUME BoardTypes, NEW acc \in Active, NEW e \in LiveEvent
  PROVE  Touch(acc, e) \in Active
<1>1. PICK m \in 0..MaxMinute : m = AtMost(e.at)
  BY BoardBounds DEF AtMost, BoardTypes, LiveEvent
<1>2. PICK S \in SUBSET LiveSessions : acc.known \in [S -> 0..MaxMinute]
  BY DEF Active, Known
<1>3. acc.capped \in BOOLEAN /\ acc = [known |-> acc.known, capped |-> acc.capped]
  BY DEF Active
<1>4. \A f, c : (\E Q \in SUBSET LiveSessions : f \in [Q -> 0..MaxMinute]) /\ c \in BOOLEAN => [known |-> f, capped |-> c] \in Active
  BY DEF Active, Known
<1>5. CASE e.session \in DOMAIN acc.known
  <2>1. PICK f : f = [acc.known EXCEPT ![e.session] = IF m > acc.known[e.session] THEN m ELSE acc.known[e.session]]
    OBVIOUS
  <2>2. f \in [S -> 0..MaxMinute]
    BY <1>1, <1>2, <1>5, <2>1
  <2>3. Touch(acc, e) = [known |-> f, capped |-> acc.capped]
    BY <1>1, <1>3, <1>5, <2>1 DEF Touch
  <2> QED
    BY <1>3, <1>4, <2>2, <2>3
<1>6. CASE e.session \notin DOMAIN acc.known /\ Cardinality(DOMAIN acc.known) >= LiveMaxSessions
  <2>1. Touch(acc, e) = [known |-> acc.known, capped |-> TRUE]
    BY <1>3, <1>6 DEF Touch
  <2> QED
    BY <1>2, <1>4, <2>1
<1>7. CASE e.session \notin DOMAIN acc.known /\ ~(Cardinality(DOMAIN acc.known) >= LiveMaxSessions)
  <2>1. PICK f : f = [s \in DOMAIN acc.known \cup {e.session} |-> IF s = e.session THEN m ELSE acc.known[s]]
    OBVIOUS
  <2>2. S \cup {e.session} \in SUBSET LiveSessions
    BY DEF LiveEvent
  <2>3. f \in [S \cup {e.session} -> 0..MaxMinute]
    BY <1>1, <1>2, <2>1
  <2>4. Touch(acc, e) = [known |-> f, capped |-> acc.capped]
    BY <1>1, <1>3, <1>7, <2>1 DEF Touch
  <2> QED
    BY <1>3, <1>4, <2>2, <2>3, <2>4
<1> QED
  BY <1>5, <1>6, <1>7

(* There are finitely many things to count.                                *)
LEMMA CountsFinite == IsFiniteSet(Counts)
<1>1. IsFiniteSet(LiveKinds)
  <2>1. LiveKinds = ({"view"} \cup {"search"}) \cup {"other"}
    BY DEF LiveKinds
  <2> QED
    BY <2>1, FS_Singleton, FS_Union
<1>2. IsFiniteSet(1..MaxLiveEvents) /\ IsFiniteSet(0..MaxMinute)
  BY BoardBounds, FS_Interval
<1>3. PICK I, K, M : /\ I = 1..MaxLiveEvents /\ K = LiveKinds /\ M = 0..MaxMinute
                     /\ IsFiniteSet(I) /\ IsFiniteSet(K) /\ IsFiniteSet(M)
  BY <1>1, <1>2
<1>4. IsFiniteSet((I \X K) \X M)
  BY <1>3, FS_Product
<1> DEFINE pairs == (I \X K) \X M
<1> DEFINE flat == [x \in pairs |-> <<x[1][1], x[1][2], x[2]>>]
<1>5. flat \in Surjection(pairs, Counts)
  <2>1. \A x \in pairs : flat[x] \in Counts
    BY <1>3 DEF Counts
  <2>2. ASSUME NEW c \in Counts PROVE \E x \in pairs : flat[x] = c
    <3>1. c = <<c[1], c[2], c[3]>> /\ c[1] \in I /\ c[2] \in K /\ c[3] \in M
      BY <1>3 DEF Counts
    <3>2. <<<<c[1], c[2]>>, c[3]>> \in pairs
      BY <3>1
    <3> QED
      BY <3>1, <3>2
  <2> QED
    BY <2>1, <2>2 DEF Surjection
<1> QED
  BY <1>4, <1>5, FS_Surjection

(* A new view is one more element of the views of its minute.              *)
LEMMA OneViewMore ==
  ASSUME NEW s \in SUBSET Counts, NEW c \in Counts, c \notin s, NEW m
  PROVE  Cardinality(ViewsOf(s \cup {c}, m)) = Cardinality(ViewsOf(s, m)) + (IF c[2] = "view" /\ c[3] = m THEN 1 ELSE 0)
<1>1. IsFiniteSet(ViewsOf(s, m)) /\ c \notin ViewsOf(s, m)
  <2>1. ViewsOf(s, m) \subseteq Counts /\ c \notin ViewsOf(s, m)
    BY DEF ViewsOf
  <2> QED
    BY <2>1, CountsFinite, FS_Subset
<1>2. Cardinality(ViewsOf(s, m)) \in Nat
  BY <1>1, FS_CardinalityType
<1>3. CASE c[2] = "view" /\ c[3] = m
  <2>1. ViewsOf(s \cup {c}, m) = ViewsOf(s, m) \cup {c}
    BY <1>3 DEF ViewsOf
  <2>2. Cardinality(ViewsOf(s, m) \cup {c}) = Cardinality(ViewsOf(s, m)) + 1
    BY <1>1, FS_AddElement
  <2> QED
    BY <1>3, <2>1, <2>2
<1>4. CASE ~(c[2] = "view" /\ c[3] = m)
  <2>1. ViewsOf(s \cup {c}, m) = ViewsOf(s, m)
    BY <1>4 DEF ViewsOf
  <2> QED
    BY <1>2, <1>4, <2>1
<1> QED
  BY <1>3, <1>4

(* One event within the window adds one view to the point of its minute    *)
(* and to no other; one outside adds nothing.                              *)
LEMMA AddEventCounts ==
  ASSUME BoardTypes, NEW board \in Board, NEW e \in LiveEvent, NEW s \in SUBSET Counts,
         RingExact(board.ring, s), \A c \in s : c[1] # e.id
  PROVE  /\ AddEvent(board, e) \in Board
         /\ RingExact(AddEvent(board, e).ring, IF InWindow(e) THEN s \cup {CountOf(e)} ELSE s)
<1>1. CASE ~InWindow(e)
  BY <1>1 DEF AddEvent
<1>2. CASE InWindow(e)
  <2>1. PICK ring \in Ring : ring = CountIn(board.ring, e)
    BY CountInBucket DEF Board
  <2>2. PICK act \in Active : act = Touch(board.active, e)
    BY TouchKeepsActive DEF Board
  <2>3. AddEvent(board, e) = [ring |-> ring, active |-> act]
    BY <1>2, <2>1, <2>2 DEF AddEvent
  <2>4. AddEvent(board, e) \in Board /\ AddEvent(board, e).ring = ring
    BY <2>3 DEF Board
  <2>5. PICK m : m = AtMost(e.at) /\ m \in 0..minuteNow /\ m >= Oldest
    BY <1>2, CountInBucket DEF InWindow, Board
  <2>6. PICK c \in Counts : c = CountOf(e) /\ c[1] = e.id /\ c[2] = e.kind /\ c[3] = m
    <3>1. CountOf(e) = <<e.id, e.kind, m>>
      BY <2>5 DEF CountOf
    <3>2. e.id \in 1..MaxLiveEvents /\ e.kind \in LiveKinds /\ m \in 0..MaxMinute
      BY <2>5, BoardBounds DEF LiveEvent, LiveKinds, BoardTypes
    <3> QED
      BY <3>1, <3>2 DEF Counts
  <2>7. c \notin s
    BY <2>6
  <2>8. ASSUME NEW b \in 0..LiveMinutes - 1 PROVE ring[b].start <= minuteNow
    <3>1. ring[b].start \in {board.ring[b].start, m}
      BY <2>1, <2>5, CountInBucket DEF Board
    <3> QED
      BY <3>1, <2>5 DEF RingExact, BoardTypes
  <2>9. ASSUME NEW j \in 0..minuteNow, j >= Oldest
        PROVE  PointOf(ring, j) = Cardinality(ViewsOf(s \cup {c}, j))
    <3>1. Cardinality(ViewsOf(s \cup {c}, j)) = Cardinality(ViewsOf(s, j)) + (IF e.kind = "view" /\ m = j THEN 1 ELSE 0)
      BY <2>6, <2>7, OneViewMore
    <3>2. PointOf(board.ring, j) = Cardinality(ViewsOf(s, j))
      BY <2>9 DEF RingExact
    <3>3. CASE j = m
      <4>1. PointOf(ring, m) = PointOf(board.ring, m) + (IF e.kind = "view" THEN 1 ELSE 0)
        BY <2>1, <2>5, CountInBucket DEF Board
      <4> QED
        BY <3>1, <3>2, <3>3, <4>1
    <3>4. CASE j # m
      <4>1. j \in Nat /\ m \in Nat /\ j - m < LiveMinutes /\ m - j < LiveMinutes
        BY <2>5, <2>9, BoardBounds DEF Oldest, BoardTypes
      <4>2. Bucket(j) # Bucket(m)
        BY <4>1, <3>4, BucketsApart
      <4>3. PointOf(ring, j) = PointOf(board.ring, j)
        BY <2>1, <2>5, <4>2, CountInBucket DEF Board
      <4>4. Cardinality(ViewsOf(s, j)) \in Nat
        <5>1. ViewsOf(s, j) \subseteq Counts
          BY DEF ViewsOf
        <5> QED
          BY <5>1, CountsFinite, FS_Subset, FS_CardinalityType
      <4> QED
        BY <3>1, <3>2, <3>4, <4>3, <4>4
    <3> QED
      BY <3>3, <3>4
  <2>10. RingExact(ring, s \cup {c})
    BY <2>8, <2>9 DEF RingExact
  <2> QED
    BY <1>2, <2>4, <2>6, <2>10
<1> QED
  BY <1>1, <1>2

Added == INSTANCE SequenceFolds WITH op <- AddEvent

Seen(batch, n) == counted \cup {CountOf(batch[i]) : i \in {j \in 1..n : InWindow(batch[j])}}

(* Board.Add over a batch counts, in any order of its events, the views of *)
(* those within the window.                                                *)
LEMMA BatchCounts ==
  ASSUME BoardInv, NEW batch \in liveTopic, NEW board \in Board, board.ring = minutes
  PROVE  /\ FoldLeft(AddEvent, board, batch) \in Board
         /\ RingExact(FoldLeft(AddEvent, board, batch).ring, Seen(batch, Len(batch)))
         /\ Seen(batch, Len(batch)) \subseteq Counts
<1>1. batch \in Seq(LiveEvent) /\ Len(batch) \in Nat /\ DOMAIN batch = 1..Len(batch)
  BY DEF BoardInv, BoardTypes
<1>2. BoardTypes
  BY DEF BoardInv
<1>3. ASSUME NEW n \in 0..Len(batch) PROVE Seen(batch, n) \in SUBSET Counts
  <2>1. ASSUME NEW i \in 1..n PROVE CountOf(batch[i]) \in Counts
    <3>1. PICK e \in LiveEvent : e = batch[i]
      BY <1>1
    <3>2. AtMost(e.at) \in 0..MaxMinute
      BY <1>2, BoardBounds DEF AtMost, BoardTypes, LiveEvent
    <3>3. e.id \in 1..MaxLiveEvents /\ e.kind \in LiveKinds
      BY DEF LiveEvent, LiveKinds
    <3> QED
      BY <3>1, <3>2, <3>3 DEF CountOf, Counts
  <2> QED
    BY <2>1, <1>2 DEF Seen, BoardTypes
<1>4. ASSUME NEW n \in 1..Len(batch)
      PROVE  /\ \A c \in Seen(batch, n - 1) : c[1] # batch[n].id
             /\ Seen(batch, n) = IF InWindow(batch[n]) THEN Seen(batch, n - 1) \cup {CountOf(batch[n])} ELSE Seen(batch, n - 1)
  <2>1. \A c \in counted : c[1] # batch[n].id
    BY <1>1 DEF BoardInv, EachInOnePlace, Ids, CountedIds
  <2>2. \A i \in 1..(n - 1) : CountOf(batch[i])[1] # batch[n].id
    BY <1>1 DEF BoardInv, EachInOnePlace, Once, CountOf
  <2>3. 1..n = (1..(n - 1)) \cup {n} /\ n \notin 1..(n - 1)
    BY <1>1
  <2>4. Seen(batch, n) = IF InWindow(batch[n]) THEN Seen(batch, n - 1) \cup {CountOf(batch[n])} ELSE Seen(batch, n - 1)
    BY <2>3 DEF Seen
  <2> QED
    BY <2>1, <2>2, <2>4 DEF Seen
<1> DEFINE held == [n \in 0..Len(batch) |-> {b \in Board : RingExact(b.ring, Seen(batch, n))}]
<1>5. board \in held[0]
  <2>1. Seen(batch, 0) = counted
    BY DEF Seen
  <2> QED
    BY <1>1, <2>1 DEF BoardInv
<1>6. ASSUME NEW n \in 1..Len(batch), NEW b \in held[n - 1] PROVE AddEvent(b, batch[n]) \in held[n]
  <2>1. n - 1 \in 0..Len(batch) /\ n \in 0..Len(batch)
    BY <1>1
  <2>2. b \in Board /\ RingExact(b.ring, Seen(batch, n - 1))
    BY <2>1, <1>6
  <2>3. batch[n] \in LiveEvent /\ Seen(batch, n - 1) \in SUBSET Counts
    BY <1>1, <1>3, <2>1
  <2>4. AddEvent(b, batch[n]) \in Board /\ RingExact(AddEvent(b, batch[n]).ring, Seen(batch, n))
    BY <1>2, <1>4, <2>2, <2>3, AddEventCounts
  <2> QED
    BY <2>1, <2>4
<1>7. FoldLeft(AddEvent, board, batch) = Added!FoldOf(board, batch)
  BY DEF Added!FoldOf, Added!FoldLeft, FoldLeft, Added!MapThenFoldSet, MapThenFoldSet, Added!Max, Max
<1>8. Added!FoldOf(board, batch) \in held[Len(batch)]
  <2> HIDE DEF held
  <2> QED
    BY <1>1, <1>5, <1>6, Added!FoldRule
<1>9. Len(batch) \in 0..Len(batch)
  BY <1>1
<1> QED
  BY <1>3, <1>7, <1>8, <1>9

-----------------------------------------------------------------------------
(* Steps of the board.                                                     *)

LEMMA BoardInitInv == LiveInit => BoardInv
<1> SUFFICES ASSUME LiveInit PROVE BoardInv
  OBVIOUS
<1>1. BoardTypes
  <2>1. minutes \in Ring
    BY DEF LiveInit, Ring, MinuteBucket
  <2>2. <<>> \in [{} -> 0..MaxMinute]
    OBVIOUS
  <2>3. sessions \in Known
    BY <2>2 DEF LiveInit, Known
  <2>4. liveQueue \in Seq(LiveEvent)
    BY DEF LiveInit
  <2>5. \A b \in liveTopic : b \in Seq(LiveEvent)
    BY DEF LiveInit
  <2>6. accepted \in 0..MaxLiveEvents /\ minuteNow \in 0..MaxMinute
    BY BoardBounds DEF LiveInit
  <2>7. capped \in BOOLEAN /\ counted = {}
    BY DEF LiveInit
  <2> QED
    BY <2>1, <2>3, <2>4, <2>5, <2>6, <2>7 DEF BoardTypes
<1>2. EachInOnePlace
  BY DEF LiveInit, EachInOnePlace, Once, Ids, CountedIds
<1>3. RingExact(minutes, counted)
  <2>1. ASSUME NEW m \in 0..minuteNow PROVE PointOf(minutes, m) = Cardinality(ViewsOf(counted, m))
    <3>1. m = 0 /\ Bucket(m) \in 0..LiveMinutes - 1
      BY BucketInRing DEF LiveInit
    <3>2. minutes[Bucket(m)].start = -1
      BY <3>1 DEF LiveInit
    <3>3. ViewsOf(counted, m) = {}
      BY DEF LiveInit, ViewsOf
    <3> QED
      BY <3>1, <3>2, <3>3, FS_EmptySet DEF PointOf
  <2>2. \A b \in 0..LiveMinutes - 1 : minutes[b].start <= minuteNow
    BY DEF LiveInit
  <2> QED
    BY <2>1, <2>2 DEF RingExact
<1> QED
  BY <1>1, <1>2, <1>3 DEF LiveInit, BoardInv, CountedInThePast

(* A published event has a fresh number.                                   *)
LEMMA PublishKeeps == ASSUME BoardInv, PublishLive PROVE BoardInv'
<1> USE BoardBounds
<1>1. PICK e : /\ e \in LiveEvent /\ e.id = accepted + 1
               /\ liveQueue' = IF Len(liveQueue) < LiveQueueSize THEN Append(liveQueue, e) ELSE liveQueue
  <2>1. PICK kind \in {"view", "search", "other"}, session \in LiveSessions, skew \in 0..1 :
           liveQueue' = IF Len(liveQueue) < LiveQueueSize
                        THEN Append(liveQueue, [id |-> accepted + 1, kind |-> kind, at |-> minuteNow + skew, session |-> session])
                        ELSE liveQueue
    BY DEF PublishLive
  <2>2. PICK e : e = [id |-> accepted + 1, kind |-> kind, at |-> minuteNow + skew, session |-> session]
    OBVIOUS
  <2>3. accepted + 1 \in 1..MaxLiveEvents /\ minuteNow + skew \in 0..MaxMinute + 1
    BY DEF BoardInv, BoardTypes, PublishLive
  <2>4. e \in LiveEvent /\ e.id = accepted + 1
    BY <2>2, <2>3 DEF LiveEvent
  <2> QED
    BY <2>1, <2>2, <2>4
<1>2. /\ accepted' = accepted + 1 /\ accepted + 1 \in 0..MaxLiveEvents
      /\ UNCHANGED <<minuteNow, liveTopic, minutes, sessions, capped, counted>>
  BY DEF PublishLive, BoardInv, BoardTypes
<1>3. PICK q : q = liveQueue /\ q \in Seq(LiveEvent)
  BY DEF BoardInv, BoardTypes
<1>4. PICK p : p = liveQueue' /\ (p = Append(q, e) \/ p = q)
  BY <1>1, <1>3
<1>5. p \in Seq(LiveEvent) /\ Once(p) /\ Ids(p) \subseteq Ids(q) \cup {accepted + 1}
  <2>1. CASE p = q
    BY <2>1, <1>3 DEF BoardInv, EachInOnePlace
  <2>2. CASE p = Append(q, e)
    <3>1. p \in Seq(LiveEvent) /\ DOMAIN p = 1..Len(q) + 1 /\ DOMAIN q = 1..Len(q) /\ Len(q) \in Nat
      BY <2>2, <1>1, <1>3
    <3>2. p[Len(q) + 1] = e /\ \A i \in 1..Len(q) : p[i] = q[i]
      BY <2>2, <1>3
    <3>3. \A i \in 1..Len(q) : q[i].id \in 1..accepted
      BY <1>3, <3>1 DEF BoardInv, EachInOnePlace, Ids
    <3>4. \A i, j \in 1..Len(q) : q[i].id = q[j].id => i = j
      BY <1>3, <3>1 DEF BoardInv, EachInOnePlace, Once
    <3>5. accepted + 1 \notin 1..accepted
      BY DEF BoardInv, BoardTypes
    <3>6. Once(p)
      <4> SUFFICES ASSUME NEW i \in DOMAIN p, NEW j \in DOMAIN p, p[i].id = p[j].id PROVE i = j
        BY DEF Once
      <4>1. (i \in 1..Len(q) \/ i = Len(q) + 1) /\ (j \in 1..Len(q) \/ j = Len(q) + 1)
        BY <3>1
      <4> QED
        BY <4>1, <3>2, <3>3, <3>4, <3>5, <1>1
    <3>7. Ids(p) \subseteq Ids(q) \cup {accepted + 1}
      <4> SUFFICES ASSUME NEW i \in DOMAIN p PROVE p[i].id \in Ids(q) \cup {accepted + 1}
        BY DEF Ids
      <4>1. i \in 1..Len(q) \/ i = Len(q) + 1
        BY <3>1
      <4> QED
        BY <4>1, <3>1, <3>2, <1>1 DEF Ids
    <3> QED
      BY <3>1, <3>6, <3>7
  <2> QED
    BY <1>4, <2>1, <2>2
<1>6. BoardTypes'
  BY <1>2, <1>4, <1>5 DEF BoardInv, BoardTypes
<1>7. EachInOnePlace'
  <2>1. accepted \in Nat /\ accepted + 1 \notin 1..accepted /\ 1..accepted \cup {accepted + 1} = 1..(accepted + 1)
    BY DEF BoardInv, BoardTypes
  <2>2. Ids(q) \subseteq 1..accepted /\ CountedIds \subseteq 1..accepted /\ Ids(q) \cap CountedIds = {}
    BY <1>3 DEF BoardInv, EachInOnePlace
  <2>3. ASSUME NEW b \in liveTopic PROVE Once(b) /\ Ids(b) \subseteq 1..accepted /\ Ids(b) \cap Ids(q) = {} /\ Ids(b) \cap CountedIds = {}
    BY <1>3 DEF BoardInv, EachInOnePlace
  <2>4. \A b, c \in liveTopic : b # c => Ids(b) \cap Ids(c) = {}
    BY DEF BoardInv, EachInOnePlace
  <2>5. CountedIds' = CountedIds /\ liveTopic' = liveTopic /\ accepted' = accepted + 1 /\ liveQueue' = p
    BY <1>2, <1>4 DEF CountedIds
  <2>6. Once(p) /\ Ids(p) \subseteq 1..(accepted + 1) /\ Ids(p) \cap CountedIds = {}
    BY <1>5, <2>1, <2>2
  <2>7. \A b \in liveTopic : Once(b) /\ Ids(b) \subseteq 1..(accepted + 1) /\ Ids(b) \cap Ids(p) = {} /\ Ids(b) \cap CountedIds = {}
    BY <1>5, <2>1, <2>3
  <2>8. CountedIds \subseteq 1..(accepted + 1)
    BY <2>1, <2>2
  <2> QED
    BY <2>4, <2>5, <2>6, <2>7, <2>8 DEF EachInOnePlace
<1>8. (CountedInThePast /\ RingExact(minutes, counted))'
  BY <1>2 DEF BoardInv, CountedInThePast, RingExact, Oldest
<1> QED
  BY <1>6, <1>7, <1>8 DEF BoardInv

(* The queue becomes a batch, or is lost.                                  *)
LEMMA FlushKeeps == ASSUME BoardInv, FlushLive PROVE BoardInv'
<1>1. /\ liveQueue' = <<>> /\ liveTopic' \in {liveTopic, liveTopic \cup {liveQueue}}
      /\ UNCHANGED <<minuteNow, accepted, minutes, sessions, capped, counted>>
  BY DEF FlushLive
<1>2. BoardTypes'
  BY <1>1 DEF BoardInv, BoardTypes
<1>3. EachInOnePlace'
  <2>1. Ids(<<>>) = {} /\ Once(<<>>)
    BY DEF Ids, Once
  <2>2. CountedIds' = CountedIds
    BY <1>1 DEF CountedIds
  <2>3. \A b \in liveTopic' : Once(b) /\ Ids(b) \subseteq 1..accepted /\ Ids(b) \cap CountedIds = {}
    BY <1>1 DEF BoardInv, EachInOnePlace
  <2>4. \A b, c \in liveTopic' : b # c => Ids(b) \cap Ids(c) = {}
    BY <1>1 DEF BoardInv, EachInOnePlace
  <2>5. CountedIds \subseteq 1..accepted
    BY DEF BoardInv, EachInOnePlace
  <2> QED
    BY <1>1, <2>1, <2>2, <2>3, <2>4, <2>5 DEF EachInOnePlace
<1>4. (CountedInThePast /\ RingExact(minutes, counted))'
  BY <1>1 DEF BoardInv, CountedInThePast, RingExact, Oldest
<1> QED
  BY <1>2, <1>3, <1>4 DEF BoardInv

(* Pruning keeps sessions that were tracked.                               *)
LEMMA PrunedIsActive == ASSUME NEW acc \in Active PROVE Pruned(acc).known \in Known /\ Pruned(acc).capped \in BOOLEAN
<1>1. PICK S \in SUBSET LiveSessions : acc.known \in [S -> 0..MaxMinute]
  BY DEF Active, Known
<1>2. PICK T : T = {s \in DOMAIN acc.known : acc.known[s] >= minuteNow - ActiveMinutes}
  OBVIOUS
<1>3. [s \in T |-> acc.known[s]] \in [T -> 0..MaxMinute] /\ T \in SUBSET LiveSessions
  BY <1>1, <1>2
<1>4. Pruned(acc) = [known |-> [s \in T |-> acc.known[s]], capped |-> acc.capped /\ Cardinality(T) >= LiveMaxSessions]
  BY <1>2 DEF Pruned
<1> QED
  BY <1>3, <1>4 DEF Known, Active

(* Pruning touches the sessions only.                                      *)
LEMMA SnapshotKeeps == ASSUME BoardInv, SnapshotPrunes PROVE BoardInv'
<1>1. PICK acc \in Active : acc = [known |-> sessions, capped |-> capped]
  BY DEF BoardInv, BoardTypes, Active
<1>2. /\ sessions' = Pruned(acc).known /\ capped' = Pruned(acc).capped
      /\ UNCHANGED <<minuteNow, liveQueue, liveTopic, accepted, minutes, counted>>
  BY <1>1 DEF SnapshotPrunes
<1>3. BoardTypes'
  BY <1>2, PrunedIsActive DEF BoardInv, BoardTypes
<1> QED
  BY <1>2, <1>3 DEF BoardInv, EachInOnePlace, CountedIds, CountedInThePast, RingExact, Oldest

(* A new minute of the window has no view yet: its bucket holds an older   *)
(* one.                                                                    *)
LEMMA MinuteKeeps == ASSUME BoardInv, MinutePasses PROVE BoardInv'
<1>1. /\ minuteNow < MaxMinute /\ minuteNow' = minuteNow + 1
      /\ UNCHANGED <<liveQueue, liveTopic, accepted, minutes, sessions, capped, counted>>
  BY DEF MinutePasses
<1>2. PICK now \in Nat : now = minuteNow /\ now + 1 \in 0..MaxMinute
  BY <1>1, BoardBounds DEF BoardInv, BoardTypes
<1>3. BoardTypes'
  BY <1>1, <1>2 DEF BoardInv, BoardTypes
<1>4. EachInOnePlace'
  BY <1>1 DEF BoardInv, EachInOnePlace, CountedIds
<1>5. CountedInThePast'
  <2>1. \A c \in counted : c[3] \in Int /\ c[3] <= now
    BY <1>2 DEF BoardInv, CountedInThePast, BoardTypes, Counts
  <2> QED
    BY <2>1, <1>1, <1>2 DEF CountedInThePast
<1>6. \A b \in 0..LiveMinutes - 1 : minutes[b].start \in Int /\ minutes[b].start <= now
  BY <1>2 DEF BoardInv, BoardTypes, RingExact, Ring, MinuteBucket
<1>7. ASSUME NEW m \in 0..(now + 1), m >= (now + 1) - (LiveMinutes - 1)
      PROVE  PointOf(minutes, m) = Cardinality(ViewsOf(counted, m))
  <2>1. CASE m <= now
    <3>1. m \in 0..minuteNow /\ m >= Oldest
      BY <2>1, <1>2, <1>7, BoardBounds DEF Oldest
    <3> QED
      BY <3>1 DEF BoardInv, RingExact
  <2>2. CASE m = now + 1
    <3>1. Bucket(m) \in 0..LiveMinutes - 1
      BY BucketInRing
    <3>2. PointOf(minutes, m) = 0
      BY <3>1, <1>6, <2>2 DEF PointOf
    <3>3. ViewsOf(counted, m) = {}
      <4>1. \A c \in counted : c[3] \in Int /\ c[3] <= now
        BY <1>2 DEF BoardInv, CountedInThePast, BoardTypes, Counts
      <4> QED
        BY <4>1, <2>2 DEF ViewsOf
    <3> QED
      BY <3>2, <3>3, FS_EmptySet
  <2> QED
    BY <2>1, <2>2, <1>2
<1>8. RingExact(minutes, counted)'
  BY <1>1, <1>2, <1>6, <1>7 DEF RingExact, Oldest
<1> QED
  BY <1>3, <1>4, <1>5, <1>8 DEF BoardInv

(* A received batch is counted once: its events were in no other place.    *)
LEMMA ReceiveKeeps == ASSUME BoardInv, NEW batch \in liveTopic, ReceiveBatch(batch) PROVE BoardInv'
<1>1. PICK acc \in Active : acc = [known |-> sessions, capped |-> capped]
  BY DEF BoardInv, BoardTypes, Active
<1>2. PICK start \in Board : start = [ring |-> minutes, active |-> acc]
  BY DEF BoardInv, BoardTypes, Board
<1>3. PICK end : end = FoldLeft(AddEvent, start, batch)
  OBVIOUS
<1>4. end \in Board /\ RingExact(end.ring, Seen(batch, Len(batch))) /\ Seen(batch, Len(batch)) \subseteq Counts
  BY <1>2, <1>3, BatchCounts
<1>5. /\ liveTopic' = liveTopic \ {batch} /\ minutes' = end.ring
      /\ \E a \in {end.active, Pruned(end.active)} : sessions' = a.known /\ capped' = a.capped
      /\ counted' = counted \cup {CountOf(e) : e \in {f \in ToSet(batch) : InWindow(f)}}
      /\ UNCHANGED <<minuteNow, liveQueue, accepted>>
  BY <1>1, <1>2, <1>3 DEF ReceiveBatch, CountOf
<1>6. counted' = Seen(batch, Len(batch))
  <2>1. DOMAIN batch = 1..Len(batch)
    BY DEF BoardInv, BoardTypes
  <2>2. {CountOf(e) : e \in {f \in ToSet(batch) : InWindow(f)}} = {CountOf(batch[i]) : i \in {j \in 1..Len(batch) : InWindow(batch[j])}}
    BY <2>1 DEF ToSet
  <2> QED
    BY <1>5, <2>2 DEF Seen
<1>7. BoardTypes'
  <2>1. sessions' \in Known /\ capped' \in BOOLEAN
    <3>1. end.active \in Active
      BY <1>4 DEF Board
    <3>2. end.active.known \in Known /\ end.active.capped \in BOOLEAN
      BY <3>1 DEF Active
    <3> QED
      BY <1>5, <3>1, <3>2, PrunedIsActive
  <2>2. minutes' \in Ring
    BY <1>4, <1>5 DEF Board
  <2> QED
    BY <1>4, <1>5, <1>6, <2>1, <2>2 DEF BoardInv, BoardTypes
<1>8. CountedIds' \subseteq CountedIds \cup Ids(batch)
  <2>1. DOMAIN batch = 1..Len(batch)
    BY DEF BoardInv, BoardTypes
  <2>2. \A c \in counted' : c \in counted \/ \E i \in DOMAIN batch : c[1] = batch[i].id
    BY <1>6, <2>1 DEF Seen, CountOf
  <2> QED
    BY <2>2 DEF CountedIds, Ids
<1>9. EachInOnePlace'
  <2>1. Ids(batch) \subseteq 1..accepted /\ Ids(batch) \cap Ids(liveQueue) = {}
    BY DEF BoardInv, EachInOnePlace
  <2>2. Once(liveQueue) /\ Ids(liveQueue) \subseteq 1..accepted /\ CountedIds \subseteq 1..accepted /\ Ids(liveQueue) \cap CountedIds = {}
    BY DEF BoardInv, EachInOnePlace
  <2>3. \A b \in liveTopic \ {batch} : Once(b) /\ Ids(b) \subseteq 1..accepted /\ Ids(b) \cap Ids(liveQueue) = {}
                                       /\ Ids(b) \cap CountedIds = {} /\ Ids(b) \cap Ids(batch) = {}
    BY DEF BoardInv, EachInOnePlace
  <2>4. \A b, c \in liveTopic \ {batch} : b # c => Ids(b) \cap Ids(c) = {}
    BY DEF BoardInv, EachInOnePlace
  <2> QED
    BY <1>5, <1>8, <2>1, <2>2, <2>3, <2>4 DEF EachInOnePlace
<1>10. CountedInThePast'
  <2>1. DOMAIN batch = 1..Len(batch) /\ \A i \in DOMAIN batch : batch[i] \in LiveEvent
    BY DEF BoardInv, BoardTypes
  <2>2. \A i \in DOMAIN batch : CountOf(batch[i])[3] <= minuteNow
    <3> SUFFICES ASSUME NEW i \in DOMAIN batch PROVE AtMost(batch[i].at) <= minuteNow
      BY DEF CountOf
    <3>1. batch[i].at \in Int /\ minuteNow \in Int
      BY <2>1, BoardBounds DEF LiveEvent, BoardInv, BoardTypes
    <3> QED
      BY <3>1 DEF AtMost
  <2>3. \A c \in counted' : c \in counted \/ \E i \in DOMAIN batch : c = CountOf(batch[i])
    BY <1>6, <2>1 DEF Seen
  <2> QED
    BY <1>5, <2>2, <2>3 DEF CountedInThePast, BoardInv
<1>11. RingExact(minutes, counted)'
  BY <1>4, <1>5, <1>6 DEF RingExact, Oldest
<1> QED
  BY <1>7, <1>9, <1>10, <1>11 DEF BoardInv

(* Every step of the board keeps it exact, and no step of the salts        *)
(* touches it.                                                             *)
LEMMA BoardNextInv == BoardInv /\ [BoardNext \/ SaltNext]_<<boardVars, saltVars>> => BoardInv'
<1> SUFFICES ASSUME BoardInv, [BoardNext \/ SaltNext]_<<boardVars, saltVars>> PROVE BoardInv'
  OBVIOUS
<1>1. CASE UNCHANGED boardVars
  BY <1>1 DEF boardVars, BoardInv, BoardTypes, EachInOnePlace, CountedIds, CountedInThePast, RingExact, Oldest
<1>2. CASE BoardNext
  BY <1>2, PublishKeeps, FlushKeeps, SnapshotKeeps, MinuteKeeps, ReceiveKeeps DEF BoardNext
<1> QED
  BY <1>1, <1>2 DEF SaltNext, boardVars

(* The series of a snapshot is read off the ring.                          *)
LEMMA BoardIsExact == BoardInv => SeriesIsExact
<1> SUFFICES ASSUME BoardInv, NEW m \in (IF Oldest > 0 THEN Oldest ELSE 0)..minuteNow
             PROVE  SeriesPoint(m) = Cardinality({c \in counted : c[2] = "view" /\ c[3] = m})
  BY DEF SeriesIsExact
<1>1. m \in 0..minuteNow /\ m >= Oldest
  BY BoardBounds DEF BoardInv, BoardTypes, Oldest
<1> QED
  BY <1>1 DEF BoardInv, RingExact, SeriesPoint, PointOf, ViewsOf

(* The board and the salts are right whatever is published, batched, lost, *)
(* late, ahead of the clock or received in any order: the series a         *)
(* snapshot shows is the number of views given for each minute of the      *)
(* window, and replicas that share a day's salt hold the same one          *)
(* (Board.Add, Board.minute, Snapshot, dailySalts.at).                     *)
THEOREM LiveIsExact == LiveSpec => []LiveInvariant
<1>1. BoardInv /\ SaltsInv => LiveTypeOK
  <2> SUFFICES ASSUME BoardInv, SaltsInv PROVE LiveTypeOK
    OBVIOUS
  <2>1. DOMAIN sessions \subseteq LiveSessions
    BY DEF BoardInv, BoardTypes, Known
  <2> QED
    BY <2>1 DEF BoardInv, BoardTypes, Ring, SaltsInv, SaltTypes, LiveTypeOK
<1>2. BoardInv /\ SaltsInv => LiveInvariant
  BY <1>1, BoardIsExact DEF SaltsInv, LiveInvariant
<1> QED
  BY <1>2, BoardInitInv, BoardNextInv, SaltsInitInv, SaltsNextInv, PTL DEF LiveSpec
=============================================================================
