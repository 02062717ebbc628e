--------------------------- MODULE Impersonation ----------------------------
(***************************************************************************)
(* A staff member acting as another user                                   *)
(* (core/impersonation/service/service.go over                             *)
(* impersonation_repository.go, with BearerAuth asking Verify on every     *)
(* request).  One staff member and one target; the staff member's          *)
(* sign-ins (refresh-session families, Sessions) end at any time, accounts *)
(* are closed, and roles change.  A step is one query, or one transaction  *)
(* with its event.  The password and code of the step-up are Sessions and  *)
(* TwoFactor: here the proof is given.                                     *)
(***************************************************************************)
EXTENDS Naturals, FiniteSets

CONSTANTS ImpIDs,       \* impersonation sessions that may be opened
          ImpReqs,      \* concurrent requests of the staff member
          NoImp,        \* no session
          Permissions,  \* permissions besides impersonation.start
          MaxFamilies,  \* bound: sign-ins of the staff member
          MaxImpOps     \* bound: requests begun and role changes

ASSUME ImpersonationAssumption ==
  /\ IsFiniteSet(ImpIDs)
  /\ NoImp \notin ImpIDs
  /\ "start" \notin Permissions
  /\ {MaxFamilies, MaxImpOps} \subseteq Nat \ {0}

VARIABLES imp,        \* impersonation_sessions
          families,   \* sign-ins so far
          signedIn,   \* families with an unrevoked, unexpired session
          accounts,   \* both accounts are active
          grant,      \* permissions of actor and target
          impReq,     \* the open requests
          sweep,      \* sessions the ExpireStale run has listed
          impOps,     \* requests begun and role changes
          recorded    \* history: outbox events of each session

impersonationVars == <<imp, families, signedIn, accounts, grant, impReq, sweep, impOps, recorded>>

ImpState == {"none", "active", "exited", "expired", "revoked"}
ImpRow == [state : ImpState, lapsed : BOOLEAN, base : 0..MaxFamilies]
AllPermissions == Permissions \cup {"start"}

(* end is the state a failed check or a stop moves the session to.         *)
ImpRequest == [op : {"start", "use", "stop"}, family : 0..MaxFamilies, id : ImpIDs \cup {NoImp},
               pc : {"authorize", "eligible", "lapsed", "close", "create", "get", "enforce", "end"},
               to : ImpState]
ImpIdle == [pc |-> "idle"]

ImpersonationTypeOK ==
  /\ imp \in [ImpIDs -> ImpRow]
  /\ families \in 1..MaxFamilies
  /\ signedIn \subseteq 1..MaxFamilies
  /\ accounts \in BOOLEAN
  /\ grant \in [{"actor", "target"} -> SUBSET AllPermissions]
  /\ impReq \in [ImpReqs -> ImpRequest \cup {ImpIdle}]
  /\ sweep \subseteq ImpIDs
  /\ impOps \in 0..MaxImpOps
  /\ recorded \in [ImpIDs -> [started : Nat, ended : Nat]]

(* At rest: nobody impersonates, or one session has been started.          *)
ImpersonationInit ==
  /\ \E I \in {I \in SUBSET ImpIDs : Cardinality(I) <= 1} :
       /\ imp = [i \in ImpIDs |-> IF i \in I THEN [state |-> "active", lapsed |-> FALSE, base |-> 1]
                                  ELSE [state |-> "none", lapsed |-> FALSE, base |-> 0]]
       /\ recorded = [i \in ImpIDs |-> [started |-> IF i \in I THEN 1 ELSE 0, ended |-> 0]]
  /\ families = 1 /\ signedIn = {1}
  /\ accounts = TRUE
  /\ grant = [w \in {"actor", "target"} |-> IF w = "actor" THEN AllPermissions ELSE {}]
  /\ impReq = [r \in ImpReqs |-> ImpIdle]
  /\ sweep = {} /\ impOps = 0

-----------------------------------------------------------------------------
ImpAt(r, pc) == impReq[r].pc = pc
ImpGoto(r, pc) == impReq' = [impReq EXCEPT ![r].pc = pc]
ImpDone(r) == impReq' = [impReq EXCEPT ![r] = ImpIdle]
ActiveImp == {i \in ImpIDs : imp[i].state = "active"}

standing == <<families, signedIn, accounts, grant>>

(* Any token the staff member still holds: an access token of an ended     *)
(* sign-in is accepted until it expires.                                   *)
BeginImp(r) ==
  /\ ImpAt(r, "idle") /\ impOps < MaxImpOps
  /\ \E op \in {"start", "use", "stop"}, f \in 1..families,
        i \in {NoImp} \cup {i \in ImpIDs : imp[i].state # "none"} :
       /\ (op = "start" => i = NoImp) /\ (op = "use" => i # NoImp) /\ (op # "start" => f = families)
       /\ impReq' = [impReq EXCEPT ![r] = [op |-> op, family |-> f, id |-> i, to |-> "none",
                                           pc |-> IF op = "start" THEN "authorize" ELSE "get"]]
  /\ impOps' = impOps + 1
  /\ UNCHANGED <<imp, standing, sweep, recorded>>

ImpFails(r) ==
  /\ ~ImpAt(r, "idle") /\ ImpDone(r)
  /\ UNCHANGED <<imp, standing, sweep, impOps, recorded>>

(* repo.End with its event, one transaction: UPDATE ... WHERE state =      *)
(* 'active'; the event only when a row changed.                            *)
EndUnchecked(i) == imp[i].state # "none"     \* mutant: WHERE uuid = ? alone
Endable(i) == imp[i].state = "active"

End(i, to) ==
  IF Endable(i)
  THEN imp' = [imp EXCEPT ![i].state = to] /\ recorded' = [recorded EXCEPT ![i].ended = @ + 1]
  ELSE UNCHANGED <<imp, recorded>>

-----------------------------------------------------------------------------
(* Start.                                                                  *)

AuthorizeStart(r) ==
  /\ ImpAt(r, "authorize")
  /\ IF "start" \in grant["actor"] THEN ImpGoto(r, "eligible") ELSE ImpDone(r)
  /\ UNCHANGED <<imp, standing, sweep, impOps, recorded>>

(* The target may not impersonate itself and has no right of its own.      *)
CanImpersonate == "start" \notin grant["target"] /\ grant["target"] \subseteq grant["actor"]

EligibleTarget(r) ==
  /\ ImpAt(r, "eligible")
  /\ IF accounts /\ CanImpersonate THEN ImpGoto(r, "lapsed") ELSE ImpDone(r)
  /\ UNCHANGED <<imp, standing, sweep, impOps, recorded>>

BaseActive(i) == imp[i].base \in signedIn

(* closeLapsed: the actor's active session is closed first when it no      *)
(* longer backs a token.                                                   *)
FindLapsed(r) ==
  /\ ImpAt(r, "lapsed")
  /\ \/ \E i \in ActiveImp :
          /\ imp[i].lapsed \/ ~BaseActive(i)
          /\ impReq' = [impReq EXCEPT ![r].pc = "close", ![r].id = i,
                                      ![r].to = IF imp[i].lapsed THEN "expired" ELSE "revoked"]
     \/ (\A i \in ActiveImp : ~imp[i].lapsed /\ BaseActive(i)) /\ ImpGoto(r, "create")
  /\ UNCHANGED <<imp, standing, sweep, impOps, recorded>>

CloseLapsed(r) ==
  /\ ImpAt(r, "close")
  /\ End(impReq[r].id, impReq[r].to)
  /\ ImpGoto(r, "create")
  /\ UNCHANGED <<standing, sweep, impOps>>

(* repo.Create, the token and the event: the unique index allows one       *)
(* active session per actor.                                               *)
CreateImp(r) ==
  /\ ImpAt(r, "create")
  /\ IF ActiveImp = {}
     THEN \E i \in ImpIDs :
            /\ imp[i].state = "none"
            /\ imp' = [imp EXCEPT ![i] = [state |-> "active", lapsed |-> FALSE, base |-> impReq[r].family]]
            /\ recorded' = [recorded EXCEPT ![i].started = @ + 1]
     ELSE UNCHANGED <<imp, recorded>>
  /\ ImpDone(r)
  /\ UNCHANGED <<standing, sweep, impOps>>

-----------------------------------------------------------------------------
(* Verify on every request made with the token, Stop, and ExpireStale.     *)

(* Verify's read and its checks in order; a session that fails one ends.   *)
VerifyGet(r) ==
  LET i == impReq[r].id
      To(s) == impReq' = [impReq EXCEPT ![r].pc = "end", ![r].to = s]
  IN  /\ ImpAt(r, "get") /\ impReq[r].op = "use"
      /\ CASE imp[i].state # "active" -> ImpDone(r)
           [] imp[i].state = "active" /\ imp[i].lapsed -> To("expired")
           [] imp[i].state = "active" /\ ~imp[i].lapsed /\ (~BaseActive(i) \/ ~accounts) -> To("revoked")
           [] imp[i].state = "active" /\ ~imp[i].lapsed /\ BaseActive(i) /\ accounts -> ImpGoto(r, "enforce")
      /\ UNCHANGED <<imp, standing, sweep, impOps, recorded>>

(* Enforce: the request goes on as the target, or the session is revoked.  *)
VerifyEnforce(r) ==
  /\ ImpAt(r, "enforce")
  /\ IF "start" \in grant["actor"] THEN ImpDone(r)
     ELSE impReq' = [impReq EXCEPT ![r].pc = "end", ![r].to = "revoked"]
  /\ UNCHANGED <<imp, standing, sweep, impOps, recorded>>

(* Stop: the token's own session, or the actor's active one.               *)
StopFind(r) ==
  /\ ImpAt(r, "get") /\ impReq[r].op = "stop"
  /\ LET found == IF impReq[r].id = NoImp THEN ActiveImp ELSE {impReq[r].id} \cap ActiveImp
     IN  \/ found = {} /\ ImpDone(r)
         \/ \E i \in found : impReq' = [impReq EXCEPT ![r].pc = "end", ![r].id = i,
                                                      ![r].to = IF imp[i].lapsed THEN "expired" ELSE "exited"]
  /\ UNCHANGED <<imp, standing, sweep, impOps, recorded>>

EndImp(r) ==
  /\ ImpAt(r, "end")
  /\ End(impReq[r].id, impReq[r].to)
  /\ ImpDone(r)
  /\ UNCHANGED <<standing, sweep, impOps>>

NotYetExpired == {i \in ActiveImp : ~imp[i].lapsed}   \* mutant: expires_at > now
Expired == {i \in ActiveImp : imp[i].lapsed}

(* ExpireStale, the scheduled job: list, then end one by one.              *)
ListExpired ==
  /\ sweep = {} /\ Expired # {} /\ sweep' = Expired
  /\ UNCHANGED <<imp, standing, impReq, impOps, recorded>>

EndExpired(i) ==
  /\ i \in sweep
  /\ End(i, "expired") /\ sweep' = sweep \ {i}
  /\ UNCHANGED <<standing, impReq, impOps>>

-----------------------------------------------------------------------------
(* Time, sign-ins, accounts and roles.                                     *)

ImpLapses(i) ==
  /\ imp[i].state = "active" /\ ~imp[i].lapsed
  /\ imp' = [imp EXCEPT ![i].lapsed = TRUE]
  /\ UNCHANGED <<standing, impReq, sweep, impOps, recorded>>

SignOut(f) ==
  /\ f \in signedIn /\ signedIn' = signedIn \ {f}
  /\ UNCHANGED <<imp, families, accounts, grant, impReq, sweep, impOps, recorded>>

SignIn ==
  /\ families < MaxFamilies
  /\ families' = families + 1 /\ signedIn' = signedIn \cup {families + 1}
  /\ UNCHANGED <<imp, accounts, grant, impReq, sweep, impOps, recorded>>

CloseAccount ==
  /\ accounts /\ accounts' = FALSE
  /\ UNCHANGED <<imp, families, signedIn, grant, impReq, sweep, impOps, recorded>>

(* An administrator changes the roles of either side.                      *)
Regrant(who) ==
  /\ impOps < MaxImpOps /\ impOps' = impOps + 1
  /\ \E P \in SUBSET AllPermissions : P # grant[who] /\ grant' = [grant EXCEPT ![who] = P]
  /\ UNCHANGED <<imp, families, signedIn, accounts, impReq, sweep, recorded>>

ImpersonationNext ==
  \/ \E r \in ImpReqs :
       \/ BeginImp(r) \/ ImpFails(r) \/ AuthorizeStart(r) \/ EligibleTarget(r) \/ FindLapsed(r)
       \/ CloseLapsed(r) \/ CreateImp(r) \/ VerifyGet(r) \/ VerifyEnforce(r) \/ StopFind(r) \/ EndImp(r)
  \/ ListExpired \/ \E i \in ImpIDs : EndExpired(i) \/ ImpLapses(i)
  \/ \E f \in signedIn : SignOut(f)
  \/ SignIn \/ CloseAccount
  \/ \E who \in {"actor", "target"} : Regrant(who)

ImpersonationSpec == ImpersonationInit /\ [][ImpersonationNext]_impersonationVars

-----------------------------------------------------------------------------
(* However stop, refused requests, a new start and the expiry job race, a  *)
(* staff member has one active session, and each session has one started   *)
(* event and, exactly when it is over, one ended event.                    *)
EndRecordedOnce ==
  /\ Cardinality(ActiveImp) <= 1
  /\ \A i \in ImpIDs : /\ recorded[i].started = IF imp[i].state = "none" THEN 0 ELSE 1
                       /\ recorded[i].ended = IF imp[i].state \in {"none", "active"} THEN 0 ELSE 1

(* A session past its expiry is closed although nobody uses it again.      *)
LapsedIsClosed == \A i \in ImpIDs : (imp[i].lapsed /\ imp[i].state = "active") ~> (imp[i].state # "active")

(* Sessions and their events agree (Start, Stop, Verify, ExpireStale).     *)
ImpersonationInvariant == ImpersonationTypeOK /\ EndRecordedOnce
=============================================================================
