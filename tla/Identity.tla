------------------------------ MODULE Identity ------------------------------
(***************************************************************************)
(* How an account comes to hold an address: sign-up and its verification   *)
(* (register.go), accounts made by an administrator (admin.go), a change   *)
(* of address (email_change.go), sign-in through an OAuth provider         *)
(* (oauth.go), and the erasure that ends an account (privacy_data.go).     *)
(* A step is one statement, or one transaction; requests overlap and any   *)
(* of their statements can fail.  A username is taken and refused as an    *)
(* address is, through the unique index next to it, and is left out; the   *)
(* password proofs and the sessions are Sessions.                          *)
(***************************************************************************)
EXTENDS Naturals, FiniteSets

CONSTANTS UserIDs,      \* accounts that may exist
          Addresses,    \* e-mail addresses
          RegIDs,       \* sign-up tokens
          ChangeIDs,    \* change-of-address tokens
          StateIDs,     \* OAuth states
          IdReqs,       \* concurrent requests
          NoUser,       \* no account
          Anonymous,    \* the address of an erased account
          MaxLive,      \* maxLiveRegistrations, per address
          MaxIdOps      \* bound: requests begun

ASSUME IdentityAssumption ==
  /\ NoUser \notin UserIDs /\ Anonymous \notin Addresses
  /\ RegIDs \cap StateIDs = {}
  /\ {MaxLive, MaxIdOps} \subseteq Nat \ {0}

VARIABLES account,    \* users: state and address
          reg,        \* registrations
          change,     \* password_reset_tokens of purpose email_change
          oauthState, \* states saved in Redis
          linked,     \* user_oauth_identities: the account of the provider's subject
          idReq,      \* the open requests
          idOps,      \* requests begun
          spent       \* history: what each one-use proof has bought

identityVars == <<account, reg, change, oauthState, linked, idReq, idOps, spent>>

AccountRow == [state : {"none", "active", "erased"}, email : Addresses \cup {Anonymous}]
RegRow == [state : {"none", "live", "expired", "gone"}, email : Addresses \cup {Anonymous}]
ChangeRow == [state : {"none", "pending", "used", "expired"}, user : UserIDs \cup {NoUser},
              email : Addresses \cup {Anonymous}]
IdRequest == [op : {"register", "verify", "create", "request", "confirm", "oauth"},
              pc : {"find", "hold", "consume", "insert", "revoke", "update", "mark", "link", "resolve"},
              user : UserIDs \cup {NoUser}, email : Addresses, key : RegIDs \cup ChangeIDs \cup StateIDs \cup {NoUser}]
IdIdle == [pc |-> "idle"]

IdentityTypeOK ==
  /\ account \in [UserIDs -> AccountRow]
  /\ reg \in [RegIDs -> RegRow]
  /\ change \in [ChangeIDs -> ChangeRow]
  /\ oauthState \in [StateIDs -> {"none", "saved", "gone"}]
  /\ linked \in UserIDs \cup {NoUser}
  /\ idReq \in [IdReqs -> IdRequest \cup {IdIdle}]
  /\ idOps \in 0..MaxIdOps
  /\ spent \in [RegIDs \cup StateIDs -> Nat]

(* The first account of the installation, which may have a provider linked *)
(* to it, and nobody else.                                                 *)
IdentityInit ==
  /\ \E u \in UserIDs, e \in Addresses :
       /\ account = [v \in UserIDs |-> IF v = u THEN [state |-> "active", email |-> e]
                                       ELSE [state |-> "none", email |-> Anonymous]]
       /\ linked \in {NoUser, u}
  /\ reg = [k \in RegIDs |-> [state |-> "none", email |-> Anonymous]]
  /\ change = [t \in ChangeIDs |-> [state |-> "none", user |-> NoUser, email |-> Anonymous]]
  /\ oauthState = [s \in StateIDs |-> "none"]
  /\ idReq = [r \in IdReqs |-> IdIdle] /\ idOps = 0
  /\ spent = [k \in RegIDs \cup StateIDs |-> 0]

-----------------------------------------------------------------------------
IdAt(r, op, pc) == idReq[r].pc = pc /\ idReq[r].op = op
IdGoto(r, pc) == idReq' = [idReq EXCEPT ![r].pc = pc]
IdDone(r) == idReq' = [idReq EXCEPT ![r] = IdIdle]

tokens == <<reg, change, oauthState>>

(* FindByEmail: the row that holds e, whatever its status.                 *)
Holders(e) == {u \in UserIDs : account[u].state # "none" /\ account[u].email = e}

(* emailAvailable: no other row holds it.                                  *)
EmailAvailable(e, u) == Holders(e) \subseteq {u}

BeginId(r, op, pc, user, email, key) ==
  /\ idReq[r].pc = "idle" /\ idOps < MaxIdOps
  /\ idReq' = [idReq EXCEPT ![r] = [op |-> op, pc |-> pc, user |-> user, email |-> email, key |-> key]]
  /\ idOps' = idOps + 1
  /\ UNCHANGED <<account, tokens, linked, spent>>

(* POST auth/register, and a link from the mail it sent.                   *)
BeginRegister(r) ==
  \/ \E e \in Addresses :
       BeginId(r, "register", "find", NoUser, e, NoUser)
  \/ \E k \in RegIDs :
       /\ reg[k].state # "none"
       /\ BeginId(r, "verify", "find", NoUser, reg[k].email, k)

(* POST admin/users.                                                       *)
BeginCreate(r) ==
  \E e \in Addresses :
    BeginId(r, "create", "find", NoUser, e, NoUser)

(* A signed-in user asks for another address, or follows the mailed link.  *)
BeginChange(r) ==
  \/ \E u \in UserIDs, e \in Addresses :
       /\ account[u].state = "active"
       /\ BeginId(r, "request", "find", u, e, NoUser)
  \/ \E t \in ChangeIDs :
       /\ change[t].state # "none"
       /\ BeginId(r, "confirm", "find", change[t].user, change[t].email, t)

(* The provider redirects back with a state and vouches for an address.    *)
BeginCallback(r) ==
  \E s \in StateIDs, e \in Addresses :
    /\ oauthState[s] # "none"
    /\ BeginId(r, "oauth", "consume", NoUser, e, s)

(* A statement, a password check or the provider's exchange fails.         *)
IdFails(r) ==
  /\ idReq[r].pc # "idle" /\ IdDone(r)
  /\ UNCHANGED <<account, tokens, linked, idOps, spent>>

-----------------------------------------------------------------------------
(* Register: an address that has an account is only told about the         *)
(* attempt.                                                                *)
RegisterFind(r) ==
  /\ IdAt(r, "register", "find")
  /\ IF Holders(idReq[r].email) = {} THEN IdGoto(r, "insert") ELSE IdDone(r)
  /\ UNCHANGED <<account, tokens, linked, idOps, spent>>

LiveFor(e) == {k \in RegIDs : reg[k].state = "live" /\ reg[k].email = e}

(* registrations.Create: the row only while fewer than MaxLive are live.   *)
StartRegistration(r) ==
  /\ IdAt(r, "register", "insert")
  /\ \/ /\ Cardinality(LiveFor(idReq[r].email)) < MaxLive
        /\ \E k \in RegIDs : /\ reg[k].state = "none"
                             /\ reg' = [reg EXCEPT ![k] = [state |-> "live", email |-> idReq[r].email]]
     \/ Cardinality(LiveFor(idReq[r].email)) >= MaxLive /\ UNCHANGED reg
  /\ IdDone(r)
  /\ UNCHANGED <<account, change, oauthState, linked, idOps, spent>>

(* VerifyEmail up to the transaction: the token is found and not expired.  *)
VerifyFind(r) ==
  /\ IdAt(r, "verify", "find")
  /\ IF reg[idReq[r].key].state = "live" THEN IdGoto(r, "insert") ELSE IdDone(r)
  /\ UNCHANGED <<account, tokens, linked, idOps, spent>>

(* users.Create under the unique index, of an account not used before.     *)
CreateUser(e) ==
  /\ Holders(e) = {}
  /\ \E u \in UserIDs : /\ account[u].state = "none"
                        /\ account' = [account EXCEPT ![u] = [state |-> "active", email |-> e]]

(* createRegisteredUser, one transaction: Consume deletes the row and the  *)
(* others of its address and must have found it; then the account and its  *)
(* event.  A taken address rolls all of it back.                           *)
CreateRegisteredUser(r) ==
  LET k == idReq[r].key
      e == idReq[r].email
  IN  /\ IdAt(r, "verify", "insert")
      /\ \/ /\ reg[k].state \in {"live", "expired"}
            /\ CreateUser(e)
            /\ reg' = [j \in RegIDs |-> IF reg[j].email = e /\ reg[j].state \in {"live", "expired"}
                                        THEN [reg[j] EXCEPT !.state = "gone"] ELSE reg[j]]
            /\ spent' = [spent EXCEPT ![k] = @ + 1]
         \/ /\ reg[k].state = "gone" \/ Holders(e) # {}
            /\ UNCHANGED <<account, reg, spent>>
      /\ IdDone(r)
      /\ UNCHANGED <<change, oauthState, linked, idOps>>

PruneRegistration(k) ==
  /\ reg[k].state = "expired" /\ reg' = [reg EXCEPT ![k].state = "gone"]
  /\ UNCHANGED <<account, change, oauthState, linked, idReq, idOps, spent>>

RegistrationExpires(k) ==
  /\ reg[k].state = "live" /\ reg' = [reg EXCEPT ![k].state = "expired"]
  /\ UNCHANGED <<account, change, oauthState, linked, idReq, idOps, spent>>

(* AdminCreateUser: ensureIdentityFree, then the insert with its event.    *)
EnsureIdentityFree(r) ==
  /\ IdAt(r, "create", "find")
  /\ IF Holders(idReq[r].email) = {} THEN IdGoto(r, "insert") ELSE IdDone(r)
  /\ UNCHANGED <<account, tokens, linked, idOps, spent>>

AdminCreateUser(r) ==
  /\ IdAt(r, "create", "insert")
  /\ \/ CreateUser(idReq[r].email)
     \/ Holders(idReq[r].email) # {} /\ UNCHANGED account
  /\ IdDone(r)
  /\ UNCHANGED <<tokens, linked, idOps, spent>>

-----------------------------------------------------------------------------
(* RequestEmailChange: the checks, RevokePending, then the new token.      *)
RequestChecks(r) ==
  LET u == idReq[r].user
  IN  /\ IdAt(r, "request", "find")
      /\ IF account[u].state = "active" /\ account[u].email # idReq[r].email /\ EmailAvailable(idReq[r].email, u)
         THEN IdGoto(r, "revoke") ELSE IdDone(r)
      /\ UNCHANGED <<account, tokens, linked, idOps, spent>>

RevokePending(r) ==
  /\ IdAt(r, "request", "revoke")
  /\ change' = [t \in ChangeIDs |-> IF change[t].user = idReq[r].user /\ change[t].state \in {"pending", "expired"}
                                    THEN [change[t] EXCEPT !.state = "used"] ELSE change[t]]
  /\ IdGoto(r, "insert")
  /\ UNCHANGED <<account, reg, oauthState, linked, idOps, spent>>

IssueChange(r) ==
  /\ IdAt(r, "request", "insert")
  /\ \E t \in ChangeIDs :
       /\ change[t].state = "none"
       /\ change' = [change EXCEPT ![t] = [state |-> "pending", user |-> idReq[r].user, email |-> idReq[r].email]]
  /\ IdDone(r)
  /\ UNCHANGED <<account, reg, oauthState, linked, idOps, spent>>

ChangeExpires(t) ==
  /\ change[t].state = "pending" /\ change' = [change EXCEPT ![t].state = "expired"]
  /\ UNCHANGED <<account, reg, oauthState, linked, idReq, idOps, spent>>

(* ConfirmEmailChange: emailChangeToken, activeUser, emailAvailable.       *)
EmailChangeToken(r) ==
  /\ IdAt(r, "confirm", "find")
  /\ IF change[idReq[r].key].state = "pending" THEN IdGoto(r, "hold") ELSE IdDone(r)
  /\ UNCHANGED <<account, tokens, linked, idOps, spent>>

ConfirmChecks(r) ==
  /\ IdAt(r, "confirm", "hold")
  /\ IF account[idReq[r].user].state = "active" /\ EmailAvailable(idReq[r].email, idReq[r].user)
     THEN IdGoto(r, "update") ELSE IdDone(r)
  /\ UNCHANGED <<account, tokens, linked, idOps, spent>>

Updatable(u, e) == account[u].state # "none" /\ EmailAvailable(e, u)

(* users.UpdateEmail ... WHERE uuid = ?, under the unique index.           *)
UpdateEmail(r) ==
  LET u == idReq[r].user
      e == idReq[r].email
  IN  /\ IdAt(r, "confirm", "update")
      /\ IF Updatable(u, e) THEN account' = [account EXCEPT ![u].email = e] /\ IdGoto(r, "mark")
                            ELSE IdDone(r) /\ UNCHANGED account
      /\ UNCHANGED <<tokens, linked, idOps, spent>>

MarkUsed(r) ==
  /\ IdAt(r, "confirm", "mark")
  /\ change' = [change EXCEPT ![idReq[r].key].state = "used"]
  /\ IdDone(r)
  /\ UNCHANGED <<account, reg, oauthState, linked, idOps, spent>>

-----------------------------------------------------------------------------
(* OAuthStart saves a single-use state; it can also lapse.                 *)
OAuthStart(s) ==
  /\ oauthState[s] = "none" /\ oauthState' = [oauthState EXCEPT ![s] = "saved"]
  /\ UNCHANGED <<account, reg, change, linked, idReq, idOps, spent>>

ConsumeByGet(s) == oauthState' = oauthState           \* mutant: GET in place of GETDEL
ConsumeState(s) == oauthState' = [oauthState EXCEPT ![s] = "gone"]

(* states.Consume, then the provider confirms the subject's address.       *)
OAuthCallback(r) ==
  LET s == idReq[r].key
  IN  /\ IdAt(r, "oauth", "consume")
      /\ IF oauthState[s] = "saved" THEN ConsumeState(s) /\ IdGoto(r, "find")
                                    ELSE IdDone(r) /\ UNCHANGED oauthState
      /\ UNCHANGED <<account, reg, change, linked, idOps, spent>>

OAuthStateLapses(s) ==
  /\ oauthState[s] = "saved" /\ oauthState' = [oauthState EXCEPT ![s] = "gone"]
  /\ UNCHANGED <<account, reg, change, linked, idReq, idOps, spent>>

(* oauthUser: the linked account, or the one that holds the address.       *)
OAuthUser(r) ==
  /\ IdAt(r, "oauth", "find")
  /\ \/ linked # NoUser /\ idReq' = [idReq EXCEPT ![r].pc = "resolve", ![r].user = linked]
     \/ linked = NoUser /\ \E u \in Holders(idReq[r].email) :
          idReq' = [idReq EXCEPT ![r].pc = "link", ![r].user = u]
     \/ linked = NoUser /\ Holders(idReq[r].email) = {} /\ IdDone(r)
  /\ UNCHANGED <<account, tokens, linked, idOps, spent>>

(* identities.Link: the subject is unique.                                 *)
LinkByEmail(r) ==
  /\ IdAt(r, "oauth", "link")
  /\ IF linked = NoUser THEN linked' = idReq[r].user /\ IdGoto(r, "resolve")
                        ELSE IdDone(r) /\ UNCHANGED linked
  /\ UNCHANGED <<account, tokens, idOps, spent>>

(* FindByID and IsActive, then the sign-in.                                *)
OAuthSignIn(r) ==
  /\ IdAt(r, "oauth", "resolve")
  /\ spent' = IF account[idReq[r].user].state = "active" THEN [spent EXCEPT ![idReq[r].key] = @ + 1] ELSE spent
  /\ IdDone(r)
  /\ UNCHANGED <<account, tokens, linked, idOps>>

(* EraseUser, one transaction.                                             *)
EraseIdentity(u) ==
  /\ account[u].state = "active"
  /\ account' = [account EXCEPT ![u] = [state |-> "erased", email |-> Anonymous]]
  /\ change' = [t \in ChangeIDs |-> IF change[t].user = u THEN [change[t] EXCEPT !.state = "used"] ELSE change[t]]
  /\ linked' = IF linked = u THEN NoUser ELSE linked
  /\ UNCHANGED <<reg, oauthState, idReq, idOps, spent>>

IdentityNext ==
  \/ \E r \in IdReqs :
       \/ BeginRegister(r) \/ BeginCreate(r) \/ BeginChange(r) \/ BeginCallback(r) \/ IdFails(r)
       \/ RegisterFind(r) \/ StartRegistration(r) \/ VerifyFind(r)
       \/ CreateRegisteredUser(r) \/ EnsureIdentityFree(r) \/ AdminCreateUser(r) \/ RequestChecks(r)
       \/ RevokePending(r) \/ IssueChange(r) \/ EmailChangeToken(r) \/ ConfirmChecks(r) \/ UpdateEmail(r)
       \/ MarkUsed(r) \/ OAuthCallback(r) \/ OAuthUser(r) \/ LinkByEmail(r) \/ OAuthSignIn(r)
  \/ \E k \in RegIDs : PruneRegistration(k) \/ RegistrationExpires(k)
  \/ \E t \in ChangeIDs : ChangeExpires(t)
  \/ \E s \in StateIDs : OAuthStart(s) \/ OAuthStateLapses(s)
  \/ \E u \in UserIDs : EraseIdentity(u)

IdentitySpec == IdentityInit /\ [][IdentityNext]_identityVars

-----------------------------------------------------------------------------
(* However sign-up, administration, changes of address and erasure         *)
(* overlap, an address belongs to one account.                             *)
AddressHeldOnce == \A e \in Addresses : Cardinality(Holders(e)) <= 1

(* A sign-up token makes one account and an OAuth state signs in once,     *)
(* although each is read before it is used up.                             *)
ProofSpentOnce == \A k \in RegIDs \cup StateIDs : spent[k] <= 1

(* Addresses and one-time proofs have one owner, whatever overlaps         *)
(* (VerifyEmail, ConfirmEmailChange, OAuthCallback).                       *)
IdentityInvariant == IdentityTypeOK /\ AddressHeldOnce /\ ProofSpentOnce
=============================================================================
