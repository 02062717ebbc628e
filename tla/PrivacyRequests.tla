--------------------------- MODULE PrivacyRequests ---------------------------
(***************************************************************************)
(* A user's requests to export or to erase their data                      *)
(* (core/privacy/service/service.go over privacy_repository.go,            *)
(* privacy_data.go and the object store).  The API queues a request; the   *)
(* scheduled job claims the oldest and works on it, one statement or one   *)
(* call of the store at a time, and any of these may fail.  A processor    *)
(* may die, and a slow one may lose its request to another after           *)
(* staleAfter.                                                             *)
(***************************************************************************)
EXTENDS Naturals, Sequences, FiniteSets

CONSTANTS MaxRequests,   \* bound: requests made; a row's id follows created_at
          Askers,        \* concurrent calls of the API
          Processors,    \* processes that run the job
          MaxTries,      \* maxAttempts
          MaxPuts,       \* bound: archives stored
          MaxLost        \* bound: requests whose processor dies, or still works after staleAfter

ASSUME PrivacyAssumption == {MaxRequests, MaxTries, MaxPuts, MaxLost} \subseteq Nat /\ MaxTries > 0

VARIABLES request,    \* privacy_requests
          store,      \* archives in the bucket, each with personal data or not
          account,    \* the users row: "active", "erased"
          asking,     \* API calls past their first read
          processor,  \* what each processor is doing
          puts, lost,
          overlapped  \* history: two processors have worked at the same time

privacyVars == <<request, store, account, asking, processor, puts, lost, overlapped>>

noKey == 0
noID == 0
PrivacyIDs == 1..MaxRequests
Kinds == {"export", "erase"}
RequestRow == [kind : Kinds \cup {"none"}, status : {"pending", "running", "completed", "failed"},
               key : 0..MaxPuts, expired : BOOLEAN, stale : BOOLEAN, attempts : Nat]
NoRequest == [kind |-> "none", status |-> "failed", key |-> noKey, expired |-> FALSE, stale |-> FALSE, attempts |-> 0]

(* id and attempts are the claimed row, personal the document read, todo   *)
(* the archives a purge has still to delete, head first.                   *)
Work == [pc : {"idle", "read", "put", "complete", "list", "delete", "clear", "tx", "fail"},
         id : 0..MaxRequests, attempts : Nat, key : 0..MaxPuts, personal : BOOLEAN,
         todo : Seq(PrivacyIDs \X (0..MaxPuts))]
Free == [pc |-> "idle", id |-> noID, attempts |-> 0, key |-> noKey, personal |-> FALSE, todo |-> <<>>]

PrivacyTypeOK ==
  /\ request \in [PrivacyIDs -> RequestRow]
  /\ store \subseteq (1..MaxPuts) \X BOOLEAN
  /\ account \in {"active", "erased"}
  /\ asking \in [Askers -> Kinds \cup {"idle"}]
  /\ processor \in [Processors -> Work]
  /\ puts \in 0..MaxPuts /\ lost \in 0..MaxLost
  /\ overlapped \in BOOLEAN

PrivacyInit ==
  /\ request = [i \in PrivacyIDs |-> NoRequest]
  /\ store = {} /\ account = "active"
  /\ asking = [a \in Askers |-> "idle"]
  /\ processor = [p \in Processors |-> Free]
  /\ puts = 0 /\ lost = 0 /\ overlapped = FALSE

-----------------------------------------------------------------------------
Open(i) == request[i].kind # "none" /\ request[i].status \in {"pending", "running"}

Downloadable(i) == request[i].kind = "export" /\ request[i].status = "completed"
                   /\ request[i].key # noKey /\ ~request[i].expired

LatestOf(kind) == {i \in PrivacyIDs : request[i].kind = kind
                                      /\ \A j \in PrivacyIDs : request[j].kind = kind => j <= i}

(* RequestExport, and RequestErase once the password is verified: the      *)
(* latest request is returned when open or, for an export, downloadable.   *)
AskPrivacy(a) ==
  /\ asking[a] = "idle"
  /\ \E kind \in Kinds :
       /\ \A i \in LatestOf(kind) : ~Open(i) /\ ~Downloadable(i)
       /\ asking' = [asking EXCEPT ![a] = kind]
  /\ UNCHANGED <<request, store, account, processor, puts, lost, overlapped>>

(* create: the insert with its event, refused by the unique index of open  *)
(* requests when another call was first.                                   *)
CreateRequest(a) ==
  /\ asking[a] # "idle"
  /\ IF \E j \in PrivacyIDs : Open(j) /\ request[j].kind = asking[a] THEN UNCHANGED request
     ELSE \E i \in PrivacyIDs :
            /\ request[i].kind = "none" /\ \A j \in 1..(i - 1) : request[j].kind # "none"
            /\ request' = [request EXCEPT ![i] = [NoRequest EXCEPT !.kind = asking[a], !.status = "pending"]]
  /\ asking' = [asking EXCEPT ![a] = "idle"]
  /\ UNCHANGED <<store, account, processor, puts, lost, overlapped>>

-----------------------------------------------------------------------------
(* ProcessPending.                                                         *)

OnlyPending(i) == request[i].kind # "none" /\ request[i].status = "pending"   \* mutant: no stale rows
ClaimableRequest(i) == Open(i) /\ (request[i].status = "running" => request[i].stale)

(* ClaimNext: the oldest claimable row.                                    *)
ClaimNext(p) ==
  /\ processor[p].pc = "idle"
  /\ \E i \in PrivacyIDs :
         /\ ClaimableRequest(i) /\ \A j \in 1..(i - 1) : ~ClaimableRequest(j)
         /\ request' = [request EXCEPT ![i] =
              [request[i] EXCEPT !.status = "running", !.stale = FALSE, !.attempts = request[i].attempts + 1]]
         /\ processor' = [processor EXCEPT ![p] =
              [Free EXCEPT !.pc = IF request[i].kind = "export" THEN "read" ELSE "list",
                           !.id = i, !.attempts = request[i].attempts + 1]]
  /\ overlapped' = (overlapped \/ \E q \in Processors \ {p} : processor[q].pc # "idle")
  /\ UNCHANGED <<store, account, asking, puts, lost>>

Goto(p, pc) == processor' = [processor EXCEPT ![p].pc = pc]
Finished(p) == processor' = [processor EXCEPT ![p] = Free]

(* A statement or a call of the store fails: Fail follows.  The job's own  *)
(* purge returns its error.                                                *)
StepFails(p) ==
  /\ processor[p].pc \in {"read", "put", "complete", "list", "delete", "clear", "tx"}
  /\ IF processor[p].id = noID THEN Finished(p) ELSE Goto(p, "fail")
  /\ UNCHANGED <<request, store, account, asking, puts, lost, overlapped>>

(* Fail, whatever the row says by now: failed after the last try, else     *)
(* back in the queue, which the unique index refuses when a later request  *)
(* is open.                                                                *)
FailRequest(p) ==
  /\ processor[p].pc = "fail"
  /\ LET i == processor[p].id
         final == processor[p].attempts >= MaxTries
     IN  request' = IF ~final /\ \E j \in PrivacyIDs \ {i} : Open(j) /\ request[j].kind = request[i].kind
                    THEN request
                    ELSE [request EXCEPT ![i].status = IF final THEN "failed" ELSE "pending"]
  /\ Finished(p)
  /\ UNCHANGED <<store, account, asking, puts, lost, overlapped>>

(* export: the document, the archive under a random key, the row.          *)
ReadDocument(p) ==
  /\ processor[p].pc = "read"
  /\ processor' = [processor EXCEPT ![p].pc = "put", ![p].personal = (account = "active")]
  /\ UNCHANGED <<request, store, account, asking, puts, lost, overlapped>>

PutArchive(p) ==
  /\ processor[p].pc = "put" /\ puts < MaxPuts
  /\ puts' = puts + 1
  /\ store' = store \cup {<<puts + 1, processor[p].personal>>}
  /\ processor' = [processor EXCEPT ![p].pc = "complete", ![p].key = puts + 1]
  /\ UNCHANGED <<request, account, asking, lost, overlapped>>

CompleteExport(p) ==
  /\ processor[p].pc = "complete"
  /\ LET i == processor[p].id
     IN  request' = [request EXCEPT ![i] =
           [request[i] EXCEPT !.status = "completed", !.key = processor[p].key, !.expired = FALSE]]
  /\ Finished(p)
  /\ UNCHANGED <<store, account, asking, puts, lost, overlapped>>

(* erase: first the user's archives, then one transaction with the module  *)
(* erasers, EraseUser and Complete.  The caches of Users and Posts are     *)
(* invalidated after it (ReadCache).                                       *)
ExpiredArchives == {i \in PrivacyIDs : request[i].key # noKey /\ request[i].expired}
AllArchives == {i \in PrivacyIDs : request[i].key # noKey}

ListArchives(p, of, then) ==
  /\ \E s \in [1..Cardinality(of) -> of] :
       /\ \A j, k \in 1..Cardinality(of) : s[j] = s[k] => j = k
       /\ processor' = [processor EXCEPT ![p].pc = IF of = {} THEN then ELSE "delete",
                                         ![p].todo = [j \in 1..Cardinality(of) |-> <<s[j], request[s[j]].key>>]]
  /\ UNCHANGED <<request, store, account, asking, puts, lost, overlapped>>

ListForErase(p) == processor[p].pc = "list" /\ processor[p].id # noID /\ ListArchives(p, AllArchives, "tx")

DeleteArchive(p) ==
  /\ processor[p].pc = "delete"
  /\ store' = {o \in store : o[1] # processor[p].todo[1][2]}
  /\ Goto(p, "clear")
  /\ UNCHANGED <<request, account, asking, puts, lost, overlapped>>

ClearArchive(p) ==
  LET rest == Tail(processor[p].todo)
  IN  /\ processor[p].pc = "clear"
      /\ request' = [request EXCEPT ![processor[p].todo[1][1]].key = noKey]
      /\ processor' = [processor EXCEPT ![p] =
           IF rest # <<>> THEN [processor[p] EXCEPT !.pc = "delete", !.todo = rest]
           ELSE IF processor[p].id = noID THEN Free ELSE [processor[p] EXCEPT !.pc = "tx", !.todo = <<>>]]
      /\ UNCHANGED <<store, account, asking, puts, lost, overlapped>>

EraseAccount(p) ==
  /\ processor[p].pc = "tx"
  /\ account' = "erased"
  /\ LET i == processor[p].id
     IN  request' = [request EXCEPT ![i] = [request[i] EXCEPT !.status = "completed", !.key = noKey]]
  /\ Finished(p)
  /\ UNCHANGED <<store, asking, puts, lost, overlapped>>

(* PurgeExpired, the job's second part: the queue has been worked off.     *)
BeginPurge(p) ==
  /\ processor[p].pc = "idle" /\ ExpiredArchives # {}
  /\ \A i \in PrivacyIDs : ~ClaimableRequest(i)
  /\ ListArchives(p, ExpiredArchives, "idle")

-----------------------------------------------------------------------------
(* Time and faults.  An archive expires days after its processor ended.    *)

Holder(i) == {p \in Processors : processor[p].id = i}

ArchiveExpires(i) ==
  /\ request[i].key # noKey /\ ~request[i].expired /\ Holder(i) = {}
  /\ request' = [request EXCEPT ![i].expired = TRUE]
  /\ UNCHANGED <<store, account, asking, processor, puts, lost, overlapped>>

(* staleAfter passes: the processor is gone, or only slow.                 *)
GoStale(i) ==
  /\ request[i].status = "running" /\ ~request[i].stale
  /\ IF Holder(i) = {} THEN UNCHANGED lost ELSE lost < MaxLost /\ lost' = lost + 1
  /\ request' = [request EXCEPT ![i].stale = TRUE]
  /\ UNCHANGED <<store, account, asking, processor, puts, overlapped>>

ProcessorDies(p) ==
  /\ processor[p].pc # "idle" /\ lost < MaxLost
  /\ lost' = lost + 1 /\ Finished(p)
  /\ UNCHANGED <<request, store, account, asking, puts, overlapped>>

ProcessStep(p) ==
  \/ ClaimNext(p) \/ FailRequest(p) \/ ReadDocument(p) \/ PutArchive(p) \/ CompleteExport(p)
  \/ ListForErase(p) \/ DeleteArchive(p) \/ ClearArchive(p) \/ EraseAccount(p) \/ StepFails(p)

PrivacyNext ==
  \/ \E a \in Askers : AskPrivacy(a) \/ CreateRequest(a)
  \/ \E p \in Processors : ProcessStep(p) \/ BeginPurge(p) \/ ProcessorDies(p)
  \/ \E i \in PrivacyIDs : ArchiveExpires(i) \/ GoStale(i)

PrivacySpec == PrivacyInit /\ [][PrivacyNext]_privacyVars

-----------------------------------------------------------------------------
(* A completed erasure has anonymized the account and, unless an export    *)
(* was worked on at the same time, left no archive with the user's data    *)
(* that a row still points at.                                             *)
ErasureIsComplete ==
  (\E i \in PrivacyIDs : request[i].kind = "erase" /\ request[i].status = "completed")
  => /\ account = "erased"
     /\ ~overlapped => \A i \in PrivacyIDs : <<request[i].key, TRUE>> \notin store

(* Whatever processors die, slow down or fail, every request is settled.   *)
RequestsSettle == \A i \in PrivacyIDs : Open(i) ~> ~Open(i)

(* Requests, accounts and archives agree (ProcessPending, erase,           *)
(* PurgeExpired).                                                          *)
PrivacyInvariant == PrivacyTypeOK /\ ErasureIsComplete
=============================================================================
