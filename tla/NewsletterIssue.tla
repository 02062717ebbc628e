-------------------------- MODULE NewsletterIssue ---------------------------
(***************************************************************************)
(* One newsletter issue: the editor's lifecycle (core/newsletter/service   *)
(* admin.go), the release job, and dispatch by the newsletter-dispatch     *)
(* consumer (dispatch.go over newsletter_issue_repository.go).             *)
(*                                                                         *)
(* The consumer is wrapped by messaging.Idempotent, so a whole Dispatch    *)
(* runs inside one database transaction: its status move, its claims and   *)
(* its delivery records are visible to nobody until it commits, and are    *)
(* lost when it fails, while the mails it sent are not.                    *)
(***************************************************************************)
EXTENDS Naturals, FiniteSets

CONSTANTS Subs,          \* subscribers of the issue's lists
          Workers,       \* consumer copies able to run Dispatch
          Editors,       \* concurrent UpdateIssue requests
          Contents,      \* versions of the subject, body and lists
          SendBatch,     \* Config.BatchSize
          SendAttempts,  \* Config.MaxAttempts
          MaxClock,      \* bound: clock
          MaxSends,      \* bound: mails accepted per subscriber
          MaxChanges     \* bound: subscriber transactions

ASSUME IssueAssumption ==
  /\ IsFiniteSet(Subs)
  /\ SendBatch \in Nat \ {0}
  /\ SendAttempts \in Nat \ {0}
  /\ {MaxClock, MaxSends, MaxChanges} \subseteq Nat

VARIABLES now,        \* the clock
          status,     \* committed status of the issue; "none" before it exists
          sendAt,     \* its send_at; 0 is NULL
          content,    \* its content
          counts,     \* sent_count and failed_count
          sub,        \* status of each subscriber
          subTx,      \* subscribers locked by another open transaction
          changes,    \* subscriber transactions so far
          deliv,      \* committed newsletter_deliveries
          requests,   \* send_requested messages not yet acknowledged
          run,        \* the open Dispatch transaction of each worker
          seen,       \* the issue as each editor's request read it
          released,   \* the release job holds a due-list with the issue
          mails,      \* history: mails the provider accepted
          mailed,     \* history: the contents mailed
          recorded    \* history: subscribers some run recorded as sent

issueVars == <<status, sendAt, content>>
subVars == <<sub, subTx, changes>>
dispatchVars == <<deliv, run, mails, mailed, recorded, counts>>
newsletterVars == <<now, issueVars, subVars, dispatchVars, requests, seen, released>>

IssueStatus == {"draft", "scheduled", "queued", "sending", "sent", "cancelled"}

DeliveryRow == [st : {"none", "sending", "sent", "failed"}, attempts : Nat, perm : BOOLEAN]

NoRow == [st |-> "none", attempts |-> 0, perm |-> FALSE]

(* An open Dispatch: d overlays the deliveries table, claimed is the rest  *)
(* of the current batch, tried the subscribers that failed in this run,    *)
(* and held the subscriber rows locked by its claims.                      *)
OpenRun == [pc : {"claim", "deliver", "finish"}, body : Contents, d : [Subs -> DeliveryRow],
            claimed : SUBSET Subs, tried : SUBSET Subs, held : SUBSET Subs]

NoRun == [pc |-> "idle"]

(* An UpdateIssue request between its read and its save: what it read, and *)
(* the time at which it checks send_at.                                    *)
Request == [status : IssueStatus, sendAt : 0..MaxClock, content : Contents, now : 0..MaxClock]

NoRequest == [status |-> "none"]

IssueTypeOK ==
  /\ now \in 0..MaxClock
  /\ status \in IssueStatus \cup {"none"}
  /\ sendAt \in 0..MaxClock
  /\ content \in Contents
  /\ counts \in [sent : Nat, failed : Nat]
  /\ sub \in [Subs -> {"active", "inactive"}]
  /\ subTx \subseteq Subs
  /\ changes \in 0..MaxChanges
  /\ deliv \in [Subs -> DeliveryRow]
  /\ requests \in Nat
  /\ run \in [Workers -> OpenRun \cup {NoRun}]
  /\ seen \in [Editors -> Request \cup {NoRequest}]
  /\ released \in BOOLEAN
  /\ mails \in [Subs -> 0..MaxSends]
  /\ mailed \subseteq Contents
  /\ recorded \subseteq Subs

IssueInit ==
  /\ now = 0
  /\ status = "none"
  /\ sendAt = 0
  /\ content \in Contents
  /\ counts = [sent |-> 0, failed |-> 0]
  /\ sub = [s \in Subs |-> "active"]
  /\ subTx = {}
  /\ changes = 0
  /\ deliv = [s \in Subs |-> NoRow]
  /\ requests = 0
  /\ run = [w \in Workers |-> NoRun]
  /\ seen = [e \in Editors |-> NoRequest]
  /\ released = FALSE
  /\ mails = [s \in Subs |-> 0]
  /\ mailed = {}
  /\ recorded = {}

Running(w) == run[w] # NoRun

(* Dispatch updated the issue row in its transaction: other updates wait.  *)
IssueLocked == \E w \in Workers : Running(w)

-----------------------------------------------------------------------------
(* Editors.                                                                *)

(* domain.transitions.                                                     *)
Transitions ==
  [draft     |-> {"scheduled", "queued", "cancelled"},
   scheduled |-> {"draft", "scheduled", "queued", "cancelled"},
   queued    |-> {"cancelled"},
   sending   |-> {"queued", "cancelled"},
   sent      |-> {},
   cancelled |-> {}]

CanMove(from, to) == to \in Transitions[from]

(* IssueStatus.Editable.                                                   *)
Editable(st) == st \in {"draft", "scheduled"}

(* prepareMove: the send_at values of a request q moving to status `to`.   *)
(* Scheduling needs a future time, the requested one or the one read;      *)
(* drafting clears it.                                                     *)
PrepareMove(q, to) ==
  CASE to = "scheduled" -> {t \in 0..MaxClock : t > q.now}
    [] to = "draft"     -> {0}
    [] OTHER            -> {q.sendAt}

(* queued(): a move to queued records the send request for the worker.     *)
Queued(to) == requests' = IF to = "queued" THEN requests + 1 ELSE requests

CreateIssue(to) ==
  /\ status = "none"
  /\ to = "draft" \/ CanMove("draft", to)
  /\ status' = to
  /\ sendAt' \in PrepareMove([sendAt |-> 0, now |-> now], to)
  /\ Queued(to)
  /\ UNCHANGED <<now, content, subVars, released, seen, dispatchVars>>

(* UpdateIssue reads the issue...                                          *)
ReadIssue(e) ==
  /\ status # "none"
  /\ seen[e] = NoRequest
  /\ seen' = [seen EXCEPT ![e] = [status |-> status, sendAt |-> sendAt, content |-> content, now |-> now]]
  /\ UNCHANGED <<now, issueVars, requests, subVars, released, dispatchVars>>

(* The status the request read is still the stored one: the guard of       *)
(* UpdateIssue and MoveIssue.  A row locked by Dispatch makes them wait.   *)
StillAsRead(e) == status = seen[e].status /\ ~IssueLocked

(* ... and saveIssue writes it back.  An editable issue is written whole,  *)
(* columns the request did not change included...                          *)
SaveEdit(e, to) ==
  /\ seen[e] # NoRequest
  /\ Editable(seen[e].status)
  /\ StillAsRead(e)
  /\ \/ to = seen[e].status /\ sendAt' = seen[e].sendAt
     \/ CanMove(seen[e].status, to) /\ sendAt' \in PrepareMove(seen[e], to)
  /\ content' \in Contents
  /\ status' = to
  /\ Queued(to)
  /\ seen' = [seen EXCEPT ![e] = NoRequest]
  /\ UNCHANGED <<now, subVars, released, dispatchVars>>

(* ... any other one gets only its status moved.                           *)
SaveMove(e, to) ==
  /\ seen[e] # NoRequest
  /\ ~Editable(seen[e].status)
  /\ StillAsRead(e)
  /\ CanMove(seen[e].status, to)
  /\ status' = to
  /\ Queued(to)
  /\ seen' = [seen EXCEPT ![e] = NoRequest]
  /\ UNCHANGED <<now, sendAt, content, subVars, released, dispatchVars>>

(* The request is invalid or meets a conflict: nothing is written.         *)
RequestFails(e) ==
  /\ seen[e] # NoRequest
  /\ seen' = [seen EXCEPT ![e] = NoRequest]
  /\ UNCHANGED <<now, issueVars, requests, subVars, released, dispatchVars>>

-----------------------------------------------------------------------------
(* The newsletter-release job.                                             *)

(* DueIssues lists the issue...                                            *)
DueIssues ==
  /\ ~released
  /\ status = "scheduled" /\ sendAt <= now
  /\ released' = TRUE
  /\ UNCHANGED <<now, issueVars, requests, subVars, seen, dispatchVars>>

(* ... and ReleaseDue moves it if it is still scheduled.                   *)
ReleaseDue ==
  /\ released
  /\ ~IssueLocked
  /\ released' = FALSE
  /\ status' = IF status = "scheduled" THEN "queued" ELSE status
  /\ requests' = IF status = "scheduled" THEN requests + 1 ELSE requests
  /\ UNCHANGED <<now, sendAt, content, subVars, seen, dispatchVars>>

Tick ==
  /\ now < MaxClock
  /\ now' = now + 1
  /\ UNCHANGED <<issueVars, requests, subVars, released, seen, dispatchVars>>

-----------------------------------------------------------------------------
(* Subscriber transactions: unsubscribing, opting in again, or editing     *)
(* preferences updates the subscriber row and holds its lock to the end.   *)

SubLocked(s) == s \in subTx \/ \E w \in Workers : Running(w) /\ s \in run[w].held

SubscriberTxBegin(s) ==
  /\ changes < MaxChanges
  /\ ~SubLocked(s)
  /\ subTx' = subTx \cup {s}
  /\ changes' = changes + 1
  /\ UNCHANGED <<now, issueVars, requests, sub, released, seen, dispatchVars>>

SubscriberTxEnd(s) ==
  /\ s \in subTx
  /\ subTx' = subTx \ {s}
  /\ \E st \in {"active", "inactive"} : sub' = [sub EXCEPT ![s] = st]
  /\ UNCHANGED <<now, issueVars, requests, changes, released, seen, dispatchVars>>

-----------------------------------------------------------------------------
(* Dispatch.                                                               *)

(* What no dispatch step changes.                                          *)
otherVars == <<now, sendAt, content, subVars, seen, released>>

(* Mutant of Begin: the run starts whatever the status.                    *)
BeginAnyStatus(w) ==
  /\ ~Running(w)
  /\ requests > Cardinality({v \in Workers : Running(v)})
  /\ ~IssueLocked
  /\ run' = [run EXCEPT ![w] = [pc |-> "claim", body |-> content, d |-> deliv, claimed |-> {}, tried |-> {}, held |-> {}]]
  /\ UNCHANGED <<otherVars, status, requests, deliv, mails, mailed, recorded, counts>>

(* Once claims the message, Dispatch reads the issue and begin moves it to *)
(* sending, waiting for any other run to end.                              *)
Begin(w) ==
  /\ ~Running(w)
  /\ requests > Cardinality({v \in Workers : Running(v)})
  /\ ~IssueLocked
  /\ status \in {"queued", "sending"}
  /\ run' = [run EXCEPT ![w] = [pc |-> "claim", body |-> content, d |-> deliv, claimed |-> {}, tried |-> {}, held |-> {}]]
  /\ UNCHANGED <<otherVars, status, requests, deliv, mails, mailed, recorded, counts>>

(* The issue needs no run any more: the message is acknowledged.           *)
SkipRun(w) ==
  /\ ~Running(w)
  /\ requests > Cardinality({v \in Workers : Running(v)})
  /\ ~IssueLocked
  /\ status \notin {"queued", "sending"}
  /\ requests' = requests - 1
  /\ UNCHANGED <<otherVars, status, run, deliv, mails, mailed, recorded, counts>>

(* The claim query: active, not locked elsewhere, not sent, no permanent   *)
(* failure, attempts left, and no failure of this run.  A claim of the     *)
(* same run never goes stale, so "sending" rows are not retaken.           *)
Candidates(w) ==
  {s \in Subs :
     /\ sub[s] = "active"
     /\ s \notin subTx
     /\ run[w].d[s].st \notin {"sent", "sending"}
     /\ ~run[w].d[s].perm
     /\ run[w].d[s].attempts < SendAttempts
     /\ s \notin run[w].tried}

(* A delivery row after a claim.                                           *)
Claimed(row) == [row EXCEPT !.st = "sending", !.attempts = @ + 1]

(* sendAll's loop: read the issue again (this transaction sees it sending, *)
(* a cancel waits for the row lock) and claim the next batch.              *)
ClaimRecipients(w) ==
  /\ Running(w) /\ run[w].pc = "claim"
  /\ \E batch \in SUBSET Candidates(w) :
       /\ Cardinality(batch) <= SendBatch
       /\ batch = Candidates(w) \/ Cardinality(batch) = SendBatch
       /\ run' = [run EXCEPT ![w] =
                    [run[w] EXCEPT !.pc = IF batch = {} THEN "finish" ELSE "deliver",
                                   !.claimed = batch,
                                   !.held = @ \cup batch,
                                   !.d = [s \in Subs |-> IF s \in batch THEN Claimed(@[s]) ELSE @[s]]]]
  /\ UNCHANGED <<otherVars, status, requests, deliv, mails, mailed, recorded, counts>>

(* deliver and RecordDelivery for one recipient.  outcome "lost" is a send *)
(* that failed although the provider took the mail.                        *)
Deliver(w, s, outcome) ==
  /\ Running(w) /\ run[w].pc = "deliver" /\ s \in run[w].claimed
  /\ outcome \in {"sent", "lost"} => mails[s] < MaxSends
  /\ mails' = [mails EXCEPT ![s] = IF outcome \in {"sent", "lost"} THEN @ + 1 ELSE @]
  /\ mailed' = IF outcome \in {"sent", "lost"} THEN mailed \cup {run[w].body} ELSE mailed
  /\ recorded' = IF outcome = "sent" THEN recorded \cup {s} ELSE recorded
  /\ run' = [run EXCEPT ![w] =
               [run[w] EXCEPT !.claimed = @ \ {s},
                              !.pc = IF run[w].claimed = {s} THEN "claim" ELSE "deliver",
                              !.tried = IF outcome = "sent" THEN @ ELSE @ \cup {s},
                              !.d[s].st = IF outcome = "sent" THEN "sent" ELSE "failed",
                              !.d[s].perm = (outcome = "permanent")]]
  /\ UNCHANGED <<otherVars, status, requests, deliv, counts>>

(* Mutant of SentRows: every attempted delivery counts as sent.            *)
SentRowsAttempted(d) == {s \in Subs : d[s].st # "none"}

(* DeliveryCounts over the run's view of the deliveries.                   *)
SentRows(d) == {s \in Subs : d[s].st = "sent"}

Retryable(d) ==
  {s \in Subs : /\ d[s].st \notin {"none", "sent"}
                /\ ~d[s].perm /\ d[s].attempts < SendAttempts
                /\ sub[s] = "active"}

FailedRows(d) == {s \in Subs : d[s].st \notin {"none", "sent"}} \ Retryable(d)

(* finish with nothing to retry: FinishIssue, then the transaction commits *)
(* everything the run did and the message is acknowledged.                 *)
FinishIssue(w) ==
  /\ Running(w) /\ run[w].pc = "finish"
  /\ Retryable(run[w].d) = {}
  /\ status' = "sent"
  /\ counts' = [sent |-> Cardinality(SentRows(run[w].d)), failed |-> Cardinality(FailedRows(run[w].d))]
  /\ deliv' = run[w].d
  /\ run' = [run EXCEPT ![w] = NoRun]
  /\ requests' = requests - 1
  /\ UNCHANGED <<otherVars, mails, mailed, recorded>>

(* The transaction rolls back.  A failed handler is not run again by the   *)
(* router's retries (Consumer!OnceOnFinishedTx), so the message is dead-   *)
(* lettered, or, if the worker died or the breaker opened, delivered again.*)
Rollback(w) ==
  /\ run' = [run EXCEPT ![w] = NoRun]
  /\ requests' \in {requests, requests - 1}
  /\ UNCHANGED <<otherVars, status, deliv, mails, mailed, recorded, counts>>

(* finish with retryable failures: ErrDeliveriesPending.                   *)
DeliveriesPending(w) ==
  /\ Running(w) /\ run[w].pc = "finish"
  /\ Retryable(run[w].d) # {}
  /\ Rollback(w)

(* Dispatch meets a database error, its COMMIT fails, or the worker dies.  *)
AbortRun(w) == Running(w) /\ Rollback(w)

DispatchStep(w) ==
  \/ Begin(w)
  \/ SkipRun(w)
  \/ ClaimRecipients(w)
  \/ \E s \in Subs, outcome \in {"sent", "lost", "failed", "permanent"} : Deliver(w, s, outcome)
  \/ FinishIssue(w)
  \/ DeliveriesPending(w)

IssueNext ==
  \/ \E to \in IssueStatus : CreateIssue(to)
  \/ \E e \in Editors : ReadIssue(e) \/ RequestFails(e)
  \/ \E e \in Editors, to \in IssueStatus : SaveEdit(e, to) \/ SaveMove(e, to)
  \/ DueIssues
  \/ ReleaseDue
  \/ Tick
  \/ \E s \in Subs : SubscriberTxBegin(s) \/ SubscriberTxEnd(s)
  \/ \E w \in Workers : DispatchStep(w) \/ AbortRun(w)

IssueSpec == IssueInit /\ [][IssueNext]_newsletterVars

-----------------------------------------------------------------------------
(* Mail goes only to subscribers that are active when it is sent: an       *)
(* unsubscribe that committed is never followed by this issue.             *)
MailsOnlyActive ==
  [][\A s \in Subs : mails'[s] # mails[s] => sub[s] = "active" /\ s \notin subTx]_newsletterVars

(* Once an editor's cancel committed, nobody is mailed any more.           *)
CancelStopsMail == [][status = "cancelled" => UNCHANGED mails]_newsletterVars

(* The counts of a sent issue account for every delivery row, and each row *)
(* recorded as sent stands for a mail.                                     *)
SentCountsAddUp ==
  /\ status = "sent" =>
       /\ counts.sent = Cardinality({s \in Subs : deliv[s].st = "sent"})
       /\ counts.sent + counts.failed = Cardinality({s \in Subs : deliv[s].st # "none"})
  /\ \A s \in Subs : deliv[s].st = "sent" => mails[s] > 0

(* The status an issue has committed: it never leaves sent or cancelled,   *)
(* and reaches sent only from queued or sending.                           *)
LifecycleRespected ==
  [][status' # status =>
       \/ status = "none"
       \/ CanMove(status, status')
       \/ status \in {"queued", "sending"} /\ status' = "sent"]_newsletterVars

(* Editors and the release job may race to queue an issue, but it is       *)
(* handed to the worker once.                                              *)
RequestedOnce == requests <= 1

(* Everybody gets the same issue, over all runs: what is mailed can no     *)
(* longer be edited.                                                       *)
OneContentMailed == (\E s \in Subs : mails[s] > 0) => mailed = {content}

(* The counts, the requests and the contents of one issue agree            *)
(* (ReleaseDue, ClaimRecipients, FinishIssue, UpdateIssue).                *)
IssueInvariant == IssueTypeOK /\ SentCountsAddUp /\ RequestedOnce /\ OneContentMailed

(* dispatch.go: "sent recipients are skipped".  A recipient some run       *)
(* recorded as sent is never mailed again.                                 *)
SentAreSkipped == [][\A s \in recorded : mails'[s] <= mails[s]]_newsletterVars

(* What no step may do: mail somebody who has left, mail a cancelled       *)
(* issue, or move the issue outside its life cycle.                        *)
IssueSteps == MailsOnlyActive /\ CancelStopsMail /\ LifecycleRespected
=============================================================================
