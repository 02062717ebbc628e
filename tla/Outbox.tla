------------------------------- MODULE Outbox -------------------------------
(***************************************************************************)
(* The transactional outbox: services append domain events to              *)
(* outbox_events inside the business transaction, or append a command      *)
(* after it committed (notificationqueue), and the relays of all worker    *)
(* processes publish due rows to the broker.                               *)
(*                                                                         *)
(* Time is abstracted: next_attempt_at is either reached ("due") or not    *)
(* ("waiting"), and the retention periods elapse at any moment.            *)
(***************************************************************************)
EXTENDS Broker, FiniteSets

CONSTANTS TxEvents,      \* events recorded in the business transaction; the
                         \* others are commands recorded after the commit
          Relays,        \* relay loops (one per worker process)
          BatchSize,     \* Config.BatchSize
          MaxAttempts,   \* Config.MaxAttempts
          MaxFaults      \* bound: relay aborts and operator retries

ASSUME OutboxAssumption ==
  /\ TxEvents \subseteq Events
  /\ IsFiniteSet(Events)
  /\ BatchSize \in Nat \ {0}
  /\ MaxAttempts \in Nat \ {0}
  /\ MaxFaults \in Nat

VARIABLES change,     \* events whose business change committed
          inlined,    \* commands delivered in process: the row was not stored
          dropped,    \* commands lost by a crash before they were recorded
          row,        \* state of the outbox row of each event
          attempts,   \* its attempts column
          relay,      \* the open RelayBatch transaction of each relay
          accepted,   \* history: events the broker accepted at least once
          faults      \* faults so far

outboxVars == <<change, inlined, dropped, row, attempts, relay, accepted, faults>>

RowState == {"none", "due", "waiting", "published", "parked", "pruned"}

(* An open transaction: rows still to publish, and the outcomes stored in  *)
(* it but not committed.                                                   *)
RelayState == [todo : SUBSET Events, sent : SUBSET Events, failed : SUBSET Events]

IdleRelay == [todo |-> {}, sent |-> {}, failed |-> {}]

(* The rows a relay has locked with FOR UPDATE.                            *)
Locked(r) == relay[r].todo \cup relay[r].sent \cup relay[r].failed

OutboxTypeOK ==
  /\ change \subseteq Events
  /\ inlined \subseteq Events
  /\ dropped \subseteq Events
  /\ row \in [Events -> RowState]
  /\ attempts \in [Events -> Nat]
  /\ relay \in [Relays -> RelayState]
  /\ accepted \subseteq Events
  /\ faults \in 0..MaxFaults

OutboxInit ==
  /\ change = {}
  /\ inlined = {}
  /\ dropped = {}
  /\ row = [e \in Events |-> "none"]
  /\ attempts = [e \in Events |-> 0]
  /\ relay = [r \in Relays |-> IdleRelay]
  /\ accepted = {}
  /\ faults = 0

-----------------------------------------------------------------------------
(* Producers.                                                              *)

(* OutboxRepository.Record: a new row is due at once (next_attempt_at is   *)
(* occurred_at).                                                           *)
Record(e) == row' = [row EXCEPT ![e] = "due"]

(* Mutant of InTx: the event is recorded outside the transaction, which    *)
(* rolls back.                                                             *)
InTxRecordsOutside(e) ==
  /\ e \in TxEvents \ change
  /\ row[e] = "none"
  /\ Record(e)
  /\ UNCHANGED <<change, inlined, dropped, attempts, relay, accepted, faults, queue>>

(* event.Unit: the change and its event commit together.  A rollback       *)
(* leaves neither and is a stuttering step.                                *)
InTx(e) ==
  /\ e \in TxEvents \ change
  /\ change' = change \cup {e}
  /\ Record(e)
  /\ UNCHANGED <<inlined, dropped, attempts, relay, accepted, faults, queue>>

(* A change whose notification command is recorded only after the commit.  *)
CommitChange(e) ==
  /\ e \in Events \ (TxEvents \cup change)
  /\ change' = change \cup {e}
  /\ UNCHANGED <<inlined, dropped, row, attempts, relay, accepted, faults, queue>>

(* A committed change whose command is not handed over yet.                *)
CommandOpen(e) ==
  /\ e \in change \ (TxEvents \cup inlined \cup dropped)
  /\ row[e] = "none"

(* Notifier.enqueue stores the command...                                  *)
EnqueueCommand(e) ==
  /\ CommandOpen(e)
  /\ Record(e)
  /\ UNCHANGED <<change, inlined, dropped, attempts, relay, accepted, faults, queue>>

(* ... or, when that fails, the notification is delivered in process.  The *)
(* row may be stored all the same, when only its confirmation got lost.    *)
DeliverInline(e) ==
  /\ CommandOpen(e)
  /\ inlined' = inlined \cup {e}
  /\ Record(e) \/ UNCHANGED row
  /\ UNCHANGED <<change, dropped, attempts, relay, accepted, faults, queue>>

(* The API process dies between the commit and the enqueue.                *)
CrashBeforeEnqueue(e) ==
  /\ CommandOpen(e)
  /\ dropped' = dropped \cup {e}
  /\ UNCHANGED <<change, inlined, row, attempts, relay, accepted, faults, queue>>

-----------------------------------------------------------------------------
(* The relay.                                                              *)

(* Mutant of Claimable: the claim query does not exclude published rows.   *)
ClaimablePublished ==
  {e \in Events : row[e] \in {"due", "published"} /\ \A r \in Relays : e \notin Locked(r)}

(* Rows the claim query returns: due, and locked by no open transaction.   *)
Claimable == {e \in Events : row[e] = "due" /\ \A r \in Relays : e \notin Locked(r)}

(* RelayBatch opens a transaction and claims up to BatchSize rows with     *)
(* FOR UPDATE SKIP LOCKED.  Any BatchSize of the due rows may be the       *)
(* oldest ones.  A claim of no rows commits nothing: a stuttering step.    *)
ClaimBatch(r) ==
  /\ relay[r] = IdleRelay
  /\ \E batch \in (SUBSET Claimable) \ {{}} :
       /\ Cardinality(batch) <= BatchSize
       /\ \/ Cardinality(batch) = BatchSize
          \/ batch = Claimable
       /\ relay' = [relay EXCEPT ![r] = [IdleRelay EXCEPT !.todo = batch]]
  /\ UNCHANGED <<change, inlined, dropped, row, attempts, accepted, faults, queue>>

(* publish succeeds; storeOutcome writes published_at in the transaction.  *)
PublishOk(r, e) ==
  /\ e \in relay[r].todo
  /\ relay' = [relay EXCEPT ![r].todo = @ \ {e}, ![r].sent = @ \cup {e}]
  /\ queue' = Enqueued(e)
  /\ accepted' = accepted \cup {e}
  /\ UNCHANGED <<change, inlined, dropped, row, attempts, faults>>

(* publish returns an error.  The broker may have taken the message all    *)
(* the same (a lost confirmation).  storeOutcome schedules the retry or    *)
(* parks the row, in the transaction.                                      *)
PublishError(r, e) ==
  /\ e \in relay[r].todo
  /\ relay' = [relay EXCEPT ![r].todo = @ \ {e}, ![r].failed = @ \cup {e}]
  /\ \/ UNCHANGED <<queue, accepted>>
     \/ queue' = Enqueued(e) /\ accepted' = accepted \cup {e}
  /\ UNCHANGED <<change, inlined, dropped, row, attempts, faults>>

(* The outcome stored for row e when its batch commits.  publish computes  *)
(* terminal from the attempts read with the claim, which the lock keeps    *)
(* equal to the column.                                                    *)
StoredOutcome(r, e) ==
  IF e \in relay[r].sent THEN "published"
  ELSE IF e \in relay[r].failed
       THEN IF attempts[e] + 1 >= MaxAttempts THEN "parked" ELSE "waiting"
       ELSE row[e]

(* The attempts column after the batch commits.                            *)
StoredAttempts(r, e) ==
  IF e \in relay[r].sent \cup relay[r].failed THEN attempts[e] + 1 ELSE attempts[e]

(* The transaction commits: every outcome becomes visible, the locks go.   *)
CommitBatch(r) ==
  /\ relay[r] # IdleRelay
  /\ relay[r].todo = {}
  /\ row' = [e \in Events |-> StoredOutcome(r, e)]
  /\ attempts' = [e \in Events |-> StoredAttempts(r, e)]
  /\ relay' = [relay EXCEPT ![r] = IdleRelay]
  /\ UNCHANGED <<change, inlined, dropped, accepted, faults, queue>>

(* A crash, a cancelled context, or a failed storeOutcome or COMMIT: the   *)
(* transaction rolls back, whatever was published stays published.         *)
AbortBatch(r) ==
  /\ relay[r] # IdleRelay
  /\ faults < MaxFaults
  /\ faults' = faults + 1
  /\ relay' = [relay EXCEPT ![r] = IdleRelay]
  /\ UNCHANGED <<change, inlined, dropped, row, attempts, accepted, queue>>

(* The backoff computed by Backoff has passed.                             *)
BackoffElapses(e) ==
  /\ row[e] = "waiting"
  /\ row' = [row EXCEPT ![e] = "due"]
  /\ UNCHANGED <<change, inlined, dropped, attempts, relay, accepted, faults, queue>>

(* Relay.maintain -> PruneBefore: published rows past the retention go.    *)
PruneBefore ==
  /\ \E old \in (SUBSET {e \in Events : row[e] = "published"}) \ {{}} :
       row' = [e \in Events |-> IF e \in old THEN "pruned" ELSE row[e]]
  /\ UNCHANGED <<change, inlined, dropped, attempts, relay, accepted, faults, queue>>

(* `app outbox retry`: every parked row is due again with no attempts.     *)
Retry ==
  /\ faults < MaxFaults
  /\ \E e \in Events : row[e] = "parked"
  /\ row' = [e \in Events |-> IF row[e] = "parked" THEN "due" ELSE row[e]]
  /\ attempts' = [e \in Events |-> IF row[e] = "parked" THEN 0 ELSE attempts[e]]
  /\ faults' = faults + 1
  /\ UNCHANGED <<change, inlined, dropped, relay, accepted, queue>>

ProducerNext ==
  \E e \in Events :
    \/ InTx(e)
    \/ CommitChange(e)
    \/ EnqueueCommand(e)
    \/ DeliverInline(e)
    \/ CrashBeforeEnqueue(e)

RelayNext ==
  \/ \E r \in Relays : ClaimBatch(r) \/ CommitBatch(r) \/ AbortBatch(r)
  \/ \E r \in Relays, e \in Events : PublishOk(r, e) \/ PublishError(r, e)
  \/ \E e \in Events : BackoffElapses(e)
  \/ PruneBefore
  \/ Retry

OutboxNext == ProducerNext \/ RelayNext

(* The outbox alone, publishing into an unread broker.                     *)
OutboxAloneInit ==
  /\ OutboxInit
  /\ queue = [e \in Events |-> 0]

OutboxSpec == OutboxAloneInit /\ [][OutboxNext]_<<outboxVars, queue>>

-----------------------------------------------------------------------------
(* SKIP LOCKED: a row is in the open transaction of at most one relay, and *)
(* has one outcome there (RelayBatch, "concurrent relays never publish the *)
(* same row").                                                             *)
ClaimsDisjoint ==
  /\ \A r1, r2 \in Relays : r1 # r2 => Locked(r1) \cap Locked(r2) = {}
  /\ \A r \in Relays :
       /\ relay[r].todo \cap (relay[r].sent \cup relay[r].failed) = {}
       /\ relay[r].sent \cap relay[r].failed = {}

(* A locked row is still due in the committed table: nobody publishes,     *)
(* parks or prunes it behind the relay's back.                             *)
LockedRowsDue == \A r \in Relays : \A e \in Locked(r) : row[e] = "due"

(* A row is marked published, and later pruned, only if the broker took    *)
(* the event: marking before publishing would lose it in a crash.          *)
PublishedWasAccepted ==
  \A e \in Events : row[e] \in {"published", "pruned"} => e \in accepted

(* Outcomes waiting for the commit tell the truth as well.                 *)
SentWasAccepted == \A r \in Relays : relay[r].sent \subseteq accepted

(* The retry budget: a row still retried has attempts left, a parked row   *)
(* has used exactly MaxAttempts.                                           *)
AttemptsBounded ==
  \A e \in Events :
    /\ row[e] \in {"none", "due", "waiting"} => attempts[e] < MaxAttempts
    /\ row[e] = "parked" => attempts[e] = MaxAttempts

(* The outbox and the business data agree: an event exists only for a      *)
(* committed change, and a change of TxEvents never lacks its event.       *)
RecordedWithChange ==
  /\ \A e \in Events : row[e] # "none" => e \in change
  /\ \A e \in change \cap TxEvents : row[e] # "none"

(* A row once marked published is never claimed or published again: the    *)
(* queue grows only for rows that are due.                                 *)
NoRepublish ==
  [][\A e \in Events : row[e] # "due" => queue'[e] <= queue[e]]_<<outboxVars, queue>>

(* The outbox and its relays: exclusive claims, truthful outcomes, a       *)
(* bounded budget, and events exactly with their changes (RelayBatch,      *)
(* Record).                                                                *)
OutboxSafe ==
  /\ OutboxTypeOK
  /\ ClaimsDisjoint
  /\ PublishedWasAccepted
  /\ AttemptsBounded
  /\ RecordedWithChange

(* OutboxSafe in every state, and no relay publishes a row that is stored  *)
(* as published (RelayBatch).                                              *)
OutboxCorrect == []OutboxSafe /\ NoRepublish
=============================================================================
