--------------------------- MODULE PipelineProofs ---------------------------
(***************************************************************************)
(* Proofs about event delivery end to end, for any events, relays, handler *)
(* copies, retry limits and numbers of crashes: first of the outbox alone, *)
(* then of the outbox, the broker and the consumer together.               *)
(***************************************************************************)
EXTENDS Pipeline, TLAPS, FiniteSetTheorems

-----------------------------------------------------------------------------
(* The outbox relay.  OutboxInv is inductive.  What makes it so is the row *)
(* lock: a row in an open relay transaction is in no other one             *)
(* (ClaimsDisjoint) and is still due in the committed table                *)
(* (LockedRowsDue), so the outcomes a commit writes are computed from the  *)
(* attempts the relay read.                                                *)

OutboxInv ==
  /\ OutboxTypeOK
  /\ queue \in [Events -> Nat]
  /\ ClaimsDisjoint
  /\ LockedRowsDue
  /\ SentWasAccepted
  /\ PublishedWasAccepted
  /\ AttemptsBounded
  /\ RecordedWithChange

relayVars == <<outboxVars, queue>>

(* The initial state satisfies the invariant: all rows absent, no open     *)
(* transaction.                                                            *)
LEMMA InitEstablishesInv ==
  OutboxAloneInit => OutboxInv
<1> SUFFICES ASSUME OutboxInit, queue = [e \in Events |-> 0] PROVE OutboxInv
  BY DEF OutboxAloneInit
<1> USE OutboxAssumption
<1>1. OutboxTypeOK /\ queue \in [Events -> Nat]
  BY DEF OutboxInit, OutboxTypeOK, RowState, RelayState, IdleRelay
<1>2. ClaimsDisjoint /\ LockedRowsDue /\ SentWasAccepted
  BY DEF OutboxInit, ClaimsDisjoint, LockedRowsDue, SentWasAccepted, Locked, IdleRelay
<1>3. PublishedWasAccepted /\ AttemptsBounded /\ RecordedWithChange
  BY DEF OutboxInit, PublishedWasAccepted, AttemptsBounded, RecordedWithChange
<1> QED
  BY <1>1, <1>2, <1>3 DEF OutboxInv

(* Steps that touch no relay transaction and no attempts column: they keep *)
(* the invariant if they keep locked rows due and published rows accepted. *)
LEMMA ProducerKeepsInv ==
  ASSUME OutboxInv, NEW e \in Events,
         InTx(e) \/ CommitChange(e) \/ EnqueueCommand(e) \/ DeliverInline(e) \/ CrashBeforeEnqueue(e)
  PROVE  OutboxInv'
<1> USE OutboxAssumption
<1>1. /\ UNCHANGED <<attempts, relay, accepted, faults, queue>>
      /\ change' \in {change, change \cup {e}}
      /\ inlined' \subseteq Events /\ dropped' \subseteq Events
  BY DEF OutboxInv, OutboxTypeOK, InTx, CommitChange, EnqueueCommand, DeliverInline, CrashBeforeEnqueue
<1>2. row[e] = "none" \/ UNCHANGED row
  BY DEF OutboxInv, RecordedWithChange, OutboxTypeOK, InTx, CommitChange, EnqueueCommand, DeliverInline,
         CrashBeforeEnqueue, CommandOpen
<1>3. row' = row \/ row' = [row EXCEPT ![e] = "due"]
  BY DEF InTx, CommitChange, EnqueueCommand, DeliverInline, CrashBeforeEnqueue, Record
<1>4. OutboxTypeOK' /\ queue' \in [Events -> Nat]
  BY <1>1, <1>3 DEF OutboxInv, OutboxTypeOK, RowState
<1>5. ClaimsDisjoint' /\ SentWasAccepted'
  BY <1>1 DEF OutboxInv, ClaimsDisjoint, SentWasAccepted, Locked
<1>6. LockedRowsDue'
  BY <1>1, <1>3 DEF OutboxInv, OutboxTypeOK, LockedRowsDue, Locked, RelayState
<1>7. PublishedWasAccepted' /\ AttemptsBounded'
  BY <1>1, <1>2, <1>3 DEF OutboxInv, OutboxTypeOK, PublishedWasAccepted, AttemptsBounded
<1>8. RecordedWithChange'
  <2>1. (\A x \in Events : row[x] # "none" => x \in change)'
    BY <1>1, <1>3 DEF OutboxInv, OutboxTypeOK, RecordedWithChange, InTx, CommitChange, EnqueueCommand,
                      DeliverInline, CrashBeforeEnqueue, CommandOpen, Record
  <2>2. (\A x \in change \cap TxEvents : row[x] # "none")'
    BY <1>1, <1>3 DEF OutboxInv, OutboxTypeOK, RecordedWithChange, InTx, CommitChange, EnqueueCommand,
                      DeliverInline, CrashBeforeEnqueue, CommandOpen, Record
  <2> QED
    BY <2>1, <2>2 DEF RecordedWithChange
<1> QED
  BY <1>4, <1>5, <1>6, <1>7, <1>8 DEF OutboxInv

(* Claiming a batch keeps the invariant: the rows are due and, by SKIP     *)
(* LOCKED, in no other open transaction.                                   *)
LEMMA ClaimKeepsInv ==
  ASSUME OutboxInv, NEW r \in Relays, ClaimBatch(r)
  PROVE  OutboxInv'
<1> USE OutboxAssumption
<1>1. PICK batch \in SUBSET Claimable : relay' = [relay EXCEPT ![r] = [IdleRelay EXCEPT !.todo = batch]]
  BY DEF ClaimBatch
<1>2. UNCHANGED <<change, inlined, dropped, row, attempts, accepted, faults, queue>>
  BY DEF ClaimBatch
<1>3. relay \in [Relays -> RelayState]
  BY DEF OutboxInv, OutboxTypeOK
<1>4. /\ relay'[r] = [todo |-> batch, sent |-> {}, failed |-> {}]
      /\ \A q \in Relays \ {r} : relay'[q] = relay[q]
  BY <1>1, <1>3 DEF IdleRelay
<1>5. /\ Locked(r)' = batch
      /\ \A q \in Relays \ {r} : Locked(q)' = Locked(q)
  BY <1>4 DEF Locked
<1>6. \A e \in batch : e \in Events /\ row[e] = "due" /\ \A q \in Relays : e \notin Locked(q)
  BY <1>1 DEF Claimable
<1>7. OutboxTypeOK' /\ queue' \in [Events -> Nat]
  <2>1. relay' \in [Relays -> RelayState]
    BY <1>1, <1>3, <1>6 DEF RelayState, IdleRelay
  <2> QED
    BY <2>1, <1>2 DEF OutboxInv, OutboxTypeOK
<1>8. ClaimsDisjoint'
  <2>1. ASSUME NEW p \in Relays, NEW q \in Relays, p # q PROVE (Locked(p) \cap Locked(q) = {})'
    BY <2>1, <1>5, <1>6 DEF OutboxInv, ClaimsDisjoint
  <2>2. ASSUME NEW q \in Relays
        PROVE  (/\ relay[q].todo \cap (relay[q].sent \cup relay[q].failed) = {}
                /\ relay[q].sent \cap relay[q].failed = {})'
    BY <2>2, <1>4 DEF OutboxInv, ClaimsDisjoint
  <2> QED
    BY <2>1, <2>2 DEF ClaimsDisjoint
<1>9. LockedRowsDue'
  BY <1>2, <1>5, <1>6 DEF OutboxInv, LockedRowsDue
<1>10. SentWasAccepted'
  BY <1>2, <1>4 DEF OutboxInv, SentWasAccepted
<1>11. PublishedWasAccepted' /\ AttemptsBounded' /\ RecordedWithChange'
  BY <1>2 DEF OutboxInv, PublishedWasAccepted, AttemptsBounded, RecordedWithChange
<1> QED
  BY <1>7, <1>8, <1>9, <1>10, <1>11 DEF OutboxInv

(* A publish, successful or not, moves a row between the sets of one open  *)
(* transaction; a row enters sent only together with accepted.             *)
LEMMA PublishKeepsInv ==
  ASSUME OutboxInv, NEW r \in Relays, NEW e \in Events, PublishOk(r, e) \/ PublishError(r, e)
  PROVE  OutboxInv'
<1> USE OutboxAssumption
<1>1. /\ e \in relay[r].todo
      /\ UNCHANGED <<change, inlined, dropped, row, attempts, faults>>
  BY DEF PublishOk, PublishError
<1>2. relay \in [Relays -> RelayState] /\ queue \in [Events -> Nat] /\ accepted \subseteq Events
  BY DEF OutboxInv, OutboxTypeOK
<1>3. /\ queue' \in [Events -> Nat]
      /\ accepted' \subseteq Events /\ accepted \subseteq accepted'
  BY <1>2 DEF PublishOk, PublishError, Enqueued
<1>4. /\ relay'[r].todo = relay[r].todo \ {e}
      /\ \/ relay'[r].sent = relay[r].sent \cup {e} /\ relay'[r].failed = relay[r].failed /\ e \in accepted'
         \/ relay'[r].sent = relay[r].sent /\ relay'[r].failed = relay[r].failed \cup {e}
      /\ relay' \in [Relays -> RelayState]
      /\ \A q \in Relays \ {r} : relay'[q] = relay[q]
  <2>1. CASE PublishOk(r, e)
    BY <2>1, <1>2 DEF PublishOk, RelayState
  <2>2. CASE PublishError(r, e)
    BY <2>2, <1>2 DEF PublishError, RelayState
  <2> QED
    BY <2>1, <2>2
<1>5. \A q \in Relays : Locked(q)' = Locked(q)
  BY <1>1, <1>4 DEF Locked
<1>6. OutboxTypeOK'
  BY <1>1, <1>3, <1>4 DEF OutboxInv, OutboxTypeOK
<1>7. ClaimsDisjoint'
  <2>1. ASSUME NEW p \in Relays, NEW q \in Relays, p # q PROVE (Locked(p) \cap Locked(q) = {})'
    BY <2>1, <1>5 DEF OutboxInv, ClaimsDisjoint
  <2>2. ASSUME NEW q \in Relays
        PROVE  (/\ relay[q].todo \cap (relay[q].sent \cup relay[q].failed) = {}
                /\ relay[q].sent \cap relay[q].failed = {})'
    BY <2>2, <1>1, <1>4 DEF OutboxInv, ClaimsDisjoint
  <2> QED
    BY <2>1, <2>2 DEF ClaimsDisjoint
<1>8. LockedRowsDue'
  BY <1>1, <1>5 DEF OutboxInv, LockedRowsDue
<1>9. SentWasAccepted'
  BY <1>3, <1>4 DEF OutboxInv, SentWasAccepted
<1>10. PublishedWasAccepted' /\ AttemptsBounded' /\ RecordedWithChange'
  BY <1>1, <1>3 DEF OutboxInv, PublishedWasAccepted, AttemptsBounded, RecordedWithChange
<1> QED
  BY <1>3, <1>6, <1>7, <1>8, <1>9, <1>10 DEF OutboxInv

(* Emptying one relay's transaction keeps the claims of the others.        *)
LEMMA RelayReleased ==
  ASSUME OutboxInv, NEW r \in Relays, relay' = [relay EXCEPT ![r] = IdleRelay], accepted' = accepted
  PROVE  /\ relay' \in [Relays -> RelayState]
         /\ ClaimsDisjoint'
         /\ SentWasAccepted'
         /\ Locked(r)' = {}
         /\ \A q \in Relays \ {r} : Locked(q)' = Locked(q) /\ Locked(q) \cap Locked(r) = {}
<1>1. relay \in [Relays -> RelayState]
  BY DEF OutboxInv, OutboxTypeOK
<1>2. relay'[r] = IdleRelay /\ \A q \in Relays \ {r} : relay'[q] = relay[q]
  BY <1>1
<1>3. relay' \in [Relays -> RelayState]
  BY <1>1 DEF RelayState, IdleRelay
<1>4. Locked(r)' = {} /\ \A q \in Relays \ {r} : Locked(q)' = Locked(q) /\ Locked(q) \cap Locked(r) = {}
  BY <1>2 DEF Locked, IdleRelay, OutboxInv, ClaimsDisjoint
<1>5. ClaimsDisjoint'
  <2>1. ASSUME NEW p \in Relays, NEW q \in Relays, p # q PROVE (Locked(p) \cap Locked(q) = {})'
    BY <2>1, <1>4 DEF OutboxInv, ClaimsDisjoint
  <2>2. ASSUME NEW q \in Relays
        PROVE  (/\ relay[q].todo \cap (relay[q].sent \cup relay[q].failed) = {}
                /\ relay[q].sent \cap relay[q].failed = {})'
    BY <2>2, <1>2 DEF OutboxInv, ClaimsDisjoint, IdleRelay
  <2> QED
    BY <2>1, <2>2 DEF ClaimsDisjoint
<1>6. SentWasAccepted'
  BY <1>2 DEF OutboxInv, SentWasAccepted, IdleRelay
<1> QED
  BY <1>3, <1>4, <1>5, <1>6

(* Committing a batch: its rows were due, so their attempts were below the *)
(* limit, and every other row, locked elsewhere or not, is left alone.     *)
LEMMA CommitKeepsInv ==
  ASSUME OutboxInv, NEW r \in Relays, CommitBatch(r)
  PROVE  OutboxInv'
<1> USE OutboxAssumption
<1>1. /\ relay' = [relay EXCEPT ![r] = IdleRelay]
      /\ UNCHANGED <<change, inlined, dropped, accepted, faults, queue>>
      /\ row' = [e \in Events |-> StoredOutcome(r, e)]
      /\ attempts' = [e \in Events |-> StoredAttempts(r, e)]
  BY DEF CommitBatch
<1>2. /\ row \in [Events -> RowState] /\ attempts \in [Events -> Nat]
      /\ \A e \in Locked(r) : row[e] = "due"
      /\ relay[r].sent \subseteq accepted
      /\ relay[r].sent \subseteq Locked(r) /\ relay[r].failed \subseteq Locked(r)
  BY DEF OutboxInv, OutboxTypeOK, LockedRowsDue, SentWasAccepted, Locked
<1>3. \A e \in Events :
        \/ e \in relay[r].sent /\ row'[e] = "published" /\ attempts'[e] = attempts[e] + 1
        \/ /\ e \in relay[r].failed /\ attempts'[e] = attempts[e] + 1
           /\ row'[e] = IF attempts[e] + 1 >= MaxAttempts THEN "parked" ELSE "waiting"
        \/ e \notin relay[r].sent \cup relay[r].failed /\ row'[e] = row[e] /\ attempts'[e] = attempts[e]
  BY <1>1 DEF StoredOutcome, StoredAttempts
<1>4. OutboxTypeOK' /\ queue' \in [Events -> Nat]
  <2>1. row' \in [Events -> RowState] /\ attempts' \in [Events -> Nat]
    BY <1>1, <1>2 DEF StoredOutcome, StoredAttempts, RowState
  <2> QED
    BY <2>1, <1>1, RelayReleased DEF OutboxInv, OutboxTypeOK
<1>5. ClaimsDisjoint' /\ SentWasAccepted'
  BY <1>1, RelayReleased
<1>6. LockedRowsDue'
  <2> SUFFICES ASSUME NEW q \in Relays, NEW e \in Locked(q)' PROVE row'[e] = "due"
    BY DEF LockedRowsDue
  <2>1. q # r /\ e \in Locked(q) /\ e \notin Locked(r)
    BY <1>1, RelayReleased
  <2>2. e \in Events /\ row[e] = "due"
    BY <2>1 DEF OutboxInv, OutboxTypeOK, LockedRowsDue, Locked, RelayState
  <2> QED
    BY <2>1, <2>2, <1>2, <1>3
<1>7. PublishedWasAccepted'
  BY <1>1, <1>2, <1>3 DEF OutboxInv, PublishedWasAccepted
<1>8. AttemptsBounded'
  <2> SUFFICES ASSUME NEW e \in Events
               PROVE  /\ row'[e] \in {"none", "due", "waiting"} => attempts'[e] < MaxAttempts
                      /\ row'[e] = "parked" => attempts'[e] = MaxAttempts
    BY DEF AttemptsBounded
  <2>1. attempts[e] \in Nat /\ (row[e] = "due" => attempts[e] < MaxAttempts)
    BY <1>2 DEF OutboxInv, AttemptsBounded
  <2>2. CASE e \in relay[r].sent \cup relay[r].failed
    BY <2>1, <2>2, <1>2, <1>3
  <2>3. CASE e \notin relay[r].sent \cup relay[r].failed
    BY <2>3, <1>3 DEF OutboxInv, AttemptsBounded
  <2> QED
    BY <2>2, <2>3
<1>9. RecordedWithChange'
  <2>1. \A e \in Events : row'[e] = "none" <=> row[e] = "none"
    BY <1>2, <1>3
  <2> QED
    BY <2>1, <1>1 DEF OutboxInv, OutboxTypeOK, RecordedWithChange
<1> QED
  BY <1>4, <1>5, <1>6, <1>7, <1>8, <1>9 DEF OutboxInv

(* A rolled-back batch leaves the table as it was.                         *)
LEMMA AbortKeepsInv ==
  ASSUME OutboxInv, NEW r \in Relays, AbortBatch(r)
  PROVE  OutboxInv'
<1> USE OutboxAssumption
<1>1. /\ relay' = [relay EXCEPT ![r] = IdleRelay]
      /\ UNCHANGED <<change, inlined, dropped, row, attempts, accepted, queue>>
      /\ faults' = faults + 1 /\ faults < MaxFaults
  BY DEF AbortBatch
<1>2. OutboxTypeOK' /\ queue' \in [Events -> Nat]
  <2>1. relay' \in [Relays -> RelayState]
    BY <1>1, RelayReleased
  <2>2. faults' \in 0..MaxFaults
    BY <1>1 DEF OutboxInv, OutboxTypeOK
  <2> QED
    BY <1>1, <2>1, <2>2 DEF OutboxInv, OutboxTypeOK
<1>3. ClaimsDisjoint' /\ SentWasAccepted'
  BY <1>1, RelayReleased
<1>4. LockedRowsDue'
  BY <1>1, RelayReleased DEF OutboxInv, LockedRowsDue
<1>5. PublishedWasAccepted' /\ AttemptsBounded' /\ RecordedWithChange'
  BY <1>1 DEF OutboxInv, PublishedWasAccepted, AttemptsBounded, RecordedWithChange
<1> QED
  BY <1>2, <1>3, <1>4, <1>5 DEF OutboxInv

(* Backoff, pruning and the operator's retry write only rows no relay has  *)
(* locked: locked rows are due, and these are waiting, published or parked.*)
LEMMA MaintenanceKeepsInv ==
  ASSUME OutboxInv, (\E e \in Events : BackoffElapses(e)) \/ PruneBefore \/ Retry
  PROVE  OutboxInv'
<1> USE OutboxAssumption
<1>1. /\ UNCHANGED <<change, inlined, dropped, relay, accepted, queue>>
      /\ faults' \in 0..MaxFaults
  BY DEF OutboxInv, OutboxTypeOK, BackoffElapses, PruneBefore, Retry
<1>2. row \in [Events -> RowState] /\ attempts \in [Events -> Nat]
  BY DEF OutboxInv, OutboxTypeOK
<1>3. /\ row' \in [Events -> RowState] /\ attempts' \in [Events -> Nat]
      /\ \A e \in Events :
           \/ row'[e] = row[e] /\ attempts'[e] = attempts[e]
           \/ row[e] = "waiting" /\ row'[e] = "due" /\ attempts'[e] = attempts[e]
           \/ row[e] = "published" /\ row'[e] = "pruned" /\ attempts'[e] = attempts[e]
           \/ row[e] = "parked" /\ row'[e] = "due" /\ attempts'[e] = 0
  <2>1. CASE \E e \in Events : BackoffElapses(e)
    BY <2>1, <1>2 DEF BackoffElapses, RowState
  <2>2. CASE PruneBefore
    BY <2>2, <1>2 DEF PruneBefore, RowState
  <2>3. CASE Retry
    BY <2>3, <1>2 DEF Retry, RowState
  <2> QED
    BY <2>1, <2>2, <2>3
<1>4. OutboxTypeOK' /\ queue' \in [Events -> Nat]
  BY <1>1, <1>3 DEF OutboxInv, OutboxTypeOK
<1>5. ClaimsDisjoint' /\ SentWasAccepted'
  BY <1>1 DEF OutboxInv, ClaimsDisjoint, SentWasAccepted, Locked
<1>6. LockedRowsDue'
  BY <1>1, <1>3 DEF OutboxInv, OutboxTypeOK, LockedRowsDue, Locked, RelayState
<1>7. PublishedWasAccepted' /\ AttemptsBounded'
  BY <1>1, <1>2, <1>3 DEF OutboxInv, PublishedWasAccepted, AttemptsBounded
<1>8. RecordedWithChange'
  BY <1>1, <1>2, <1>3 DEF OutboxInv, OutboxTypeOK, RecordedWithChange
<1> QED
  BY <1>4, <1>5, <1>6, <1>7, <1>8 DEF OutboxInv

(* Every step of the outbox, and every stuttering one, keeps the invariant.*)
LEMMA NextKeepsInv ==
  OutboxInv /\ [OutboxNext]_relayVars => OutboxInv'
<1> SUFFICES ASSUME OutboxInv, [OutboxNext]_relayVars PROVE OutboxInv'
  OBVIOUS
<1>1. CASE ProducerNext
  BY <1>1, ProducerKeepsInv DEF ProducerNext
<1>2. CASE RelayNext
  BY <1>2, ClaimKeepsInv, CommitKeepsInv, AbortKeepsInv, PublishKeepsInv, MaintenanceKeepsInv DEF RelayNext
<1>3. CASE UNCHANGED relayVars
  BY <1>3 DEF relayVars, outboxVars, OutboxInv, OutboxTypeOK, ClaimsDisjoint, LockedRowsDue, SentWasAccepted,
              PublishedWasAccepted, AttemptsBounded, RecordedWithChange, Locked
<1> QED
  BY <1>1, <1>2, <1>3 DEF OutboxNext

(* OutboxInv holds in every reachable state, for any events and relays.    *)
THEOREM OutboxInvariant == OutboxSpec => []OutboxInv
<1>1. OutboxSpec => OutboxAloneInit /\ [][OutboxNext]_relayVars
  BY DEF OutboxSpec, relayVars
<1> QED
  BY <1>1, InitEstablishesInv, NextKeepsInv, PTL

(* Concurrent relays never hold the same row, thanks to SKIP LOCKED.       *)
THEOREM RelaysDisjoint == OutboxSpec => []ClaimsDisjoint
<1>1. OutboxInv => ClaimsDisjoint
  BY DEF OutboxInv
<1> QED
  BY <1>1, OutboxInvariant, PTL

(* A row is marked published or pruned only after the broker accepted it.  *)
THEOREM PublishedAccepted == OutboxSpec => []PublishedWasAccepted
<1>1. OutboxInv => PublishedWasAccepted
  BY DEF OutboxInv
<1> QED
  BY <1>1, OutboxInvariant, PTL

(* Retries stay within MaxAttempts, and parking uses exactly that many.    *)
THEOREM RetryBudget == OutboxSpec => []AttemptsBounded
<1>1. OutboxInv => AttemptsBounded
  BY DEF OutboxInv
<1> QED
  BY <1>1, OutboxInvariant, PTL

(* The outbox row and the business change of an event commit together.     *)
THEOREM EventWithChange == OutboxSpec => []RecordedWithChange
<1>1. OutboxInv => RecordedWithChange
  BY DEF OutboxInv
<1> QED
  BY <1>1, OutboxInvariant, PTL

(* Only due rows are published: a published, parked or pruned row is not   *)
(* sent again unless an operator retries it.                               *)
THEOREM NeverRepublished == OutboxSpec => NoRepublish
<1>1. OutboxInv /\ [OutboxNext]_relayVars
        => [\A e \in Events : row[e] # "due" => queue'[e] <= queue[e]]_relayVars
  <2> SUFFICES ASSUME OutboxInv, OutboxNext, NEW e \in Events, row[e] # "due"
               PROVE  queue'[e] <= queue[e]
    BY DEF OutboxInv
  <2>1. queue \in [Events -> Nat]
    BY DEF OutboxInv
  <2>2. CASE ProducerNext
    BY <2>1, <2>2 DEF ProducerNext, InTx, CommitChange, EnqueueCommand, DeliverInline, CrashBeforeEnqueue
  <2>3. CASE \E r \in Relays, x \in Events : PublishOk(r, x) \/ PublishError(r, x)
    <3>1. PICK r \in Relays, x \in Events : PublishOk(r, x) \/ PublishError(r, x)
      BY <2>3
    <3>2. x \in Locked(r) /\ row[x] = "due"
      BY <3>1 DEF PublishOk, PublishError, Locked, OutboxInv, LockedRowsDue
    <3>3. queue' = queue \/ queue' = [queue EXCEPT ![x] = @ + 1]
      BY <3>1 DEF PublishOk, PublishError, Enqueued
    <3> QED
      BY <2>1, <3>2, <3>3
  <2>4. CASE RelayNext /\ ~(\E r \in Relays, x \in Events : PublishOk(r, x) \/ PublishError(r, x))
    BY <2>1, <2>4 DEF RelayNext, ClaimBatch, CommitBatch, AbortBatch, BackoffElapses, PruneBefore, Retry
  <2> QED
    BY <2>2, <2>3, <2>4 DEF OutboxNext
<1>2. OutboxSpec => [][OutboxNext]_relayVars
  BY DEF OutboxSpec, relayVars
<1>3. NoRepublish <=> [][\A e \in Events : row[e] # "due" => queue'[e] <= queue[e]]_relayVars
  BY DEF NoRepublish, relayVars
<1> QED
  BY <1>1, <1>2, <1>3, OutboxInvariant, PTL

(* The outbox is correct: its safety invariants always hold, and no row is *)
(* published again.                                                        *)
THEOREM OutboxIsCorrect == OutboxSpec => OutboxCorrect
<1>1. OutboxInv => OutboxSafe
  BY DEF OutboxInv, OutboxSafe
<1> QED
  BY <1>1, OutboxInvariant, NeverRepublished, PTL DEF OutboxCorrect

-----------------------------------------------------------------------------
(* The pipeline.  AppliedAtMostOnce is not inductive: it needs that a copy *)
(* runs the handler only for a message nobody has applied                  *)
(* (RunningIsFresh), that an applied message keeps its claim for as long   *)
(* as it can be delivered (AppliedIsClaimed), and that the claim is        *)
(* exclusive (OneRunPerMessage).  NothingLost needs that every event the   *)
(* broker ever took is accounted for (AcceptedIsTracked) and that a        *)
(* message is acknowledged only when its outcome is durable                *)
(* (AckedIsSettled).                                                       *)

(* The retry loop's counters: attempts left while the loop runs, at most   *)
(* one fresh transaction per attempt.                                      *)
TriesBounded ==
  \A c \in Copies : Busy(c) =>
    /\ copy[c].pc \in {"ready", "admitted", "running"} => copy[c].tries <= MaxRetries
    /\ copy[c].pc \in {"ready", "admitted"} => copy[c].fresh <= copy[c].tries
    /\ copy[c].pc = "running" => copy[c].fresh <= copy[c].tries + 1
    /\ copy[c].pc = "poison" => copy[c].cause # "none"

RunningIsFresh ==
  \A c \in Copies : (Busy(c) /\ copy[c].pc = "running") =>
    copy[c].msg \notin processed /\ applied[copy[c].msg] = 0

AppliedIsClaimed ==
  \A e \in Events :
    /\ e \in processed => applied[e] = 1
    /\ applied[e] > 0 => e \in processed \/ RedeliveryOver(e)

AckedIsSettled ==
  \A c \in Copies : (Busy(c) /\ copy[c].pc = "ack") =>
    applied[copy[c].msg] > 0 \/ DeadLettered(copy[c].msg)

Tracked(e) == queue[e] > 0 \/ Holding(e) # {} \/ applied[e] > 0 \/ DeadLettered(e)

AcceptedIsTracked == \A e \in Events : e \in accepted => Tracked(e)

OnlyAcceptedMoves ==
  /\ \A e \in Events : (queue[e] > 0 \/ Holding(e) # {} \/ applied[e] > 0) => e \in accepted
  /\ accepted \subseteq change

PipelineInv ==
  /\ OutboxInv
  /\ ConsumerTypeOK
  /\ TriesBounded
  /\ OneRunPerMessage
  /\ AppliedAtMostOnce
  /\ RunningIsFresh
  /\ AppliedIsClaimed
  /\ AckedIsSettled
  /\ AcceptedIsTracked
  /\ OnlyAcceptedMoves

-----------------------------------------------------------------------------
(* Initial states and steps of the outbox.                                 *)

(* Nothing is recorded, queued, held or applied at the start.              *)
LEMMA InitEstablishesPipelineInv == Init => PipelineInv
<1> SUFFICES ASSUME Init PROVE PipelineInv
  OBVIOUS
<1> USE ConsumerAssumption
<1>1. OutboxInv
  BY InitEstablishesInv DEF Init, OutboxAloneInit
<1>2. ConsumerTypeOK
  BY DEF Init, ConsumerInit, ConsumerTypeOK, Breaker, Closed
<1>3. /\ \A c \in Copies : ~Busy(c)
      /\ \A e \in Events : applied[e] = 0 /\ queue[e] = 0 /\ Holding(e) = {}
      /\ processed = {} /\ accepted = {}
  BY DEF Init, ConsumerInit, OutboxInit, Busy, Holding
<1>4. TriesBounded /\ OneRunPerMessage /\ RunningIsFresh /\ AckedIsSettled
  BY <1>3 DEF TriesBounded, OneRunPerMessage, RunningIsFresh, AckedIsSettled
<1>5. AppliedAtMostOnce /\ AppliedIsClaimed /\ AcceptedIsTracked /\ OnlyAcceptedMoves
  BY <1>3 DEF AppliedAtMostOnce, AppliedIsClaimed, AcceptedIsTracked, OnlyAcceptedMoves
<1> QED
  BY <1>1, <1>2, <1>4, <1>5 DEF PipelineInv

(* What the consumer can see of an outbox step: a message appears only for *)
(* a due row, which makes it accepted, and a published row stays so.       *)
LEMMA OutboxStepEffect ==
  ASSUME OutboxInv, OutboxNext
  PROVE  /\ \A e \in Events :
              \/ queue'[e] = queue[e] /\ (e \in accepted' <=> e \in accepted)
              \/ row[e] = "due" /\ queue'[e] = queue[e] + 1 /\ e \in accepted'
         /\ \A e \in Events : row[e] \in {"published", "pruned"} => row'[e] \in {"published", "pruned"}
         /\ change \subseteq change'
<1>1. /\ queue \in [Events -> Nat] /\ row \in [Events -> RowState]
      /\ \A r \in Relays : \A e \in Locked(r) : row[e] = "due"
  BY DEF OutboxInv, OutboxTypeOK, LockedRowsDue
<1>2. ASSUME NEW e \in Events,
             InTx(e) \/ CommitChange(e) \/ EnqueueCommand(e) \/ DeliverInline(e) \/ CrashBeforeEnqueue(e)
      PROVE  /\ UNCHANGED <<queue, accepted>> /\ change \subseteq change'
             /\ \/ row' = row
                \/ row[e] = "none" /\ row' = [row EXCEPT ![e] = "due"]
  <2>1. CASE InTx(e)
    BY <2>1 DEF InTx, Record, OutboxInv, RecordedWithChange
  <2>2. CASE CommitChange(e) \/ CrashBeforeEnqueue(e)
    BY <2>2 DEF CommitChange, CrashBeforeEnqueue
  <2>3. CASE EnqueueCommand(e) \/ DeliverInline(e)
    BY <2>3 DEF EnqueueCommand, DeliverInline, CommandOpen, Record
  <2> QED
    BY <1>2, <2>1, <2>2, <2>3
<1>3. ASSUME NEW r \in Relays, NEW e \in Events, PublishOk(r, e) \/ PublishError(r, e)
      PROVE  /\ row[e] = "due" /\ UNCHANGED <<row, change>>
             /\ \/ UNCHANGED <<queue, accepted>>
                \/ queue' = [queue EXCEPT ![e] = @ + 1] /\ accepted' = accepted \cup {e}
  BY <1>1, <1>3 DEF PublishOk, PublishError, Enqueued, Locked
<1>4. ASSUME NEW r \in Relays, ClaimBatch(r) \/ AbortBatch(r)
      PROVE  UNCHANGED <<queue, accepted, row, change>>
  BY <1>4 DEF ClaimBatch, AbortBatch
<1>5. ASSUME NEW r \in Relays, CommitBatch(r)
      PROVE  /\ UNCHANGED <<queue, accepted, change>>
             /\ \A e \in Events : row[e] \in {"published", "pruned"} => row'[e] = row[e]
  BY <1>1, <1>5 DEF CommitBatch, StoredOutcome, Locked
<1>6. ASSUME (\E e \in Events : BackoffElapses(e)) \/ PruneBefore \/ Retry
      PROVE  /\ UNCHANGED <<queue, accepted, change>>
             /\ \A e \in Events : row[e] \in {"published", "pruned"} => row'[e] \in {"published", "pruned"}
  BY <1>1, <1>6 DEF BackoffElapses, PruneBefore, Retry
<1>7. CASE ProducerNext
  BY <1>1, <1>2, <1>7 DEF ProducerNext
<1>8. CASE RelayNext
  BY <1>1, <1>3, <1>4, <1>5, <1>6, <1>8 DEF RelayNext
<1> QED
  BY <1>7, <1>8 DEF OutboxNext

(* Outbox steps keep the invariant: a published row is never published     *)
(* again, so RedeliveryOver is stable.                                     *)
LEMMA OutboxStepKeepsPipelineInv ==
  ASSUME PipelineInv, OutboxNext, UNCHANGED consumerVars
  PROVE  PipelineInv'
<1>1. OutboxInv'
  BY NextKeepsInv DEF PipelineInv
<1>2. OutboxInv
  BY DEF PipelineInv
<1>3. /\ \A e \in Events :
           \/ queue'[e] = queue[e] /\ (e \in accepted' <=> e \in accepted)
           \/ row[e] = "due" /\ queue'[e] = queue[e] + 1 /\ e \in accepted'
      /\ \A e \in Events : row[e] \in {"published", "pruned"} => row'[e] \in {"published", "pruned"}
      /\ change \subseteq change'
  BY <1>2, OutboxStepEffect
<1>4. /\ UNCHANGED <<copy, breaker, processed, applied, dead, crashes>>
      /\ \A e \in Events : Holding(e)' = Holding(e) /\ DeadLettered(e)' = DeadLettered(e)
      /\ \A c \in Copies : Busy(c)' = Busy(c)
  BY DEF consumerVars, Holding, DeadLettered, Busy
<1>5. ConsumerTypeOK' /\ TriesBounded' /\ OneRunPerMessage' /\ RunningIsFresh' /\ AppliedAtMostOnce'
  BY <1>4 DEF PipelineInv, ConsumerTypeOK, TriesBounded, OneRunPerMessage, RunningIsFresh, AppliedAtMostOnce
<1>6. AckedIsSettled'
  BY <1>4 DEF PipelineInv, AckedIsSettled, ConsumerTypeOK, DeadLettered
<1>7. AppliedIsClaimed'
  <2> SUFFICES ASSUME NEW e \in Events, RedeliveryOver(e) PROVE RedeliveryOver(e)'
    BY <1>4 DEF PipelineInv, AppliedIsClaimed
  <2> QED
    BY <1>3, <1>4 DEF RedeliveryOver
<1>8. queue \in [Events -> Nat] /\ queue' \in [Events -> Nat]
  BY <1>1, <1>2 DEF OutboxInv
<1>9. AcceptedIsTracked'
  BY <1>3, <1>4, <1>8 DEF PipelineInv, AcceptedIsTracked, Tracked
<1>10. OnlyAcceptedMoves'
  <2>1. (\A e \in Events : (queue[e] > 0 \/ Holding(e) # {} \/ applied[e] > 0) => e \in accepted)'
    BY <1>3, <1>4, <1>8 DEF PipelineInv, OnlyAcceptedMoves
  <2>2. ASSUME NEW e \in accepted' PROVE e \in change'
    <3>1. e \in Events
      BY <1>1 DEF OutboxInv, OutboxTypeOK
    <3>2. row[e] = "due" => e \in change
      BY <1>2, <3>1 DEF OutboxInv, RecordedWithChange
    <3> QED
      BY <1>3, <3>1, <3>2 DEF PipelineInv, OnlyAcceptedMoves
  <2> QED
    BY <2>1, <2>2 DEF OnlyAcceptedMoves
<1> QED
  BY <1>1, <1>5, <1>6, <1>7, <1>9, <1>10 DEF PipelineInv

-----------------------------------------------------------------------------
(* Steps of one handler copy.                                              *)

(* A step that leaves copy k to its work: at most its breaker generation   *)
(* changes.                                                                *)
Undisturbed(k) ==
  /\ Busy(k)' = Busy(k)
  /\ Busy(k) => /\ copy'[k].pc = copy[k].pc /\ copy'[k].msg = copy[k].msg
                /\ copy'[k].tries = copy[k].tries /\ copy'[k].fresh = copy[k].fresh
                /\ copy'[k].cause = copy[k].cause

(* The invariants that speak about one copy, for the copy that stepped.    *)
CopyTries(c) ==
  /\ copy[c].pc \in {"ready", "admitted", "running"} => copy[c].tries <= MaxRetries
  /\ copy[c].pc \in {"ready", "admitted"} => copy[c].fresh <= copy[c].tries
  /\ copy[c].pc = "running" => copy[c].fresh <= copy[c].tries + 1
  /\ copy[c].pc = "poison" => copy[c].cause # "none"

(* TriesBounded, from the copy that stepped and the undisturbed others.    *)
LEMMA TriesStep ==
  ASSUME TriesBounded, NEW c \in Copies, Busy(c)' => CopyTries(c)', \A k \in Copies \ {c} : Undisturbed(k)
  PROVE  TriesBounded'
BY DEF TriesBounded, CopyTries, Undisturbed

(* A copy works on its message, keeping it: PipelineInv survives if the    *)
(* handler starts only under a free and new claim, applies only from a     *)
(* running transaction, and acks only what is settled.                     *)
LEMMA WorkStep ==
  ASSUME PipelineInv, NEW c \in Copies,
         UNCHANGED <<outboxVars, queue>>, ConsumerTypeOK',
         Busy(c), Busy(c)', copy'[c].msg = copy[c].msg, CopyTries(c)',
         \A k \in Copies \ {c} : Undisturbed(k),
         dead \subseteq dead',
         copy'[c].pc = "running" => copy[c].msg \notin processed /\ ~ClaimHeld(copy[c].msg),
         copy'[c].pc = "ack" => applied'[copy[c].msg] > 0 \/ DeadLettered(copy[c].msg)',
         \/ UNCHANGED <<processed, applied>>
         \/ /\ copy[c].pc = "running" /\ copy'[c].pc = "ack"
            /\ processed' = processed \cup {copy[c].msg}
            /\ applied' = [applied EXCEPT ![copy[c].msg] = @ + 1]
  PROVE  PipelineInv'
<1> DEFINE m == copy[c].msg
<1>1. /\ copy \in [Copies -> Delivery \cup {NoDelivery}] /\ processed \subseteq Events
      /\ applied \in [Events -> Nat] /\ dead \subseteq DeadLetter
      /\ \A k \in Copies : Busy(k) => copy[k].msg \in Events
      /\ queue \in [Events -> Nat]
  BY DEF PipelineInv, ConsumerTypeOK, Busy, Delivery, OutboxInv
<1>2. /\ m \in Events /\ c \in Holding(m)
      /\ \A e \in Events : Holding(e)' = Holding(e)
  BY <1>1 DEF Holding, Undisturbed
<1>3. OutboxInv'
  BY NextKeepsInv DEF PipelineInv, relayVars
<1>4. /\ \A k \in Copies \ {c} : (Busy(k) /\ copy[k].pc = "running" /\ copy'[c].pc = "running") => copy[k].msg # m
      /\ copy'[c].pc = "running" => applied[m] = 0 /\ UNCHANGED <<processed, applied>>
  <2>1. ASSUME copy'[c].pc = "running" PROVE applied[m] = 0
    BY <1>1, <1>2, <2>1 DEF PipelineInv, AppliedIsClaimed, RedeliveryOver
  <2>2. ASSUME copy'[c].pc = "running", NEW k \in Copies \ {c}, Busy(k), copy[k].pc = "running"
        PROVE  copy[k].msg # m
    BY <2>2 DEF ClaimHeld, Holding
  <2> QED
    BY <2>1, <2>2
<1>5. OneRunPerMessage'
  BY <1>4 DEF PipelineInv, OneRunPerMessage, Undisturbed
<1>6. \A e \in Events :
        \/ applied'[e] = applied[e] /\ (e \in processed' <=> e \in processed)
        \/ e = m /\ applied[e] = 0 /\ applied'[e] = 1 /\ e \in processed' /\ copy[c].pc = "running"
  BY <1>1, <1>2 DEF PipelineInv, RunningIsFresh
<1>7. RunningIsFresh'
  <2> SUFFICES ASSUME NEW k \in Copies, Busy(k)', copy'[k].pc = "running"
               PROVE  copy'[k].msg \notin processed' /\ applied'[copy'[k].msg] = 0
    BY DEF RunningIsFresh
  <2>1. CASE k = c
    BY <2>1, <1>4
  <2>2. CASE k # c
    <3>1. Busy(k) /\ copy[k].pc = "running" /\ copy'[k].msg = copy[k].msg
      BY <2>2 DEF Undisturbed
    <3>2. copy[k].msg \in Events /\ copy[k].msg \notin processed /\ applied[copy[k].msg] = 0
      BY <1>1, <3>1 DEF PipelineInv, RunningIsFresh
    <3>3. copy[c].pc = "running" => copy[k].msg # m
      BY <2>2, <3>1 DEF PipelineInv, OneRunPerMessage
    <3> QED
      BY <1>6, <3>1, <3>2, <3>3
  <2> QED
    BY <2>1, <2>2
<1>8. AppliedAtMostOnce'
  BY <1>6 DEF PipelineInv, AppliedAtMostOnce
<1>9. AppliedIsClaimed'
  <2>1. \A e \in Events : RedeliveryOver(e)' = RedeliveryOver(e)
    BY <1>2 DEF RedeliveryOver, outboxVars
  <2> QED
    BY <1>1, <1>6, <2>1 DEF PipelineInv, AppliedIsClaimed
<1>10. \A e \in Events : (applied[e] > 0 => applied'[e] > 0) /\ (DeadLettered(e) => DeadLettered(e)')
  BY <1>1, <1>6 DEF DeadLettered
<1>11. AckedIsSettled'
  BY <1>1, <1>2, <1>10 DEF PipelineInv, AckedIsSettled, Undisturbed
<1>12. AcceptedIsTracked'
  BY <1>1, <1>2, <1>10 DEF PipelineInv, AcceptedIsTracked, Tracked, outboxVars
<1>13. OnlyAcceptedMoves'
  BY <1>1, <1>2, <1>6 DEF PipelineInv, OnlyAcceptedMoves, outboxVars
<1>14. TriesBounded'
  BY TriesStep DEF PipelineInv
<1> QED
  BY <1>3, <1>5, <1>7, <1>8, <1>9, <1>11, <1>12, <1>13, <1>14 DEF PipelineInv

(* The breaker's own transitions stay within its states.                   *)
LEMMA BreakerStates ==
  ASSUME breaker \in Breaker
  PROVE  AfterSuccess \in Breaker /\ AfterFailure \in Breaker
BY ConsumerAssumption DEF Breaker, AfterSuccess, AfterFailure, Closed

(* Ending an attempt changes the acting copy and leaves the others to      *)
(* their work.                                                             *)
LEMMA EndAttemptEffect ==
  ASSUME ConsumerTypeOK, NEW c \in Copies, NEW d \in Delivery, NEW after \in Breaker, EndAttempt(c, d, after)
  PROVE  /\ copy' \in [Copies -> Delivery \cup {NoDelivery}] /\ breaker' \in Breaker
         /\ copy'[c] = [d EXCEPT !.current = FALSE]
         /\ Busy(c)'
         /\ copy'[c].pc = d.pc /\ copy'[c].msg = d.msg /\ copy'[c].tries = d.tries
         /\ copy'[c].fresh = d.fresh /\ copy'[c].cause = d.cause
         /\ \A k \in Copies \ {c} : Undisturbed(k)
<1>1. copy \in [Copies -> Delivery \cup {NoDelivery}] /\ breaker \in Breaker
  BY DEF ConsumerTypeOK
<1>2. breaker' \in Breaker
  BY <1>1 DEF EndAttempt
<1>3. copy'[c] = [d EXCEPT !.current = FALSE]
  BY DEF EndAttempt
<1>4. [d EXCEPT !.current = FALSE] \in Delivery
  BY DEF Delivery
<1>5. ASSUME NEW k \in Copies \ {c}
      PROVE  \/ copy'[k] = copy[k]
             \/ Busy(k) /\ copy'[k] = [copy[k] EXCEPT !.current = FALSE]
  BY <1>5 DEF EndAttempt
<1>6. ASSUME NEW k \in Copies, Busy(k) PROVE copy[k] \in Delivery /\ [copy[k] EXCEPT !.current = FALSE] \in Delivery
  BY <1>1, <1>6 DEF Busy, Delivery
<1>7. copy' \in [Copies -> Delivery \cup {NoDelivery}]
  <2>1. copy' = [k \in Copies |-> copy'[k]]
    BY DEF EndAttempt
  <2>2. ASSUME NEW k \in Copies PROVE copy'[k] \in Delivery \cup {NoDelivery}
    BY <1>1, <1>3, <1>4, <1>5, <1>6
  <2> QED
    BY <2>1, <2>2
<1>8. \A x \in Delivery : x # NoDelivery
  BY DEF Delivery, NoDelivery, Phase
<1>9. ASSUME NEW k \in Copies \ {c} PROVE Undisturbed(k)
  <2>1. CASE copy'[k] = copy[k]
    BY <2>1 DEF Undisturbed, Busy
  <2>2. CASE Busy(k) /\ copy'[k] = [copy[k] EXCEPT !.current = FALSE]
    BY <2>2, <1>6, <1>8 DEF Undisturbed, Busy, Delivery
  <2> QED
    BY <1>5, <2>1, <2>2
<1>10. Busy(c)' /\ copy'[c].pc = d.pc /\ copy'[c].msg = d.msg /\ copy'[c].tries = d.tries
       /\ copy'[c].fresh = d.fresh /\ copy'[c].cause = d.cause
  BY <1>3, <1>4, <1>8 DEF Busy, Delivery
<1> QED
  BY <1>2, <1>3, <1>7, <1>9, <1>10

(* A failed attempt either has a retry left or is on its way to the dead   *)
(* letter topic.                                                           *)
LEMMA AfterTransientEffect ==
  ASSUME NEW d \in Delivery, d.tries <= MaxRetries
  PROVE  /\ AfterTransient(d) \in Delivery
         /\ AfterTransient(d).msg = d.msg /\ AfterTransient(d).fresh = d.fresh
         /\ AfterTransient(d).tries = d.tries + 1 /\ AfterTransient(d).cause = "transient"
         /\ AfterTransient(d).pc \in {"ready", "poison"}
         /\ AfterTransient(d).pc = "ready" => AfterTransient(d).tries <= MaxRetries
<1>1. d.tries \in Nat /\ MaxRetries \in Nat /\ d.tries + 1 \in 0..MaxRetries + 1
  BY ConsumerAssumption DEF Delivery
<1>2. PICK p \in {"ready", "poison"} :
        /\ p = IF d.tries < MaxRetries THEN "ready" ELSE "poison"
        /\ AfterTransient(d) = [d EXCEPT !.pc = p, !.tries = d.tries + 1, !.cause = "transient"]
  BY DEF AfterTransient
<1>3. AfterTransient(d) \in Delivery
  BY <1>1, <1>2 DEF Delivery, Phase
<1>4. /\ AfterTransient(d).msg = d.msg /\ AfterTransient(d).fresh = d.fresh /\ AfterTransient(d).pc = p
      /\ AfterTransient(d).tries = d.tries + 1 /\ AfterTransient(d).cause = "transient"
  BY <1>2 DEF Delivery
<1> QED
  BY <1>1, <1>2, <1>3, <1>4

(* A delivery and its neighbours before a step.                            *)
LEMMA BusyDelivery ==
  ASSUME PipelineInv, NEW c \in Copies, Busy(c)
  PROVE  copy[c] \in Delivery /\ CopyTries(c) /\ ConsumerTypeOK /\ AfterSuccess \in Breaker
         /\ AfterFailure \in Breaker
<1>1. ConsumerTypeOK
  BY DEF PipelineInv
<1>2. copy[c] \in Delivery
  BY <1>1 DEF ConsumerTypeOK, Busy
<1>3. CopyTries(c)
  BY DEF PipelineInv, TriesBounded, CopyTries
<1> QED
  BY <1>1, <1>2, <1>3, BreakerStates DEF ConsumerTypeOK

(* The breaker admits an attempt: only the phase of the copy changes.      *)
LEMMA AdmitKeepsInv ==
  ASSUME PipelineInv, NEW c \in Copies, Admit(c), UNCHANGED outboxVars
  PROVE  PipelineInv'
<1>1. Busy(c) /\ copy[c].pc = "ready" /\ copy' = [copy EXCEPT ![c].pc = "admitted", ![c].current = TRUE]
      /\ breaker' = [breaker EXCEPT !.trial = (breaker.state = "half")]
      /\ UNCHANGED <<processed, applied, dead, crashes, queue>>
  BY DEF Admit
<1>2. copy[c] \in Delivery /\ CopyTries(c) /\ ConsumerTypeOK
  BY <1>1, BusyDelivery
<1>3. /\ copy'[c] = [copy[c] EXCEPT !.pc = "admitted", !.current = TRUE]
      /\ copy'[c] \in Delivery
      /\ copy' \in [Copies -> Delivery \cup {NoDelivery}]
      /\ \A k \in Copies \ {c} : copy'[k] = copy[k]
  BY <1>1, <1>2 DEF ConsumerTypeOK, Delivery, Phase
<1>4. Busy(c)' /\ copy'[c].pc = "admitted" /\ copy'[c].msg = copy[c].msg /\ CopyTries(c)'
  BY <1>1, <1>2, <1>3 DEF Busy, Delivery, CopyTries, NoDelivery
<1>5. \A k \in Copies \ {c} : Undisturbed(k)
  BY <1>3 DEF Undisturbed, Busy
<1>6. ConsumerTypeOK'
  BY <1>1, <1>2, <1>3 DEF ConsumerTypeOK, Breaker
<1> QED
  BY <1>1, <1>4, <1>5, <1>6, WorkStep

(* Once starts the handler only under a new and free claim.                *)
LEMMA OnceRunsKeepsInv ==
  ASSUME PipelineInv, NEW c \in Copies, OnceRuns(c), UNCHANGED outboxVars
  PROVE  PipelineInv'
<1>1. Busy(c) /\ copy[c].pc = "admitted" /\ copy' = [copy EXCEPT ![c].pc = "running", ![c].fresh = @ + 1]
      /\ copy[c].msg \notin processed /\ ~ClaimHeld(copy[c].msg)
      /\ UNCHANGED <<breaker, processed, applied, dead, crashes, queue>>
  BY DEF OnceRuns
<1>2. copy[c] \in Delivery /\ CopyTries(c) /\ ConsumerTypeOK
  BY <1>1, BusyDelivery
<1>3. copy[c].fresh + 1 \in 0..MaxRetries + 1 /\ copy[c].fresh + 1 <= copy[c].tries + 1 /\ copy[c].tries <= MaxRetries
  BY <1>1, <1>2, ConsumerAssumption DEF CopyTries, Delivery
<1>4. /\ copy'[c] = [copy[c] EXCEPT !.pc = "running", !.fresh = copy[c].fresh + 1]
      /\ copy'[c] \in Delivery
      /\ copy' \in [Copies -> Delivery \cup {NoDelivery}]
      /\ \A k \in Copies \ {c} : copy'[k] = copy[k]
  BY <1>1, <1>2, <1>3 DEF ConsumerTypeOK, Delivery, Phase
<1>5. Busy(c)' /\ copy'[c].pc = "running" /\ copy'[c].msg = copy[c].msg /\ CopyTries(c)'
  BY <1>2, <1>3, <1>4 DEF Busy, Delivery, CopyTries, NoDelivery
<1>6. \A k \in Copies \ {c} : Undisturbed(k)
  BY <1>4 DEF Undisturbed, Busy
<1>7. ConsumerTypeOK'
  BY <1>1, <1>2, <1>4 DEF ConsumerTypeOK
<1> QED
  BY <1>1, <1>5, <1>6, <1>7, WorkStep

(* A message handled before is acknowledged: its claim shows it was        *)
(* applied.                                                                *)
LEMMA OnceSkipsKeepsInv ==
  ASSUME PipelineInv, NEW c \in Copies, OnceSkips(c), UNCHANGED outboxVars
  PROVE  PipelineInv'
<1>1. Busy(c) /\ copy[c].msg \in processed
      /\ EndAttempt(c, [copy[c] EXCEPT !.pc = "ack"], AfterSuccess)
      /\ UNCHANGED <<processed, applied, dead, crashes, queue>>
  BY DEF OnceSkips
<1>2. copy[c] \in Delivery /\ CopyTries(c) /\ ConsumerTypeOK /\ AfterSuccess \in Breaker
  BY <1>1, BusyDelivery
<1>3. [copy[c] EXCEPT !.pc = "ack"] \in Delivery
  BY <1>2 DEF Delivery, Phase
<1>4. /\ copy' \in [Copies -> Delivery \cup {NoDelivery}] /\ breaker' \in Breaker
      /\ Busy(c)' /\ copy'[c].pc = "ack" /\ copy'[c].msg = copy[c].msg
      /\ \A k \in Copies \ {c} : Undisturbed(k)
  BY <1>1, <1>2, <1>3, EndAttemptEffect DEF Delivery
<1>5. ConsumerTypeOK' /\ CopyTries(c)'
  BY <1>1, <1>2, <1>4 DEF ConsumerTypeOK, CopyTries
<1>6. copy[c].msg \in Events /\ applied[copy[c].msg] = 1
  BY <1>1, <1>2 DEF Delivery, PipelineInv, AppliedIsClaimed
<1> QED
  BY <1>1, <1>4, <1>5, <1>6, WorkStep

(* The handler's transaction commits with its claim.                       *)
LEMMA HandlerCommitsKeepsInv ==
  ASSUME PipelineInv, NEW c \in Copies, HandlerCommits(c), UNCHANGED outboxVars
  PROVE  PipelineInv'
<1>1. Busy(c) /\ copy[c].pc = "running"
      /\ processed' = processed \cup {copy[c].msg}
      /\ applied' = [applied EXCEPT ![copy[c].msg] = @ + 1]
      /\ EndAttempt(c, [copy[c] EXCEPT !.pc = "ack"], AfterSuccess)
      /\ UNCHANGED <<dead, crashes, queue>>
  BY DEF HandlerCommits
<1>2. copy[c] \in Delivery /\ CopyTries(c) /\ ConsumerTypeOK /\ AfterSuccess \in Breaker
  BY <1>1, BusyDelivery
<1>3. [copy[c] EXCEPT !.pc = "ack"] \in Delivery
  BY <1>2 DEF Delivery, Phase
<1>4. /\ copy' \in [Copies -> Delivery \cup {NoDelivery}] /\ breaker' \in Breaker
      /\ Busy(c)' /\ copy'[c].pc = "ack" /\ copy'[c].msg = copy[c].msg
      /\ \A k \in Copies \ {c} : Undisturbed(k)
  BY <1>1, <1>2, <1>3, EndAttemptEffect DEF Delivery
<1>5. copy[c].msg \in Events /\ applied \in [Events -> Nat]
  BY <1>2 DEF Delivery, ConsumerTypeOK
<1>6. ConsumerTypeOK' /\ CopyTries(c)' /\ applied'[copy[c].msg] > 0
  BY <1>1, <1>2, <1>4, <1>5 DEF ConsumerTypeOK, CopyTries
<1> QED
  BY <1>1, <1>4, <1>6, WorkStep

(* A failed attempt, with or without a handler run, changes nothing but    *)
(* the delivery's own counters.                                            *)
LEMMA FailureKeepsInv ==
  ASSUME PipelineInv, NEW c \in Copies, HandlerFails(c) \/ ClaimFails(c) \/ OnceOnFinishedTx(c),
         UNCHANGED outboxVars
  PROVE  PipelineInv'
<1>1. Busy(c) /\ copy[c].pc \in {"admitted", "running"} /\ UNCHANGED <<processed, applied, dead, crashes, queue>>
  BY DEF HandlerFails, ClaimFails, OnceOnFinishedTx
<1>2. copy[c] \in Delivery /\ CopyTries(c) /\ ConsumerTypeOK /\ AfterFailure \in Breaker
  BY <1>1, BusyDelivery
<1>3. copy[c].tries \in Nat /\ copy[c].fresh \in Nat /\ copy[c].tries <= MaxRetries /\ copy[c].fresh <= copy[c].tries + 1
  BY <1>1, <1>2, ConsumerAssumption DEF CopyTries, Delivery
<1> DEFINE d == AfterTransient(copy[c])
<1>4. /\ d \in Delivery /\ d.msg = copy[c].msg /\ d.fresh = copy[c].fresh /\ d.tries = copy[c].tries + 1
      /\ d.cause = "transient" /\ d.pc \in {"ready", "poison"} /\ (d.pc = "ready" => d.tries <= MaxRetries)
  BY <1>2, <1>3, AfterTransientEffect
<1>5. PICK x \in Delivery :
        /\ EndAttempt(c, x, AfterFailure)
        /\ x.msg = d.msg /\ x.tries = d.tries /\ x.pc = d.pc /\ x.cause = d.cause /\ x.fresh <= d.tries
  <2>1. CASE HandlerFails(c)
    <3>1. [d EXCEPT !.tx = "finished"] \in Delivery
      BY <1>4 DEF Delivery
    <3>2. EndAttempt(c, [d EXCEPT !.tx = "finished"], AfterFailure)
      BY <2>1 DEF HandlerFails
    <3>3. LET y == [d EXCEPT !.tx = "finished"]
          IN  y.msg = d.msg /\ y.fresh = d.fresh /\ y.tries = d.tries /\ y.pc = d.pc /\ y.cause = d.cause
      BY <1>4 DEF Delivery
    <3> HIDE DEF d
    <3> QED
      BY <1>3, <1>4, <3>1, <3>2, <3>3
  <2>2. CASE ClaimFails(c)
    <3>1. copy[c].fresh <= copy[c].tries /\ d.fresh + 1 \in 0..MaxRetries + 1 /\ d.fresh + 1 <= d.tries
      BY <1>2, <1>3, <1>4, <2>2, ConsumerAssumption DEF ClaimFails, CopyTries
    <3>2. EndAttempt(c, [d EXCEPT !.fresh = d.fresh + 1], AfterFailure)
      BY <2>2 DEF ClaimFails
    <3> HIDE DEF d
    <3>3. [d EXCEPT !.fresh = d.fresh + 1] \in Delivery
      BY <1>4, <3>1 DEF Delivery
    <3>4. LET y == [d EXCEPT !.fresh = d.fresh + 1]
          IN  y.msg = d.msg /\ y.fresh = d.fresh + 1 /\ y.tries = d.tries /\ y.pc = d.pc /\ y.cause = d.cause
      BY <1>4 DEF Delivery
    <3> QED
      BY <3>1, <3>2, <3>3, <3>4
  <2>3. CASE OnceOnFinishedTx(c)
    BY <1>2, <1>3, <1>4, <2>3 DEF OnceOnFinishedTx
  <2> QED
    BY <2>1, <2>2, <2>3
<1> HIDE DEF d
<1>6. /\ copy' \in [Copies -> Delivery \cup {NoDelivery}] /\ breaker' \in Breaker
      /\ Busy(c)' /\ copy'[c].pc = d.pc /\ copy'[c].msg = copy[c].msg
      /\ copy'[c].fresh <= d.tries /\ copy'[c].tries = d.tries /\ copy'[c].cause = d.cause
      /\ \A k \in Copies \ {c} : Undisturbed(k)
  BY <1>2, <1>4, <1>5, EndAttemptEffect
<1>7. CopyTries(c)'
  BY <1>3, <1>4, <1>6 DEF CopyTries
<1>8. ConsumerTypeOK'
  BY <1>1, <1>2, <1>6 DEF ConsumerTypeOK
<1> QED
  BY <1>1, <1>4, <1>6, <1>7, <1>8, WorkStep

(* A permanent error sends the delivery to the dead letter topic.          *)
LEMMA HandlerRejectsKeepsInv ==
  ASSUME PipelineInv, NEW c \in Copies, HandlerRejects(c), UNCHANGED outboxVars
  PROVE  PipelineInv'
<1> DEFINE d == [copy[c] EXCEPT !.pc = "poison", !.cause = "permanent", !.tx = "finished"]
<1>1. Busy(c) /\ EndAttempt(c, d, AfterSuccess) /\ UNCHANGED <<processed, applied, dead, crashes, queue>>
  BY DEF HandlerRejects
<1>2. copy[c] \in Delivery /\ ConsumerTypeOK /\ AfterSuccess \in Breaker
  BY <1>1, BusyDelivery
<1>3. d \in Delivery /\ d.pc = "poison" /\ d.msg = copy[c].msg /\ d.cause = "permanent"
  BY <1>2 DEF Delivery, Phase
<1> HIDE DEF d
<1>4. /\ copy' \in [Copies -> Delivery \cup {NoDelivery}] /\ breaker' \in Breaker
      /\ Busy(c)' /\ copy'[c].pc = "poison" /\ copy'[c].msg = copy[c].msg /\ copy'[c].cause = "permanent"
      /\ \A k \in Copies \ {c} : Undisturbed(k)
  BY <1>1, <1>2, <1>3, EndAttemptEffect
<1>5. ConsumerTypeOK' /\ CopyTries(c)'
  BY <1>1, <1>2, <1>4 DEF ConsumerTypeOK, CopyTries
<1> QED
  BY <1>1, <1>4, <1>5, WorkStep

(* The dead letter is stored before the message is acknowledged.           *)
LEMMA DeadLetterOkKeepsInv ==
  ASSUME PipelineInv, NEW c \in Copies, DeadLetterOk(c), UNCHANGED outboxVars
  PROVE  PipelineInv'
<1> DEFINE l == [msg |-> copy[c].msg, cause |-> copy[c].cause]
<1>1. Busy(c) /\ copy[c].pc = "poison" /\ dead' = dead \cup {l} /\ copy' = [copy EXCEPT ![c].pc = "ack"]
      /\ UNCHANGED <<breaker, processed, applied, crashes, queue>>
  BY DEF DeadLetterOk
<1>2. copy[c] \in Delivery /\ CopyTries(c) /\ ConsumerTypeOK
  BY <1>1, BusyDelivery
<1>3. l \in DeadLetter /\ l.msg = copy[c].msg
  BY <1>1, <1>2 DEF DeadLetter, Delivery, CopyTries
<1>4. /\ copy'[c] = [copy[c] EXCEPT !.pc = "ack"]
      /\ copy'[c] \in Delivery
      /\ copy' \in [Copies -> Delivery \cup {NoDelivery}]
      /\ \A k \in Copies \ {c} : copy'[k] = copy[k]
  BY <1>1, <1>2 DEF ConsumerTypeOK, Delivery, Phase
<1>5. Busy(c)' /\ copy'[c].pc = "ack" /\ copy'[c].msg = copy[c].msg /\ CopyTries(c)'
  BY <1>2, <1>4 DEF Busy, Delivery, CopyTries, NoDelivery
<1>6. \A k \in Copies \ {c} : Undisturbed(k)
  BY <1>4 DEF Undisturbed, Busy
<1>7. ConsumerTypeOK' /\ DeadLettered(copy[c].msg)'
  BY <1>1, <1>2, <1>3, <1>4 DEF ConsumerTypeOK, DeadLettered
<1> QED
  BY <1>1, <1>5, <1>6, <1>7, WorkStep

(* A copy takes or gives up a message.  Messages move between the queue    *)
(* and the copies; what is over stays over, what is tracked stays tracked. *)
LEMMA MoveStep ==
  ASSUME PipelineInv, UNCHANGED <<outboxVars, processed, applied, dead>>, ConsumerTypeOK', TriesBounded',
         queue' \in [Events -> Nat],
         \A k \in Copies : Busy(k)' =>
           \/ copy'[k].pc = "ready"
           \/ Busy(k) /\ copy'[k].pc = copy[k].pc /\ copy'[k].msg = copy[k].msg,
         \A e \in Events :
           \/ (queue[e] = 0 /\ Holding(e) = {}) <=> (queue'[e] = 0 /\ Holding(e)' = {})
           \/ /\ queue'[e] = 0 /\ Holding(e)' = {} /\ Holding(e) # {}
              /\ applied[e] > 0 \/ DeadLettered(e)
  PROVE  PipelineInv'
<1>1. applied \in [Events -> Nat] /\ queue \in [Events -> Nat] /\ dead' = dead /\ applied' = applied
  BY DEF PipelineInv, ConsumerTypeOK, OutboxInv
<1>2. OutboxInv'
  BY DEF PipelineInv, OutboxInv, outboxVars, OutboxTypeOK, ClaimsDisjoint, LockedRowsDue, SentWasAccepted,
         PublishedWasAccepted, AttemptsBounded, RecordedWithChange, Locked
<1>3. OneRunPerMessage' /\ RunningIsFresh'
  BY DEF PipelineInv, OneRunPerMessage, RunningIsFresh
<1>4. AppliedAtMostOnce' /\ AckedIsSettled'
  BY DEF PipelineInv, AppliedAtMostOnce, AckedIsSettled, DeadLettered
<1>5. AppliedIsClaimed'
  <2>1. \A e \in Events : RedeliveryOver(e) => RedeliveryOver(e)'
    BY DEF RedeliveryOver, outboxVars
  <2> QED
    BY <2>1, <1>1 DEF PipelineInv, AppliedIsClaimed
<1>6. AcceptedIsTracked'
  BY <1>1 DEF PipelineInv, AcceptedIsTracked, Tracked, DeadLettered, outboxVars
<1>7. OnlyAcceptedMoves'
  <2>1. accepted' = accepted /\ change' = change
    BY DEF outboxVars
  <2>2. ASSUME NEW e \in Events, queue'[e] > 0 \/ Holding(e)' # {} \/ applied'[e] > 0 PROVE e \in accepted
    <3>1. CASE applied[e] > 0
      BY <3>1 DEF PipelineInv, OnlyAcceptedMoves
    <3>2. CASE queue[e] > 0 \/ Holding(e) # {}
      BY <3>2 DEF PipelineInv, OnlyAcceptedMoves
    <3> QED
      BY <1>1, <2>2, <3>1, <3>2
  <2> QED
    BY <2>1, <2>2 DEF PipelineInv, OnlyAcceptedMoves
<1> QED
  BY <1>2, <1>3, <1>4, <1>5, <1>6, <1>7 DEF PipelineInv

(* The router hands a message to an idle copy.                             *)
LEMMA ReceiveKeepsInv ==
  ASSUME PipelineInv, NEW c \in Copies, NEW m \in Events, Receive(c, m), UNCHANGED outboxVars
  PROVE  PipelineInv'
<1>1. ~Busy(c) /\ queue[m] > 0 /\ queue' = [queue EXCEPT ![m] = @ - 1]
      /\ UNCHANGED <<breaker, processed, applied, dead, crashes>>
  BY DEF Receive, Dequeued
<1>2. ConsumerTypeOK /\ queue \in [Events -> Nat]
  BY DEF PipelineInv, OutboxInv
<1>3. PICK d \in Delivery :
        /\ copy' = [copy EXCEPT ![c] = d]
        /\ d # NoDelivery /\ d.pc = "ready" /\ d.msg = m /\ d.tries = 0 /\ d.fresh = 0
  <2> DEFINE d == [pc |-> "ready", msg |-> m, tries |-> 0, fresh |-> 0, tx |-> "none", cause |-> "none",
                   current |-> FALSE]
  <2>1. d \in Delivery /\ d # NoDelivery /\ d.pc = "ready" /\ d.msg = m /\ d.tries = 0 /\ d.fresh = 0
    BY ConsumerAssumption DEF Delivery, Phase, NoDelivery
  <2>2. copy' = [copy EXCEPT ![c] = d]
    BY DEF Receive
  <2> HIDE DEF d
  <2> QED
    BY <2>1, <2>2
<1>4. copy'[c] = d /\ (\A k \in Copies \ {c} : copy'[k] = copy[k]) /\ ConsumerTypeOK'
  BY <1>1, <1>2, <1>3 DEF ConsumerTypeOK
<1>5. queue' \in [Events -> Nat] /\ \A e \in Events \ {m} : queue'[e] = queue[e]
  BY <1>1, <1>2
<1>6. /\ c \in Holding(m)'
      /\ \A e \in Events \ {m} : Holding(e)' = Holding(e)
  BY <1>1, <1>3, <1>4 DEF Holding, Busy
<1>7. TriesBounded'
  <2>1. Busy(c)' => CopyTries(c)'
    BY <1>3, <1>4, ConsumerAssumption DEF CopyTries
  <2>2. \A k \in Copies \ {c} : Undisturbed(k)
    BY <1>4 DEF Undisturbed, Busy
  <2> QED
    BY <2>1, <2>2, TriesStep DEF PipelineInv
<1>8. \A k \in Copies : Busy(k)' => \/ copy'[k].pc = "ready"
                                    \/ Busy(k) /\ copy'[k].pc = copy[k].pc /\ copy'[k].msg = copy[k].msg
  BY <1>3, <1>4 DEF Busy
<1>9. \A e \in Events : (queue[e] = 0 /\ Holding(e) = {}) <=> (queue'[e] = 0 /\ Holding(e)' = {})
  BY <1>1, <1>5, <1>6
<1>10. UNCHANGED <<outboxVars, processed, applied, dead>> /\ ConsumerTypeOK' /\ queue' \in [Events -> Nat]
  BY <1>1, <1>4, <1>5
<1> QED
  BY <1>7, <1>8, <1>9, <1>10, MoveStep

(* A copy that gives up its message.                                       *)
LEMMA CopyFreed ==
  ASSUME PipelineInv, NEW c \in Copies, Busy(c), copy' = [copy EXCEPT ![c] = NoDelivery],
         UNCHANGED <<breaker, processed, applied, dead, crashes>>
  PROVE  /\ ConsumerTypeOK' /\ TriesBounded'
         /\ copy[c].msg \in Events /\ c \in Holding(copy[c].msg)
         /\ \A e \in Events : Holding(e)' = Holding(e) \ {c} /\ (e # copy[c].msg => c \notin Holding(e))
         /\ \A k \in Copies : Busy(k)' => Busy(k) /\ copy'[k].pc = copy[k].pc /\ copy'[k].msg = copy[k].msg
<1>1. ConsumerTypeOK /\ copy[c] \in Delivery
  BY BusyDelivery
<1>2. ~Busy(c)' /\ (\A k \in Copies \ {c} : copy'[k] = copy[k]) /\ ConsumerTypeOK'
  BY <1>1 DEF ConsumerTypeOK, Busy
<1>3. \A k \in Copies \ {c} : Undisturbed(k)
  BY <1>2 DEF Undisturbed, Busy
<1>4. TriesBounded'
  BY <1>2, <1>3, TriesStep DEF PipelineInv
<1>5. copy[c].msg \in Events /\ c \in Holding(copy[c].msg)
  BY <1>1 DEF Delivery, Holding
<1>6. \A e \in Events : Holding(e)' = Holding(e) \ {c} /\ (e # copy[c].msg => c \notin Holding(e))
  BY <1>2 DEF Holding, Busy
<1> QED
  BY <1>2, <1>4, <1>5, <1>6 DEF Busy

(* A nacked message goes back to the broker.                               *)
LEMMA NackKeepsInv ==
  ASSUME PipelineInv, NEW c \in Copies, Refuse(c) \/ DeadLetterFails(c), UNCHANGED outboxVars
  PROVE  PipelineInv'
<1>1. Busy(c) /\ queue' = [queue EXCEPT ![copy[c].msg] = @ + 1] /\ copy' = [copy EXCEPT ![c] = NoDelivery]
      /\ UNCHANGED <<breaker, processed, applied, dead, crashes>>
  BY DEF Refuse, DeadLetterFails, Enqueued
<1>2. queue \in [Events -> Nat]
  BY DEF PipelineInv, OutboxInv
<1>3. /\ ConsumerTypeOK' /\ TriesBounded'
      /\ copy[c].msg \in Events /\ c \in Holding(copy[c].msg)
      /\ \A e \in Events : Holding(e)' = Holding(e) \ {c} /\ (e # copy[c].msg => c \notin Holding(e))
      /\ \A k \in Copies : Busy(k)' => Busy(k) /\ copy'[k].pc = copy[k].pc /\ copy'[k].msg = copy[k].msg
  BY <1>1, CopyFreed
<1>4. /\ queue' \in [Events -> Nat] /\ queue'[copy[c].msg] > 0
      /\ \A e \in Events \ {copy[c].msg} : queue'[e] = queue[e]
  BY <1>1, <1>2, <1>3
<1>5. \A e \in Events : (queue[e] = 0 /\ Holding(e) = {}) <=> (queue'[e] = 0 /\ Holding(e)' = {})
  BY <1>3, <1>4
<1> QED
  BY <1>1, <1>3, <1>4, <1>5, MoveStep

(* An acknowledged message is forgotten: it is applied or dead-lettered.   *)
LEMMA AckKeepsInv ==
  ASSUME PipelineInv, NEW c \in Copies, Ack(c), UNCHANGED outboxVars
  PROVE  PipelineInv'
<1>1. Busy(c) /\ copy[c].pc = "ack" /\ copy' = [copy EXCEPT ![c] = NoDelivery]
      /\ UNCHANGED <<breaker, processed, applied, dead, crashes, queue>>
  BY DEF Ack
<1>2. queue' \in [Events -> Nat]
  BY <1>1 DEF PipelineInv, OutboxInv
<1>3. /\ ConsumerTypeOK' /\ TriesBounded'
      /\ copy[c].msg \in Events /\ c \in Holding(copy[c].msg)
      /\ \A e \in Events : Holding(e)' = Holding(e) \ {c} /\ (e # copy[c].msg => c \notin Holding(e))
      /\ \A k \in Copies : Busy(k)' => Busy(k) /\ copy'[k].pc = copy[k].pc /\ copy'[k].msg = copy[k].msg
  BY <1>1, CopyFreed
<1>4. applied[copy[c].msg] > 0 \/ DeadLettered(copy[c].msg)
  BY <1>1 DEF PipelineInv, AckedIsSettled
<1>5. \A e \in Events :
        \/ (queue[e] = 0 /\ Holding(e) = {}) <=> (queue'[e] = 0 /\ Holding(e)' = {})
        \/ queue'[e] = 0 /\ Holding(e)' = {} /\ Holding(e) # {} /\ (applied[e] > 0 \/ DeadLettered(e))
  BY <1>1, <1>3, <1>4
<1> QED
  BY <1>1, <1>2, <1>3, <1>5, MoveStep

(* The breaker's timeout moves no message.                                 *)
LEMMA BreakerTimeoutKeepsInv ==
  ASSUME PipelineInv, BreakerTimeout, UNCHANGED outboxVars
  PROVE  PipelineInv'
<1>1. /\ breaker' = [breaker EXCEPT !.state = "half"]
      /\ copy' = [k \in Copies |-> IF Busy(k) THEN [copy[k] EXCEPT !.current = FALSE] ELSE NoDelivery]
      /\ UNCHANGED <<processed, applied, dead, crashes, queue>>
  BY DEF BreakerTimeout
<1>2. ConsumerTypeOK /\ queue \in [Events -> Nat]
  BY DEF PipelineInv, OutboxInv
<1>3. ASSUME NEW k \in Copies
      PROVE  /\ copy'[k] \in Delivery \cup {NoDelivery} /\ Undisturbed(k)
             /\ Busy(k)' => Busy(k) /\ copy'[k].pc = copy[k].pc /\ copy'[k].msg = copy[k].msg
  <2>1. CASE Busy(k)
    <3>1. copy[k] \in Delivery /\ copy'[k] = [copy[k] EXCEPT !.current = FALSE]
      BY <2>1, <1>1, <1>2 DEF ConsumerTypeOK, Busy
    <3>2. copy'[k] \in Delivery /\ copy'[k] # NoDelivery
      BY <3>1 DEF Delivery, NoDelivery, Phase
    <3> QED
      BY <2>1, <3>1, <3>2 DEF Undisturbed, Busy, Delivery
  <2>2. CASE ~Busy(k)
    BY <2>2, <1>1 DEF Undisturbed, Busy
  <2> QED
    BY <2>1, <2>2
<1>4. ConsumerTypeOK'
  BY <1>1, <1>2, <1>3 DEF ConsumerTypeOK, Breaker
<1>5. TriesBounded'
  BY <1>3 DEF PipelineInv, TriesBounded, Undisturbed
<1>6. \A e \in Events : Holding(e)' = Holding(e)
  BY <1>3 DEF Holding, Undisturbed
<1>7. queue' \in [Events -> Nat] /\ UNCHANGED <<outboxVars, processed, applied, dead>>
  BY <1>1, <1>2
<1>8. \A e \in Events : (queue[e] = 0 /\ Holding(e) = {}) <=> (queue'[e] = 0 /\ Holding(e)' = {})
  BY <1>1, <1>6
<1> QED
  BY <1>3, <1>4, <1>5, <1>7, <1>8, MoveStep

(* A crash returns every held message to the broker.                       *)
LEMMA WorkerCrashKeepsInv ==
  ASSUME PipelineInv, WorkerCrash, UNCHANGED outboxVars
  PROVE  PipelineInv'
<1>1. /\ crashes < MaxCrashes /\ crashes' = crashes + 1
      /\ queue' = [e \in Events |-> queue[e] + Cardinality(Holding(e))]
      /\ copy' = [c \in Copies |-> NoDelivery]
      /\ breaker' = Closed
      /\ UNCHANGED <<processed, applied, dead>>
  BY DEF WorkerCrash
<1>2. ConsumerTypeOK /\ queue \in [Events -> Nat]
  BY DEF PipelineInv, OutboxInv
<1>3. \A k \in Copies : ~Busy(k)'
  BY <1>1 DEF Busy
<1>4. \A e \in Events : Holding(e)' = {}
  BY <1>3 DEF Holding
<1>5. ASSUME NEW e \in Events
      PROVE  Cardinality(Holding(e)) \in Nat /\ (Cardinality(Holding(e)) = 0 <=> Holding(e) = {})
  <2>1. IsFiniteSet(Holding(e))
    BY ConsumerAssumption, FS_Subset DEF Holding
  <2> QED
    BY <2>1, FS_CardinalityType, FS_EmptySet
<1>6. queue' \in [Events -> Nat] /\ \A e \in Events : queue'[e] = queue[e] + Cardinality(Holding(e))
  BY <1>1, <1>2, <1>5
<1>7. ConsumerTypeOK'
  BY <1>1, <1>2, ConsumerAssumption DEF ConsumerTypeOK, Breaker, Closed
<1>8. TriesBounded'
  BY <1>3 DEF TriesBounded
<1>9. \A e \in Events : (queue[e] = 0 /\ Holding(e) = {}) <=> (queue'[e] = 0 /\ Holding(e)' = {})
  BY <1>2, <1>4, <1>5, <1>6
<1>10. UNCHANGED <<outboxVars, processed, applied, dead>>
  BY <1>1
<1> QED
  BY <1>3, <1>6, <1>7, <1>8, <1>9, <1>10, MoveStep

(* A claim may be pruned once its message cannot be delivered any more.    *)
LEMMA PruneClaimKeepsInv ==
  ASSUME PipelineInv, NEW m \in Events, PruneClaim(m, RedeliveryOver(m)), UNCHANGED outboxVars
  PROVE  PipelineInv'
<1>1. /\ RedeliveryOver(m) /\ processed' = processed \ {m}
      /\ UNCHANGED <<copy, breaker, applied, dead, crashes, queue>>
  BY DEF PruneClaim
<1>2. /\ \A e \in Events : /\ Holding(e)' = Holding(e) /\ RedeliveryOver(e)' = RedeliveryOver(e)
                            /\ DeadLettered(e)' = DeadLettered(e) /\ Tracked(e)' = Tracked(e)
      /\ \A c \in Copies : Busy(c)' = Busy(c)
  BY <1>1 DEF Holding, RedeliveryOver, DeadLettered, Tracked, Busy, outboxVars
<1>3. OutboxInv'
  BY <1>1, NextKeepsInv DEF PipelineInv, relayVars
<1>4. ConsumerTypeOK' /\ TriesBounded' /\ OneRunPerMessage' /\ RunningIsFresh' /\ AppliedAtMostOnce'
  BY <1>1, <1>2 DEF PipelineInv, ConsumerTypeOK, TriesBounded, OneRunPerMessage, RunningIsFresh, AppliedAtMostOnce
<1>5. AppliedIsClaimed'
  BY <1>1, <1>2 DEF PipelineInv, AppliedIsClaimed
<1>6. AckedIsSettled'
  BY <1>1 DEF PipelineInv, AckedIsSettled, DeadLettered, Busy
<1>7. AcceptedIsTracked' /\ OnlyAcceptedMoves'
  BY <1>1, <1>2 DEF PipelineInv, AcceptedIsTracked, OnlyAcceptedMoves, outboxVars
<1> QED
  BY <1>3, <1>4, <1>5, <1>6, <1>7 DEF PipelineInv

(* Every step of the pipeline keeps the invariant.                         *)
LEMMA NextKeepsPipelineInv == PipelineInv /\ [Next]_vars => PipelineInv'
<1> SUFFICES ASSUME PipelineInv, [Next]_vars PROVE PipelineInv'
  OBVIOUS
<1>1. CASE OutboxNext /\ UNCHANGED consumerVars
  BY <1>1, OutboxStepKeepsPipelineInv
<1>2. CASE ConsumerNext /\ UNCHANGED outboxVars
  <2>1. ASSUME NEW c \in Copies, CopyNext(c) PROVE PipelineInv'
    BY <1>2, <2>1, ReceiveKeepsInv, AdmitKeepsInv, NackKeepsInv, OnceRunsKeepsInv, OnceSkipsKeepsInv,
       HandlerCommitsKeepsInv, FailureKeepsInv, HandlerRejectsKeepsInv, DeadLetterOkKeepsInv, AckKeepsInv
       DEF CopyNext
  <2> QED
    BY <1>2, <2>1, BreakerTimeoutKeepsInv, WorkerCrashKeepsInv DEF ConsumerNext
<1>3. CASE \E e \in Events : PruneClaim(e, RedeliveryOver(e)) /\ UNCHANGED outboxVars
  BY <1>3, PruneClaimKeepsInv
<1>4. CASE UNCHANGED vars
  <2>1. UNCHANGED <<outboxVars, processed, applied, dead, copy, breaker, crashes, queue>>
    BY <1>4 DEF vars, consumerVars
  <2>2. ConsumerTypeOK' /\ TriesBounded' /\ queue' \in [Events -> Nat]
    BY <2>1 DEF PipelineInv, OutboxInv, ConsumerTypeOK, TriesBounded, Busy
  <2>3. \A e \in Events : Holding(e)' = Holding(e)
    BY <2>1 DEF Holding, Busy
  <2>4. \A k \in Copies : Busy(k)' => Busy(k) /\ copy'[k].pc = copy[k].pc /\ copy'[k].msg = copy[k].msg
    BY <2>1 DEF Busy
  <2>5. \A e \in Events : (queue[e] = 0 /\ Holding(e) = {}) <=> (queue'[e] = 0 /\ Holding(e)' = {})
    BY <2>1, <2>3
  <2>6. UNCHANGED <<outboxVars, processed, applied, dead>>
    BY <2>1
  <2> QED
    BY <2>2, <2>4, <2>5, <2>6, MoveStep
<1> QED
  BY <1>1, <1>2, <1>3, <1>4 DEF Next

(* The inductive invariant holds throughout.                               *)
THEOREM PipelineInvariant == Spec => []PipelineInv
BY InitEstablishesPipelineInv, NextKeepsPipelineInv, PTL DEF Spec

(* All variables of the pipeline keep their types, in-flight retry         *)
(* counters and dead letters included.                                     *)
THEOREM PipelineTypes == Spec => []TypeOK
<1>1. PipelineInv => TypeOK
  BY DEF PipelineInv, TypeOK, OutboxInv
<1> QED
  BY <1>1, PipelineInvariant, PTL

(* Exactly-once effect: at most one handler transaction commits for each   *)
(* message, whatever is redelivered, retried or interrupted.               *)
THEOREM EffectAtMostOnce == Spec => []AppliedAtMostOnce
<1>1. PipelineInv => AppliedAtMostOnce
  BY DEF PipelineInv
<1> QED
  BY <1>1, PipelineInvariant, PTL

(* No event recorded with a committed change is ever lost.                 *)
THEOREM NoEventLost == Spec => []NothingLost
<1>1. PipelineInv => NothingLost
  <2> SUFFICES ASSUME PipelineInv, NEW e \in change \cap TxEvents, row[e] \notin {"due", "waiting", "parked"}
               PROVE  Tracked(e)
    BY DEF NothingLost, Tracked
  <2>1. e \in Events /\ row \in [Events -> RowState] /\ row[e] # "none"
    BY OutboxAssumption DEF PipelineInv, OutboxInv, OutboxTypeOK, RecordedWithChange
  <2>2. row[e] \in {"published", "pruned"}
    BY <2>1 DEF RowState
  <2>3. e \in accepted
    BY <2>1, <2>2 DEF PipelineInv, OutboxInv, PublishedWasAccepted
  <2> QED
    BY <2>1, <2>3 DEF PipelineInv, AcceptedIsTracked
<1> QED
  BY <1>1, PipelineInvariant, PTL

(* Consumers act only on committed changes.                                *)
THEOREM ConsumersSeeCommitted == Spec => []OnlyCommittedChanges
<1>1. PipelineInv => OnlyCommittedChanges
  BY DEF PipelineInv, OnlyCommittedChanges, OnlyAcceptedMoves
<1> QED
  BY <1>1, PipelineInvariant, PTL

(* The composed pipeline keeps its types, and consumers act only on        *)
(* committed changes.                                                      *)
THEOREM PipelineIsSound == Spec => []PipelineSound
<1>1. TypeOK /\ OnlyCommittedChanges => PipelineSound
  BY DEF PipelineSound
<1> QED
  BY <1>1, PipelineTypes, ConsumersSeeCommitted, PTL
-----------------------------------------------------------------------------
(* The circuit breaker.  TrialIsAlone is not inductive: it needs that only *)
(* an admitted or running attempt belongs to the current generation, and   *)
(* that the trial flag is raised by a half-open breaker alone.             *)

InFlight(c) == Busy(c) /\ copy[c].current

NoneInFlight == \A c \in Copies : ~InFlight(c)

OnlyInFlight(c) == \A k \in Copies : InFlight(k) <=> k = c

TrialInv ==
  /\ \A c \in Copies : InFlight(c) => copy[c].pc \in {"admitted", "running"}
  /\ breaker.trial => breaker.state = "half"
  /\ breaker.state = "open" => NoneInFlight
  /\ breaker.state = "half" => IF breaker.trial THEN \E c \in Copies : OnlyInFlight(c) ELSE NoneInFlight

(* What the invariant says of the number of attempts in flight.            *)
LEMMA TrialIsCounted == TrialInv => TrialIsAlone
<1> SUFFICES ASSUME TrialInv PROVE TrialIsAlone
  OBVIOUS
<1> DEFINE inFlight == {c \in Copies : Busy(c) /\ copy[c].current}
<1>1. inFlight = {c \in Copies : InFlight(c)}
  BY DEF InFlight
<1>2. NoneInFlight => inFlight = {} /\ Cardinality(inFlight) = 0
  BY <1>1, FS_EmptySet DEF NoneInFlight
<1>3. ASSUME NEW c \in Copies, OnlyInFlight(c) PROVE Cardinality(inFlight) = 1
  <2>1. inFlight = {c}
    BY <1>1, <1>3 DEF OnlyInFlight
  <2> QED
    BY <2>1, FS_Singleton
<1>4. breaker.state = "half" => Cardinality(inFlight) = (IF breaker.trial THEN 1 ELSE 0)
  BY <1>2, <1>3 DEF TrialInv
<1> QED
  BY <1>2, <1>4 DEF TrialInv, TrialIsAlone

(* A step that leaves the breaker alone and puts nothing into flight.      *)
LEMMA QuietStep ==
  ASSUME TrialInv, UNCHANGED breaker,
         \A c \in Copies : InFlight(c)' = InFlight(c) /\ (InFlight(c) => copy'[c].pc \in {"admitted", "running"})
  PROVE  TrialInv'
<1>1. NoneInFlight' = NoneInFlight /\ \A c \in Copies : OnlyInFlight(c)' = OnlyInFlight(c)
  BY DEF NoneInFlight, OnlyInFlight
<1> QED
  BY <1>1 DEF TrialInv

(* The end of an attempt: a result of the current generation moves the     *)
(* breaker, and a change of its state takes every attempt out of flight.   *)
LEMMA EndAttemptKeepsTrial ==
  ASSUME ConsumerTypeOK, TrialInv, NEW c \in Copies, Busy(c), copy[c].pc \in {"admitted", "running"},
         NEW d \in Delivery, NEW after \in {AfterSuccess, AfterFailure}, EndAttempt(c, d, after)
  PROVE  TrialInv'
<1>1. /\ copy \in [Copies -> Delivery \cup {NoDelivery}] /\ breaker \in Breaker
      /\ after \in Breaker
  BY BreakerStates DEF ConsumerTypeOK
<1>2. breaker' = IF copy[c].current THEN after ELSE breaker
  BY DEF EndAttempt
<1>3. ~InFlight(c)'
  <2>1. copy'[c] = [d EXCEPT !.current = FALSE]
    BY DEF EndAttempt
  <2> QED
    BY <2>1 DEF InFlight, Delivery
<1>4. ASSUME NEW k \in Copies \ {c}, Busy(k), breaker'.state # breaker.state PROVE ~InFlight(k)'
  <2>1. copy'[k] = [copy[k] EXCEPT !.current = FALSE] /\ copy[k] \in Delivery
    BY <1>1, <1>2, <1>4 DEF EndAttempt, Busy
  <2> QED
    BY <2>1 DEF InFlight, Delivery
<1>5. ASSUME NEW k \in Copies \ {c}, ~Busy(k) \/ breaker'.state = breaker.state PROVE copy'[k] = copy[k]
  BY <1>2, <1>5 DEF EndAttempt
<1>6. CASE breaker'.state # breaker.state
  <2>1. NoneInFlight'
    <3> SUFFICES ASSUME NEW k \in Copies PROVE ~InFlight(k)'
      BY DEF NoneInFlight
    <3>1. CASE k = c
      BY <1>3, <3>1
    <3>2. CASE k # c /\ Busy(k)
      BY <1>4, <1>6, <3>2
    <3>3. CASE k # c /\ ~Busy(k)
      <4>1. copy'[k] = copy[k]
        BY <1>5, <3>3
      <4> QED
        BY <3>3, <4>1 DEF InFlight, Busy
    <3> QED
      BY <3>1, <3>2, <3>3
  <2>2. breaker' \in {AfterSuccess, AfterFailure} /\ copy[c].current
    BY <1>2, <1>6
  <2>3. breaker'.state # "half" /\ (breaker'.trial => breaker'.state = "half")
    BY <2>2, <1>1, <1>6 DEF AfterSuccess, AfterFailure, Closed, Breaker, TrialInv
  <2> QED
    BY <2>1, <2>3 DEF TrialInv, NoneInFlight
<1>7. CASE breaker'.state = breaker.state
  <2>1. \A k \in Copies \ {c} : copy'[k] = copy[k] /\ InFlight(k)' = InFlight(k)
    BY <1>5, <1>7 DEF InFlight, Busy
  <2>2. CASE ~copy[c].current
    <3>1. breaker' = breaker /\ InFlight(c)' = InFlight(c)
      BY <1>2, <1>3, <2>2 DEF InFlight
    <3>2. ASSUME NEW k \in Copies, InFlight(k) PROVE copy'[k].pc \in {"admitted", "running"}
      <4>1. k # c /\ copy[k].pc \in {"admitted", "running"}
        BY <2>2, <3>2 DEF InFlight, TrialInv
      <4> QED
        BY <2>1, <4>1
    <3>3. \A k \in Copies : InFlight(k)' = InFlight(k)
      BY <2>1, <3>1
    <3> QED
      BY <3>1, <3>2, <3>3, QuietStep
  <2>3. CASE copy[c].current
    <3>1. InFlight(c) /\ breaker.state \in {"closed", "half"}
      BY <2>3, <1>1 DEF InFlight, TrialInv, NoneInFlight, Breaker
    <3>2. breaker'.state = "closed" /\ ~breaker'.trial
      BY <1>1, <1>2, <1>7, <2>3, <3>1 DEF AfterSuccess, AfterFailure, Closed, Breaker, TrialInv
    <3> QED
      BY <1>3, <2>1, <3>2 DEF TrialInv, InFlight
  <2> QED
    BY <2>2, <2>3
<1> QED
  BY <1>6, <1>7

(* A copy takes a message or gives one up: neither is in flight.           *)
LEMMA IdleStepKeepsTrial ==
  ASSUME ConsumerTypeOK, TrialInv, NEW c \in Copies, ~InFlight(c), UNCHANGED breaker,
         NEW d \in Delivery \cup {NoDelivery}, d # NoDelivery => ~d.current, copy' = [copy EXCEPT ![c] = d]
  PROVE  TrialInv'
<1>1. copy'[c] = d /\ \A k \in Copies \ {c} : copy'[k] = copy[k]
  BY DEF ConsumerTypeOK
<1>2. \A k \in Copies : InFlight(k)' = InFlight(k)
  BY <1>1 DEF InFlight, Busy
<1>3. \A k \in Copies : InFlight(k) => copy'[k].pc \in {"admitted", "running"}
  BY <1>1 DEF TrialInv
<1> QED
  BY <1>2, <1>3, QuietStep

(* Every step of a copy keeps the invariant of the breaker.                *)
LEMMA CopyKeepsTrial ==
  ASSUME PipelineInv, TrialInv, NEW c \in Copies, CopyNext(c)
  PROVE  TrialInv'
<1> USE ConsumerAssumption
<1>1. ConsumerTypeOK /\ copy \in [Copies -> Delivery \cup {NoDelivery}] /\ breaker \in Breaker
  BY DEF PipelineInv, ConsumerTypeOK
<1>2. Busy(c) => copy[c] \in Delivery
  BY <1>1 DEF Busy
<1>3. ASSUME NEW e \in Events, Receive(c, e) PROVE TrialInv'
  <2> DEFINE d == [pc |-> "ready", msg |-> e, tries |-> 0, fresh |-> 0, tx |-> "none", cause |-> "none",
                   current |-> FALSE]
  <2>1. d \in Delivery /\ ~d.current
    BY DEF Delivery, Phase
  <2>2. copy' = [copy EXCEPT ![c] = d] /\ ~InFlight(c) /\ UNCHANGED breaker
    BY <1>3 DEF Receive, InFlight
  <2> HIDE DEF d
  <2> QED
    BY <1>1, <2>1, <2>2, IdleStepKeepsTrial
<1>4. CASE Admit(c)
  <2>1. /\ copy'[c] = [copy[c] EXCEPT !.pc = "admitted", !.current = TRUE] /\ copy[c] \in Delivery
        /\ \A k \in Copies \ {c} : copy'[k] = copy[k]
        /\ breaker' = [breaker EXCEPT !.trial = (breaker.state = "half")]
    BY <1>1, <1>2, <1>4 DEF Admit
  <2>2. copy'[c] \in Delivery /\ copy'[c].pc = "admitted" /\ copy'[c].current
    BY <2>1 DEF Delivery, Phase
  <2>3. InFlight(c)' /\ \A k \in Copies \ {c} : InFlight(k)' = InFlight(k)
    BY <2>1, <2>2 DEF InFlight, Busy, NoDelivery, Delivery, Phase
  <2>4. ~InFlight(c) /\ Admits
    BY <1>4 DEF Admit, TrialInv
  <2>5. /\ breaker'.state = breaker.state /\ breaker'.trial = (breaker.state = "half")
        /\ breaker.state = "closed" \/ (breaker.state = "half" /\ NoneInFlight)
    BY <1>1, <2>1, <2>4 DEF Breaker, Admits, TrialInv
  <2>6. breaker.state = "half" => OnlyInFlight(c)'
    BY <2>3, <2>5 DEF OnlyInFlight, NoneInFlight
  <2> QED
    BY <2>1, <2>2, <2>3, <2>5, <2>6 DEF TrialInv
<1>5. CASE Refuse(c) \/ DeadLetterFails(c) \/ Ack(c)
  <2>1. ~InFlight(c) /\ copy' = [copy EXCEPT ![c] = NoDelivery] /\ UNCHANGED breaker
    BY <1>5 DEF Refuse, DeadLetterFails, Ack, TrialInv
  <2> QED
    BY <1>1, <2>1, IdleStepKeepsTrial
<1>6. CASE OnceRuns(c)
  <2>1. /\ copy'[c] = [copy[c] EXCEPT !.pc = "running", !.fresh = @ + 1] /\ copy[c] \in Delivery
        /\ \A k \in Copies \ {c} : copy'[k] = copy[k]
        /\ UNCHANGED breaker
    BY <1>1, <1>2, <1>6 DEF OnceRuns
  <2>2. copy'[c].pc = "running" /\ copy'[c].current = copy[c].current /\ copy'[c] # NoDelivery
    BY <2>1 DEF Delivery, NoDelivery
  <2>3. \A k \in Copies : InFlight(k)' = InFlight(k)
    BY <1>6, <2>1, <2>2 DEF InFlight, Busy, OnceRuns
  <2>4. \A k \in Copies : InFlight(k) => copy'[k].pc \in {"admitted", "running"}
    BY <2>1, <2>2 DEF TrialInv
  <2> QED
    BY <2>1, <2>3, <2>4, QuietStep
<1>7. CASE OnceSkips(c) \/ HandlerCommits(c) \/ HandlerRejects(c)
  <2>1. Busy(c) /\ copy[c].pc \in {"admitted", "running"} /\ copy[c] \in Delivery
    BY <1>2, <1>7 DEF OnceSkips, HandlerCommits, HandlerRejects
  <2>2. /\ [copy[c] EXCEPT !.pc = "ack"] \in Delivery
        /\ [copy[c] EXCEPT !.pc = "poison", !.cause = "permanent", !.tx = "finished"] \in Delivery
    BY <2>1 DEF Delivery, Phase
  <2>3. PICK d \in Delivery : EndAttempt(c, d, AfterSuccess)
    BY <1>7, <2>2 DEF OnceSkips, HandlerCommits, HandlerRejects
  <2> QED
    BY <1>1, <2>1, <2>3, EndAttemptKeepsTrial
<1>8. CASE HandlerFails(c) \/ ClaimFails(c) \/ OnceOnFinishedTx(c)
  <2>1. Busy(c) /\ copy[c].pc \in {"admitted", "running"}
    BY <1>8 DEF HandlerFails, ClaimFails, OnceOnFinishedTx
  <2>2. copy[c] \in Delivery /\ copy[c].tries <= MaxRetries
    BY <1>2, <2>1 DEF PipelineInv, TriesBounded
  <2>3. AfterTransient(copy[c]) \in Delivery
    BY <2>2, AfterTransientEffect
  <2>4. [AfterTransient(copy[c]) EXCEPT !.tx = "finished"] \in Delivery
    BY <2>3 DEF Delivery
  <2>5. CASE ClaimFails(c)
    <3>1. copy[c].fresh \in Nat /\ copy[c].fresh <= MaxRetries
      BY <2>1, <2>2, <2>5 DEF ClaimFails, PipelineInv, TriesBounded, Delivery
    <3>2. AfterTransient(copy[c]).fresh = copy[c].fresh
      BY <2>2, AfterTransientEffect
    <3>3. [AfterTransient(copy[c]) EXCEPT !.fresh = @ + 1] \in Delivery
      BY <2>3, <3>1, <3>2 DEF Delivery
    <3>4. EndAttempt(c, [AfterTransient(copy[c]) EXCEPT !.fresh = @ + 1], AfterFailure)
      BY <2>5 DEF ClaimFails
    <3> QED
      BY <1>1, <2>1, <3>3, <3>4, EndAttemptKeepsTrial
  <2>6. CASE HandlerFails(c) \/ OnceOnFinishedTx(c)
    <3>1. PICK d \in Delivery : EndAttempt(c, d, AfterFailure)
      BY <2>3, <2>4, <2>6 DEF HandlerFails, OnceOnFinishedTx
    <3> QED
      BY <1>1, <2>1, <3>1, EndAttemptKeepsTrial
  <2> QED
    BY <1>8, <2>5, <2>6
<1>9. CASE DeadLetterOk(c)
  <2>1. ~InFlight(c) /\ copy' = [copy EXCEPT ![c].pc = "ack"] /\ UNCHANGED breaker /\ copy[c] \in Delivery
    BY <1>2, <1>9 DEF DeadLetterOk, TrialInv
  <2>2. copy' = [copy EXCEPT ![c] = [copy[c] EXCEPT !.pc = "ack"]]
    BY <1>1, <2>1
  <2>3. [copy[c] EXCEPT !.pc = "ack"] \in Delivery /\ ~[copy[c] EXCEPT !.pc = "ack"].current
    BY <1>9, <2>1 DEF Delivery, Phase, InFlight, DeadLetterOk
  <2> QED
    BY <1>1, <2>1, <2>2, <2>3, IdleStepKeepsTrial
<1> QED
  BY <1>3, <1>4, <1>5, <1>6, <1>7, <1>8, <1>9 DEF CopyNext

(* The timeout of an open breaker and a crash leave nothing in flight; the *)
(* other steps of the pipeline do not reach the breaker.                   *)
LEMMA NextKeepsTrial == PipelineInv /\ TrialInv /\ [Next]_vars => TrialInv'
<1> SUFFICES ASSUME PipelineInv, TrialInv, [Next]_vars PROVE TrialInv'
  OBVIOUS
<1>1. copy \in [Copies -> Delivery \cup {NoDelivery}] /\ breaker \in Breaker
  BY DEF PipelineInv, ConsumerTypeOK
<1>2. ASSUME UNCHANGED <<copy, breaker>> PROVE TrialInv'
  BY <1>2 DEF TrialInv, NoneInFlight, OnlyInFlight, InFlight, Busy
<1>3. ASSUME NEW c \in Copies, CopyNext(c) PROVE TrialInv'
  BY <1>3, CopyKeepsTrial
<1>4. CASE BreakerTimeout
  <2>1. breaker.state = "open" /\ breaker' = [breaker EXCEPT !.state = "half"]
    BY <1>4 DEF BreakerTimeout
  <2>2. breaker'.state = "half" /\ ~breaker'.trial
    BY <1>1, <2>1 DEF Breaker, TrialInv
  <2>3. ASSUME NEW k \in Copies PROVE ~InFlight(k)'
    <3>1. CASE Busy(k)
      <4>1. copy'[k] = [copy[k] EXCEPT !.current = FALSE] /\ copy[k] \in Delivery
        BY <1>1, <1>4, <3>1 DEF BreakerTimeout, Busy
      <4> QED
        BY <4>1 DEF InFlight, Delivery
    <3>2. CASE ~Busy(k)
      BY <1>4, <3>2 DEF BreakerTimeout, InFlight, Busy
    <3> QED
      BY <3>1, <3>2
  <2> QED
    BY <2>2, <2>3 DEF TrialInv, NoneInFlight
<1>5. CASE WorkerCrash
  <2>1. breaker' = Closed /\ \A k \in Copies : ~InFlight(k)'
    BY <1>5 DEF WorkerCrash, InFlight, Busy
  <2> QED
    BY <2>1 DEF TrialInv, Closed
<1> QED
  BY <1>2, <1>3, <1>4, <1>5 DEF Next, ConsumerNext, vars, consumerVars, PruneClaim

(* A half-open breaker lets exactly one attempt through, and an open one   *)
(* none, for any number of copies (gobreaker with MaxRequests 1).          *)
THEOREM TrialAlone == Spec => []TrialIsAlone
<1>1. Init => TrialInv
  BY DEF Init, ConsumerInit, TrialInv, NoneInFlight, InFlight, Busy, Closed
<1>2. Spec => []TrialInv
  BY <1>1, PipelineInvariant, NextKeepsTrial, PTL DEF Spec
<1> QED
  BY <1>2, TrialIsCounted, PTL
=============================================================================
