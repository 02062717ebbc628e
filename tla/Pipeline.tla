------------------------------ MODULE Pipeline ------------------------------
(***************************************************************************)
(* Event delivery end to end: producers and relays (Outbox), the broker,   *)
(* and one worker consumer (Consumer) subscribed to every event.           *)
(***************************************************************************)
EXTENDS Outbox, Consumer

vars == <<outboxVars, consumerVars, queue>>

TypeOK ==
  /\ OutboxTypeOK
  /\ ConsumerTypeOK
  /\ queue \in [Events -> Nat]

Init ==
  /\ OutboxInit
  /\ ConsumerInit
  /\ queue = [e \in Events |-> 0]

(* Retention assumption: CONSUMER_DEDUPE_RETENTION outlasts every copy of  *)
(* the message and every republication of its outbox row.                  *)
RedeliveryOver(e) ==
  /\ row[e] \in {"published", "pruned"}
  /\ queue[e] = 0
  /\ Holding(e) = {}

Next ==
  \/ OutboxNext /\ UNCHANGED consumerVars
  \/ ConsumerNext /\ UNCHANGED outboxVars
  \/ \E e \in Events : PruneClaim(e, RedeliveryOver(e)) /\ UNCHANGED outboxVars

(* The relay loop polls for ever and its transactions end; time passes;    *)
(* the worker's copies keep consuming, and a handler attempt that is       *)
(* repeated for ever eventually commits or fails permanently ("transient"  *)
(* failures are).  Producers, aborts and crashes owe nothing.              *)
RelayFairness ==
  /\ \A r \in Relays :
       /\ SF_vars(ClaimBatch(r) /\ UNCHANGED consumerVars)
       /\ WF_vars(CommitBatch(r) /\ UNCHANGED consumerVars)
       /\ WF_vars((\E e \in Events : PublishOk(r, e) \/ PublishError(r, e)) /\ UNCHANGED consumerVars)
  /\ \A e \in Events : WF_vars(BackoffElapses(e) /\ UNCHANGED consumerVars)

ConsumerFairness ==
  /\ WF_vars(BreakerTimeout /\ UNCHANGED outboxVars)
  /\ \A c \in Copies :
       /\ WF_vars(CopyNext(c) /\ UNCHANGED outboxVars)
       /\ SF_vars(OnceRuns(c) /\ UNCHANGED outboxVars)
       /\ SF_vars(HandlerCommits(c) /\ UNCHANGED outboxVars)
       /\ SF_vars(DeadLetterOk(c) /\ UNCHANGED outboxVars)

Spec == Init /\ [][Next]_vars /\ RelayFairness /\ ConsumerFairness

-----------------------------------------------------------------------------
DeadLettered(e) == \E d \in dead : d.msg = e

(* End to end, nothing is lost: an event recorded with a committed change  *)
(* is waiting in the outbox, with the broker, in a consumer's hands,       *)
(* applied, or visible to operators as a parked row or a dead letter,      *)
(* whatever crashed in between.                                            *)
NothingLost ==
  \A e \in change \cap TxEvents :
    \/ row[e] \in {"due", "waiting", "parked"}
    \/ queue[e] > 0
    \/ Holding(e) # {}
    \/ applied[e] > 0
    \/ DeadLettered(e)

(* A handler runs only for a change that committed: no consumer acts on a  *)
(* rolled-back change.                                                     *)
OnlyCommittedChanges ==
  \A e \in Events : (queue[e] > 0 \/ Holding(e) # {} \/ applied[e] > 0) => e \in change

(* Every recorded event is eventually settled: applied, dead-lettered or   *)
(* parked.                                                                 *)
EventuallySettled ==
  \A e \in TxEvents :
    (e \in change) ~> (applied[e] > 0 \/ DeadLettered(e) \/ row[e] = "parked")

(* Type correctness, and consumers see committed changes only (Record in   *)
(* the transaction of the change, Relay.publish).                          *)
PipelineSound == TypeOK /\ OnlyCommittedChanges
=============================================================================
