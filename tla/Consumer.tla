------------------------------ MODULE Consumer ------------------------------
(***************************************************************************)
(* One worker consumer: CONSUMER_CONCURRENCY copies of an idempotent       *)
(* handler behind one circuit breaker, run by the Watermill router inside  *)
(* poison queue, retry and panic recovery (messaging.NewRouter).           *)
(*                                                                         *)
(* A delivery is a loop of attempts.  An attempt asks the breaker, then    *)
(* messaging.Idempotent runs the handler in the transaction that claims    *)
(* (consumer, message id) in processed_messages.                           *)
(***************************************************************************)
EXTENDS Broker, FiniteSets

CONSTANTS Copies,           \* the consumer's handler copies, one process
          MaxRetries,       \* ConsumerConfig.MaxRetries
          BreakerFailures,  \* BreakerConfig.Failures
          MaxCrashes        \* bound: worker crashes

ASSUME ConsumerAssumption ==
  /\ IsFiniteSet(Copies)
  /\ MaxRetries \in Nat
  /\ BreakerFailures \in Nat \ {0}
  /\ MaxCrashes \in Nat

VARIABLES copy,        \* what each copy is doing
          breaker,     \* the consumer's circuit breaker
          processed,   \* committed rows of processed_messages
          applied,     \* history: committed handler transactions per message
          dead,        \* messages on DeadLetterTopic, with how they got there
          crashes      \* crashes so far

consumerVars == <<copy, breaker, processed, applied, dead, crashes>>

(* pc of a delivery: "ready" for an attempt, "admitted" by the breaker,    *)
(* "running" the handler inside the claiming transaction, "poison" when    *)
(* out of attempts, "ack" when done.                                       *)
Phase == {"ready", "admitted", "running", "poison", "ack"}

(* A delivery in progress.  tx is the transaction carried by the message   *)
(* context: Idempotent stores it with msg.SetContext and nobody removes    *)
(* it, so after a failed attempt it is a finished one.  current is FALSE   *)
(* once the breaker left the generation that admitted the attempt.         *)
(* History: fresh counts the attempts that asked the database for a        *)
(* transaction of their own, for the handler to run in.                    *)
Delivery == [pc : Phase, msg : Events, tries : 0..MaxRetries + 1,
             fresh : 0..MaxRetries + 1, tx : {"none", "finished"},
             cause : {"none", "transient", "permanent"}, current : BOOLEAN]

NoDelivery == [pc |-> "idle"]

DeadLetter == [msg : Events, cause : {"transient", "permanent"}]

Breaker == [state : {"closed", "open", "half"}, failures : 0..BreakerFailures, trial : BOOLEAN]

Closed == [state |-> "closed", failures |-> 0, trial |-> FALSE]

ConsumerTypeOK ==
  /\ copy \in [Copies -> Delivery \cup {NoDelivery}]
  /\ breaker \in Breaker
  /\ processed \subseteq Events
  /\ applied \in [Events -> Nat]
  /\ dead \subseteq DeadLetter
  /\ crashes \in 0..MaxCrashes

ConsumerInit ==
  /\ copy = [c \in Copies |-> NoDelivery]
  /\ breaker = Closed
  /\ processed = {}
  /\ applied = [e \in Events |-> 0]
  /\ dead = {}
  /\ crashes = 0

Busy(c) == copy[c] # NoDelivery

(* Copies of the process that hold a message of the broker.                *)
Holding(e) == {c \in Copies : Busy(c) /\ copy[c].msg = e}

-----------------------------------------------------------------------------
(* The circuit breaker (gobreaker with MaxRequests 1).                     *)

(* Mutant of Admits: a half-open breaker forgets its trial.                *)
AdmitsManyTrials == breaker.state \in {"closed", "half"}

(* Mutant of Admits: a half-open breaker admits nothing.                   *)
AdmitsOnlyClosed == breaker.state = "closed"

(* Execute runs the handler: closed, or half open without a trial yet.     *)
Admits == breaker.state = "closed" \/ (breaker.state = "half" /\ ~breaker.trial)

(* The breaker after an attempt of the current generation ended well:      *)
(* IsSuccessful also counts permanent errors as such.                      *)
AfterSuccess == Closed

(* ... and after a transient failure.                                      *)
AfterFailure ==
  IF breaker.state = "half" \/ breaker.failures + 1 >= BreakerFailures
  THEN [state |-> "open", failures |-> 0, trial |-> FALSE]
  ELSE [breaker EXCEPT !.failures = @ + 1]

(* Copy c finishes its attempt as d, reporting to the breaker: results of  *)
(* an older generation are ignored, and a change of state starts a new     *)
(* generation for every copy.                                              *)
EndAttempt(c, d, after) ==
  LET b == IF copy[c].current THEN after ELSE breaker
  IN  /\ breaker' = b
      /\ copy' = [k \in Copies |->
                    IF k = c THEN [d EXCEPT !.current = FALSE]
                    ELSE IF Busy(k) /\ b.state # breaker.state
                         THEN [copy[k] EXCEPT !.current = FALSE]
                         ELSE copy[k]]

-----------------------------------------------------------------------------
(* The router hands message e to an idle copy: a new context.              *)
Receive(c, e) ==
  /\ ~Busy(c)
  /\ queue[e] > 0
  /\ queue' = Dequeued(e)
  /\ copy' = [copy EXCEPT ![c] = [pc |-> "ready", msg |-> e, tries |-> 0, fresh |-> 0,
                                   tx |-> "none", cause |-> "none", current |-> FALSE]]
  /\ UNCHANGED <<breaker, processed, applied, dead, crashes>>

(* The breaker lets the attempt through.                                   *)
Admit(c) ==
  /\ Busy(c) /\ copy[c].pc = "ready"
  /\ Admits
  /\ copy' = [copy EXCEPT ![c].pc = "admitted", ![c].current = TRUE]
  /\ breaker' = [breaker EXCEPT !.trial = (breaker.state = "half")]
  /\ UNCHANGED <<processed, applied, dead, crashes, queue>>

(* The breaker refuses it: ErrCircuitOpen is neither retried nor dead-     *)
(* lettered, so the message is nacked and delivered again later.           *)
Refuse(c) ==
  /\ Busy(c) /\ copy[c].pc = "ready"
  /\ ~Admits
  /\ queue' = Enqueued(copy[c].msg)
  /\ copy' = [copy EXCEPT ![c] = NoDelivery]
  /\ UNCHANGED <<breaker, processed, applied, dead, crashes>>

(* A copy whose transaction holds the claim of e, not yet committed: an    *)
(* insert of the same key waits for it.                                    *)
ClaimHeld(e) == \E c \in Holding(e) : copy[c].pc = "running"

(* Mutant of OnceRuns: the claim is not looked up.                         *)
OnceAlwaysRuns(c) ==
  /\ Busy(c) /\ copy[c].pc = "admitted" /\ copy[c].tx = "none"
  /\ copy' = [copy EXCEPT ![c].pc = "running", ![c].fresh = @ + 1]
  /\ UNCHANGED <<breaker, processed, applied, dead, crashes, queue>>

(* Once: the claim is new, fn runs with the transaction in its context.    *)
OnceRuns(c) ==
  /\ Busy(c) /\ copy[c].pc = "admitted" /\ copy[c].tx = "none"
  /\ copy[c].msg \notin processed
  /\ ~ClaimHeld(copy[c].msg)
  /\ copy' = [copy EXCEPT ![c].pc = "running", ![c].fresh = @ + 1]
  /\ UNCHANGED <<breaker, processed, applied, dead, crashes, queue>>

(* Once: the message was handled before, nothing runs.                     *)
OnceSkips(c) ==
  /\ Busy(c) /\ copy[c].pc = "admitted" /\ copy[c].tx = "none"
  /\ copy[c].msg \in processed
  /\ EndAttempt(c, [copy[c] EXCEPT !.pc = "ack"], AfterSuccess)
  /\ UNCHANGED <<processed, applied, dead, crashes, queue>>

(* The handler succeeds and its transaction commits, claim included.       *)
HandlerCommits(c) ==
  /\ Busy(c) /\ copy[c].pc = "running"
  /\ processed' = processed \cup {copy[c].msg}
  /\ applied' = [applied EXCEPT ![copy[c].msg] = @ + 1]
  /\ EndAttempt(c, [copy[c] EXCEPT !.pc = "ack"], AfterSuccess)
  /\ UNCHANGED <<dead, crashes, queue>>

(* Retry after a transient failure while attempts are left.                *)
AfterTransient(d) ==
  [d EXCEPT !.pc = IF d.tries < MaxRetries THEN "ready" ELSE "poison",
            !.tries = @ + 1, !.cause = "transient"]

(* The handler fails or panics, or COMMIT does: everything rolls back and  *)
(* the message context keeps the finished transaction.                     *)
HandlerFails(c) ==
  /\ Busy(c) /\ copy[c].pc = "running"
  /\ EndAttempt(c, [AfterTransient(copy[c]) EXCEPT !.tx = "finished"], AfterFailure)
  /\ UNCHANGED <<processed, applied, dead, crashes, queue>>

(* Once cannot open its transaction or insert the claim: fn does not run.  *)
ClaimFails(c) ==
  /\ Busy(c) /\ copy[c].pc = "admitted" /\ copy[c].tx = "none"
  /\ EndAttempt(c, [AfterTransient(copy[c]) EXCEPT !.fresh = @ + 1], AfterFailure)
  /\ UNCHANGED <<processed, applied, dead, crashes, queue>>

(* Once on a retry: conn(ctx) is the finished transaction of the earlier   *)
(* attempt, so opening a savepoint on it fails and fn does not run.        *)
OnceOnFinishedTx(c) ==
  /\ Busy(c) /\ copy[c].pc = "admitted" /\ copy[c].tx = "finished"
  /\ EndAttempt(c, AfterTransient(copy[c]), AfterFailure)
  /\ UNCHANGED <<processed, applied, dead, crashes, queue>>

(* The handler reports ErrPermanent: no retry, and the breaker counts it   *)
(* as a success.                                                           *)
HandlerRejects(c) ==
  /\ Busy(c) /\ copy[c].pc = "running"
  /\ EndAttempt(c, [copy[c] EXCEPT !.pc = "poison", !.cause = "permanent", !.tx = "finished"],
                AfterSuccess)
  /\ UNCHANGED <<processed, applied, dead, crashes, queue>>

(* The poison queue takes the message, which is then acked.                *)
DeadLetterOk(c) ==
  /\ Busy(c) /\ copy[c].pc = "poison"
  /\ dead' = dead \cup {[msg |-> copy[c].msg, cause |-> copy[c].cause]}
  /\ copy' = [copy EXCEPT ![c].pc = "ack"]
  /\ UNCHANGED <<breaker, processed, applied, crashes, queue>>

(* Mutant of DeadLetterFails: the message is acked although it failed.     *)
DeadLetterDrops(c) ==
  /\ Busy(c) /\ copy[c].pc = "poison"
  /\ copy' = [copy EXCEPT ![c] = NoDelivery]
  /\ UNCHANGED <<breaker, processed, applied, dead, crashes, queue>>

(* Publishing to the dead letter topic fails: the message is nacked.       *)
DeadLetterFails(c) ==
  /\ Busy(c) /\ copy[c].pc = "poison"
  /\ queue' = Enqueued(copy[c].msg)
  /\ copy' = [copy EXCEPT ![c] = NoDelivery]
  /\ UNCHANGED <<breaker, processed, applied, dead, crashes>>

(* The broker forgets the message.                                         *)
Ack(c) ==
  /\ Busy(c) /\ copy[c].pc = "ack"
  /\ copy' = [copy EXCEPT ![c] = NoDelivery]
  /\ UNCHANGED <<breaker, processed, applied, dead, crashes, queue>>

(* The breaker's timeout passes: one trial message may go through.         *)
BreakerTimeout ==
  /\ breaker.state = "open"
  /\ breaker' = [breaker EXCEPT !.state = "half"]
  /\ copy' = [k \in Copies |-> IF Busy(k) THEN [copy[k] EXCEPT !.current = FALSE] ELSE NoDelivery]
  /\ UNCHANGED <<processed, applied, dead, crashes, queue>>

(* The worker process dies: open transactions roll back, unacknowledged    *)
(* messages return to the broker, the in-memory breaker starts afresh.     *)
WorkerCrash ==
  /\ crashes < MaxCrashes
  /\ \E c \in Copies : Busy(c)
  /\ crashes' = crashes + 1
  /\ queue' = [e \in Events |-> queue[e] + Cardinality(Holding(e))]
  /\ copy' = [c \in Copies |-> NoDelivery]
  /\ breaker' = Closed
  /\ UNCHANGED <<processed, applied, dead>>

(* ProcessedMessageRepository.PruneBefore, for claims of messages that     *)
(* can no longer be delivered (safe: see the retention assumption).        *)
PruneClaim(e, safe) ==
  /\ safe
  /\ e \in processed
  /\ processed' = processed \ {e}
  /\ UNCHANGED <<copy, breaker, applied, dead, crashes, queue>>

CopyNext(c) ==
  \/ \E e \in Events : Receive(c, e)
  \/ Admit(c)
  \/ Refuse(c)
  \/ OnceRuns(c)
  \/ OnceSkips(c)
  \/ HandlerCommits(c)
  \/ HandlerFails(c)
  \/ ClaimFails(c)
  \/ OnceOnFinishedTx(c)
  \/ HandlerRejects(c)
  \/ DeadLetterOk(c)
  \/ DeadLetterFails(c)
  \/ Ack(c)

ConsumerNext ==
  \/ \E c \in Copies : CopyNext(c)
  \/ BreakerTimeout
  \/ WorkerCrash

-----------------------------------------------------------------------------
(* Deduper: however often a message is delivered, retried or interrupted   *)
(* by a crash, at most one handler transaction commits for it.             *)
AppliedAtMostOnce == \A e \in Events : applied[e] <= 1

(* No two copies run the handler for one message at the same time.         *)
OneRunPerMessage ==
  \A c, d \in Copies :
    (c # d /\ Busy(c) /\ Busy(d) /\ copy[c].pc = "running" /\ copy[d].pc = "running")
      => copy[c].msg # copy[d].msg

(* A half-open breaker lets exactly one trial through: at most one attempt *)
(* of the current generation is in flight, and none while it is open.      *)
TrialIsAlone ==
  LET inFlight == {c \in Copies : Busy(c) /\ copy[c].current}
  IN  /\ breaker.state = "open" => inFlight = {}
      /\ breaker.state = "half" => Cardinality(inFlight) = (IF breaker.trial THEN 1 ELSE 0)

(* What ConsumerConfig says: a message goes to the dead letter topic over  *)
(* transient errors only after its handler had MaxRetries + 1 chances.  An *)
(* attempt whose claim the database refused counts as one: what is asked   *)
(* is that no attempt was spent on a transaction that had already ended.   *)
DeadLetteredAfterRetries ==
  \A c \in Copies :
    (Busy(c) /\ copy[c].pc = "poison" /\ copy[c].cause = "transient")
      => copy[c].fresh = MaxRetries + 1
=============================================================================
