----------------------------- MODULE AuditTrail -----------------------------
(***************************************************************************)
(* A request's way through the HTTP chain and its entry in the audit log.   *)
(* Outermost to innermost: MaxInFlight sheds, Recovery catches panics,      *)
(* Audit opens a scope and records after the handler returned; inside it    *)
(* the group's bearer middleware, the route metadata, the impersonation     *)
(* guard, the permission gate, the rate limit and the handler.  Recorder    *)
(* takes the entry on a bounded queue; its goroutine writes batches to the  *)
(* sink, which is the broker with the database behind it as fallback, or    *)
(* the database alone.  An entry is named by the request it describes (its  *)
(* UUID is drawn once, in auditEntry).                                      *)
(***************************************************************************)
EXTENDS Integers, Sequences, FiniteSets, SequencesExt

CONSTANTS
    HttpReqs,        \* requests
    SlotLimits,      \* the values HTTP_MAX_IN_FLIGHT may be set to
    AuditQueueSize,  \* RecorderOptions.QueueSize
    AuditBatchSize,  \* RecorderOptions.BatchSize
    MaxAuditTries,   \* deliveries of one batch before it is dead-lettered
    MaxAuditFaults   \* bound: refused publishes, failed inserts, unacknowledged deliveries

ASSUME AuditBounds ==
    /\ SlotLimits \subseteq Nat \ {0}
    /\ {AuditQueueSize, AuditBatchSize, MaxAuditTries} \subseteq Nat \ {0}
    /\ MaxAuditFaults \in Nat

VARIABLES
    http,       \* request -> where it is in the chain and what became of it
    maxInFlight,\* HTTP_MAX_IN_FLIGHT, requests served at once
    slots,      \* requests holding a slot of MaxInFlight
    serving,    \* the listener accepts requests
    stopped,    \* Recorder.stop is closed
    auditQueue, \* Recorder.queue
    auditBatch, \* the goroutine's batch
    auditPc,    \* the goroutine: its loop, or how far the flush of a batch is
    brokered,   \* newAuditSink: batches go through the broker
    topic,      \* batches on audit.entries.recorded, with the deliveries made
    poisoned,   \* entries on its dead-letter topic
    auditLog,   \* entry -> rows of audit_logs with its UUID
    droppedEntries,    \* entries counted by OnDrop
    auditFaults

auditVars == <<http, maxInFlight, slots, serving, stopped, auditQueue, auditBatch, auditPc,
               brokered, topic, poisoned, auditLog, droppedEntries, auditFaults>>
requestVars == <<http, maxInFlight, slots>>
writerVars == <<auditBatch, auditPc, brokered, topic, poisoned, auditLog, auditFaults>>

\* One operation of each kind the chain and Audit tell apart: its group, the credential its
\* group of routes demands, whether its method changes state, the list that names it, and
\* whether a permission gate and a rate limit stand before its handler.
Routes == [
    list     |-> [group |-> "admin",  auth |-> "required", mutating |-> FALSE, named |-> "",
                  gated |-> TRUE,  limited |-> FALSE],
    settings |-> [group |-> "admin",  auth |-> "required", mutating |-> TRUE,  named |-> "attempts",
                  gated |-> TRUE,  limited |-> FALSE],
    password |-> [group |-> "self",   auth |-> "required", mutating |-> TRUE,  named |-> "blocked",
                  gated |-> FALSE, limited |-> FALSE],
    login    |-> [group |-> "auth",   auth |-> "none",     mutating |-> TRUE,  named |-> "failures",
                  gated |-> FALSE, limited |-> TRUE],
    refresh  |-> [group |-> "auth",   auth |-> "none",     mutating |-> TRUE,  named |-> "skipped",
                  gated |-> FALSE, limited |-> TRUE],
    comment  |-> [group |-> "public", auth |-> "optional", mutating |-> TRUE,  named |-> "",
                  gated |-> FALSE, limited |-> TRUE],
    health   |-> [group |-> "health", auth |-> "none",     mutating |-> FALSE, named |-> "",
                  gated |-> FALSE, limited |-> FALSE]]

Operations == DOMAIN Routes
Statuses == {0, 200, 400, 401, 403, 429, 500}   \* 0: not answered
Answers == {200, 400, 401, 500}                 \* of a handler
Bearers == {"none", "bad", "user", "imp", "ended"}   \* "ended": an impersonation that is over
HttpReq == [pc : {"idle", "auth", "guard", "gate", "limit", "handler", "audit", "send", "done"},
            op : Operations, bearer : Bearers, status : Statuses,
            matched : BOOLEAN,    \* WithMeta ran, so RouteOf knows the route
            signedIn : BOOLEAN,   \* setIdentity, or scope.Actor set by the service
            imp : BOOLEAN,        \* CurrentImpersonation
            owed : BOOLEAN,       \* history: the log owes an entry for it
            panicked : BOOLEAN, late : BOOLEAN]
NotArrived == [pc |-> "idle", op |-> "health", bearer |-> "none", status |-> 0, matched |-> FALSE,
               signedIn |-> FALSE, imp |-> FALSE, owed |-> FALSE, panicked |-> FALSE, late |-> FALSE]
\* The goroutine past drain's default branch: it writes what it holds and reads the queue no more.
Drained == {"lastPublish", "lastInsert", "done"}
Message == [entries : SUBSET HttpReqs, tries : 0..MaxAuditTries]

AuditTypeOK ==
    /\ http \in [HttpReqs -> HttpReq] /\ maxInFlight \in SlotLimits /\ slots \subseteq HttpReqs
    /\ {serving, stopped, brokered} \subseteq BOOLEAN
    /\ auditQueue \in Seq(HttpReqs) /\ Len(auditQueue) <= AuditQueueSize
    /\ auditBatch \in Seq(HttpReqs) /\ Len(auditBatch) <= AuditBatchSize
    /\ auditPc \in {"run", "drain", "publish", "insert"} \cup Drained
    /\ topic \subseteq Message /\ poisoned \subseteq HttpReqs /\ droppedEntries \subseteq HttpReqs
    /\ auditLog \in [HttpReqs -> Nat] /\ auditFaults \in 0..MaxAuditFaults

AuditInit ==
    /\ http = [q \in HttpReqs |-> NotArrived] /\ slots = {} /\ maxInFlight \in SlotLimits
    /\ serving = TRUE /\ stopped = FALSE /\ brokered \in BOOLEAN
    /\ auditQueue = <<>> /\ auditBatch = <<>> /\ auditPc = "run"
    /\ topic = {} /\ poisoned = {} /\ auditLog = [q \in HttpReqs |-> 0]
    /\ droppedEntries = {} /\ auditFaults = 0

----------------------------------------------------------------------------
(* The chain. *)

RouteFor(q) == Routes[http[q].op]
Success(r) == r.status \in 200..299

\* What the log owes a reader: the successful admin and self-service changes, and every request
\* of an impersonator that got past authentication.
Owed(q) == \/ http[q].imp
           \/ /\ http[q].matched /\ RouteFor(q).mutating /\ Success(http[q])
              /\ RouteFor(q).group \in {"admin", "self"}

\* The answer is sent and the slot freed; of the request only the history is kept.
Finish(q, panicked) ==
    /\ http' = [http EXCEPT ![q] = [NotArrived EXCEPT !.pc = "done", !.imp = http[q].imp,
                   !.owed = Owed(q), !.panicked = panicked, !.late = stopped]]
    /\ slots' = slots \ {q}
Passes(q, pc) == http' = [http EXCEPT ![q].pc = pc]
\* responses.Failure aborts the chain: control unwinds to Audit's half after c.Next().
Rejects(q, status) == http' = [http EXCEPT ![q].pc = "audit", ![q].status = status]
trailVars == <<maxInFlight, serving, stopped, auditQueue, droppedEntries, writerVars>>

\* MaxInFlight: probes are exempt; without a free slot the answer is 503, outside of Audit.
Arrive(q) ==
    /\ serving /\ http[q].pc = "idle"
    /\ \E op \in Operations, bearer \in Bearers :
          LET exempt == Routes[op].group = "health"
              shed == ~exempt /\ Cardinality(slots) >= maxInFlight
          IN /\ slots' = IF exempt \/ shed THEN slots ELSE slots \cup {q}
             /\ http' = [http EXCEPT ![q] =
                   IF shed THEN [NotArrived EXCEPT !.pc = "done"]
                   ELSE [NotArrived EXCEPT !.pc = "auth", !.op = op, !.bearer = bearer]]
    /\ UNCHANGED trailVars

\* BearerAuth refuses with 401, or 500 when the session cannot be verified, before the route
\* metadata is set; OptionalBearerAuth goes on without an identity.
BearerAuth(q) ==
    LET known == http[q].bearer \in {"user", "imp"} /\ RouteFor(q).auth # "none"
        Admitted(yes) == http' = [http EXCEPT ![q].pc = "guard", ![q].matched = TRUE,
                            ![q].bearer = "none",
                            ![q].signedIn = yes, ![q].imp = yes /\ http[q].bearer = "imp"]
    IN /\ http[q].pc = "auth"
       /\ \/ (RouteFor(q).auth = "required" => known) /\ Admitted(known)
          \/ RouteFor(q).auth = "required" /\ ~known /\ Rejects(q, 401)
          \/ RouteFor(q).auth = "required" /\ http[q].bearer \in {"imp", "ended"} /\ Rejects(q, 500)
          \/ RouteFor(q).auth = "optional" /\ http[q].bearer = "imp" /\ Admitted(FALSE)
       /\ UNCHANGED <<slots, trailVars>>

ImpersonationGuard(q) ==
    /\ http[q].pc = "guard"
    /\ IF http[q].imp /\ RouteFor(q).named = "blocked" THEN Rejects(q, 403) ELSE Passes(q, "gate")
    /\ UNCHANGED <<slots, trailVars>>

\* requirePermission asks the enforcer, which may refuse or fail.
RequirePermission(q) ==
    /\ http[q].pc = "gate"
    /\ \/ Passes(q, "limit")
       \/ RouteFor(q).gated /\ \E status \in {403, 500} : Rejects(q, status)
    /\ UNCHANGED <<slots, trailVars>>

\* RateLimit: a limiter that cannot answer lets the request through.
RateLimit(q) ==
    /\ http[q].pc = "limit"
    /\ \/ Passes(q, "handler")
       \/ RouteFor(q).limited /\ Rejects(q, 429)
    /\ UNCHANGED <<slots, trailVars>>

\* The handler answers; a service may name the actor of an anonymous request (audit.SetActor).
Handle(q) ==
    /\ http[q].pc = "handler"
    /\ \E status \in Answers, named \in BOOLEAN :
          /\ named => RouteFor(q).group = "auth"
          /\ http' = [http EXCEPT ![q].pc = "audit", ![q].status = status,
                                  ![q].signedIn = @ \/ named]
    /\ UNCHANGED <<slots, trailVars>>

\* A panic unwinds through Audit, whose second half never runs, to Recovery, which answers 500;
\* the slot is freed by its deferred release.
HandlerPanics(q) ==
    /\ http[q].pc = "handler"
    /\ Finish(q, TRUE)
    /\ UNCHANGED trailVars

----------------------------------------------------------------------------
(* Audit's second half and Recorder.Record. *)

\* audited, for a request that is not impersonated.
Audited(q) ==
    LET r == http[q] rt == RouteFor(q) IN
    /\ rt.mutating /\ rt.named # "skipped"
    /\ IF Success(r)
         THEN rt.group \in {"admin", "self"} \/ (rt.group \in {"auth", "public"} /\ r.signedIn)
         ELSE \/ rt.named = "attempts" /\ r.signedIn /\ r.status < 500
              \/ rt.named = "failures" /\ r.status \in {401, 403, 429}

\* Audit: a matched route, and an entry for every impersonated request or an audited one.
MakesEntry(q) == http[q].matched /\ (http[q].imp \/ Audited(q))

\* Record's first select: after Close the entry is dropped and counted.
RecordEntry(q) ==
    /\ http[q].pc = "audit"
    /\ IF MakesEntry(q) /\ ~stopped THEN Passes(q, "send") /\ UNCHANGED <<slots, droppedEntries>>
       ELSE /\ Finish(q, FALSE)
            /\ droppedEntries' = IF MakesEntry(q) THEN droppedEntries \cup {q} ELSE droppedEntries
    /\ UNCHANGED <<maxInFlight, serving, stopped, auditQueue, writerVars>>

\* Its second select: Close may have come between the two.  A full queue drops the entry.
SendEntry(q) ==
    /\ http[q].pc = "send"
    /\ Finish(q, FALSE)
    /\ IF Len(auditQueue) < AuditQueueSize
         THEN auditQueue' = Append(auditQueue, q) /\ UNCHANGED droppedEntries
         ELSE droppedEntries' = droppedEntries \cup {q} /\ UNCHANGED auditQueue
    /\ UNCHANGED <<maxInFlight, serving, stopped, writerVars>>

\* Server.Shutdown: no new request; Runtime.Close follows when the handlers are done or the
\* shutdown timeout is over, whichever comes first.
Shutdown == serving /\ serving' = FALSE /\ UNCHANGED <<requestVars, stopped, auditQueue, droppedEntries, writerVars>>
CloseRecorder ==
    /\ ~serving /\ ~stopped /\ stopped' = TRUE
    /\ UNCHANGED <<requestVars, serving, auditQueue, droppedEntries, writerVars>>

----------------------------------------------------------------------------
(* The recorder's goroutine and its sink. *)

intakeVars == <<requestVars, serving, stopped, brokered>>
Fault == auditFaults < MaxAuditFaults /\ auditFaults' = auditFaults + 1
FlushPc == IF brokered THEN "publish" ELSE "insert"

\* run and drain take an entry; a full batch is flushed at once.
TakeEntry ==
    /\ auditPc \in {"run", "drain"} /\ auditQueue # <<>>
    /\ auditBatch' = Append(auditBatch, Head(auditQueue)) /\ auditQueue' = Tail(auditQueue)
    /\ auditPc' = IF Len(auditBatch') >= AuditBatchSize THEN FlushPc ELSE auditPc
    /\ UNCHANGED <<intakeVars, topic, poisoned, auditLog, droppedEntries, auditFaults>>

FlushTick ==
    /\ auditPc = "run" /\ auditBatch # <<>> /\ auditPc' = FlushPc
    /\ UNCHANGED <<intakeVars, auditQueue, auditBatch, topic, poisoned, auditLog, droppedEntries, auditFaults>>

SeeStopped ==
    /\ auditPc = "run" /\ stopped /\ auditPc' = "drain"
    /\ UNCHANGED <<intakeVars, auditQueue, auditBatch, topic, poisoned, auditLog, droppedEntries, auditFaults>>

\* drain's default branch: what is left of the batch is flushed, then the goroutine is done.
LastBatch ==
    /\ auditPc' = IF auditBatch = <<>> THEN "done" ELSE IF brokered THEN "lastPublish" ELSE "lastInsert"
    /\ UNCHANGED auditBatch
DrainEnds ==
    /\ auditPc = "drain" /\ auditQueue = <<>> /\ LastBatch
    /\ UNCHANGED <<intakeVars, auditQueue, topic, poisoned, auditLog, droppedEntries, auditFaults>>

\* flush returns an empty batch to the loop it was called from; after the last one drain returns.
AfterFlush ==
    /\ auditBatch' = <<>>
    /\ auditPc' \in (IF auditPc \in Drained THEN {"done"} ELSE IF stopped THEN {"run", "drain"} ELSE {"run"})

\* Sink.publish: the broker takes the batch.
PublishBatch ==
    /\ auditPc \in {"publish", "lastPublish"} /\ AfterFlush
    /\ topic' = topic \cup {[entries |-> ToSet(auditBatch), tries |-> 0]}
    /\ UNCHANGED <<intakeVars, auditQueue, poisoned, auditLog, droppedEntries, auditFaults>>

\* Publishing returns an error, for a batch the broker may have accepted all the same; the
\* fallback inserts it.
PublishFails ==
    /\ auditPc \in {"publish", "lastPublish"} /\ Fault
    /\ auditPc' = IF auditPc = "publish" THEN "insert" ELSE "lastInsert"
    /\ \/ UNCHANGED topic
       \/ topic' = topic \cup {[entries |-> ToSet(auditBatch), tries |-> 0]}
    /\ UNCHANGED <<intakeVars, auditQueue, auditBatch, poisoned, auditLog, droppedEntries>>

InsertedAgain(batch) == [q \in HttpReqs |-> auditLog[q] + IF q \in batch THEN 1 ELSE 0]
\* AuditRepository.Insert: one statement, ON CONFLICT (uuid) DO NOTHING.
Inserted(batch) == [q \in HttpReqs |-> IF q \in batch /\ auditLog[q] = 0 THEN 1 ELSE auditLog[q]]

InsertBatch ==
    /\ auditPc \in {"insert", "lastInsert"} /\ AfterFlush /\ auditLog' = Inserted(ToSet(auditBatch))
    /\ UNCHANGED <<intakeVars, auditQueue, topic, poisoned, droppedEntries, auditFaults>>

\* flush: the insert failed, or ran into its timeout; the batch is dropped and counted.
InsertFails ==
    /\ auditPc \in {"insert", "lastInsert"} /\ Fault /\ AfterFlush /\ droppedEntries' = droppedEntries \cup ToSet(auditBatch)
    /\ UNCHANGED <<intakeVars, auditQueue, topic, poisoned, auditLog>>

\* The worker's handler inserts a delivered batch; its acknowledgement may be lost, and the
\* broker then delivers the batch again.
StoreBatch(m) ==
    /\ m \in topic /\ auditLog' = Inserted(m.entries)
    /\ \/ topic' = topic \ {m} /\ UNCHANGED auditFaults
       \/ Fault /\ UNCHANGED topic
    /\ UNCHANGED <<requestVars, serving, stopped, auditQueue, auditBatch, auditPc, brokered, poisoned, droppedEntries>>

\* ErrInsertFailed: retried, and dead-lettered once the retries are spent.
StoreFails(m) ==
    /\ m \in topic /\ Fault
    /\ IF m.tries + 1 < MaxAuditTries
         THEN topic' = (topic \ {m}) \cup {[m EXCEPT !.tries = @ + 1]} /\ UNCHANGED poisoned
         ELSE topic' = topic \ {m} /\ poisoned' = poisoned \cup m.entries
    /\ UNCHANGED <<requestVars, serving, stopped, auditQueue, auditBatch, auditPc, brokered, auditLog, droppedEntries>>

AuditNext ==
    \/ \E q \in HttpReqs : \/ Arrive(q) \/ BearerAuth(q) \/ ImpersonationGuard(q) \/ RequirePermission(q)
                           \/ RateLimit(q) \/ Handle(q) \/ HandlerPanics(q) \/ RecordEntry(q) \/ SendEntry(q)
    \/ Shutdown \/ CloseRecorder
    \/ TakeEntry \/ FlushTick \/ SeeStopped \/ DrainEnds
    \/ PublishBatch \/ PublishFails \/ InsertBatch \/ InsertFails
    \/ \E m \in topic : StoreBatch(m) \/ StoreFails(m)

AuditSpec == AuditInit /\ [][AuditNext]_auditVars

----------------------------------------------------------------------------
(* Properties. *)

\* Where an entry can be found: with the goroutine, on the broker, in the table or in the count.
Accounted(q) ==
    \/ auditPc \notin Drained /\ q \in ToSet(auditQueue)
    \/ q \in ToSet(auditBatch)
    \/ \E m \in topic : q \in m.entries
    \/ q \in poisoned \/ auditLog[q] > 0 \/ q \in droppedEntries

\* Every request the log owes an entry for, that returned from its handler and was recorded
\* before the recorder was closed, is on its way, stored, dead-lettered or counted as dropped,
\* through full queues, failed publishes and inserts, and the drain at shutdown (Audit,
\* Recorder.Record, drain and flush, Sink.Insert).
AuditAccounted == \A q \in HttpReqs : http[q].owed /\ ~http[q].panicked /\ ~http[q].late => Accounted(q)

\* No entry is stored twice, though a batch the broker accepted may also be inserted by the
\* fallback and be delivered again (Sink.Insert, AuditRepository.Insert).
EntryStoredOnce == \A q \in HttpReqs : auditLog[q] <= 1

\* The audit trail loses and repeats nothing it promised to keep (Audit, Recorder, Sink).
AuditInvariant == AuditTypeOK /\ AuditAccounted /\ EntryStoredOnce
=============================================================================
