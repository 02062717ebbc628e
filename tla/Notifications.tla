--------------------------- MODULE Notifications ---------------------------
(***************************************************************************)
(* The in-app inbox and its live push.  A queued notification command is    *)
(* delivered inside the transaction that claims it (Idempotent): for each   *)
(* recipient Inbox.deliver inserts a row unless there is one with the same  *)
(* dedupe key, and announces a new row at once, before the transaction ends.*)
(* Every API replica passes the announcement to its hub, which queues it on *)
(* the recipient's open streams; each stream's loop dequeues, re-checks an  *)
(* impersonation session, and writes the frame.                             *)
(***************************************************************************)
EXTENDS Integers, Sequences, FiniteSets

CONSTANTS
    NoteEvents,      \* what is told: a reply, a decision, one edition of a post
    NoteUsers,       \* the accounts that can be told
    NoteWorkers,     \* deliveries of commands that may run at once
    Streams,         \* SSE connections of this replica
    ImpTarget,       \* the account one impersonation session acts as
    NoEvent, NoUser, \* placeholders
    MaxPerUser,      \* NOTIFICATIONS_MAX_STREAMS, streams per user
    Buffer,          \* events a stream buffers
    MaxCopies,       \* bound: deliveries of the commands about one event
    MaxNoteFaults,   \* bound: failed recipients, commits and announcements, dead workers
    MaxOpens         \* bound: streams opened

ASSUME NotificationBounds ==
    /\ ImpTarget \in NoteUsers /\ NoEvent \notin NoteEvents /\ NoUser \notin NoteUsers
    /\ {MaxPerUser, Buffer, MaxCopies, MaxOpens} \subseteq Nat \ {0}
    /\ MaxNoteFaults \in Nat

VARIABLES
    copies,     \* event -> deliveries begun of the commands about it
    sent,       \* commands enqueued and not acknowledged
    claims,     \* processed_messages: commands handled by a committed transaction
    deliverer,  \* worker -> the delivery it runs
    inbox,      \* rows of the table, those of transactions still open included
    undone,     \* history: rows that were rolled back
    bus,        \* announcements on their way to this replica's hub
    stream,     \* stream -> connection state
    hubClosed,  \* Hub.closed
    impActive,  \* the impersonation session is still active
    late,       \* history: rows inserted after the session ended
    noteFaults, opens

noteVars == <<copies, sent, claims, deliverer, inbox, undone, bus, stream,
              hubClosed, impActive, late, noteFaults, opens>>
inboxVars == <<copies, sent, claims, deliverer, inbox, undone, late>>
hubVars == <<stream, hubClosed, impActive, opens>>

\* A row: its dedupe key and owner, and the delivery that inserted it (for its fresh UUID).
NoticeRow == NoteEvents \X NoteUsers \X (1..MaxCopies)
NoNotice == <<NoEvent, NoUser, 0>>
\* A command: the event it is about, and the number of its first delivery (for its message id).
Command == NoteEvents \X (1..MaxCopies)
Delivery == [pc : {"idle", "claim", "handle", "ack"}, event : NoteEvents \cup {NoEvent},
             message : 0..MaxCopies, copy : 0..MaxCopies, told : SUBSET NoteUsers,
             todo : SUBSET NoteUsers, fresh : NoteUsers \cup {NoUser}, failed : BOOLEAN]
NoDelivery == [pc |-> "idle", event |-> NoEvent, message |-> 0, copy |-> 0, told |-> {},
               todo |-> {}, fresh |-> NoUser, failed |-> FALSE]
StreamRow == [pc : {"closed", "verified", "select", "check", "frame"}, user : NoteUsers \cup {NoUser},
              imp : BOOLEAN, queue : Seq(NoticeRow), held : NoticeRow \cup {NoNotice},
              offered : Seq(NoticeRow), written : SUBSET NoticeRow, dropped : Nat, reported : Nat, done : BOOLEAN]
NoStream == [pc |-> "closed", user |-> NoUser, imp |-> FALSE, queue |-> <<>>, held |-> NoNotice,
             offered |-> <<>>, written |-> {}, dropped |-> 0, reported |-> 0, done |-> FALSE]

NotificationsTypeOK ==
    /\ copies \in [NoteEvents -> 0..MaxCopies] /\ sent \subseteq Command /\ claims \subseteq Command
    /\ deliverer \in [NoteWorkers -> Delivery]
    /\ inbox \subseteq NoticeRow /\ undone \subseteq NoticeRow /\ late \subseteq inbox \cup undone
    /\ bus \in Seq(NoticeRow) /\ stream \in [Streams -> StreamRow]
    /\ {hubClosed, impActive} \subseteq BOOLEAN
    /\ noteFaults \in 0..MaxNoteFaults /\ opens \in 0..MaxOpens

NotificationsInit ==
    /\ copies = [e \in NoteEvents |-> 0] /\ sent = {} /\ claims = {}
    /\ deliverer = [w \in NoteWorkers |-> NoDelivery]
    /\ inbox = {} /\ undone = {} /\ late = {} /\ bus = <<>>
    /\ stream = [k \in Streams |-> NoStream]
    /\ hubClosed = FALSE /\ impActive = TRUE /\ noteFaults = 0 /\ opens = 0

----------------------------------------------------------------------------
(* Delivery of a command by the worker. *)

Becomes(w, d) == deliverer' = [deliverer EXCEPT ![w] = d]
CommandOf(d) == <<d.event, d.message>>
RowOf(d, u) == <<d.event, u, d.copy>>
InHand(e, m, c) == [NoDelivery EXCEPT !.pc = "claim", !.event = e, !.message = m, !.copy = c]
\* The rows a delivery has inserted, and those of the transactions that are still open.
RowsOf(d) == {r \in inbox : r[1] = d.event /\ r[3] = d.copy}
Uncommitted == UNION {RowsOf(deliverer[v]) : v \in {x \in NoteWorkers : deliverer[x].pc = "handle"}}
NoteFault == noteFaults < MaxNoteFaults /\ noteFaults' = noteFaults + 1

\* A change enqueues a command and a worker receives it.  An event can be told of again by
\* another command with the same dedupe keys (a decision or an edition published twice).
NotifyChange(e, w) ==
    /\ copies[e] < MaxCopies /\ deliverer[w] = NoDelivery
    /\ copies' = [copies EXCEPT ![e] = @ + 1]
    /\ sent' = sent \cup {<<e, copies[e] + 1>>}
    /\ Becomes(w, InHand(e, copies[e] + 1, copies[e] + 1))
    /\ UNCHANGED <<claims, inbox, undone, bus, hubVars, late, noteFaults>>

\* The broker hands an unacknowledged command to another worker, or again to the same one.
Redeliver(e, w) ==
    /\ copies[e] < MaxCopies /\ deliverer[w] = NoDelivery
    /\ copies' = [copies EXCEPT ![e] = @ + 1]
    /\ \E m \in 1..MaxCopies : <<e, m>> \in sent /\ Becomes(w, InHand(e, m, copies[e] + 1))
    /\ UNCHANGED <<sent, claims, inbox, undone, bus, hubVars, late, noteFaults>>

\* Nobody is told of what they did themselves (sameUser); a guest has no account to tell.
Recipients(interested, actor) == interested \ {actor}

\* Once: the claim waits for another transaction holding it, and skips a handled command.
\* The handler then reads whom the change concerns.
ClaimCommand(w) ==
    LET d == deliverer[w] IN
    /\ d.pc = "claim"
    /\ \A v \in NoteWorkers : deliverer[v].pc = "handle" => CommandOf(deliverer[v]) # CommandOf(d)
    /\ IF CommandOf(d) \in claims
       THEN Becomes(w, [d EXCEPT !.pc = "ack"])
       ELSE \E interested \in SUBSET NoteUsers, actor \in NoteUsers \cup {NoUser} :
               Becomes(w, [d EXCEPT !.pc = "handle", !.told = Recipients(interested, actor),
                                                     !.todo = Recipients(interested, actor)])
    /\ UNCHANGED <<copies, sent, claims, inbox, undone, bus, hubVars, late, noteFaults>>

\* INSERT ... ON CONFLICT (user_id, dedupe_key) DO NOTHING: created is whether a row went in.
Created(e, u) == \A r \in inbox : r[1] # e \/ r[2] # u

NeverWaits(d, u) == FALSE
\* A conflicting row of a transaction that is still open has to be waited for.
Waits(d, u) == \E r \in Uncommitted : r[1] = d.event /\ r[2] = u

\* deliver: the row of the next recipient is rendered and inserted.
InsertNotice(w, u) ==
    LET d == deliverer[w] IN
    /\ d.pc = "handle" /\ d.fresh = NoUser /\ u \in d.todo /\ ~Waits(d, u)
    /\ inbox' = IF Created(d.event, u) THEN inbox \cup {RowOf(d, u)} ELSE inbox
    /\ late' = IF Created(d.event, u) /\ ~impActive THEN late \cup {RowOf(d, u)} ELSE late
    /\ Becomes(w, [d EXCEPT !.todo = @ \ {u}, !.fresh = IF Created(d.event, u) THEN u ELSE NoUser])
    /\ UNCHANGED <<copies, sent, claims, undone, bus, hubVars, noteFaults>>

\* One recipient fails and the joined error fails the delivery at its end.  The loop goes on
\* to the others after a failure to render; a failed statement has aborted the transaction,
\* and the others fail with it.
RecipientFails(w, u) ==
    LET d == deliverer[w] IN
    /\ d.pc = "handle" /\ d.fresh = NoUser /\ u \in d.todo /\ NoteFault
    /\ \E left \in {d.todo \ {u}, {}} : Becomes(w, [d EXCEPT !.todo = left, !.failed = TRUE])
    /\ UNCHANGED <<copies, sent, claims, inbox, undone, bus, hubVars, late>>

\* The OnCreated listener, still inside the transaction: Publisher.Publish announces the new
\* row, or logs that it could not.
PublishNotice(w) ==
    LET d == deliverer[w] IN
    /\ d.fresh # NoUser
    /\ \/ bus' = Append(bus, RowOf(d, d.fresh)) /\ UNCHANGED noteFaults
       \/ NoteFault /\ UNCHANGED bus
    /\ Becomes(w, [d EXCEPT !.fresh = NoUser])
    /\ UNCHANGED <<copies, sent, claims, inbox, undone, hubVars, late>>

Handled(d) == d.pc = "handle" /\ d.todo = {} /\ d.fresh = NoUser

\* InTx commits the rows together with the claim.
CommitDelivery(w) ==
    /\ Handled(deliverer[w]) /\ ~deliverer[w].failed
    /\ claims' = claims \cup {CommandOf(deliverer[w])}
    /\ Becomes(w, [deliverer[w] EXCEPT !.pc = "ack"])
    /\ UNCHANGED <<copies, sent, inbox, undone, bus, hubVars, late, noteFaults>>

\* What ends without a commit takes back its rows and its claim; its announcements are out.
RollsBack(w) ==
    /\ inbox' = IF deliverer[w].pc = "handle" THEN inbox \ RowsOf(deliverer[w]) ELSE inbox
    /\ undone' = IF deliverer[w].pc = "handle" THEN undone \cup RowsOf(deliverer[w]) ELSE undone
    /\ Becomes(w, NoDelivery)
    /\ UNCHANGED <<copies, sent, claims, bus, hubVars, late>>

\* The handler's error, or a commit that fails: the command is left to be delivered again.
FailDelivery(w) ==
    /\ Handled(deliverer[w])
    /\ IF deliverer[w].failed THEN UNCHANGED noteFaults ELSE NoteFault
    /\ RollsBack(w)

\* The worker dies wherever it is; its command stays unacknowledged.
WorkerDies(w) == deliverer[w] # NoDelivery /\ NoteFault /\ RollsBack(w)

\* A handled or skipped command is acknowledged.
AckDelivery(w) ==
    /\ deliverer[w].pc = "ack"
    /\ sent' = sent \ {CommandOf(deliverer[w])}
    /\ Becomes(w, NoDelivery)
    /\ UNCHANGED <<copies, claims, inbox, undone, bus, hubVars, late, noteFaults>>

----------------------------------------------------------------------------
(* The hub of one replica and its streams. *)

OpenOf(u) == {k \in Streams : stream[k].user = u /\ stream[k].pc \in {"select", "check", "frame"}}
OnStream(k, pc) == stream[k].pc = pc
SetStream(k, s) == stream' = [stream EXCEPT ![k] = s]

\* The bearer token is verified before the handler runs, an impersonation token's session too.
BeginStream(k, u, imp) ==
    /\ stream[k].pc = "closed" /\ opens < MaxOpens /\ opens' = opens + 1
    /\ imp => impActive /\ u = ImpTarget
    /\ SetStream(k, [NoStream EXCEPT !.pc = "verified", !.user = u, !.imp = imp])
    /\ UNCHANGED <<inboxVars, bus, hubClosed, impActive, noteFaults>>

\* Hub.Register: refused after Shutdown and beyond the user's limit.
Register(k) ==
    /\ OnStream(k, "verified")
    /\ IF hubClosed \/ Cardinality(OpenOf(stream[k].user)) >= MaxPerUser
       THEN SetStream(k, NoStream) ELSE SetStream(k, [stream[k] EXCEPT !.pc = "select"])
    /\ UNCHANGED <<inboxVars, bus, hubClosed, impActive, opens, noteFaults>>

\* A full buffer drops the event for this stream only, and counts it.
Dropped(s) == s.dropped + 1

\* Deliver to one stream: queued, or dropped, never waited for.
Offered(s, n) ==
    IF Len(s.queue) < Buffer
    THEN [s EXCEPT !.offered = Append(@, n), !.queue = Append(@, n)]
    ELSE [s EXCEPT !.offered = Append(@, n), !.dropped = Dropped(s)]

\* Consume: the next announcement reaches every stream of its recipient.
HubDeliver ==
    /\ bus # <<>>
    /\ bus' = Tail(bus)
    /\ stream' = [k \in Streams |-> IF k \in OpenOf(Head(bus)[2])
                                    THEN Offered(stream[k], Head(bus)) ELSE stream[k]]
    /\ UNCHANGED <<inboxVars, hubClosed, impActive, opens, noteFaults>>

\* The loop receives a queued event, or its ticker fires (no event is held then).
TakeEvent(k) ==
    /\ OnStream(k, "select")
    /\ \/ stream[k].queue # <<>>
          /\ SetStream(k, [stream[k] EXCEPT !.pc = "check", !.held = Head(stream[k].queue), !.queue = Tail(@)])
       \/ SetStream(k, [stream[k] EXCEPT !.pc = "check"])
    /\ UNCHANGED <<inboxVars, bus, hubClosed, impActive, opens, noteFaults>>

\* impersonationAlive: Verify again, before every frame, for an impersonation token only.
Alive(k) == stream[k].imp => impActive

\* checkSession: the stream of an ended session is told so and closed.
CheckSession(k) ==
    /\ OnStream(k, "check")
    /\ IF Alive(k) THEN SetStream(k, [stream[k] EXCEPT !.pc = "frame"]) ELSE SetStream(k, NoStream)
    /\ UNCHANGED <<inboxVars, bus, hubClosed, impActive, opens, noteFaults>>

\* writeDropped (TakeDropped swaps the count for 0), then the frame itself, or a ping.
WriteFrame(k) ==
    LET s == stream[k] IN
    /\ OnStream(k, "frame")
    /\ SetStream(k, [s EXCEPT !.pc = "select", !.held = NoNotice, !.dropped = 0, !.reported = @ + s.dropped,
                           !.written = IF s.held = NoNotice THEN @ ELSE @ \cup {s.held}])
    /\ UNCHANGED <<inboxVars, bus, hubClosed, impActive, opens, noteFaults>>

\* The client leaves, a write fails, or the loop sees Done: the deferred Unregister runs.
CloseStream(k) ==
    /\ stream[k].pc \in {"select", "frame"}
    /\ SetStream(k, NoStream)
    /\ UNCHANGED <<inboxVars, bus, hubClosed, impActive, opens, noteFaults>>

\* Hub.Shutdown: no new streams, and Done of every open one.
ShutdownHub ==
    /\ ~hubClosed /\ hubClosed' = TRUE
    /\ stream' = [k \in Streams |-> [stream[k] EXCEPT !.done =
                     stream[k].pc \in {"select", "check", "frame"}]]
    /\ UNCHANGED <<inboxVars, bus, impActive, opens, noteFaults>>

\* The impersonation session is stopped or lapses.
SessionEnds ==
    /\ impActive /\ impActive' = FALSE
    /\ UNCHANGED <<inboxVars, bus, stream, hubClosed, opens, noteFaults>>

----------------------------------------------------------------------------
NotificationsNext ==
    \/ \E e \in NoteEvents, w \in NoteWorkers : NotifyChange(e, w) \/ Redeliver(e, w)
    \/ \E w \in NoteWorkers : \/ ClaimCommand(w) \/ PublishNotice(w) \/ CommitDelivery(w) \/ FailDelivery(w)
                              \/ WorkerDies(w) \/ AckDelivery(w)
                              \/ \E u \in NoteUsers : InsertNotice(w, u) \/ RecipientFails(w, u)
    \/ \E k \in Streams : \/ \E u \in NoteUsers, imp \in BOOLEAN : BeginStream(k, u, imp)
                          \/ Register(k) \/ TakeEvent(k) \/ CheckSession(k) \/ WriteFrame(k) \/ CloseStream(k)
    \/ HubDeliver \/ ShutdownHub \/ SessionEnds

NotificationsSpec == NotificationsInit /\ [][NotificationsNext]_noteVars

----------------------------------------------------------------------------
\* However often a command is delivered, by however many workers at once, and by however many
\* commands with the same dedupe key, the inbox has one row of a notice, and a stream is
\* offered a row at most once: only the insert that made it announces it.  A stream is offered
\* a notice a second time only if the transaction that first announced it rolled back and
\* another made the row again.
PushedOnce ==
    /\ \A r, s \in inbox : r[1] = s[1] /\ r[2] = s[2] => r = s
    /\ \A k \in Streams : \A i, j \in DOMAIN stream[k].offered :
          LET r == stream[k].offered[i]
              s == stream[k].offered[j]
          IN  i # j => r # s /\ (r[1] = s[1] /\ r[2] = s[2] => r \in undone \/ s \in undone)

\* Whoever a handled command was to tell has a committed row of it, made by this delivery or
\* by an earlier one: a row that another transaction could still take back is waited for, and
\* never counted as told.
HandledIsStored ==
    \A w \in NoteWorkers : deliverer[w].pc = "ack" =>
        \A u \in deliverer[w].told :
            \E r \in inbox \ Uncommitted : r[1] = deliverer[w].event /\ r[2] = u

\* A notice inserted after the impersonation session ended is never written to a stream opened
\* with its token, whatever was queued when it ended: the session is verified between taking
\* an event and writing it ("a stopped or expired session must stop receiving the target's notices").
EndedSeesNothing ==
    \A k \in Streams : stream[k].imp => stream[k].written \cap late = {}

\* An open stream accounts for every notice offered to it: written, held, queued, dropped
\* and still to be reported, or reported in a fanout.buffer_full frame.
StreamAccounts ==
    \A k \in Streams : LET s == stream[k] IN
        Len(s.offered) = Cardinality(s.written) + (IF s.held = NoNotice THEN 0 ELSE 1)
                         + Len(s.queue) + s.dropped + s.reported

\* The inbox and the live streams agree (Inbox.deliver, Hub.Deliver and the stream loop).
NotificationsInvariant ==
    NotificationsTypeOK /\ PushedOnce /\ HandledIsStored /\ EndedSeesNothing /\ StreamAccounts
=============================================================================
