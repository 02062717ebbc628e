--------------------------- MODULE LiveAnalytics ----------------------------
(***************************************************************************)
(* What the API replicas share of the traffic in memory.  Publisher queues  *)
(* each accepted event and broadcasts batches; every replica's Board counts *)
(* what it receives in a ring of one-minute buckets that is reused, and     *)
(* tracks the sessions active lately.  dailySalts caches the day's salt of  *)
(* the anonymous visitor hashes, which the first replica to ask stores for  *)
(* all.  Time is in minutes for the board and in days for the salts.        *)
(***************************************************************************)
EXTENDS Integers, Sequences, FiniteSets, SequencesExt

CONSTANTS
    LiveMinutes,      \* liveMinutes: one-minute buckets of the board
    ActiveMinutes,    \* LiveActiveWindow
    LiveMaxSessions,  \* sessions tracked as active
    LiveSessions,     \* visitors' sessions
    LiveQueueSize,    \* queueSize of Publisher
    MaxMinute,        \* bound: the clock
    MaxLiveEvents,    \* bound: events accepted
    SaltReplicas,     \* replicas that ask for salts
    MaxDay,           \* bound: days
    MaxSalts          \* bound: salts drawn

ASSUME LiveBounds ==
    /\ {LiveMinutes, ActiveMinutes, LiveMaxSessions, LiveQueueSize, MaxMinute, MaxLiveEvents,
        MaxDay, MaxSalts} \subseteq Nat \ {0}

VARIABLES
    minuteNow,   \* the board's clock
    liveQueue,   \* Publisher.queue and what Run holds pending
    liveTopic,   \* batches broadcast and not yet received
    accepted,    \* events accepted so far
    minutes,     \* Board.minutes
    sessions,    \* Board.sessions: session -> last active minute, for those tracked
    capped,      \* Board.capped
    counted,     \* history: <<event, minute>> the board was given within its window
    today,       \* the UTC day
    saltTable,   \* analytics_salts: day -> salt, 0 when there is none
    salts,       \* replica -> dailySalts
    drawn        \* salts drawn so far

boardVars == <<minuteNow, liveQueue, liveTopic, accepted, minutes, sessions, capped, counted>>
saltVars == <<today, saltTable, salts, drawn>>

LiveEvent == [id : 1..MaxLiveEvents, kind : {"view", "search", "other"},
              at : 0..MaxMinute + 1, session : LiveSessions]
MinuteBucket == [start : Int, views : Nat, searches : Nat]
Salt == 0..MaxSalts
DailySalts == [pc : {"idle", "insert", "select"}, ahead : BOOLEAN, asked : 0..MaxDay,
               day : 0..MaxDay, salt : Salt, shared : BOOLEAN]
NoSalt == [pc |-> "idle", ahead |-> FALSE, asked |-> 0, day |-> 0, salt |-> 0, shared |-> FALSE]

LiveTypeOK ==
    /\ minuteNow \in 0..MaxMinute /\ liveQueue \in Seq(LiveEvent)
    /\ \A b \in liveTopic : b \in Seq(LiveEvent)
    /\ accepted \in 0..MaxLiveEvents /\ minutes \in [0..LiveMinutes - 1 -> MinuteBucket]
    /\ DOMAIN sessions \subseteq LiveSessions /\ capped \in BOOLEAN
    /\ today \in 1..MaxDay /\ saltTable \in [1..MaxDay -> Salt]
    /\ salts \in [SaltReplicas -> DailySalts] /\ drawn \in Salt

LiveInit ==
    /\ minuteNow = 0 /\ liveQueue = <<>> /\ liveTopic = {} /\ accepted = 0
    /\ minutes = [b \in 0..LiveMinutes - 1 |-> [start |-> -1, views |-> 0, searches |-> 0]]
    /\ sessions = <<>> /\ capped = FALSE /\ counted = {}
    /\ today = 1 /\ saltTable = [d \in 1..MaxDay |-> 0]
    /\ salts = [r \in SaltReplicas |-> NoSalt] /\ drawn = 0

----------------------------------------------------------------------------
(* The live view. *)

\* Ingest.accept announces the event, stamped by a replica whose clock may run ahead; Publish
\* drops it when the queue is full.
PublishLive ==
    /\ accepted < MaxLiveEvents /\ accepted' = accepted + 1
    /\ \E kind \in {"view", "search", "other"}, session \in LiveSessions, skew \in 0..1 :
          LET e == [id |-> accepted + 1, kind |-> kind, at |-> minuteNow + skew, session |-> session]
          IN liveQueue' = IF Len(liveQueue) < LiveQueueSize THEN Append(liveQueue, e) ELSE liveQueue
    /\ UNCHANGED <<minuteNow, liveTopic, minutes, sessions, capped, counted>>

\* Publisher.flush: the pending events go out as one batch; a failure only costs the live view.
FlushLive ==
    /\ liveQueue # <<>> /\ liveQueue' = <<>>
    /\ liveTopic' \in {liveTopic, liveTopic \cup {liveQueue}}
    /\ UNCHANGED <<minuteNow, accepted, minutes, sessions, capped, counted>>

Bucket(m) == m % LiveMinutes
Oldest == minuteNow - (LiveMinutes - 1)
AtMost(m) == IF m > minuteNow THEN minuteNow ELSE m
InWindow(e) == AtMost(e.at) >= Oldest

\* Board.minute: the bucket of minute m, emptied when it last held another one.
BucketFor(ring, m) == IF ring[Bucket(m)].start = m THEN ring[Bucket(m)]
                      ELSE [start |-> m, views |-> 0, searches |-> 0]

\* Views and searches are counted in the bucket of their minute, other events in none.
CountIn(ring, e) ==
    LET m == AtMost(e.at)
        old == BucketFor(ring, m)
    IN CASE e.kind = "view"   -> [ring EXCEPT ![Bucket(m)] = [old EXCEPT !.views = old.views + 1]]
         [] e.kind = "search" -> [ring EXCEPT ![Bucket(m)] = [old EXCEPT !.searches = old.searches + 1]]
         [] OTHER             -> ring

\* Board.touch: a known session moves forward, a new one is tracked up to the cap.
Touch(acc, e) ==
    IF e.session \in DOMAIN acc.known
    THEN [acc EXCEPT !.known[e.session] = IF AtMost(e.at) > @ THEN AtMost(e.at) ELSE @]
    ELSE IF Cardinality(DOMAIN acc.known) >= LiveMaxSessions THEN [acc EXCEPT !.capped = TRUE]
    ELSE [acc EXCEPT !.known = [s \in DOMAIN acc.known \cup {e.session} |->
                                   IF s = e.session THEN AtMost(e.at) ELSE acc.known[s]]]
\* Board.prune: sessions not active lately are forgotten, and the cap with them.
Pruned(acc) ==
    LET active == {s \in DOMAIN acc.known : acc.known[s] >= minuteNow - ActiveMinutes}
    IN [known |-> [s \in active |-> acc.known[s]],
        capped |-> acc.capped /\ Cardinality(active) >= LiveMaxSessions]

\* Board.Add for one event: one older than the window is skipped, a future timestamp counts as
\* now.  The window has as many minutes as the board has buckets.
AddEvent(board, e) ==
    IF InWindow(e) THEN [ring |-> CountIn(board.ring, e), active |-> Touch(board.active, e)] ELSE board

\* Consume and Board.Add: a batch arrives, counted under the board's lock; pruning is due or not.
ReceiveBatch(batch) ==
    /\ batch \in liveTopic /\ liveTopic' = liveTopic \ {batch}
    /\ LET board == FoldLeft(AddEvent, [ring |-> minutes, active |-> [known |-> sessions, capped |-> capped]], batch)
       IN /\ minutes' = board.ring
          /\ \E acc \in {board.active, Pruned(board.active)} : sessions' = acc.known /\ capped' = acc.capped
    /\ counted' = counted \cup {<<e.id, e.kind, AtMost(e.at)>> : e \in {f \in ToSet(batch) : InWindow(f)}}
    /\ UNCHANGED <<minuteNow, liveQueue, accepted>>

\* Board.Snapshot prunes before it reads.
SnapshotPrunes ==
    LET acc == Pruned([known |-> sessions, capped |-> capped]) IN
    /\ sessions' = acc.known /\ capped' = acc.capped
    /\ UNCHANGED <<minuteNow, liveQueue, liveTopic, accepted, minutes, counted>>

MinutePasses == minuteNow < MaxMinute /\ minuteNow' = minuteNow + 1
                /\ UNCHANGED <<liveQueue, liveTopic, accepted, minutes, sessions, capped, counted>>

\* Snapshot: the point of minute m, nothing when its bucket holds another minute.
SeriesPoint(m) == IF minutes[Bucket(m)].start = m THEN minutes[Bucket(m)].views ELSE 0

----------------------------------------------------------------------------
(* Daily salts. *)

\* The day on the replica's clock: replicas may straddle midnight.
DayOf(r) == IF salts[r].ahead /\ today < MaxDay THEN today + 1 ELSE today
KeepFromToday(d) == d
\* SaltKeepFrom: salts of days before yesterday are destroyed.
KeepFrom(d) == d - 1

\* at: nothing to do while the cached salt is of the day and shared, or the retry is not due;
\* otherwise DailySalt begins by destroying the old salts.
AskSalt(r) ==
    /\ salts[r].pc = "idle" /\ ~(salts[r].day = DayOf(r) /\ salts[r].shared)
    /\ saltTable' = [d \in DOMAIN saltTable |-> IF d < KeepFrom(DayOf(r)) THEN 0 ELSE saltTable[d]]
    /\ salts' = [salts EXCEPT ![r].pc = "insert", ![r].asked = DayOf(r)]
    /\ UNCHANGED <<today, drawn>>

\* INSERT ... ON CONFLICT (day) DO NOTHING of a fresh salt.
InsertSalt(r) ==
    /\ salts[r].pc = "insert" /\ drawn < MaxSalts /\ drawn' = drawn + 1
    /\ saltTable' = [saltTable EXCEPT ![salts[r].asked] = IF @ = 0 THEN drawn + 1 ELSE @]
    /\ salts' = [salts EXCEPT ![r].pc = "select"]
    /\ UNCHANGED today

SelectSalt(r) ==
    /\ salts[r].pc = "select" /\ saltTable[salts[r].asked] # 0
    /\ salts' = [salts EXCEPT ![r].pc = "idle", ![r].day = salts[r].asked, ![r].shared = TRUE,
                              ![r].salt = saltTable[salts[r].asked]]
    /\ UNCHANGED <<today, saltTable, drawn>>

\* The store fails or has no salt: one of this process stands in for the day.
LocalSalt(r) ==
    /\ salts[r].pc \in {"insert", "select"}
    /\ IF salts[r].day = salts[r].asked
         THEN salts' = [salts EXCEPT ![r].pc = "idle"] /\ UNCHANGED drawn
         ELSE /\ drawn < MaxSalts /\ drawn' = drawn + 1
              /\ salts' = [salts EXCEPT ![r].pc = "idle", ![r].day = salts[r].asked,
                                        ![r].salt = drawn + 1, ![r].shared = FALSE]
    /\ UNCHANGED <<today, saltTable>>

ReplicaRestarts(r) ==
    /\ salts' = [salts EXCEPT ![r] = NoSalt] /\ UNCHANGED <<today, saltTable, drawn>>

\* A replica's clock crosses midnight before the others; then the day turns for all.
CrossesMidnight(r) ==
    /\ ~salts[r].ahead /\ salts[r].pc = "idle" /\ today < MaxDay
    /\ salts' = [salts EXCEPT ![r].ahead = TRUE]
    /\ UNCHANGED <<today, saltTable, drawn>>
DayTurns ==
    /\ today < MaxDay /\ today' = today + 1
    /\ \A r \in SaltReplicas : salts[r].pc = "idle"
    /\ salts' = [r \in SaltReplicas |-> [salts[r] EXCEPT !.ahead = FALSE]]
    /\ UNCHANGED <<saltTable, drawn>>

BoardNext ==
    /\ \/ PublishLive \/ FlushLive \/ SnapshotPrunes \/ MinutePasses
       \/ \E b \in liveTopic : ReceiveBatch(b)
    /\ UNCHANGED saltVars

SaltNext ==
    /\ \/ DayTurns
       \/ \E r \in SaltReplicas : \/ AskSalt(r) \/ InsertSalt(r) \/ SelectSalt(r) \/ LocalSalt(r)
                                  \/ ReplicaRestarts(r) \/ CrossesMidnight(r)
    /\ UNCHANGED boardVars

LiveSpec == LiveInit /\ [][BoardNext \/ SaltNext]_<<boardVars, saltVars>>

----------------------------------------------------------------------------
(* Properties. *)

\* The series a snapshot shows for each minute of the window is the number of page views the
\* board was given for that minute: a reused bucket carries nothing over, and late, skewed and
\* batched events land in the right one (Board.Add, minute, Snapshot).
SeriesIsExact ==
    \A m \in (IF Oldest > 0 THEN Oldest ELSE 0)..minuteNow :
        SeriesPoint(m) = Cardinality({c \in counted : c[2] = "view" /\ c[3] = m})

\* Replicas that hold the shared salt of a day hold the same one, though they ask at once, fail,
\* restart, and read midnight off different clocks (dailySalts.at, DailySalt, SaltKeepFrom:
\* "so replicas whose clocks straddle midnight still agree").
SaltsAgree ==
    \A r, q \in SaltReplicas :
        salts[r].shared /\ salts[q].shared /\ salts[r].day = salts[q].day => salts[r].salt = salts[q].salt

\* The board's ring of minutes and the shared salts are right (Board.Add, dailySalts.at).
LiveInvariant == LiveTypeOK /\ SeriesIsExact /\ SaltsAgree
=============================================================================
