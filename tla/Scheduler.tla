----------------------------- MODULE Scheduler ------------------------------
(***************************************************************************)
(* The recurring jobs (cmd/scheduler.go, inbound/scheduler/scheduler.go,   *)
(* job_run_repository.go).  Any number of replicas check each job on every *)
(* tick; a job runs under a Postgres advisory lock that belongs to one     *)
(* connection, when its recorded start is at least its interval ago.       *)
(* `scheduler run <job>` forces a run.  A replica may die, and its lock    *)
(* connection may drop while the job goes on over another one.             *)
(***************************************************************************)
EXTENDS Integers, Sequences, TLC

CONSTANTS Jobs,      \* the jobs considered
          Replicas,  \* scheduler processes
          NoReplica, \* nobody holds the lock
          Minute,    \* a minute and an hour in clock ticks
          Hour,
          MaxClock,  \* bound: clock
          MaxForced, \* bound: forced runs
          MaxFaults  \* bound: crashes and dropped connections

(* The jobs of a plain installation: the interval, and the parts of a run, *)
(* whose errors are joined: a part that fails does not stop the next.      *)
scheduledJobs ==
  LET job(every, parts) == [every |-> every, parts |-> parts]
  IN  [audit_prune |-> job(Hour, <<"entries">>),
       processed_messages_prune |-> job(Hour, <<"messages">>),
       auth_tokens_prune |-> job(Hour, <<"sessions", "resets", "registrations">>),
       privacy_requests |-> job(Minute, <<"process", "purge">>),
       impersonation_expire |-> job(Minute, <<"expire">>),
       newsletter_release |-> job(Minute, <<"release">>),
       newsletter_tokens_prune |-> job(Hour, <<"tokens">>)]
analyticsJobs ==
  [analytics_rollup |-> [every |-> 15 * Minute, parts |-> <<"rollup">>],
   analytics_exports |-> [every |-> Minute, parts |-> <<"process", "purge">>],
   analytics_retention |-> [every |-> Hour, parts |-> <<"retention">>]]
mediaJobs == [media_orphans |-> [every |-> Hour, parts |-> <<"purge">>]]

jobTable == scheduledJobs @@ analyticsJobs @@ mediaJobs

ASSUME SchedulerAssumption ==
  /\ Jobs \subseteq DOMAIN jobTable
  /\ NoReplica \notin Replicas
  /\ Minute \in Nat \ {0} /\ Hour \in Nat /\ Hour > Minute
  /\ {MaxClock, MaxForced, MaxFaults} \subseteq Nat

VARIABLES job,      \* the job looked at: jobs share neither lock nor row
          clock,
          jobLock,  \* the replica whose connection holds the advisory lock
          jobRow,   \* the job's row of scheduled_job_runs
          replica,  \* the goroutine of the job in each replica
          forced,   \* forced runs so far
          faults,   \* crashes and dropped connections so far
          starts    \* history: scheduled starts since the last forced one

schedulerVars == <<job, clock, jobLock, jobRow, replica, forced, faults, starts>>

never == -1
every == jobTable[job].every
parts == jobTable[job].parts

JobRow == [started : never..MaxClock, finished : BOOLEAN, failed : BOOLEAN, runs : Nat]
Goroutine == [pc : {"idle", "lock", "due", "start", "run"}, now : 0..MaxClock, forced : BOOLEAN,
              part : Nat, failed : BOOLEAN, dropped : BOOLEAN]
Resting == [pc |-> "idle", now |-> 0, forced |-> FALSE, part |-> 0, failed |-> FALSE, dropped |-> FALSE]

SchedulerTypeOK ==
  /\ job \in Jobs /\ clock \in 0..MaxClock
  /\ jobLock \in Replicas \cup {NoReplica}
  /\ jobRow \in JobRow
  /\ replica \in [Replicas -> Goroutine]
  /\ forced \in 0..MaxForced /\ faults \in 0..MaxFaults
  /\ starts \in Seq(0..MaxClock)

SchedulerInit ==
  /\ job \in Jobs /\ clock = 0
  /\ jobLock = NoReplica
  /\ jobRow = [started |-> never, finished |-> FALSE, failed |-> FALSE, runs |-> 0]
  /\ replica = [p \in Replicas |-> Resting]
  /\ forced = 0 /\ faults = 0 /\ starts = <<>>

-----------------------------------------------------------------------------
PcOf(p) == replica[p].pc
ToPc(p, pc) == replica' = [replica EXCEPT ![p].pc = pc]

(* The deferred unlock: the connection's own lock, if it still holds it.   *)
Unlock(p) == jobLock' = IF jobLock = p THEN NoReplica ELSE jobLock

Stop(p) == Unlock(p) /\ replica' = [replica EXCEPT ![p] = Resting]

(* loop: a tick reads the time and asks TryRun.                            *)
Tick(p) ==
  /\ PcOf(p) = "idle"
  /\ replica' = [replica EXCEPT ![p] = [Resting EXCEPT !.pc = "lock", !.now = clock]]
  /\ UNCHANGED <<job, clock, jobLock, jobRow, forced, faults, starts>>

(* RunNow, from a process of its own that this replica stands for.         *)
RunNow(p) ==
  /\ PcOf(p) = "idle" /\ forced < MaxForced
  /\ replica' = [replica EXCEPT ![p] = [Resting EXCEPT !.pc = "lock", !.now = clock, !.forced = TRUE]]
  /\ forced' = forced + 1
  /\ UNCHANGED <<job, clock, jobLock, jobRow, faults, starts>>

(* pg_try_advisory_lock.                                                   *)
TryLock(p) ==
  /\ PcOf(p) = "lock"
  /\ IF jobLock = NoReplica THEN jobLock' = p /\ ToPc(p, "due")
     ELSE replica' = [replica EXCEPT ![p] = Resting] /\ UNCHANGED jobLock
  /\ UNCHANGED <<job, clock, jobRow, forced, faults, starts>>

IsDueEarly(p) == replica[p].forced \/ jobRow.started = never
                 \/ replica[p].now + 1 >= jobRow.started + every  \* mutant: a tick early
IsDue(p) == replica[p].forced \/ jobRow.started = never \/ replica[p].now >= jobRow.started + every

CheckDue(p) ==
  /\ PcOf(p) = "due"
  /\ IF IsDue(p) THEN ToPc(p, "start") /\ UNCHANGED jobLock ELSE Stop(p)
  /\ UNCHANGED <<job, clock, jobRow, forced, faults, starts>>

StartRun(p) ==
  /\ PcOf(p) = "start"
  /\ jobRow' = [jobRow EXCEPT !.started = replica[p].now]
  /\ replica' = [replica EXCEPT ![p].pc = "run", ![p].part = 1]
  /\ starts' = IF replica[p].forced THEN <<>> ELSE Append(starts, replica[p].now)
  /\ UNCHANGED <<job, clock, jobLock, forced, faults>>

(* The next part of the job, whether or not an earlier one failed.         *)
RunPart(p) ==
  /\ PcOf(p) = "run" /\ replica[p].part <= Len(parts)
  /\ \E failed \in BOOLEAN :
       replica' = [replica EXCEPT ![p].part = @ + 1, ![p].failed = @ \/ failed]
  /\ UNCHANGED <<job, clock, jobLock, jobRow, forced, faults, starts>>

(* The outcome is recorded over the connection of the lock.                *)
FinishRun(p) ==
  /\ PcOf(p) = "run" /\ replica[p].part > Len(parts)
  /\ jobRow' = IF replica[p].dropped THEN jobRow
               ELSE [jobRow EXCEPT !.finished = TRUE, !.failed = replica[p].failed, !.runs = @ + 1]
  /\ Stop(p)
  /\ UNCHANGED <<job, clock, forced, faults, starts>>

-----------------------------------------------------------------------------
CrashKeepsLock(p) == UNCHANGED jobLock   \* mutant: the lock outlives its connection
CrashUnlocks(p) == Unlock(p)

ReplicaCrash(p) ==
  /\ PcOf(p) # "idle" /\ faults < MaxFaults
  /\ CrashUnlocks(p) /\ replica' = [replica EXCEPT ![p] = Resting]
  /\ faults' = faults + 1
  /\ UNCHANGED <<job, clock, jobRow, forced, starts>>

(* The lock's connection drops: a job that has begun goes on without it.   *)
ConnectionDrops(p) ==
  /\ PcOf(p) \in {"due", "start", "run"} /\ faults < MaxFaults /\ jobLock = p
  /\ jobLock' = NoReplica
  /\ replica' = [replica EXCEPT ![p] = IF PcOf(p) = "run" THEN [@ EXCEPT !.dropped = TRUE] ELSE Resting]
  /\ faults' = faults + 1
  /\ UNCHANGED <<job, clock, jobRow, forced, starts>>

ClockTicks ==
  /\ clock < MaxClock /\ clock' = clock + 1
  /\ UNCHANGED <<job, jobLock, jobRow, replica, forced, faults, starts>>

SchedulerNext ==
  \/ \E p \in Replicas :
       \/ Tick(p) \/ RunNow(p) \/ TryLock(p) \/ CheckDue(p) \/ StartRun(p) \/ RunPart(p) \/ FinishRun(p)
       \/ ReplicaCrash(p) \/ ConnectionDrops(p)
  \/ ClockTicks

SchedulerSpec == SchedulerInit /\ [][SchedulerNext]_schedulerVars

-----------------------------------------------------------------------------
Running(p) == PcOf(p) = "run"

(* "each job runs once per interval across all of them": two replicas are  *)
(* inside a job only when one of them has lost its lock's connection, and  *)
(* without a forced run between them two starts are an interval apart.     *)
RunsOncePerInterval ==
  /\ \A p, q \in Replicas : p # q /\ Running(p) /\ Running(q) => replica[p].dropped \/ replica[q].dropped
  /\ \A i \in 1..(Len(starts) - 1) : starts[i + 1] >= starts[i] + every

Overdue == jobRow.started = never \/ clock >= jobRow.started + every

(* A job that is due is started, whatever replicas die.                    *)
DueJobStarts == Overdue ~> ~Overdue

(* Runs and the job_runs table agree (TryRun, RunNow, the advisory lock).  *)
SchedulerInvariant == SchedulerTypeOK /\ RunsOncePerInterval
=============================================================================
