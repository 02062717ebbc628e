------------------------------ MODULE Rollups -------------------------------
(***************************************************************************)
(* Raw analytics events and what is computed from them: the ingest queue   *)
(* (ingest.go, writer.go, analytics_repository.go), the aggregator and its *)
(* backfill (aggregate.go, period.go, analytics_rollup_repository.go) and  *)
(* retention (retention.go, export.go, analytics_retention_repository.go). *)
(* Time is cut into half days, so that two time zones put the midnight at  *)
(* different places; a local date d is the two half days t with            *)
(* (t + zone) \div 2 = d, and a month is a few dates.  Weeks fall between  *)
(* the two and are left out.  There is one consented visitor, with at most *)
(* one page view per half day; a rollup is its number of views, a row that *)
(* does not exist or is still NULL counts as zero, as in the reports.      *)
(* The visitor may withdraw its consent, again and again, and may be       *)
(* erased: both delete its stored views (consent_repository.go).           *)
(***************************************************************************)
EXTENDS Integers, FiniteSets

CONSTANTS DaysPerMonth,
          CohortDays,         \* CohortDays: the return offsets of a cohort
          CohortLookback,     \* cohortLookback: the largest of them
          FloorDays,          \* RawRetentionFloorDays
          RetentionDays,      \* analytics.raw_retention_days
          DayRollupMonths,    \* analytics.rollup_day_retention_months, 0 for ever
          MaxSlot,            \* bound: half days
          ViewSlots,          \* bound: the half days with a page view
          TakeBackSlots,      \* bound: the half days with a withdrawal or an erasure
          ZoneSlots,          \* bound: the half days with a change of site.timezone
          MaxZoneChanges      \* bound: changes of site.timezone

ASSUME RollupsAssumption ==
  /\ {DaysPerMonth, CohortLookback, RetentionDays, MaxSlot} \subseteq Nat \ {0}
  /\ CohortDays \subseteq 1..CohortLookback
  /\ FloorDays \in Nat /\ FloorDays > CohortLookback /\ FloorDays >= DaysPerMonth
  /\ {DayRollupMonths, MaxZoneChanges} \subseteq Nat /\ ViewSlots \subseteq 0..MaxSlot

VARIABLES now,       \* the current half day
          zone,      \* site.timezone: 0 or 1
          zoneMoves, \* changes so far
          buffered,  \* half days of the views in the Writer's queue
          raw,       \* half days of the stored page views
          views,     \* history: views stored and not taken back, pruned since or not
          visitor,   \* consented, has withdrawn since, or erased
          firstSeen, \* analytics_subject_first_seen
          rollup,    \* analytics_rollup_*: number of views of a period
          cohort,    \* analytics_rollup_cohorts
          built,     \* the zone the rollups were built in
          agg,       \* the aggregator's run
          prune      \* the retention run: its cutoff date, or none

rollupVars == <<now, zone, zoneMoves, buffered, raw, views, visitor, firstSeen, rollup, cohort, built, agg, prune>>

none == -1
Slots == 0..MaxSlot
Dates == 0..((MaxSlot + 1) \div 2)
Grains == {"day", "month"}
Keys == Grains \X Dates
CohortRow == [size : 0..1, returned : SUBSET CohortDays]
NoCohort == [size |-> 0, returned |-> {}]
AggRun == [kind : {"run", "backfill", "rebuild"}, pc : {"delete", "first_seen", "periods", "set_zone"},
           zone : 0..1, at : Slots, from : Dates, to : Dates, minStart : Dates, cohortFrom : Dates,
           todo : SUBSET Keys, cohorts : SUBSET Dates]
AggIdle == [pc |-> "idle"]

RollupsTypeOK ==
  /\ now \in Slots /\ zone \in 0..1 /\ zoneMoves \in 0..MaxZoneChanges
  /\ buffered \subseteq Slots /\ raw \subseteq views /\ views \subseteq Slots
  /\ firstSeen \in -1..MaxSlot /\ visitor \in {"consented", "withdrew", "erased"}
  /\ rollup \in [Keys -> 0..Cardinality(ViewSlots)]
  /\ cohort \in [Dates -> CohortRow]
  /\ built \in -1..1
  /\ agg \in AggRun \cup {AggIdle}
  /\ prune \in Dates \cup {none}

RollupsInit ==
  /\ now = 0 /\ zone = 0 /\ zoneMoves = 0
  /\ buffered = {} /\ raw = {} /\ views = {} /\ visitor = "consented" /\ firstSeen = none
  /\ rollup = [k \in Keys |-> 0]
  /\ cohort = [d \in Dates |-> NoCohort]
  /\ built = none /\ agg = AggIdle /\ prune = none

-----------------------------------------------------------------------------
(* period.go: PeriodOf, PeriodsBetween, and the bounds of a period.        *)

DateOf(t, z) == (t + z) \div 2
Period(grain, date) == IF grain = "day" THEN date ELSE date \div DaysPerMonth
Start(grain, p) == IF grain = "day" THEN p ELSE p * DaysPerMonth
PeriodSlots(grain, p, z) == {t \in Slots : Period(grain, DateOf(t, z)) = p}
PeriodsBetween(grain, from, to) == {Period(grain, d) : d \in from..to}

Later(a, b) == IF b > a THEN b ELSE a
Earlier(a, b) == IF b < a THEN b ELSE a
Earliest(S) == CHOOSE t \in S : \A u \in S : t <= u

-----------------------------------------------------------------------------
(* Ingest and the Writer: a view is timed on receipt, queued, and stored   *)
(* or lost with its batch.  Who has withdrawn may consent again.           *)

AcceptView ==
  /\ visitor # "erased" /\ now \in ViewSlots \ (views \cup buffered)
  /\ buffered' = buffered \cup {now}
  /\ UNCHANGED <<now, zone, zoneMoves, raw, views, visitor, firstSeen, rollup, cohort, built, agg, prune>>

(* InsertBatch of what the queue holds.                                    *)
FlushViews ==
  /\ buffered # {} /\ buffered' = {}
  /\ \/ raw' = raw \cup buffered /\ views' = views \cup buffered
     \/ UNCHANGED <<raw, views>>
  /\ UNCHANGED <<now, zone, zoneMoves, visitor, firstSeen, rollup, cohort, built, agg, prune>>

(* DeleteSubjectEvents of Service.save, when the visitor withdraws, and    *)
(* deleteUserSubjects, when its account is erased: the stored views and    *)
(* the first-seen row go, in one statement.  What is queued is not.        *)
TakeBack ==
  /\ now \in TakeBackSlots /\ visitor # "erased" /\ visitor' \in {"withdrew", "erased"}
  /\ raw' = {} /\ views' = {} /\ firstSeen' = none
  /\ UNCHANGED <<now, zone, zoneMoves, buffered, rollup, cohort, built, agg, prune>>

-----------------------------------------------------------------------------
(* The aggregator.                                                         *)

(* recompute(window): the dates from..to, periods that start no earlier    *)
(* than minStart, and the cohorts from cohortFrom.                         *)
Recompute(kind, pc, from, to, minStart, cohortFrom) ==
  [kind |-> kind, pc |-> pc, zone |-> zone, at |-> now, from |-> from, to |-> to, minStart |-> minStart,
   cohortFrom |-> cohortFrom,
   todo |-> {k \in Keys : k[2] \in PeriodsBetween(k[1], from, to) /\ Start(k[1], k[2]) >= minStart},
   cohorts |-> Later(cohortFrom, minStart)..to]

Today == DateOf(now, zone)
EarliestDate == DateOf(Earliest(raw), zone)

WindowFrom == Later(Today - 1, 0)

(* Run, when the rollups exist in the site's zone.                         *)
StartRun ==
  /\ agg = AggIdle /\ built = zone
  /\ agg' = Recompute("run", "first_seen", WindowFrom, Today, 0, Later(Today - 1 - CohortLookback, 0))
  /\ UNCHANGED <<now, zone, zoneMoves, buffered, raw, views, visitor, firstSeen, rollup, cohort, built, prune>>

(* prepare finds the rollups in another zone, or none: rebuild.  Only a    *)
(* change of zone deletes, and then older periods stay as they are.        *)
StartRebuild ==
  /\ agg = AggIdle /\ built # zone
  /\ agg' = IF raw = {} THEN [Recompute("rebuild", "set_zone", Today, Today, 0, 0) EXCEPT !.todo = {}, !.cohorts = {}]
            ELSE IF built = none THEN Recompute("rebuild", "first_seen", EarliestDate, Today, 0, EarliestDate)
            ELSE Recompute("rebuild", "delete", EarliestDate, Today, EarliestDate, EarliestDate)
  /\ UNCHANGED <<now, zone, zoneMoves, buffered, raw, views, visitor, firstSeen, rollup, cohort, built, prune>>

(* Backfill, from the command line: never before the oldest raw event nor  *)
(* after today.                                                            *)
StartBackfill ==
  /\ agg = AggIdle /\ built = zone /\ raw # {}
  /\ \E from, to \in 0..Today :
       LET first == Later(from, EarliestDate)
       IN  /\ first <= to
           /\ agg' = Recompute("backfill", "first_seen", first, to, 0, Later(first - CohortLookback, EarliestDate))
  /\ UNCHANGED <<now, zone, zoneMoves, buffered, raw, views, visitor, firstSeen, rollup, cohort, built, prune>>

DeleteFrom ==
  /\ agg.pc = "delete"
  /\ rollup' = [k \in Keys |-> IF Start(k[1], k[2]) >= agg.minStart THEN 0 ELSE rollup[k]]
  /\ cohort' = [d \in Dates |-> IF d >= agg.minStart THEN NoCohort ELSE cohort[d]]
  /\ agg' = [agg EXCEPT !.pc = "first_seen"]
  /\ UNCHANGED <<now, zone, zoneMoves, buffered, raw, views, visitor, firstSeen, built, prune>>

(* The first view of the visitor within the window, keeping an earlier one *)
(* (ON CONFLICT ... LEAST); a subject that is gone is skipped.             *)
KeptFirstSeen(first) == IF firstSeen = none THEN first ELSE Earlier(firstSeen, first)

RefreshFirstSeen ==
  LET seen == {t \in raw : DateOf(t, agg.zone) \in agg.from..agg.to}
  IN  /\ agg.pc = "first_seen"
      /\ firstSeen' = IF seen = {} \/ visitor = "erased" THEN firstSeen ELSE KeptFirstSeen(Earliest(seen))
      /\ agg' = [agg EXCEPT !.pc = "periods"]
      /\ UNCHANGED <<now, zone, zoneMoves, buffered, raw, views, visitor, rollup, cohort, built, prune>>

(* Days before months, each from the oldest: one transaction under the     *)
(* period's advisory lock deletes and refills it.                          *)
IsBefore(j, k) == (j[1] = k[1] /\ j[2] < k[2]) \/ (j[1] = "day" /\ k[1] = "month")

RecomputePeriod ==
  /\ agg.pc = "periods"
  /\ \E k \in agg.todo :
       /\ \A j \in agg.todo : ~IsBefore(j, k)
       /\ rollup' = [rollup EXCEPT ![k] = Cardinality(raw \cap PeriodSlots(k[1], k[2], agg.zone))]
       /\ agg' = [agg EXCEPT !.todo = agg.todo \ {k}]
  /\ UNCHANGED <<now, zone, zoneMoves, buffered, raw, views, visitor, firstSeen, cohort, built, prune>>

(* The visitor is of the cohort of its first day; a return stays NULL      *)
(* until its day has ended at the start of the run.                        *)
Returns(d) == {n \in CohortDays : /\ DateOf(agg.at, agg.zone) > d + n
                                  /\ \E t \in raw : DateOf(t, agg.zone) = d + n}

RecomputeCohort ==
  /\ agg.pc = "periods" /\ agg.todo = {}
  /\ \E d \in agg.cohorts :
       /\ \A e \in agg.cohorts : d <= e
       /\ cohort' = [cohort EXCEPT ![d] = IF firstSeen # none /\ DateOf(firstSeen, agg.zone) = d
                                          THEN [size |-> 1, returned |-> Returns(d)] ELSE NoCohort]
       /\ agg' = [agg EXCEPT !.cohorts = agg.cohorts \ {d}]
  /\ UNCHANGED <<now, zone, zoneMoves, buffered, raw, views, visitor, firstSeen, rollup, built, prune>>

EndRecompute ==
  /\ agg.pc = "periods" /\ agg.todo = {} /\ agg.cohorts = {}
  /\ agg' = IF agg.kind = "rebuild" THEN [agg EXCEPT !.pc = "set_zone"] ELSE AggIdle
  /\ UNCHANGED <<now, zone, zoneMoves, buffered, raw, views, visitor, firstSeen, rollup, cohort, built, prune>>

SetTimezone ==
  /\ agg.pc = "set_zone" /\ built' = agg.zone /\ agg' = AggIdle
  /\ UNCHANGED <<now, zone, zoneMoves, buffered, raw, views, visitor, firstSeen, rollup, cohort, prune>>

AggregatorFails ==
  /\ agg # AggIdle /\ agg' = AggIdle
  /\ UNCHANGED <<now, zone, zoneMoves, buffered, raw, views, visitor, firstSeen, rollup, cohort, built, prune>>

-----------------------------------------------------------------------------
(* Retention.                                                              *)

CutoffBySetting(today) == Later(today - RetentionDays, 0)   \* mutant: no floor

RawRetentionCutoff(today) ==
  LET byDays == today - Later(RetentionDays, FloorDays)
      previousMonth == (Period("month", today) - 1) * DaysPerMonth
  IN  Later(Earlier(byDays, previousMonth), 0)

StartRetention ==
  /\ prune = none /\ prune' = RawRetentionCutoff(Today)
  /\ UNCHANGED <<now, zone, zoneMoves, buffered, raw, views, visitor, firstSeen, rollup, cohort, built, agg>>

Prunable == {t \in raw : DateOf(t, zone) < prune}

(* PruneRaw: one batch, in no order.                                       *)
PruneRaw ==
  /\ prune # none
  /\ \E batch \in (SUBSET Prunable) \ {{}} : raw' = raw \ batch
  /\ UNCHANGED <<now, zone, zoneMoves, buffered, views, visitor, firstSeen, rollup, cohort, built, agg, prune>>

(* The run ends, after all batches with the daily rollups, or before.      *)
EndRetention ==
  /\ prune # none /\ prune' = none
  /\ rollup' = IF Prunable = {} /\ DayRollupMonths > 0
               THEN [k \in Keys |-> IF k[1] = "day" /\ k[2] < Today - DayRollupMonths * DaysPerMonth
                                    THEN 0 ELSE rollup[k]]
               ELSE rollup
  /\ UNCHANGED <<now, zone, zoneMoves, buffered, raw, views, visitor, firstSeen, cohort, built, agg>>

-----------------------------------------------------------------------------
(* Time and the site's zone.  A run ends within its half day, the queue is   *)
(* stored within a day, and the zone is not changed under retention.       *)

RollupClock ==
  /\ now < MaxSlot /\ now' = now + 1
  /\ \A t \in buffered : t >= now - 1
  /\ agg = AggIdle /\ prune = none
  /\ UNCHANGED <<zone, zoneMoves, buffered, raw, views, visitor, firstSeen, rollup, cohort, built, agg, prune>>

ChangeZone ==
  /\ now \in ZoneSlots /\ zoneMoves < MaxZoneChanges /\ prune = none
  /\ zone' = 1 - zone /\ zoneMoves' = zoneMoves + 1
  /\ UNCHANGED <<now, buffered, raw, views, visitor, firstSeen, rollup, cohort, built, agg, prune>>

RollupsNext ==
  \/ AcceptView \/ FlushViews \/ TakeBack \/ StartRun \/ StartRebuild \/ StartBackfill \/ DeleteFrom \/ RefreshFirstSeen
  \/ RecomputePeriod \/ RecomputeCohort \/ EndRecompute \/ SetTimezone \/ AggregatorFails
  \/ StartRetention \/ PruneRaw \/ EndRetention \/ RollupClock \/ ChangeZone

RollupsSpec == RollupsInit /\ [][RollupsNext]_rollupVars

-----------------------------------------------------------------------------
(* The aggregator at work on a period or cohort of a scheduled run, while  *)
(* the site keeps its zone.                                                *)
ScheduledWork == agg.pc = "periods" /\ agg.kind = "run" /\ zoneMoves = 0

StoredViews(k) == Cardinality(views \cap PeriodSlots(k[1], k[2], zone))

EndedReturns(d) ==
  IF firstSeen # none /\ DateOf(firstSeen, zone) = d
  THEN {n \in CohortDays : Today > d + n /\ \E t \in views : DateOf(t, zone) = d + n} ELSE {}

(* Retention and withdrawals delete raw events under the aggregator's      *)
(* feet: still, what a scheduled run writes counts every view stored and   *)
(* not taken back, those retention has deleted included.                   *)
ScheduledRunIsWhole ==
  [][ScheduledWork => /\ \A k \in Keys : rollup'[k] \in {rollup[k], StoredViews(k)}
                      /\ \A d \in Dates : cohort'[d] = cohort[d] \/ cohort'[d].returned = EndedReturns(d)]_agg

(* As long as the visitor takes nothing back, a scheduled run replaces no  *)
(* total by a smaller one, nor the returns of a cohort, unless an earlier  *)
(* day of the visitor has come to light.  After a withdrawal it does: the  *)
(* open periods are counted again from what is left, although "Rollups     *)
(* keep their counts" (docs/backend/analytics.md).                         *)
ScheduledRunKeepsTotals ==
  [][ScheduledWork /\ visitor = "consented"
       => /\ \A k \in Keys : rollup'[k] >= rollup[k]
          /\ \A d \in Dates : \/ cohort[d].returned \subseteq cohort'[d].returned
                              \/ firstSeen # none /\ DateOf(firstSeen, zone) < d]_agg

(* The tables keep their types, and scheduled runs count all there is and  *)
(* keep their totals (Aggregator.Run, recompute, Retention.Run).           *)
RollupsCorrect == []RollupsTypeOK /\ ScheduledRunIsWhole /\ ScheduledRunKeepsTotals
=============================================================================
