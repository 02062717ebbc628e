-------------------------- MODULE AnalyticsExports ---------------------------
(***************************************************************************)
(* An administrator's exports of the analytics rollups                     *)
(* (core/analytics/service/exports.go over analytics_export_repository.go  *)
(* and the object store).  The queue is the one of PrivacyRequests; the    *)
(* archive's key is the export's id, so a retry overwrites what an earlier *)
(* try stored.  One administrator; builders may overlap, die or be         *)
(* overtaken, and every call may fail.                                     *)
(***************************************************************************)
EXTENDS Naturals, FiniteSets

CONSTANTS MaxExports,     \* bound: exports made; ids follow created_at
          Builders,       \* processes that run the job
          MaxBuilds,      \* exportMaxAttempts
          MaxBuildersLost \* bound: builders that die or are overtaken

ASSUME ExportsAssumption == {MaxExports, MaxBuilds, MaxBuildersLost} \subseteq Nat /\ MaxBuilds > 0

VARIABLES export,    \* analytics_exports
          archives,  \* exports whose archive is in the bucket
          builder,   \* what each process is doing
          buildersLost

exportsVars == <<export, archives, builder, buildersLost>>

Exports == 1..MaxExports
ExportRow == [status : {"none", "pending", "running", "completed", "failed"}, key : BOOLEAN,
              expired : BOOLEAN, stale : BOOLEAN, attempts : Nat]
NoExport == [status |-> "none", key |-> FALSE, expired |-> FALSE, stale |-> FALSE, attempts |-> 0]
Build == [pc : {"idle", "build", "put", "complete", "delete", "clear", "fail"}, id : 0..MaxExports, attempts : Nat,
          todo : SUBSET Exports]
NoBuild == [pc |-> "idle", id |-> 0, attempts |-> 0, todo |-> {}]

ExportsTypeOK ==
  /\ export \in [Exports -> ExportRow]
  /\ archives \subseteq Exports
  /\ builder \in [Builders -> Build]
  /\ buildersLost \in 0..MaxBuildersLost

ExportsInit ==
  /\ export = [e \in Exports |-> NoExport] /\ archives = {}
  /\ builder = [b \in Builders |-> NoBuild] /\ buildersLost = 0

-----------------------------------------------------------------------------
ExportOpen(e) == export[e].status \in {"pending", "running"}

(* Request after the step-up: the unique index allows one open export.     *)
RequestExport ==
  /\ \A e \in Exports : ~ExportOpen(e)
  /\ \E e \in Exports :
       /\ export[e].status = "none" /\ \A f \in 1..(e - 1) : export[f].status # "none"
       /\ export' = [export EXCEPT ![e].status = "pending"]
  /\ UNCHANGED <<archives, builder, buildersLost>>

ClaimableExport(e) == ExportOpen(e) /\ (export[e].status = "running" => export[e].stale)

ClaimExport(b) ==
  /\ builder[b].pc = "idle"
  /\ \E e \in Exports :
       /\ ClaimableExport(e) /\ \A f \in 1..(e - 1) : ~ClaimableExport(f)
       /\ export' = [export EXCEPT ![e] = [@ EXCEPT !.status = "running", !.stale = FALSE,
                                                !.attempts = export[e].attempts + 1]]
       /\ builder' = [builder EXCEPT ![b] =
                        [NoBuild EXCEPT !.pc = "build", !.id = e, !.attempts = export[e].attempts + 1]]
  /\ UNCHANGED <<archives, buildersLost>>

BuildGoto(b, pc) == builder' = [builder EXCEPT ![b].pc = pc]

(* ExportRollups and the manifest, into a buffer.                          *)
BuildArchive(b) ==
  /\ builder[b].pc = "build" /\ BuildGoto(b, "put")
  /\ UNCHANGED <<export, archives, buildersLost>>

Stored(b) == archives \cup {builder[b].id}

PutExport(b) ==
  /\ builder[b].pc = "put" /\ BuildGoto(b, "complete")
  /\ archives' = Stored(b)
  /\ UNCHANGED <<export, buildersLost>>

CompleteBuild(b) ==
  /\ builder[b].pc = "complete"
  /\ export' = [export EXCEPT ![builder[b].id] =
                  [@ EXCEPT !.status = "completed", !.key = TRUE, !.expired = FALSE]]
  /\ builder' = [builder EXCEPT ![b] = NoBuild]
  /\ UNCHANGED <<archives, buildersLost>>

(* A call fails; an export goes on to Fail, the purge returns its error.   *)
BuildFails(b) ==
  /\ builder[b].pc \in {"build", "put", "complete", "delete", "clear"}
  /\ builder' = [builder EXCEPT ![b] = IF builder[b].id = 0 THEN NoBuild ELSE [@ EXCEPT !.pc = "fail"]]
  /\ UNCHANGED <<export, archives, buildersLost>>

(* Fail, whatever the row says by now; the unique index refuses to reopen  *)
(* an export beside an open one.                                           *)
FailExport(b) ==
  LET e == builder[b].id
      final == builder[b].attempts >= MaxBuilds
  IN  /\ builder[b].pc = "fail"
      /\ export' = IF ~final /\ \E f \in Exports \ {e} : ExportOpen(f) THEN export
                   ELSE [export EXCEPT ![e].status = IF final THEN "failed" ELSE "pending"]
      /\ builder' = [builder EXCEPT ![b] = NoBuild]
      /\ UNCHANGED <<archives, buildersLost>>

(* PurgeExpired after the queue: each expired archive, then its key.       *)
StoredArchives == {e \in Exports : export[e].key}     \* mutant: expires_at ignored
ExpiredExports == {e \in Exports : export[e].key /\ export[e].expired}

PurgeExports(b) ==
  /\ builder[b].pc = "idle" /\ ExpiredExports # {} /\ \A e \in Exports : ~ClaimableExport(e)
  /\ builder' = [builder EXCEPT ![b] = [NoBuild EXCEPT !.pc = "delete", !.todo = ExpiredExports]]
  /\ UNCHANGED <<export, archives, buildersLost>>

DeleteExport(b) ==
  /\ builder[b].pc = "delete"
  /\ \E e \in builder[b].todo :
       /\ \A f \in builder[b].todo : e <= f
       /\ archives' = archives \ {e}
  /\ BuildGoto(b, "clear")
  /\ UNCHANGED <<export, buildersLost>>

ClearExport(b) ==
  /\ builder[b].pc = "clear"
  /\ \E e \in builder[b].todo :
       /\ \A f \in builder[b].todo : e <= f
       /\ export' = [export EXCEPT ![e].key = FALSE]
       /\ builder' = [builder EXCEPT ![b] = IF @.todo = {e} THEN NoBuild
                                            ELSE [@ EXCEPT !.pc = "delete", !.todo = builder[b].todo \ {e}]]
  /\ UNCHANGED <<archives, buildersLost>>

-----------------------------------------------------------------------------
BuilderOf(e) == {b \in Builders : builder[b].id = e}

(* Assumed of the settings: the retention (72 h by default) outlasts every *)
(* builder, so that an export expires after its builders have ended.  One  *)
(* that hung between PutObject and Complete for longer would complete a    *)
(* row whose archive is purged, since Complete does not look at the row.   *)
ExportExpires(e) ==
  /\ export[e].key /\ ~export[e].expired /\ ~ExportOpen(e) /\ BuilderOf(e) = {}
  /\ export' = [export EXCEPT ![e].expired = TRUE]
  /\ UNCHANGED <<archives, builder, buildersLost>>

ExportStale(e) ==
  /\ export[e].status = "running" /\ ~export[e].stale
  /\ IF BuilderOf(e) = {} THEN UNCHANGED buildersLost
     ELSE buildersLost < MaxBuildersLost /\ buildersLost' = buildersLost + 1
  /\ export' = [export EXCEPT ![e].stale = TRUE]
  /\ UNCHANGED <<archives, builder>>

BuilderDies(b) ==
  /\ builder[b].pc # "idle" /\ buildersLost < MaxBuildersLost
  /\ buildersLost' = buildersLost + 1 /\ builder' = [builder EXCEPT ![b] = NoBuild]
  /\ UNCHANGED <<export, archives>>

ExportsNext ==
  \/ RequestExport
  \/ \E b \in Builders :
       \/ ClaimExport(b) \/ BuildArchive(b) \/ PutExport(b) \/ CompleteBuild(b) \/ BuildFails(b) \/ FailExport(b)
       \/ PurgeExports(b) \/ DeleteExport(b) \/ ClearExport(b) \/ BuilderDies(b)
  \/ \E e \in Exports : ExportExpires(e) \/ ExportStale(e)

ExportsSpec == ExportsInit /\ [][ExportsNext]_exportsVars

-----------------------------------------------------------------------------
(* Get signs a download link only for an archive that exists: however      *)
(* builders overlap, fail and die and whenever the purge runs, a row that  *)
(* is completed, keyed and not expired has its object.                     *)
DownloadsExist ==
  \A e \in Exports : export[e].status = "completed" /\ export[e].key /\ ~export[e].expired => e \in archives

(* Rows and archives agree (ProcessPending, build, PurgeExpired).          *)
ExportsInvariant == ExportsTypeOK /\ DownloadsExist
=============================================================================
