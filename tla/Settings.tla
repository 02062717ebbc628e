------------------------------ MODULE Settings ------------------------------
(***************************************************************************)
(* Site settings: versioned key/value rows over a catalogue of definitions, *)
(* and the history of their changes.  An update validates every submitted   *)
(* key, then in one transaction locks the rows that exist, compares         *)
(* versions, and saves each changed key together with its history row.  A   *)
(* row that does not exist yet cannot be locked, so two first writes of a   *)
(* key meet only in Save's insert.                                          *)
(***************************************************************************)
EXTENDS Integers, Sequences, FiniteSets, SequencesExt

CONSTANTS
    SettingKeys,    \* keys of the catalogue that may be changed over the API
    ServerKeys,     \* server_only keys: seeded, never written over the API
    Updates,        \* update requests that may run at once
    MaxUpdatesMade  \* bound: requests begun

ASSUME SettingsBounds == MaxUpdatesMade \in Nat /\ IsFiniteSet(SettingKeys) /\ SettingKeys \cap ServerKeys = {}

VARIABLES
    settingRow,      \* key -> the committed row, version 0 when there is none
    settingHistory,  \* key -> the committed history rows, oldest first
    update,          \* request -> its state and uncommitted writes
    updatesMade

settingsVars == <<settingRow, settingHistory, update, updatesMade>>

AllKeys == SettingKeys \cup ServerKeys
\* Values, by what Decode tells apart: the default, another valid one, and one an earlier
\* catalogue accepted and this one does not.
Valid == {"default", "changed"}
Value == Valid \cup {"outdated"}
SettingRow == [value : Value, version : Nat]
NoSetting == [value |-> "default", version |-> 0]
HistoryRow == [previous : Value \cup {"null"}, new : Value, version : Nat]
UpdateCall == [pc : {"idle", "locking", "saving"}, todo : Seq(SettingKeys), value : [SettingKeys -> Value],
               expects : [SettingKeys -> Nat \cup {-1}],
               seen : [SettingKeys -> SettingRow], held : SUBSET SettingKeys, saved : SUBSET SettingKeys]
NoUpdate == [pc |-> "idle", todo |-> <<>>, value |-> [k \in SettingKeys |-> "default"],
             expects |-> [k \in SettingKeys |-> -1],
             seen |-> [k \in SettingKeys |-> NoSetting], held |-> {}, saved |-> {}]

SettingsTypeOK ==
    /\ settingRow \in [AllKeys -> SettingRow] /\ settingHistory \in [AllKeys -> Seq(HistoryRow)]
    /\ update \in [Updates -> UpdateCall] /\ updatesMade \in 0..MaxUpdatesMade

\* A key may already hold a value that the current rules refuse.
SettingsInit ==
    \E outdated \in SUBSET SettingKeys :
        /\ settingRow = [k \in AllKeys |-> IF k \in outdated THEN [value |-> "outdated", version |-> 1]
                                           ELSE NoSetting]
        /\ settingHistory = [k \in AllKeys |-> IF k \in outdated
               THEN <<[previous |-> "default", new |-> "outdated", version |-> 1]>> ELSE <<>>]
        /\ update = [q \in Updates |-> NoUpdate] /\ updatesMade = 0

----------------------------------------------------------------------------
\* resolve: the stored value, or the default where nothing valid is stored; the version stays.
Resolved(row) == IF row.value \in Valid THEN row.value ELSE "default"
Defaulted(row) == row.version = 0 \/ row.value \notin Valid

\* validate: one invalid, repeated, unknown or server_only key rejects the whole request.
Accepted(todo, value) ==
    \A i \in DOMAIN todo : /\ todo[i] \in SettingKeys /\ value[todo[i]] \in Valid
                           /\ \A j \in DOMAIN todo : todo[i] = todo[j] => i = j

\* PATCH /admin/settings: the keys in the order submitted, each perhaps with the version read.
BeginUpdate(q) ==
    /\ update[q].pc = "idle" /\ updatesMade < MaxUpdatesMade
    /\ updatesMade' = updatesMade + 1
    /\ \E todo \in UNION {[1..n -> SettingKeys] : n \in 1..Cardinality(SettingKeys)},
          value \in [SettingKeys -> Value] :
       \E expects \in [SettingKeys -> {-1} \cup {settingRow[k].version : k \in SettingKeys}] :
          /\ \A k \in SettingKeys \ ToSet(todo) : value[k] = "default" /\ expects[k] = -1
          /\ Accepted(todo, value)
          /\ update' = [update EXCEPT ![q] = [NoUpdate EXCEPT !.pc = "locking", !.todo = todo,
                                                !.value = value, !.expects = expects]]
    /\ UNCHANGED <<settingRow, settingHistory>>

Holder(k) == {q \in Updates : k \in update[q].held}

\* Lock: SELECT ... FOR UPDATE of the rows that exist, all at once when none is held; what it
\* returns is what the versions are compared with.
LockSettings(q) ==
    LET u == update[q]
        exist == {k \in ToSet(u.todo) : settingRow[k].version > 0} IN
    /\ u.pc = "locking"
    /\ \A k \in exist : Holder(k) = {}
    /\ update' = [update EXCEPT ![q].pc = "saving", ![q].held = exist,
                     ![q].seen = [k \in SettingKeys |-> IF k \in exist THEN settingRow[k] ELSE NoSetting]]
    /\ UNCHANGED <<settingRow, settingHistory, updatesMade>>

\* A submitted version that is not the locked one, compared before the key is written.
StaleVersion(u, k) == u.expects[k] # -1 /\ u.expects[k] # u.seen[k].version

\* Equal values are left alone, unless the stored one is invalid and must be replaced.
Unchanged(u, k) ==
    Resolved(u.seen[k]) = u.value[k] /\ ~(Defaulted(u.seen[k]) /\ u.seen[k].version > 0)

InsertOrOverwrite(u, k) == u.seen[k].version = 0 \/ settingRow[k].version = u.seen[k].version
\* Save: INSERT ... ON CONFLICT DO NOTHING at version 0, else UPDATE ... WHERE version = expected;
\* no row affected is ErrVersionConflict.
Saves(u, k) == settingRow[k].version = u.seen[k].version

RollBack(q) ==
    /\ update' = [update EXCEPT ![q] = NoUpdate]
    /\ UNCHANGED <<settingRow, settingHistory, updatesMade>>

\* One key of the loop in apply.  An insert of a key another transaction has inserted waits for it.
SaveSetting(q) ==
    LET u == update[q]
        k == Head(u.todo) IN
    /\ u.pc = "saving" /\ u.todo # <<>>
    /\ \/ /\ ~StaleVersion(u, k) /\ Unchanged(u, k)
          /\ update' = [update EXCEPT ![q].todo = Tail(@)]
       \/ /\ ~StaleVersion(u, k) /\ ~Unchanged(u, k) /\ Holder(k) \subseteq {q} /\ Saves(u, k)
          /\ update' = [update EXCEPT ![q].todo = Tail(@), ![q].held = @ \cup {k}, ![q].saved = @ \cup {k}]
    /\ UNCHANGED <<settingRow, settingHistory, updatesMade>>

\* A stale version, or a save that affected no row: nothing of the request is applied.
VersionConflict(q) ==
    LET u == update[q]
        k == Head(u.todo) IN
    /\ u.pc = "saving" /\ u.todo # <<>>
    /\ StaleVersion(u, k) \/ (~Unchanged(u, k) /\ Holder(k) \subseteq {q} /\ ~Saves(u, k))
    /\ RollBack(q)

\* Two transactions wait for each other's keys: the database fails one of them.
WaitsFor(q, p) == /\ update[q].pc = "saving" /\ update[q].todo # <<>>
                  /\ Head(update[q].todo) \in update[p].held \ update[q].held
DeadlockAborts(q) ==
    /\ \E p \in Updates \ {q} : WaitsFor(q, p) /\ WaitsFor(p, q)
    /\ RollBack(q)

\* The transaction commits the rows and their history; settings.updated goes with it, and the
\* cached values are invalidated after it.
CommitUpdate(q) ==
    LET u == update[q] IN
    /\ u.pc = "saving" /\ u.todo = <<>>
    /\ settingRow' = [k \in AllKeys |-> IF k \in u.saved
           THEN [value |-> u.value[k], version |-> u.seen[k].version + 1] ELSE settingRow[k]]
    /\ settingHistory' = [k \in AllKeys |-> IF k \in u.saved
           THEN Append(settingHistory[k], [previous |-> Resolved(u.seen[k]), new |-> u.value[k],
                                           version |-> u.seen[k].version + 1])
           ELSE settingHistory[k]]
    /\ update' = [update EXCEPT ![q] = NoUpdate]
    /\ UNCHANGED updatesMade

\* SeedDefaults: a key without a row is stored at its default, with a history row, and a
\* stored value is never overwritten.
SeedDefault(k) ==
    /\ settingRow[k].version = 0 /\ Holder(k) = {}
    /\ settingRow' = [settingRow EXCEPT ![k].version = 1]
    /\ settingHistory' = [settingHistory EXCEPT ![k] =
                             Append(@, [previous |-> "null", new |-> "default", version |-> 1])]
    /\ UNCHANGED <<update, updatesMade>>

SettingsNext ==
    \/ \E q \in Updates : \/ BeginUpdate(q) \/ LockSettings(q) \/ SaveSetting(q) \/ VersionConflict(q)
                          \/ DeadlockAborts(q) \/ CommitUpdate(q)
    \/ \E k \in AllKeys : SeedDefault(k)

SettingsSpec == SettingsInit /\ [][SettingsNext]_settingsVars

----------------------------------------------------------------------------
\* The history of a key is the chain of its values: one row per version, each starting from
\* what the one before left (or from the default that stood in for a missing or invalid
\* value), the last one being what is stored - also when first writes, which nothing can
\* lock, overlap each other or the seed.
HistoryIsChain ==
    \A k \in AllKeys : LET h == settingHistory[k] IN
        /\ Len(h) = settingRow[k].version
        /\ \A i \in DOMAIN h : h[i].version = i
        /\ h # <<>> => Last(h).new = settingRow[k].value
        /\ \A i \in 2..Len(h) : h[i].previous = (IF h[i-1].new \in Valid THEN h[i-1].new ELSE "default")

\* Settings and their history agree under overlapping updates and the seed (Service.Update, apply, SettingsRepository.Save).
SettingsInvariant == SettingsTypeOK /\ HistoryIsChain
=============================================================================
