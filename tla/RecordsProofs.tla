---------------------------- MODULE RecordsProofs ----------------------------
(***************************************************************************)
(* Proofs about records that requests read, change and write back:         *)
(* settings with their history, the media library, a newsletter            *)
(* subscriber, a profile with its visitors, tags with the posts that carry *)
(* them, and a post with what it points at, for any number of records and  *)
(* requests.                                                               *)
(***************************************************************************)
EXTENDS NewsletterSubscriber, Media, Settings, Profiles, Tags, PostReferences, TLAPS, FiniteSetTheorems,
        SequenceTheorems

(* Settings.  HistoryIsChain needs that a save goes on from the value it   *)
(* was compared with: a key an update holds is held by no other and still  *)
(* has the row the update saw, a key it does not hold was missing when it  *)
(* looked, and a missing row has never had a value.                        *)

ChainOf(h, row) ==
    /\ Len(h) = row.version
    /\ \A i \in DOMAIN h : h[i].version = i
    /\ h # <<>> => Last(h).new = row.value
    /\ \A i \in 2..Len(h) : h[i].previous = (IF h[i-1].new \in Valid THEN h[i-1].new ELSE "default")

MissingIsDefault == \A k \in AllKeys : settingRow[k].version = 0 => settingRow[k] = NoSetting

UpdateKnows(u) ==
    /\ u.pc # "saving" => u.held = {} /\ u.saved = {}
    /\ u.saved \subseteq u.held
    /\ \A k \in SettingKeys : u.seen[k] = IF k \in u.held THEN settingRow[k] ELSE NoSetting

HeldByOne == \A q, p \in Updates : q # p => update[q].held \cap update[p].held = {}

SettingsInv ==
    /\ SettingsTypeOK
    /\ HistoryIsChain
    /\ MissingIsDefault
    /\ \A q \in Updates : UpdateKnows(update[q])
    /\ HeldByOne

(* A history that goes on from the stored row stays a chain.               *)
LEMMA ChainGrows ==
    ASSUME NEW h \in Seq(HistoryRow), NEW row \in SettingRow, ChainOf(h, row),
           NEW next \in HistoryRow, next.version = row.version + 1, h = <<>> \/ next.previous = Resolved(row),
           NEW left \in SettingRow, left.version = next.version, left.value = next.new
    PROVE  ChainOf(Append(h, next), left) /\ Append(h, next) \in Seq(HistoryRow)
<1> DEFINE g == Append(h, next)
<1>1. /\ Len(h) \in Nat /\ row.version = Len(h) /\ next.version \in Nat
      /\ g \in Seq(HistoryRow) /\ Len(g) = Len(h) + 1 /\ g[Len(g)] = next
      /\ DOMAIN g = 1..Len(g) /\ DOMAIN h = 1..Len(h)
      /\ \A i \in 1..Len(h) : g[i] = h[i]
    BY DEF ChainOf, SettingRow, HistoryRow
<1>2. Len(g) = left.version /\ Last(g).new = left.value
    BY <1>1 DEF Last
<1>3. \A i \in DOMAIN g : g[i].version = i
  <2> SUFFICES ASSUME NEW i \in 1..Len(g) PROVE g[i].version = i
    BY <1>1
  <2>1. CASE i \in 1..Len(h)
    BY <1>1, <2>1 DEF ChainOf
  <2>2. CASE i = Len(g)
    BY <1>1, <2>2
  <2> HIDE DEF g
  <2> QED
    BY <1>1, <2>1, <2>2
<1>4. \A i \in 2..Len(g) : g[i].previous = (IF g[i-1].new \in Valid THEN g[i-1].new ELSE "default")
  <2> SUFFICES ASSUME NEW i \in 2..Len(g)
               PROVE  g[i].previous = (IF g[i-1].new \in Valid THEN g[i-1].new ELSE "default")
    OBVIOUS
  <2>1. CASE i \in 2..Len(h)
    <3>1. g[i] = h[i] /\ g[i-1] = h[i-1]
      BY <1>1, <2>1
    <3> QED
      BY <2>1, <3>1 DEF ChainOf
  <2>2. CASE i = Len(g)
    <3>1. Len(h) >= 1 /\ i - 1 = Len(h) /\ g[i-1] = h[Len(h)] /\ h # <<>>
      <4> HIDE DEF g
      <4>1. Len(h) \in Nat /\ i = Len(h) + 1 /\ i >= 2
        BY <1>1, <2>2
      <4>2. i - 1 = Len(h) /\ Len(h) >= 1 /\ Len(h) \in 1..Len(h)
        BY <4>1
      <4> QED
        BY <1>1, <4>2
    <3>2. h[Len(h)].new = row.value
      BY <3>1 DEF ChainOf, Last
    <3> QED
      BY <1>1, <2>2, <3>1, <3>2 DEF Resolved
  <2> HIDE DEF g
  <2> QED
    BY <1>1, <2>1, <2>2
<1> QED
  BY <1>1, <1>2, <1>3, <1>4 DEF ChainOf

(* No update is under way; a key is at its default or at an outdated value.*)
LEMMA SettingsInitInv == SettingsInit => SettingsInv
<1> SUFFICES ASSUME SettingsInit PROVE SettingsInv
  OBVIOUS
<1> USE SettingsBounds
<1> DEFINE old == [value |-> "outdated", version |-> 1]
           change == [previous |-> "default", new |-> "outdated", version |-> 1]
<1>1. PICK outdated \in SUBSET SettingKeys :
        /\ settingRow = [k \in AllKeys |-> IF k \in outdated THEN old ELSE NoSetting]
        /\ settingHistory = [k \in AllKeys |-> IF k \in outdated THEN <<change>> ELSE <<>>]
        /\ update = [q \in Updates |-> NoUpdate] /\ updatesMade = 0
  BY DEF SettingsInit
<1>2. /\ old \in SettingRow /\ NoSetting \in SettingRow /\ <<change>> \in Seq(HistoryRow)
      /\ NoUpdate \in UpdateCall
  BY DEF SettingRow, NoSetting, HistoryRow, Value, Valid, NoUpdate, UpdateCall
<1>3. SettingsTypeOK
  BY <1>1, <1>2 DEF SettingsTypeOK
<1>4. ChainOf(<<change>>, old) /\ ChainOf(<<>>, NoSetting)
  BY DEF ChainOf, NoSetting, Last
<1>5. HistoryIsChain /\ MissingIsDefault
  <2> SUFFICES ASSUME NEW k \in AllKeys
               PROVE  ChainOf(settingHistory[k], settingRow[k]) /\ (settingRow[k].version = 0 => settingRow[k] = NoSetting)
    BY DEF HistoryIsChain, ChainOf, MissingIsDefault
  <2> QED
    BY <1>1, <1>4
<1>6. \A q \in Updates : UpdateKnows(update[q])
  BY <1>1 DEF UpdateKnows, NoUpdate
<1>7. HeldByOne
  BY <1>1 DEF HeldByOne, NoUpdate
<1> QED
  BY <1>3, <1>5, <1>6, <1>7 DEF SettingsInv

(* A request does something else and no row changes.                       *)
LEMMA UpdateMoves ==
  ASSUME SettingsInv, NEW q \in Updates, NEW u \in UpdateCall,
         update' = [update EXCEPT ![q] = u], UNCHANGED <<settingRow, settingHistory>>,
         updatesMade' \in 0..MaxUpdatesMade,
         UpdateKnows(u),
         \A p \in Updates \ {q} : u.held \cap update[p].held = {}
  PROVE  SettingsInv'
<1>1. update \in [Updates -> UpdateCall]
  BY DEF SettingsInv, SettingsTypeOK
<1>2. SettingsTypeOK'
  BY <1>1 DEF SettingsInv, SettingsTypeOK
<1>3. HistoryIsChain' /\ MissingIsDefault'
  BY DEF SettingsInv, HistoryIsChain, MissingIsDefault
<1>4. (\A p \in Updates : UpdateKnows(update[p]))'
  BY <1>1 DEF SettingsInv, UpdateKnows
<1>5. HeldByOne'
  BY <1>1 DEF SettingsInv, HeldByOne
<1> QED
  BY <1>2, <1>3, <1>4, <1>5 DEF SettingsInv

(* A request before its commit, and one that is rolled back.               *)
LEMMA UpdateKeepsInv ==
  ASSUME SettingsInv, NEW q \in Updates,
         BeginUpdate(q) \/ LockSettings(q) \/ SaveSetting(q) \/ VersionConflict(q) \/ DeadlockAborts(q)
  PROVE  SettingsInv'
<1> USE SettingsBounds
<1>1. /\ update \in [Updates -> UpdateCall] /\ update[q] \in UpdateCall /\ UpdateKnows(update[q])
      /\ settingRow \in [AllKeys -> SettingRow] /\ updatesMade \in 0..MaxUpdatesMade
      /\ SettingKeys \subseteq AllKeys
  BY DEF SettingsInv, SettingsTypeOK, AllKeys
<1>2. NoUpdate \in UpdateCall /\ UpdateKnows(NoUpdate) /\ NoUpdate.held = {}
  BY DEF NoUpdate, UpdateCall, SettingRow, NoSetting, Value, Valid, UpdateKnows
<1>3. CASE BeginUpdate(q)
  <2>0. PICK todo \in UNION {[1..n -> SettingKeys] : n \in 1..Cardinality(SettingKeys)},
             value \in [SettingKeys -> Value] :
          \E expects \in [SettingKeys -> {-1} \cup {settingRow[k].version : k \in SettingKeys}] :
            /\ \A k \in SettingKeys \ ToSet(todo) : value[k] = "default" /\ expects[k] = -1
            /\ Accepted(todo, value)
            /\ update' = [update EXCEPT ![q] = [NoUpdate EXCEPT !.pc = "locking", !.todo = todo,
                                                  !.value = value, !.expects = expects]]
    BY <1>3, Zenon DEF BeginUpdate
  <2>1. PICK expects \in [SettingKeys -> {-1} \cup {settingRow[k].version : k \in SettingKeys}] :
          update' = [update EXCEPT ![q] = [NoUpdate EXCEPT !.pc = "locking", !.todo = todo,
                                             !.value = value, !.expects = expects]]
    BY <2>0
  <2> DEFINE u == [NoUpdate EXCEPT !.pc = "locking", !.todo = todo, !.value = value, !.expects = expects]
  <2>2. todo \in Seq(SettingKeys)
    BY FS_CardinalityType
  <2>3. expects \in [SettingKeys -> Nat \cup {-1}]
    BY <1>1 DEF SettingRow
  <2>4. u \in UpdateCall /\ u.pc = "locking" /\ u.held = {} /\ u.saved = {} /\ u.seen = NoUpdate.seen
    BY <1>2, <2>2, <2>3 DEF UpdateCall, NoUpdate
  <2>5. UNCHANGED <<settingRow, settingHistory>> /\ updatesMade' \in 0..MaxUpdatesMade
    <3>1. /\ UNCHANGED <<settingRow, settingHistory>>
          /\ updatesMade < MaxUpdatesMade /\ updatesMade' = updatesMade + 1
      BY <1>3, Zenon DEF BeginUpdate
    <3> QED
      BY <1>1, <3>1
  <2> HIDE DEF u
  <2>6. UpdateKnows(u)
    BY <1>2, <2>4 DEF UpdateKnows
  <2> QED
    BY <2>1, <2>4, <2>5, <2>6, UpdateMoves DEF u
<1>4. CASE LockSettings(q)
  <2> DEFINE exist == {k \in ToSet(update[q].todo) : settingRow[k].version > 0}
             seen == [k \in SettingKeys |-> IF k \in exist THEN settingRow[k] ELSE NoSetting]
             u == [update[q] EXCEPT !.pc = "saving", !.held = exist, !.seen = seen]
  <2>1. update' = [update EXCEPT ![q] = u]
    BY <1>1, <1>4 DEF LockSettings
  <2>2. exist \subseteq SettingKeys /\ seen \in [SettingKeys -> SettingRow]
    <3>1. ToSet(update[q].todo) \subseteq SettingKeys
      BY <1>1 DEF ToSet, UpdateCall
    <3> QED
      BY <1>1, <3>1 DEF NoSetting, SettingRow, Value, Valid
  <2>3. \A p \in Updates \ {q} : exist \cap update[p].held = {}
    BY <1>4 DEF LockSettings, Holder
  <2>4. UNCHANGED <<settingRow, settingHistory, updatesMade>> /\ update[q].pc = "locking"
    BY <1>4 DEF LockSettings
  <2>5. \A k \in SettingKeys : seen[k] = IF k \in exist THEN settingRow[k] ELSE NoSetting
    OBVIOUS
  <2> HIDE DEF exist, seen
  <2>6. u \in UpdateCall /\ u.pc = "saving" /\ u.held = exist /\ u.seen = seen /\ u.saved = update[q].saved
    BY <1>1, <2>2 DEF UpdateCall
  <2>7. UpdateKnows(u)
    BY <1>1, <2>4, <2>5, <2>6 DEF UpdateKnows
  <2> HIDE DEF u
  <2> QED
    BY <1>1, <2>1, <2>3, <2>4, <2>6, <2>7, UpdateMoves
<1>5. CASE SaveSetting(q)
  <2> DEFINE k == Head(update[q].todo)
             t == Tail(update[q].todo)
  <2>1. k \in SettingKeys /\ t \in Seq(SettingKeys)
    BY <1>1, <1>5, HeadTailProperties DEF SaveSetting, UpdateCall
  <2>2. UNCHANGED <<settingRow, settingHistory, updatesMade>> /\ update[q].pc = "saving"
    BY <1>5 DEF SaveSetting
  <2>3. CASE update' = [update EXCEPT ![q].todo = Tail(@)]
    <3> DEFINE u == [update[q] EXCEPT !.todo = t]
    <3>1. update' = [update EXCEPT ![q] = u]
      BY <1>1, <2>3
    <3> HIDE DEF t
    <3>2. u \in UpdateCall /\ u.held = update[q].held /\ u.saved = update[q].saved /\ u.seen = update[q].seen
          /\ u.pc = "saving"
      BY <1>1, <2>1, <2>2 DEF UpdateCall
    <3>3. UpdateKnows(u)
      BY <1>1, <3>2 DEF UpdateKnows
    <3>4. \A p \in Updates \ {q} : u.held \cap update[p].held = {}
      BY <3>2 DEF SettingsInv, HeldByOne
    <3> HIDE DEF u
    <3> QED
      BY <1>1, <2>2, <3>1, <3>2, <3>3, <3>4, UpdateMoves
  <2>4. CASE /\ Holder(k) \subseteq {q} /\ Saves(update[q], k)
             /\ update' = [update EXCEPT ![q].todo = Tail(@), ![q].held = @ \cup {k}, ![q].saved = @ \cup {k}]
    <3> DEFINE u == [update[q] EXCEPT !.todo = t, !.held = @ \cup {k}, !.saved = @ \cup {k}]
    <3>1. update' = [update EXCEPT ![q] = u]
      BY <1>1, <2>4
    <3>2. update[q].seen[k] = settingRow[k]
      BY <1>1, <2>1, <2>4 DEF Saves, UpdateKnows, SettingsInv, MissingIsDefault, NoSetting
    <3>3. \A p \in Updates \ {q} : k \notin update[p].held
      BY <2>4 DEF Holder
    <3> HIDE DEF t, k
    <3>4. /\ u \in UpdateCall /\ u.held = update[q].held \cup {k} /\ u.saved = update[q].saved \cup {k}
          /\ u.seen = update[q].seen /\ u.pc = "saving"
      BY <1>1, <2>1, <2>2 DEF UpdateCall
    <3>5. UpdateKnows(u)
      BY <1>1, <3>2, <3>4 DEF UpdateKnows
    <3>6. \A p \in Updates \ {q} : u.held \cap update[p].held = {}
      BY <3>3, <3>4 DEF SettingsInv, HeldByOne
    <3> HIDE DEF u
    <3> QED
      BY <1>1, <2>2, <3>1, <3>4, <3>5, <3>6, UpdateMoves
  <2> QED
    BY <1>5, <2>3, <2>4 DEF SaveSetting
<1>6. CASE VersionConflict(q) \/ DeadlockAborts(q)
  <2>1. update' = [update EXCEPT ![q] = NoUpdate] /\ UNCHANGED <<settingRow, settingHistory, updatesMade>>
    BY <1>6 DEF VersionConflict, DeadlockAborts, RollBack
  <2> QED
    BY <1>1, <1>2, <2>1, UpdateMoves
<1> QED
  BY <1>3, <1>4, <1>5, <1>6

(* A commit writes keys that are its own, each from the value it saw.      *)
LEMMA CommitUpdateKeepsInv ==
  ASSUME SettingsInv, NEW q \in Updates, CommitUpdate(q)
  PROVE  SettingsInv'
<1> USE SettingsBounds
<1> DEFINE u == update[q]
           row(k) == [value |-> u.value[k], version |-> u.seen[k].version + 1]
           change(k) == [previous |-> Resolved(u.seen[k]), new |-> u.value[k], version |-> u.seen[k].version + 1]
<1>1. /\ update \in [Updates -> UpdateCall] /\ u \in UpdateCall /\ UpdateKnows(u)
      /\ settingRow \in [AllKeys -> SettingRow] /\ settingHistory \in [AllKeys -> Seq(HistoryRow)]
      /\ updatesMade \in 0..MaxUpdatesMade
  BY DEF SettingsInv, SettingsTypeOK
<1>2. /\ settingRow' = [k \in AllKeys |-> IF k \in u.saved THEN row(k) ELSE settingRow[k]]
      /\ settingHistory' = [k \in AllKeys |-> IF k \in u.saved THEN Append(settingHistory[k], change(k))
                                              ELSE settingHistory[k]]
      /\ update' = [update EXCEPT ![q] = NoUpdate] /\ UNCHANGED updatesMade
  BY <1>1 DEF CommitUpdate
<1>3. NoUpdate \in UpdateCall /\ UpdateKnows(NoUpdate)' /\ NoUpdate.held = {}
  BY DEF NoUpdate, UpdateCall, SettingRow, NoSetting, Value, Valid, UpdateKnows
<1>4. \A k \in AllKeys : /\ settingRow'[k] \in SettingRow /\ settingHistory'[k] \in Seq(HistoryRow)
                         /\ ChainOf(settingHistory'[k], settingRow'[k])
                         /\ settingRow'[k].version = 0 => settingRow'[k] = NoSetting
  <2> SUFFICES ASSUME NEW k \in AllKeys
               PROVE  /\ settingRow'[k] \in SettingRow /\ settingHistory'[k] \in Seq(HistoryRow)
                      /\ ChainOf(settingHistory'[k], settingRow'[k])
                      /\ settingRow'[k].version = 0 => settingRow'[k] = NoSetting
    OBVIOUS
  <2>1. ChainOf(settingHistory[k], settingRow[k])
    BY DEF SettingsInv, HistoryIsChain, ChainOf
  <2>2. CASE k \in u.saved
    <3>1. k \in SettingKeys /\ u.seen[k] = settingRow[k] /\ u.value[k] \in Value
      BY <1>1, <2>2 DEF UpdateKnows, UpdateCall
    <3>2. settingRow[k].version \in Nat /\ settingRow[k] \in SettingRow
      BY <1>1 DEF SettingRow
    <3>3. row(k) \in SettingRow /\ change(k) \in HistoryRow
      BY <3>1, <3>2 DEF SettingRow, HistoryRow, Resolved, Value, Valid
    <3>4. row(k).version = change(k).version /\ row(k).value = change(k).new /\ row(k).version # 0
          /\ change(k).version = settingRow[k].version + 1 /\ change(k).previous = Resolved(settingRow[k])
      BY <3>1, <3>2
    <3>5. settingRow'[k] = row(k) /\ settingHistory'[k] = Append(settingHistory[k], change(k))
      BY <1>2, <2>2
    <3> HIDE DEF row, change
    <3>6. ChainOf(Append(settingHistory[k], change(k)), row(k)) /\ Append(settingHistory[k], change(k)) \in Seq(HistoryRow)
      BY <1>1, <2>1, <3>2, <3>3, <3>4, ChainGrows
    <3> QED
      BY <3>3, <3>4, <3>5, <3>6
  <2>3. CASE k \notin u.saved
    BY <1>1, <1>2, <2>1, <2>3 DEF SettingsInv, MissingIsDefault
  <2> QED
    BY <2>2, <2>3
<1>5. SettingsTypeOK'
  BY <1>1, <1>2, <1>3, <1>4 DEF SettingsTypeOK
<1>6. HistoryIsChain' /\ MissingIsDefault'
  BY <1>4 DEF HistoryIsChain, ChainOf, MissingIsDefault
<1>7. ASSUME NEW p \in Updates PROVE UpdateKnows(update[p])'
  <2>1. CASE p = q
    BY <1>1, <1>2, <1>3, <2>1
  <2>2. CASE p # q
    <3>1. update'[p] = update[p] /\ UpdateKnows(update[p]) /\ update[p].held \cap u.saved = {}
      BY <1>1, <1>2, <2>2 DEF SettingsInv, HeldByOne, UpdateKnows
    <3>2. \A k \in update[p].held : k \in AllKeys /\ settingRow'[k] = settingRow[k]
      <4>1. update[p].held \subseteq SettingKeys
        BY <1>1 DEF UpdateCall
      <4> QED
        BY <1>2, <3>1, <4>1 DEF AllKeys
    <3> QED
      BY <3>1, <3>2 DEF UpdateKnows
  <2> QED
    BY <2>1, <2>2
<1>8. HeldByOne'
  BY <1>1, <1>2, <1>3 DEF SettingsInv, HeldByOne
<1> QED
  BY <1>5, <1>6, <1>7, <1>8 DEF SettingsInv

(* The seed inserts a missing key that nobody has inserted.                *)
LEMMA SeedKeepsInv ==
  ASSUME SettingsInv, NEW k \in AllKeys, SeedDefault(k)
  PROVE  SettingsInv'
<1> USE SettingsBounds
<1> DEFINE first == [previous |-> "null", new |-> "default", version |-> 1]
           stored == [value |-> "default", version |-> 1]
<1>1. /\ update \in [Updates -> UpdateCall]
      /\ settingRow \in [AllKeys -> SettingRow] /\ settingHistory \in [AllKeys -> Seq(HistoryRow)]
  BY DEF SettingsInv, SettingsTypeOK
<1>2. settingRow[k] = NoSetting /\ \A q \in Updates : k \notin update[q].held
  BY DEF SeedDefault, Holder, SettingsInv, MissingIsDefault
<1>3. /\ settingRow' = [settingRow EXCEPT ![k] = stored]
      /\ settingHistory' = [settingHistory EXCEPT ![k] = Append(settingHistory[k], first)]
      /\ UNCHANGED <<update, updatesMade>>
  <2>1. [settingRow[k] EXCEPT !.version = 1] = stored
    BY <1>2 DEF NoSetting
  <2>2. settingRow' = [settingRow EXCEPT ![k] = [settingRow[k] EXCEPT !.version = 1]]
    BY <1>1 DEF SeedDefault
  <2> QED
    BY <1>1, <2>1, <2>2 DEF SeedDefault
<1>4. stored \in SettingRow /\ first \in HistoryRow /\ NoSetting \in SettingRow /\ NoSetting.version = 0
  BY DEF SettingRow, HistoryRow, Value, Valid, NoSetting
<1>5. ChainOf(settingHistory[k], NoSetting) /\ settingHistory[k] = <<>>
  BY <1>1, <1>2 DEF SettingsInv, HistoryIsChain, ChainOf, NoSetting
<1>6. stored.version = 1 /\ first.version = 1 /\ stored.value = first.new /\ first.version = NoSetting.version + 1
  BY DEF NoSetting
<1> HIDE DEF stored, first
<1>7. ChainOf(Append(settingHistory[k], first), stored) /\ Append(settingHistory[k], first) \in Seq(HistoryRow)
  <2> DEFINE h == settingHistory[k]
  <2>1. h \in Seq(HistoryRow) /\ ChainOf(h, NoSetting) /\ h = <<>>
    BY <1>1, <1>5
  <2> HIDE DEF h
  <2>2. ChainOf(Append(h, first), stored) /\ Append(h, first) \in Seq(HistoryRow)
    BY <1>4, <1>6, <2>1, ChainGrows
  <2> QED
    BY <2>2 DEF h
<1>8. SettingsTypeOK'
  BY <1>1, <1>3, <1>4, <1>7 DEF SettingsInv, SettingsTypeOK
<1>9. HistoryIsChain' /\ MissingIsDefault'
  <2> SUFFICES ASSUME NEW j \in AllKeys
               PROVE  /\ ChainOf(settingHistory'[j], settingRow'[j])
                      /\ settingRow'[j].version = 0 => settingRow'[j] = NoSetting
    BY DEF HistoryIsChain, ChainOf, MissingIsDefault
  <2>1. CASE j = k
    BY <1>1, <1>3, <1>6, <1>7, <2>1
  <2>2. CASE j # k
    <3>1. settingRow'[j] = settingRow[j] /\ settingHistory'[j] = settingHistory[j]
      BY <1>1, <1>3, <2>2
    <3> QED
      BY <3>1 DEF SettingsInv, HistoryIsChain, ChainOf, MissingIsDefault
  <2> QED
    BY <2>1, <2>2
<1>10. (\A q \in Updates : UpdateKnows(update[q]))'
  <2> SUFFICES ASSUME NEW q \in Updates PROVE UpdateKnows(update[q])'
    OBVIOUS
  <2>1. UpdateKnows(update[q]) /\ update[q].held \subseteq AllKeys
    BY <1>1 DEF SettingsInv, UpdateCall, AllKeys
  <2> QED
    BY <1>1, <1>2, <1>3, <2>1 DEF UpdateKnows
<1>11. HeldByOne'
  BY <1>3 DEF SettingsInv, HeldByOne
<1> QED
  BY <1>8, <1>9, <1>10, <1>11 DEF SettingsInv

(* Every step of the component keeps the invariant.                        *)
LEMMA SettingsNextInv == SettingsInv /\ [SettingsNext]_settingsVars => SettingsInv'
<1> SUFFICES ASSUME SettingsInv, [SettingsNext]_settingsVars PROVE SettingsInv'
  OBVIOUS
<1>1. CASE UNCHANGED settingsVars
  BY <1>1 DEF settingsVars, SettingsInv, SettingsTypeOK, HistoryIsChain, MissingIsDefault, UpdateKnows, HeldByOne
<1> QED
  BY <1>1, UpdateKeepsInv, CommitUpdateKeepsInv, SeedKeepsInv DEF SettingsNext

(* The history of a setting is the chain of its values, one row per        *)
(* version, however updates and the seed overlap (Service.Update, apply,   *)
(* SettingsRepository.Save, SeedDefaults).                                 *)
THEOREM SettingsAreChained == SettingsSpec => []SettingsInvariant
<1>1. SettingsInv => SettingsInvariant
  BY DEF SettingsInv, SettingsInvariant
<1> QED
  BY <1>1, SettingsInitInv, SettingsNextInv, PTL DEF SettingsSpec

-----------------------------------------------------------------------------
(* A newsletter subscriber.  The invariant says what an open transaction   *)
(* may rely on: who wrote the row holds its lock, so the row it replaces   *)
(* has not changed since and was not erased; who revoked the tokens after  *)
(* that holds all that are stored; a confirmation holds its token; and all *)
(* it read had its opt-in recorded.                                        *)

Wrote(d) == d.pc = "saved" \/ (d.pc = "revoked" /\ ~RevokesFirst(d.op))

Audited(s, log) == (s.status = "active" => "opted_in" \in log) /\ ActiveLists(s) \subseteq log

Confirms(d) ==
  /\ d.pc \in {"lookedUp", "begun"} => d.op = "confirm"
  /\ d.pc = "lookedUp" => d.holds = {}
  /\ d.op = "confirm" => d.tok \in Tokens
  /\ d.op = "confirm" /\ d.pc # "lookedUp" => d.holds = {d.tok} /\ token[d.tok] \in {"fresh", "expired"}

WritesRow(t, d) ==
  /\ rowLock = t
  /\ IF d.op = "erase" THEN d.next = Erased(sub)
     ELSE sub.status # "erased" /\ d.next.status # "erased"
  /\ Audited(d.next, audit \cup d.events)

TxKnows(t, d) ==
  /\ Confirms(d)
  /\ d.send => d.op \in {"subscribe", "resend", "account"}
  /\ d.snap.status # "erased" /\ Audited(d.snap, audit)
  /\ Wrote(d) => WritesRow(t, d)
  /\ d.pc = "revoked" /\ ~RevokesFirst(d.op) => Stored \subseteq d.holds

TxsKnow == \A t \in Txs : Open(t) => TxKnows(t, tx[t])

LockIsOfWriter == rowLock # "nobody" => Open(rowLock) /\ Wrote(tx[rowLock])

HoldsApart == \A t, u \in Txs : t # u /\ Open(t) /\ Open(u) => tx[t].holds \cap tx[u].holds = {}

SubscriberInv ==
  /\ TypeOK
  /\ ErasedLeavesNothing
  /\ OneConfirmLink
  /\ OptInIsAudited
  /\ TxsKnow
  /\ LockIsOfWriter
  /\ HoldsApart

(* An open transaction has all its fields, an idle one none.               *)
LEMMA OpenIsTyped ==
  /\ \A d \in OpenTx : d # NoTx
  /\ TypeOK => \A t \in Txs : Open(t) => tx[t] \in OpenTx
BY DEF OpenTx, NoTx, TypeOK, Open

(* What an operation makes of a row is a row, and only erasing erases.     *)
LEMMA OutcomeIsRow ==
  ASSUME NEW s \in Row, NEW op \in Op, NEW ls \in SUBSET Lists, window \in 1..MaxWindow
  PROVE  /\ Outcome(op, s, ls) \in Row
         /\ s.status # "erased" /\ op # "erase" => Outcome(op, s, ls).status # "erased"
<1> USE SubscriberAssumption
<1>1. /\ s.status \in Status /\ s.m \in [Lists -> MembershipState] /\ s.sends \in Nat /\ s.win \in 0..MaxWindow
      /\ window \in 0..MaxWindow
  BY DEF Row
<1>2. Loaded(s) \in Row /\ (s.status # "erased" => Loaded(s).status # "erased")
  BY <1>1 DEF Loaded, NewSubscriber, NoRow, Row, Status, MembershipState
<1>3. CASE op \in {"subscribe", "resend", "account"}
  <2> DEFINE l == Loaded(s)
             p == MarkPending(l, ls)
             c == CountConfirm(p)
  <2>0. Outcome(op, s, ls) = IF PendingLists(p) # {} THEN c ELSE p
    BY <1>3 DEF Outcome, RequestConfirmation
  <2>1. l \in Row /\ (s.status # "erased" => l.status # "erased")
    BY <1>2
  <2> HIDE DEF l
  <2>2. p \in Row /\ p.status = l.status
    BY <2>1 DEF MarkPending, SetMembership, Row, MembershipState
  <2> HIDE DEF p
  <2>3. c \in Row /\ c.status = p.status
    <3>1. CASE p.win # window
      BY <1>1, <2>2, <3>1 DEF CountConfirm, Row
    <3>2. CASE p.win = window /\ p.sends < ConfirmPerWindow
      <4>1. c = [p EXCEPT !.sends = p.sends + 1] /\ p.sends + 1 \in Nat
        BY <2>2, <3>2 DEF CountConfirm, Row
      <4> QED
        BY <2>2, <4>1 DEF Row
    <3>3. CASE p.win = window /\ ~(p.sends < ConfirmPerWindow)
      BY <2>2, <3>3 DEF CountConfirm
    <3> QED
      BY <3>1, <3>2, <3>3
  <2> HIDE DEF c
  <2> QED
    BY <1>3, <2>0, <2>1, <2>2, <2>3
<1>4. CASE op = "join"
  <2> DEFINE l == Loaded(s)
  <2>1. l \in Row
    BY <1>2
  <2> HIDE DEF l
  <2>2. JoinNow(l, ls) \in Row /\ JoinNow(l, ls).status = "active"
    BY <2>1 DEF JoinNow, SetMembership, Row, MembershipState, Status
  <2>3. Outcome(op, s, ls) = JoinNow(l, ls)
    BY <1>4 DEF Outcome, l
  <2> QED
    BY <2>2, <2>3
<1>5. CASE op = "confirm"
  <2>1. ConfirmRow(s) \in Row /\ ConfirmRow(s).status = "active"
    BY <1>1 DEF ConfirmRow, SetMembership, Row, MembershipState, Status
  <2> QED
    BY <1>5, <2>1 DEF Outcome
<1>6. CASE op = "unsubscribe"
  <2>1. UnsubscribeAll(s) \in Row /\ UnsubscribeAll(s).status \in {s.status, "unsubscribed"}
    BY <1>1 DEF UnsubscribeAll, Row, MembershipState, Status
  <2> QED
    BY <1>6, <2>1 DEF Outcome
<1>7. CASE op \in {"choose", "leave"}
  <2>1. ApplyChoices(s, ls) \in Row /\ ApplyChoices(s, ls).status \in {s.status, "active", "unsubscribed"}
    BY <1>1 DEF ApplyChoices, Row, MembershipState, Status
  <2> QED
    BY <1>7, <2>1 DEF Outcome
<1>8. CASE op = "format"
  BY <1>8 DEF Outcome
<1>9. CASE op \in {"bounced", "complained"}
  <2>1. Feedback(s, op) \in Row /\ Feedback(s, op).status = op
    BY <1>1, <1>9 DEF Feedback, Row, Status
  <2> QED
    BY <1>9, <2>1 DEF Outcome
<1>10. CASE op = "erase"
  <2>1. Erased(s) \in Row
    BY <1>1 DEF Erased, Row, MembershipState, Status
  <2> QED
    BY <1>10, <2>1 DEF Outcome
<1> QED
  BY <1>3, <1>4, <1>5, <1>6, <1>7, <1>8, <1>9, <1>10 DEF Op

(* The row a save writes: the memberships it does not know stay, an        *)
(* erasure works on what is stored, and every opt-in it brings is recorded *)
(* or about to be.                                                         *)
LEMMA WrittenRow ==
  ASSUME NEW d \in OpenTx, NEW w \in Row, sub \in Row, Audited(d.snap, audit), Audited(sub, audit)
  PROVE  /\ Written(d, w) \in Row
         /\ Written(d, w).status = IF d.op = "erase" THEN "erased" ELSE w.status
         /\ Audited(Written(d, w), audit \cup OptInEvents(d.snap, w))
<1>1. /\ sub.m \in [Lists -> MembershipState] /\ w.m \in [Lists -> MembershipState]
      /\ d.snap \in Row /\ d.snap.m \in [Lists -> MembershipState]
  BY DEF OpenTx, Row
<1>2. CASE d.op = "erase"
  <2> DEFINE e == Erased(sub)
  <2>1. e \in Row /\ e.status = "erased" /\ \A l \in Lists : e.m[l] \in {"none", "left"}
    BY <1>1 DEF Erased, Row, Status, MembershipState
  <2> HIDE DEF e
  <2>2. Audited(e, audit \cup OptInEvents(d.snap, w))
    BY <2>1 DEF Audited, ActiveLists
  <2> QED
    BY <1>2, <2>1, <2>2 DEF Written, e
<1>3. CASE d.op # "erase"
  <2> DEFINE m == IF w.m = d.snap.m THEN sub.m ELSE [l \in Lists |-> IF w.m[l] = "none" THEN sub.m[l] ELSE w.m[l]]
             r == [w EXCEPT !.m = m]
  <2>1. Written(d, w) = r
    BY <1>3 DEF Written
  <2>2. m \in [Lists -> MembershipState] /\ \A l \in Lists : m[l] = "active" => sub.m[l] = "active" \/ w.m[l] = "active"
    BY <1>1 DEF MembershipState
  <2> HIDE DEF m
  <2>3. r \in Row /\ r.status = w.status /\ r.m = m
    BY <2>2 DEF Row
  <2> HIDE DEF r
  <2>4. ActiveLists(r) \subseteq ActiveLists(sub) \cup ActiveLists(w)
    BY <2>2, <2>3 DEF ActiveLists
  <2>5. ActiveLists(w) \subseteq ActiveLists(d.snap) \cup OptInEvents(d.snap, w)
    BY DEF OptInEvents
  <2>6. w.status = "active" => d.snap.status = "active" \/ "opted_in" \in OptInEvents(d.snap, w)
    BY DEF OptInEvents
  <2>7. Audited(r, audit \cup OptInEvents(d.snap, w))
    BY <2>3, <2>4, <2>5, <2>6 DEF Audited
  <2> QED
    BY <1>3, <2>1, <2>3, <2>7
<1> QED
  BY <1>2, <1>3
(* No address is known.                                                    *)
LEMMA SubscriberInitInv == Init => SubscriberInv
<1> SUFFICES ASSUME Init PROVE SubscriberInv
  OBVIOUS
<1> USE SubscriberAssumption
<1>1. TypeOK
  BY DEF Init, TypeOK, NoRow, Row, Status, MembershipState
<1>2. ErasedLeavesNothing /\ OneConfirmLink /\ OptInIsAudited
  BY DEF Init, ErasedLeavesNothing, OneConfirmLink, OptInIsAudited, NoRow, ActiveLists
<1>3. TxsKnow /\ LockIsOfWriter /\ HoldsApart
  BY DEF Init, TxsKnow, LockIsOfWriter, HoldsApart, Open
<1> QED
  BY <1>1, <1>2, <1>3 DEF SubscriberInv

(* A transaction goes on, or ends without a commit; what is stored stays.  *)
LEMMA TxMoves ==
  ASSUME SubscriberInv, NEW t \in Txs, NEW d \in OpenTx \cup {NoTx},
         tx' = [tx EXCEPT ![t] = d],
         UNCHANGED <<sub, token, window, audit>>, ops' \in 0..MaxOps,
         \/ rowLock' = rowLock
         \/ rowLock = "nobody" /\ rowLock' = t
         \/ rowLock = t /\ rowLock' = "nobody",
         d # NoTx => TxKnows(t, d)' /\ d.holds \cap LockedByOthers(t) = {},
         rowLock' = t => d # NoTx /\ Wrote(d)
  PROVE  SubscriberInv'
<1> USE SubscriberAssumption
<1>1. /\ tx \in [Txs -> OpenTx \cup {NoTx}] /\ tx'[t] = d /\ \A u \in Txs \ {t} : tx'[u] = tx[u]
      /\ tx' \in [Txs -> OpenTx \cup {NoTx}]
  BY DEF SubscriberInv, TypeOK
<1>2. TypeOK'
  BY <1>1 DEF SubscriberInv, TypeOK
<1>3. ErasedLeavesNothing' /\ OneConfirmLink' /\ OptInIsAudited'
  BY DEF SubscriberInv, ErasedLeavesNothing, OneConfirmLink, OptInIsAudited, Stored, ActiveLists
<1>4. TxsKnow'
  <2> SUFFICES ASSUME NEW u \in Txs, Open(u)' PROVE TxKnows(u, tx[u])'
    BY DEF TxsKnow
  <2>1. CASE u = t
    BY <1>1, <2>1 DEF Open
  <2>2. CASE u # t
    <3>1. TxKnows(u, tx[u]) /\ tx'[u] = tx[u]
      BY <1>1, <2>2 DEF SubscriberInv, TxsKnow, Open
    <3>2. Wrote(tx[u]) => rowLock' = rowLock
      BY <2>2, <3>1 DEF TxKnows, WritesRow
    <3> QED
      BY <3>1, <3>2 DEF TxKnows, WritesRow, Confirms, Wrote, RevokesFirst, Stored, Audited, ActiveLists, Erased
  <2> QED
    BY <2>1, <2>2
<1>5. LockIsOfWriter'
  <2> SUFFICES ASSUME rowLock' # "nobody" PROVE Open(rowLock)' /\ Wrote(tx[rowLock])'
    BY DEF LockIsOfWriter
  <2>1. CASE rowLock' = t
    BY <1>1, <2>1 DEF Open, Wrote, RevokesFirst
  <2>2. CASE rowLock' # t
    <3>1. rowLock' = rowLock /\ rowLock \in Txs \ {t}
      BY <2>2 DEF SubscriberInv, TypeOK
    <3> QED
      BY <1>1, <3>1 DEF SubscriberInv, LockIsOfWriter, Open, Wrote, RevokesFirst
  <2> QED
    BY <2>1, <2>2
<1>6. HoldsApart'
  <2>1. ASSUME NEW u \in Txs \ {t}, d # NoTx, Open(u) PROVE d.holds \cap tx[u].holds = {}
    BY <2>1 DEF LockedByOthers
  <2> QED
    BY <1>1, <2>1 DEF SubscriberInv, HoldsApart, Open
<1> QED
  BY <1>2, <1>3, <1>4, <1>5, <1>6 DEF SubscriberInv

(* A request begins, on the row as it is.                                  *)
LEMMA BeginKeepsInv ==
  ASSUME SubscriberInv, NEW t \in Txs,
         \/ \E op \in Op, ls \in SUBSET Lists : Begin(t, op, ls)
         \/ \E k \in Tokens : LookupToken(t, k)
  PROVE  SubscriberInv'
<1> USE SubscriberAssumption
<1>1. /\ sub \in Row /\ ops \in 0..MaxOps /\ tx \in [Txs -> OpenTx \cup {NoTx}] /\ NoRow \in Row
      /\ Audited(sub, audit) /\ Audited(NoRow, audit) /\ NoRow.status # "erased"
  BY DEF SubscriberInv, TypeOK, OptInIsAudited, Audited, NoRow, Row, Status, MembershipState, ActiveLists
<1>2. rowLock # t /\ UNCHANGED <<sub, token, rowLock, window, audit>> /\ ops' \in 0..MaxOps
  BY <1>1 DEF Begin, LookupToken, SubscriberInv, LockIsOfWriter
<1>3. CASE \E op \in Op, ls \in SUBSET Lists : Begin(t, op, ls)
  <2>1. PICK op \in Op, ls \in SUBSET Lists : Begin(t, op, ls)
    BY <1>3
  <2>0. PICK d : d = [op |-> op, pc |-> "read", lists |-> ls, tok |-> 0, snap |-> sub,
                      next |-> NoRow, holds |-> {}, send |-> FALSE, events |-> {}]
    OBVIOUS
  <2>2. tx' = [tx EXCEPT ![t] = d] /\ op # "confirm" /\ sub.status # "erased"
    BY <2>0, <2>1 DEF Begin, Proceeds, UpdatePreferences, MyUnsubscribe, Suppressed, Op
  <2>3. d \in OpenTx
    BY <1>1, <2>0 DEF OpenTx
  <2>4. d.op = op /\ d.pc = "read" /\ d.snap = sub /\ ~d.send /\ d.holds = {}
    BY <2>0
  <2>5. TxKnows(t, d)'
    BY <1>1, <1>2, <2>2, <2>4 DEF TxKnows, Confirms, Wrote, Audited, ActiveLists
  <2> QED
    BY <1>2, <2>2, <2>3, <2>4, <2>5, TxMoves
<1>4. CASE \E k \in Tokens : LookupToken(t, k)
  <2>1. PICK k \in Tokens : LookupToken(t, k)
    BY <1>4
  <2>0. PICK d : d = [op |-> "confirm", pc |-> "lookedUp", lists |-> {}, tok |-> k, snap |-> NoRow,
                      next |-> NoRow, holds |-> {}, send |-> FALSE, events |-> {}]
    OBVIOUS
  <2>2. tx' = [tx EXCEPT ![t] = d]
    BY <2>0, <2>1 DEF LookupToken
  <2>3. d \in OpenTx
    BY <1>1, <2>0 DEF OpenTx, Op, Tokens
  <2>4. d.op = "confirm" /\ d.pc = "lookedUp" /\ d.snap = NoRow /\ ~d.send /\ d.holds = {} /\ d.tok = k
    BY <2>0
  <2>5. TxKnows(t, d)'
    BY <1>1, <1>2, <2>2, <2>4 DEF TxKnows, Confirms, Wrote, Audited, ActiveLists
  <2> QED
    BY <1>2, <2>2, <2>3, <2>4, <2>5, TxMoves
<1> QED
  BY <1>3, <1>4

(* A confirmation takes its token and reads the row, or a request ends     *)
(* without a commit.                                                       *)
LEMMA ConfirmKeepsInv ==
  ASSUME SubscriberInv, NEW t \in Txs, UseToken(t) \/ ReadForConfirm(t) \/ Abort(t)
  PROVE  SubscriberInv'
<1> USE SubscriberAssumption
<1>1. /\ sub \in Row /\ ops \in 0..MaxOps /\ tx \in [Txs -> OpenTx \cup {NoTx}]
      /\ Audited(sub, audit) /\ rowLock \in Txs \cup {"nobody"}
      /\ tx[t] \in OpenTx /\ tx[t] # NoTx /\ TxKnows(t, tx[t])
  BY OpenIsTyped DEF SubscriberInv, TypeOK, OptInIsAudited, Audited, TxsKnow, UseToken, ReadForConfirm, Abort, Open
<1>2. CASE UseToken(t)
  <2>0. PICK d : d = [tx[t] EXCEPT !.pc = "begun", !.holds = {tx[t].tok}]
    OBVIOUS
  <2>1. /\ tx' = [tx EXCEPT ![t] = d] /\ UNCHANGED <<sub, token, rowLock, window, audit, ops>>
        /\ tx[t].op = "confirm" /\ tx[t].tok \in Tokens /\ tx[t].pc = "lookedUp"
    BY <1>1, <1>2, <2>0 DEF UseToken, TxKnows, Confirms
  <2>2. /\ d \in OpenTx /\ d.op = tx[t].op /\ d.pc = "begun" /\ d.holds = {d.tok} /\ d.tok = tx[t].tok
        /\ d.snap = tx[t].snap /\ d.send = tx[t].send
    BY <1>1, <2>0, <2>1 DEF OpenTx
  <2>3. rowLock # t
    BY <2>1 DEF SubscriberInv, LockIsOfWriter, Wrote
  <2>4. TxKnows(t, d)'
    BY <1>1, <1>2, <2>1, <2>2 DEF UseToken, TxKnows, Confirms, Wrote, Audited, ActiveLists
  <2>5. d.holds \cap LockedByOthers(t) = {}
    BY <1>2, <2>2 DEF UseToken
  <2> QED
    BY <1>1, <2>1, <2>2, <2>3, <2>4, <2>5, TxMoves
<1>3. CASE ReadForConfirm(t)
  <2>0. PICK d : d = [tx[t] EXCEPT !.pc = "read", !.snap = sub]
    OBVIOUS
  <2>1. /\ tx' = [tx EXCEPT ![t] = d] /\ UNCHANGED <<sub, token, rowLock, window, audit, ops>>
        /\ tx[t].pc = "begun" /\ sub.status # "erased"
    BY <1>1, <1>3, <2>0 DEF ReadForConfirm
  <2>2. /\ d \in OpenTx /\ d.op = tx[t].op /\ d.pc = "read" /\ d.holds = tx[t].holds /\ d.tok = tx[t].tok
        /\ d.snap = sub /\ d.send = tx[t].send
    BY <1>1, <2>0, <2>1 DEF OpenTx
  <2>3. rowLock # t
    BY <2>1 DEF SubscriberInv, LockIsOfWriter, Wrote
  <2>4. TxKnows(t, d)'
    BY <1>1, <2>1, <2>2 DEF TxKnows, Confirms, Wrote, Audited, ActiveLists
  <2>5. d.holds \cap LockedByOthers(t) = {}
    BY <1>1, <2>2 DEF SubscriberInv, HoldsApart, LockedByOthers, Open
  <2> QED
    BY <1>1, <2>1, <2>2, <2>3, <2>4, <2>5, TxMoves
<1>4. CASE Abort(t)
  <2>1. /\ tx' = [tx EXCEPT ![t] = NoTx] /\ UNCHANGED <<sub, token, window, audit, ops>>
        /\ rowLock' = IF rowLock = t THEN "nobody" ELSE rowLock
    BY <1>4 DEF Abort
  <2>2. rowLock' # t
    BY <2>1
  <2> QED
    BY <1>1, <2>1, <2>2, TxMoves
<1> QED
  BY <1>2, <1>3, <1>4

(* A request writes the row, from what it read, under the row's lock.      *)
LEMMA SaveKeepsInv ==
  ASSUME SubscriberInv, NEW t \in Txs, Save(t)
  PROVE  SubscriberInv'
<1> USE SubscriberAssumption
<1> DEFINE w == Outcome(tx[t].op, tx[t].snap, tx[t].lists)
           n == Written(tx[t], w)
           e == OptInEvents(tx[t].snap, w)
           s == tx[t].op \in {"subscribe", "resend", "account"} /\ RequestSends(Loaded(tx[t].snap), tx[t].lists)
<1>0. PICK d : d = [tx[t] EXCEPT !.pc = "saved", !.next = n, !.send = s, !.events = e]
  OBVIOUS
<1>1. /\ sub \in Row /\ ops \in 0..MaxOps /\ tx \in [Txs -> OpenTx \cup {NoTx}] /\ window \in 1..MaxWindow
      /\ Audited(sub, audit) /\ tx[t] \in OpenTx /\ tx[t] # NoTx /\ TxKnows(t, tx[t])
  BY OpenIsTyped DEF SubscriberInv, TypeOK, OptInIsAudited, Audited, TxsKnow, Save, Open
<1>2. /\ tx' = [tx EXCEPT ![t] = d] /\ UNCHANGED <<sub, token, window, audit, ops>>
      /\ rowLock = "nobody" /\ rowLock' = t /\ Allowed(tx[t], w) /\ tx[t].pc \in {"read", "revoked"}
  BY <1>0, <1>1 DEF Save
<1>3. /\ w \in Row /\ (tx[t].op # "erase" => w.status # "erased")
  <2>1. tx[t].op \in Op /\ tx[t].lists \in SUBSET Lists /\ tx[t].snap \in Row /\ tx[t].snap.status # "erased"
    BY <1>1 DEF OpenTx, TxKnows
  <2> QED
    BY <1>1, <2>1, OutcomeIsRow
<1> HIDE DEF w
<1>4. /\ n \in Row /\ n.status = (IF tx[t].op = "erase" THEN "erased" ELSE w.status)
      /\ Audited(n, audit \cup e) /\ (tx[t].op = "erase" => n = Erased(sub))
  BY <1>1, <1>3, WrittenRow DEF TxKnows, Written
<1>5. e \subseteq {"opted_in"} \cup Lists /\ s \in BOOLEAN
  BY DEF OptInEvents, ActiveLists
<1>6. tx[t].op # "erase" => sub.status # "erased"
  BY <1>2, <1>3 DEF Allowed
<1>7. /\ d \in OpenTx /\ d.op = tx[t].op /\ d.pc = "saved" /\ d.holds = tx[t].holds /\ d.tok = tx[t].tok
      /\ d.snap = tx[t].snap /\ d.send = s /\ d.next = n /\ d.events = e
  BY <1>0, <1>1, <1>4, <1>5 DEF OpenTx
<1>8. d.send => d.op \in {"subscribe", "resend", "account"}
  BY <1>7
<1> HIDE DEF s
<1>9. TxKnows(t, d)'
  <2>1. Confirms(d)' /\ d.snap.status # "erased" /\ Audited(d.snap, audit)'
    BY <1>1, <1>2, <1>7 DEF TxKnows, Confirms, Audited, ActiveLists
  <2>2. WritesRow(t, d)'
    BY <1>2, <1>3, <1>4, <1>6, <1>7 DEF WritesRow, Audited, ActiveLists, Erased
  <2> QED
    BY <1>7, <1>8, <2>1, <2>2 DEF TxKnows
<1>10. d.holds \cap LockedByOthers(t) = {}
  BY <1>1, <1>7 DEF SubscriberInv, HoldsApart, LockedByOthers, Open
<1>11. /\ ops' \in 0..MaxOps /\ UNCHANGED <<sub, token, window, audit>> /\ d \in OpenTx \cup {NoTx} /\ Wrote(d)
       /\ (d # NoTx => TxKnows(t, d)' /\ d.holds \cap LockedByOthers(t) = {})
  BY <1>1, <1>2, <1>7, <1>9, <1>10 DEF Wrote
<1>12. d # NoTx
  BY <1>7, OpenIsTyped
<1> HIDE DEF n, e
<1> QED
  BY <1>2, <1>11, <1>12, TxMoves

(* The tokens are deleted, and held until the commit.                      *)
LEMMA RevokeKeepsInv ==
  ASSUME SubscriberInv, NEW t \in Txs, RevokeTokens(t)
  PROVE  SubscriberInv'
<1> USE SubscriberAssumption
<1>0. PICK d : d = [tx[t] EXCEPT !.pc = "revoked", !.holds = Stored]
  OBVIOUS
<1>1. /\ ops \in 0..MaxOps /\ tx \in [Txs -> OpenTx \cup {NoTx}]
      /\ tx[t] \in OpenTx /\ tx[t] # NoTx /\ TxKnows(t, tx[t])
  BY OpenIsTyped DEF SubscriberInv, TypeOK, TxsKnow, RevokeTokens, Open
<1>2. tx' = [tx EXCEPT ![t] = d] /\ UNCHANGED <<sub, token, rowLock, window, audit, ops>>
  BY <1>0, <1>1 DEF RevokeTokens
<1>3. /\ d \in OpenTx /\ d.op = tx[t].op /\ d.pc = "revoked" /\ d.holds = Stored /\ d.tok = tx[t].tok
      /\ d.snap = tx[t].snap /\ d.send = tx[t].send /\ d.next = tx[t].next /\ d.events = tx[t].events
  BY <1>0, <1>1 DEF OpenTx, Stored
<1>4. Wrote(d) <=> Wrote(tx[t])
  BY <1>3 DEF RevokeTokens, Wrote, RevokesAfter, RevokesFirst
<1>5. tx[t].op # "confirm"
  BY <1>1 DEF RevokeTokens, RevokesAfter, RevokesFirst, TxKnows
<1>6. rowLock = t => Wrote(tx[t])
  BY DEF SubscriberInv, LockIsOfWriter
<1>7. TxKnows(t, d)'
  <2>1. Confirms(d)' /\ Audited(d.snap, audit)' /\ Stored' = Stored
    BY <1>1, <1>2, <1>3, <1>5 DEF TxKnows, Confirms, Audited, ActiveLists, Stored
  <2>2. Wrote(d) => WritesRow(t, d)'
    BY <1>1, <1>2, <1>3, <1>4 DEF TxKnows, WritesRow, Audited, ActiveLists, Erased
  <2> QED
    BY <1>1, <1>3, <2>1, <2>2 DEF TxKnows, Wrote
<1>8. d.holds \cap LockedByOthers(t) = {}
  BY <1>3 DEF RevokeTokens
<1>9. d # NoTx /\ ops' \in 0..MaxOps /\ d \in OpenTx \cup {NoTx} /\ (rowLock' = t => Wrote(d))
  BY <1>1, <1>2, <1>3, <1>4, <1>6, OpenIsTyped
<1> QED
  BY <1>2, <1>7, <1>8, <1>9, TxMoves

(* A commit publishes what the transaction wrote under the row's lock: the *)
(* tokens it held are gone, the opt-ins it brings recorded.                *)
LEMMA CommitKeepsInv ==
  ASSUME SubscriberInv, NEW t \in Txs, Commit(t)
  PROVE  SubscriberInv'
<1> USE SubscriberAssumption
<1>1. /\ sub \in Row /\ tx \in [Txs -> OpenTx \cup {NoTx}] /\ Audited(sub, audit) /\ TypeOK
      /\ tx[t] \in OpenTx /\ TxKnows(t, tx[t]) /\ Wrote(tx[t]) /\ WritesRow(t, tx[t]) /\ CommitsAt(tx[t])
      /\ rowLock = t /\ Open(t)
  BY OpenIsTyped DEF SubscriberInv, TypeOK, OptInIsAudited, Audited, TxsKnow, Commit, LockIsOfWriter, TxKnows
<1>2. /\ tx[t].next \in Row /\ tx[t].events \subseteq {"opted_in"} \cup Lists /\ tx[t].holds \subseteq Tokens
      /\ tx[t].op \in Op /\ tx[t].send \in BOOLEAN
  BY <1>1 DEF OpenTx
<1>3. /\ sub' = tx[t].next /\ audit' = audit \cup tx[t].events /\ rowLock' = "nobody"
      /\ tx' = [tx EXCEPT ![t] = NoTx] /\ UNCHANGED <<window, ops>>
  BY DEF Commit
<1>4. /\ RevokesAfter(tx[t]) => Stored \subseteq tx[t].holds
      /\ tx[t].send => RevokesAfter(tx[t]) /\ tx[t].op # "confirm"
      /\ tx[t].op = "erase" => RevokesAfter(tx[t]) /\ ~tx[t].send
  BY <1>1, <1>2 DEF CommitsAt, TxKnows, RevokesAfter, RevokesFirst
<1>5. /\ token' \in [Tokens -> {"none", "fresh", "expired", "used", "gone"}]
      /\ \A k \in Tokens \ tx[t].holds : token'[k] = token[k] \/ (token[k] = "none" /\ token'[k] = "fresh" /\ tx[t].send)
      /\ \A k \in tx[t].holds : token'[k] \in {"used", "gone"} \/ (token[k] = "none" /\ token'[k] = "fresh" /\ tx[t].send)
      /\ \A k \in tx[t].holds : token'[k] = "used" => tx[t].op = "confirm"
      /\ \A j, k \in Tokens : token[j] = "none" /\ token'[j] = "fresh" /\ token[k] = "none" /\ token'[k] = "fresh" => j = k
  <2> DEFINE left == [k \in Tokens |-> IF k \notin tx[t].holds THEN token[k]
                                       ELSE IF tx[t].op = "confirm" THEN "used" ELSE "gone"]
  <2>1. /\ left \in [Tokens -> {"none", "fresh", "expired", "used", "gone"}]
        /\ \A k \in Tokens \ tx[t].holds : left[k] = token[k]
        /\ \A k \in tx[t].holds : left[k] \in {"used", "gone"} /\ (left[k] = "used" => tx[t].op = "confirm")
    BY <1>1, <1>2 DEF TypeOK
  <2>2. \/ token' = left
        \/ tx[t].send /\ \E k \in Tokens : token[k] = "none" /\ token' = [left EXCEPT ![k] = "fresh"]
    BY DEF Commit
  <2> HIDE DEF left
  <2>3. CASE token' = left
    BY <1>2, <2>1, <2>3
  <2>4. CASE tx[t].send /\ \E k \in Tokens : token[k] = "none" /\ token' = [left EXCEPT ![k] = "fresh"]
    BY <1>2, <2>1, <2>4
  <2> QED
    BY <2>2, <2>3, <2>4
<1>6. TypeOK'
  <2>1. audit' \subseteq {"opted_in"} \cup Lists /\ tx' \in [Txs -> OpenTx \cup {NoTx}]
    BY <1>1, <1>2, <1>3 DEF TypeOK
  <2> QED
    BY <1>1, <1>2, <1>3, <1>5, <2>1 DEF TypeOK
<1>7. OptInIsAudited'
  BY <1>1, <1>3 DEF WritesRow, Audited, OptInIsAudited, ActiveLists
<1>8. ErasedLeavesNothing'
  <2> SUFFICES ASSUME tx[t].next.status = "erased" PROVE Stored' = {} /\ \A l \in Lists : sub'.m[l] \in {"none", "left"}
    BY <1>3 DEF ErasedLeavesNothing
  <2>1. tx[t].op = "erase" /\ tx[t].next = Erased(sub)
    BY <1>1 DEF WritesRow
  <2>2. \A k \in Tokens : token'[k] \notin {"fresh", "expired", "used"}
    BY <1>4, <1>5, <2>1 DEF Stored
  <2>3. \A l \in Lists : sub'.m[l] \in {"none", "left"}
    BY <1>1, <1>3, <2>1 DEF Erased, Row
  <2> QED
    BY <2>2, <2>3 DEF Stored
<1>9. OneConfirmLink'
  <2>1. CASE RevokesAfter(tx[t])
    <3>1. \A k \in Tokens : token'[k] = "fresh" => token[k] = "none"
      BY <1>4, <1>5, <2>1 DEF Stored
    <3> QED
      BY <1>5, <3>1 DEF OneConfirmLink
  <2>2. CASE ~RevokesAfter(tx[t])
    <3>1. \A k \in Tokens : token'[k] = "fresh" => token[k] = "fresh"
      BY <1>2, <1>4, <1>5, <2>2
    <3> QED
      BY <3>1 DEF SubscriberInv, OneConfirmLink
  <2> QED
    BY <2>1, <2>2
<1>10. \A u \in Txs : Open(u)' => u # t /\ Open(u) /\ tx'[u] = tx[u] /\ ~Wrote(tx[u])
  BY <1>1, <1>3 DEF Open, SubscriberInv, TxsKnow, TxKnows, WritesRow
<1>11. TxsKnow'
  <2> SUFFICES ASSUME NEW u \in Txs, Open(u)' PROVE TxKnows(u, tx[u])'
    BY DEF TxsKnow
  <2>1. u # t /\ Open(u) /\ tx'[u] = tx[u] /\ ~Wrote(tx[u]) /\ TxKnows(u, tx[u]) /\ tx[u].holds \cap tx[t].holds = {}
    BY <1>1, <1>10 DEF SubscriberInv, TxsKnow, HoldsApart
  <2>2. PICK d : d = tx[u]
    OBVIOUS
  <2>3. ~Wrote(d) /\ d.holds \cap tx[t].holds = {} /\ TxKnows(u, d)
    BY <2>1, <2>2
  <2>4. Confirms(d)'
    <3>1. d.op = "confirm" /\ d.pc # "lookedUp" => d.tok \in Tokens \ tx[t].holds /\ token[d.tok] \in {"fresh", "expired"}
      BY <2>3 DEF TxKnows, Confirms
    <3>2. d.op = "confirm" /\ d.pc # "lookedUp" => token'[d.tok] = token[d.tok]
      BY <1>5, <3>1
    <3> QED
      BY <2>3, <3>1, <3>2 DEF TxKnows, Confirms
  <2>5. Audited(d.snap, audit)' /\ d.snap.status # "erased" /\ (d.send => d.op \in {"subscribe", "resend", "account"})
    BY <1>3, <2>3 DEF TxKnows, Audited, ActiveLists
  <2>6. TxKnows(u, d)'
    BY <2>3, <2>4, <2>5 DEF TxKnows, Wrote, RevokesFirst
  <2> QED
    BY <2>1, <2>2, <2>6 DEF TxKnows, Confirms, Wrote, WritesRow
<1>12. LockIsOfWriter' /\ HoldsApart'
  BY <1>3, <1>10 DEF SubscriberInv, LockIsOfWriter, HoldsApart
<1> QED
  BY <1>6, <1>7, <1>8, <1>9, <1>11, <1>12 DEF SubscriberInv

(* Time passes: tokens expire and are pruned, the window moves on.         *)
LEMMA TimeKeepsInv ==
  ASSUME SubscriberInv, (\E k \in Tokens : TokenExpires(k)) \/ PruneTokens \/ WindowPasses
  PROVE  SubscriberInv'
<1> USE SubscriberAssumption
<1>1. UNCHANGED <<sub, rowLock, tx, audit, ops>>
  BY DEF TokenExpires, PruneTokens, WindowPasses
<1>2. /\ token' \in [Tokens -> {"none", "fresh", "expired", "used", "gone"}] /\ window' \in 1..MaxWindow
      /\ \A k \in Tokens : token'[k] = "fresh" => token[k] = "fresh"
      /\ \A k \in Tokens : token'[k] \in {"fresh", "expired", "used"} => token[k] \in {"fresh", "expired", "used"}
      /\ \A k \in Tokens : token[k] \in {"fresh", "expired"} /\ token'[k] \notin {"fresh", "expired"}
                              => \A t \in Txs : Open(t) => k \notin tx[t].holds
  <2>1. CASE \E k \in Tokens : TokenExpires(k)
    BY <2>1 DEF TokenExpires, SubscriberInv, TypeOK
  <2>2. CASE PruneTokens
    BY <2>2 DEF PruneTokens, SubscriberInv, TypeOK
  <2>3. CASE WindowPasses
    BY <2>3 DEF WindowPasses, SubscriberInv, TypeOK
  <2> QED
    BY <2>1, <2>2, <2>3
<1>3. TypeOK'
  BY <1>1, <1>2 DEF SubscriberInv, TypeOK
<1>4. Stored' \subseteq Stored
  BY <1>2 DEF Stored
<1>5. ErasedLeavesNothing' /\ OneConfirmLink' /\ OptInIsAudited'
  BY <1>1, <1>2, <1>4 DEF SubscriberInv, ErasedLeavesNothing, OneConfirmLink, OptInIsAudited, ActiveLists
<1>6. TxsKnow'
  <2> SUFFICES ASSUME NEW t \in Txs, Open(t) PROVE TxKnows(t, tx[t])'
    BY <1>1 DEF TxsKnow, Open
  <2>1. TxKnows(t, tx[t])
    BY DEF SubscriberInv, TxsKnow
  <2>2. Confirms(tx[t])'
    BY <1>1, <1>2, <2>1 DEF TxKnows, Confirms
  <2> QED
    BY <1>1, <1>4, <2>1, <2>2 DEF TxKnows, Wrote, RevokesFirst, WritesRow, Audited, ActiveLists, Erased
<1>7. LockIsOfWriter' /\ HoldsApart'
  BY <1>1 DEF SubscriberInv, LockIsOfWriter, HoldsApart, Open, Wrote, RevokesFirst
<1> QED
  BY <1>3, <1>5, <1>6, <1>7 DEF SubscriberInv

(* Every step of the component keeps the invariant.                        *)
LEMMA SubscriberNextInv == SubscriberInv /\ [Next]_vars => SubscriberInv'
<1> SUFFICES ASSUME SubscriberInv, [Next]_vars PROVE SubscriberInv'
  OBVIOUS
<1>1. CASE UNCHANGED vars
  <2>1. UNCHANGED <<sub, token, rowLock, tx, window, audit, ops>>
    BY <1>1 DEF vars
  <2>2. TypeOK' /\ ErasedLeavesNothing' /\ OneConfirmLink' /\ OptInIsAudited'
    BY <2>1 DEF SubscriberInv, TypeOK, ErasedLeavesNothing, OneConfirmLink, OptInIsAudited, Stored, ActiveLists
  <2>3. TxsKnow'
    <3> SUFFICES ASSUME NEW t \in Txs, Open(t) PROVE TxKnows(t, tx[t])'
      BY <2>1 DEF TxsKnow, Open
    <3>1. TxKnows(t, tx[t])
      BY DEF SubscriberInv, TxsKnow
    <3> QED
      BY <2>1, <3>1 DEF TxKnows, Confirms, Wrote, RevokesFirst, WritesRow, Audited, ActiveLists, Erased, Stored
  <2>4. LockIsOfWriter' /\ HoldsApart'
    BY <2>1 DEF SubscriberInv, LockIsOfWriter, HoldsApart, Open, Wrote, RevokesFirst
  <2> QED
    BY <2>2, <2>3, <2>4 DEF SubscriberInv
<1> QED
  BY <1>1, BeginKeepsInv, ConfirmKeepsInv, SaveKeepsInv, RevokeKeepsInv, CommitKeepsInv, TimeKeepsInv DEF Next

(* A confirmation has its token to itself once it used it.                 *)
LEMMA TokenIsOwned == SubscriberInv => ConfirmOwnsToken
<1> SUFFICES ASSUME SubscriberInv, NEW t \in Txs, Open(t), tx[t].op = "confirm", tx[t].pc # "lookedUp"
             PROVE  token[tx[t].tok] \in {"fresh", "expired"} /\ tx[t].tok \notin LockedByOthers(t)
  BY DEF ConfirmOwnsToken
<1>1. tx[t].holds = {tx[t].tok} /\ token[tx[t].tok] \in {"fresh", "expired"}
  BY DEF SubscriberInv, TxsKnow, TxKnows, Confirms
<1> QED
  BY <1>1 DEF SubscriberInv, HoldsApart, LockedByOthers

(* The row, its tokens and the consent log agree: an erasure leaves no     *)
(* link, at most one link can be confirmed and only once, and nobody is    *)
(* active without a recorded opt-in (EraseSubscriber, issueToken, Confirm, *)
(* consent).                                                               *)
THEOREM SubscriberIsSound == Spec => []SubscriberInvariant
<1>1. SubscriberInv => SubscriberInvariant
  BY TokenIsOwned DEF SubscriberInv, SubscriberInvariant
<1> QED
  BY <1>1, SubscriberInitInv, SubscriberNextInv, PTL DEF Spec

(* What a step does to an erased row and to the links of a subscriber that *)
(* unsubscribes.                                                           *)
LEMMA StepsAreFinal ==
  ASSUME SubscriberInv, SubscriberInv', [Next]_vars
  PROVE  /\ sub.status = "erased" => sub' = sub
         /\ (/\ sub.status # "unsubscribed" /\ sub'.status = "unsubscribed"
             /\ \E t \in Txs : Open(t) /\ tx[t].op = "unsubscribe" /\ tx'[t] = NoTx)
               => \A k \in Tokens : token'[k] # "fresh"
<1>1. CASE sub' = sub
  BY <1>1
<1>2. CASE \E t \in Txs : Commit(t)
  <2>1. PICK t \in Txs : Commit(t)
    BY <1>2
  <2>2. /\ TxKnows(t, tx[t]) /\ WritesRow(t, tx[t]) /\ tx[t] \in OpenTx /\ sub' = tx[t].next
        /\ tx \in [Txs -> OpenTx \cup {NoTx}] /\ tx' = [tx EXCEPT ![t] = NoTx] /\ CommitsAt(tx[t]) /\ sub \in Row
    <3>1. Open(t) /\ rowLock = t /\ sub' = tx[t].next /\ tx' = [tx EXCEPT ![t] = NoTx] /\ CommitsAt(tx[t])
      BY <2>1 DEF Commit
    <3>2. TypeOK /\ TxKnows(t, tx[t]) /\ Wrote(tx[t])
      BY <3>1, SubscriberAssumption DEF SubscriberInv, TxsKnow, LockIsOfWriter
    <3> QED
      BY <3>1, <3>2, OpenIsTyped DEF TypeOK, TxKnows
  <2>3. ASSUME sub.status = "erased" PROVE sub' = sub
    <3>1. sub' = Erased(sub)
      BY <2>2, <2>3 DEF WritesRow
    <3>2. \A l \in Lists : sub.m[l] \in {"none", "left"}
      BY <2>3 DEF SubscriberInv, ErasedLeavesNothing
    <3>3. [l \in Lists |-> IF sub.m[l] = "none" THEN "none" ELSE "left"] = sub.m
      BY <2>2, <3>2 DEF Row
    <3>4. Erased(sub) = [sub EXCEPT !.status = "erased", !.m = sub.m]
      BY <3>3 DEF Erased
    <3>5. sub = [sub EXCEPT !.status = "erased", !.m = sub.m]
      BY <2>2, <2>3 DEF Row
    <3> QED
      BY <3>1, <3>4, <3>5
  <2>4. ASSUME NEW u \in Txs, Open(u), tx[u].op = "unsubscribe", tx'[u] = NoTx
        PROVE  \A k \in Tokens : token'[k] # "fresh"
    <3>1. u = t
      BY <2>2, <2>4 DEF Open
    <3>2. Stored \subseteq tx[t].holds /\ ~tx[t].send
      BY <2>2, <2>4, <3>1 DEF TxKnows, CommitsAt, RevokesAfter, RevokesFirst
    <3>3. token' = [k \in Tokens |-> IF k \notin tx[t].holds THEN token[k] ELSE "gone"]
      BY <2>1, <2>4, <3>1, <3>2 DEF Commit
    <3> QED
      BY <3>2, <3>3 DEF Stored
  <2> QED
    BY <2>3, <2>4
<1> QED
  BY <1>1, <1>2 DEF Next, vars, Begin, LookupToken, UseToken, ReadForConfirm, Save, RevokeTokens, Abort,
                    TokenExpires, PruneTokens, WindowPasses

(* No request that read the row earlier writes an erased row again, and no *)
(* link survives an unsubscription (DeleteSubscriber, unsubscribeAll).     *)
THEOREM SubscriberIsFinal == Spec => SubscriberSteps
<1>1. SubscriberInv /\ SubscriberInv' /\ [Next]_vars => [sub.status = "erased" => sub' = sub]_vars
  BY StepsAreFinal
<1>2. SubscriberInv /\ SubscriberInv' /\ [Next]_vars =>
        [(/\ sub.status # "unsubscribed" /\ sub'.status = "unsubscribed"
          /\ \E t \in Txs : Open(t) /\ tx[t].op = "unsubscribe" /\ tx'[t] = NoTx)
            => \A k \in Tokens : token'[k] # "fresh"]_vars
  BY StepsAreFinal
<1> QED
  BY <1>1, <1>2, SubscriberInitInv, SubscriberNextInv, PTL DEF Spec, SubscriberSteps, ErasedIsFinal, UnsubscribeRevokes

-----------------------------------------------------------------------------
(* Media.  A row the cleanup has listed is past the point where it could   *)
(* be served again, or get an object again: it is in the trash, or it was  *)
(* never completed and its grace is over, which no request outlasts.  What *)
(* a request is about to write over a row agrees with the row's object.    *)

Doomed(n) ==
  n.status # "none" /\ n.url # "valid" /\ (n.trash # "live" \/ (n.status # "ready" /\ n.url = "lapsed"))

(* A row n and its object o.                                               *)
RowOn(n, o) ==
  /\ n.status = "none" => n.url = "none" /\ n.trash = "live"
  /\ n.trash = "old" => n.url # "valid"
  /\ n.status = "ready" /\ n.trash = "live" => o # "none"
  /\ n.status = "gone" => o = "none"

Named(d) == d.pc \in {"inspect", "complete", "tags", "delete", "put", "create", "set"}
Creating(d) == d.pc \in {"put", "create"}
Rewriting(d) == d.pc \in {"inspect", "complete", "tags"}

(* A request d on the row n with the object o.                             *)
CallOn(d, n, o) ==
  /\ Creating(d) => n.status = "none"
  /\ d.pc = "create" => o # "none"
  /\ Rewriting(d) \/ d.pc \in {"delete", "set"} => n.status # "none"
  /\ Rewriting(d) => d.saw.status \in {"pending", "ready"} /\ d.saw.trash = "live"
  /\ d.pc \in {"complete", "tags"} /\ d.saw.status = "ready" /\ n.status \in {"pending", "ready"} /\ n.trash = "live" => o # "none"
  /\ Rewriting(d) /\ n.url = "lapsed" =>
       d.pc = "tags" /\ (n.status \in {"pending", "ready"} /\ n.trash = "live" => d.saw.status = n.status)

RowsFit == \A a \in Assets : RowOn(media[a], object[a])

CallsFit == \A c \in MediaCalls : Named(mcall[c]) => mcall[c].a \in Assets /\ CallOn(mcall[c], media[mcall[c].a], object[mcall[c].a])

(* An upload names an asset that nobody else knows.                        *)
NewIsUnnamed == \A c, d \in MediaCalls : c # d /\ Creating(mcall[c]) => mcall[d].a # mcall[c].a

SweepFits ==
  /\ \A a \in sweep.todo : Doomed(media[a])
  /\ sweep.deleted # NoAsset => Doomed(media[sweep.deleted]) /\ object[sweep.deleted] = "none"

MediaInv == MediaTypeOK /\ RowsFit /\ CallsFit /\ NewIsUnnamed /\ SweepFits

LEMMA MediaNothing ==
  /\ NoMediaCall \in MediaCall /\ NoSweep \in Sweep /\ NoAssetRow \in AssetRow
  /\ ~Named(NoMediaCall) /\ ~Creating(NoMediaCall) /\ NoMediaCall.a = NoAsset
  /\ NoAssetRow.status = "none" /\ NoAssetRow.url = "none" /\ NoAssetRow.trash = "live"
  /\ NoSweep.todo = {} /\ NoSweep.deleted = NoAsset
<1>1. NoAssetRow \in AssetRow /\ NoAssetRow.status = "none" /\ NoAssetRow.url = "none" /\ NoAssetRow.trash = "live"
  BY DEF NoAssetRow, AssetRow
<1>2. NoMediaCall \in MediaCall /\ NoMediaCall.pc = "idle" /\ NoMediaCall.a = NoAsset
  BY <1>1 DEF NoMediaCall, MediaCall
<1>3. NoSweep \in Sweep /\ NoSweep.todo = {} /\ NoSweep.deleted = NoAsset
  BY DEF NoSweep, Sweep
<1> QED
  BY <1>1, <1>2, <1>3 DEF Named, Creating

LEMMA MediaInitInv == MediaInit => MediaInv
<1> SUFFICES ASSUME MediaInit PROVE MediaInv
  OBVIOUS
<1>1. MediaTypeOK
  BY MediaNothing, MediaAssumption DEF MediaInit, MediaTypeOK
<1>2. RowsFit
  BY MediaNothing DEF MediaInit, RowsFit, RowOn
<1>3. CallsFit /\ NewIsUnnamed
  BY MediaNothing DEF MediaInit, CallsFit, NewIsUnnamed
<1>4. SweepFits
  BY MediaNothing DEF MediaInit, SweepFits
<1> QED
  BY <1>1, <1>2, <1>3, <1>4 DEF MediaInv

(* One row and its object change, and requests on it.                      *)
LEMMA RowStepInv ==
  ASSUME MediaInv, NEW a \in Assets, NEW n \in AssetRow, NEW o \in {"none", "good", "bad"},
         media' = [media EXCEPT ![a] = n], object' = [object EXCEPT ![a] = o], RowOn(n, o),
         avatar' \in Assets \cup {NoAsset}, mediaOps' \in 0..MaxMediaOps, mcall' \in [MediaCalls -> MediaCall], NewIsUnnamed',
         \A c \in MediaCalls : Named(mcall'[c]) =>
           \/ mcall'[c].a = a /\ CallOn(mcall'[c], n, o)
           \/ mcall'[c].a # a /\ mcall'[c] = mcall[c],
         Doomed(media[a]) => Doomed(n), sweep' \in Sweep,
         sweep'.todo \subseteq sweep.todo,
         sweep'.deleted \in {sweep.deleted, NoAsset} \/ (sweep'.deleted = a /\ Doomed(media[a])),
         sweep'.deleted = a => o = "none"
  PROVE  MediaInv'
<1>1. media \in [Assets -> AssetRow] /\ object \in [Assets -> {"none", "good", "bad"}]
  BY DEF MediaInv, MediaTypeOK
<1>2. /\ media'[a] = n /\ object'[a] = o
      /\ \A b \in Assets \ {a} : media'[b] = media[b] /\ object'[b] = object[b]
  BY <1>1
<1>3. MediaTypeOK'
  BY <1>1 DEF MediaInv, MediaTypeOK
<1>4. RowsFit'
  BY <1>2 DEF MediaInv, RowsFit
<1>5. CallsFit'
  <2> SUFFICES ASSUME NEW c \in MediaCalls, Named(mcall'[c])
               PROVE  mcall'[c].a \in Assets /\ CallOn(mcall'[c], media'[mcall'[c].a], object'[mcall'[c].a])
    BY DEF CallsFit
  <2>1. PICK d : d = mcall'[c]
    OBVIOUS
  <2>2. CASE d.a = a /\ CallOn(d, n, o)
    BY <1>2, <2>1, <2>2
  <2>3. CASE d.a # a /\ d = mcall[c]
    <3>1. d.a \in Assets /\ CallOn(d, media[d.a], object[d.a])
      BY <2>1, <2>3 DEF MediaInv, CallsFit
    <3> QED
      BY <1>2, <2>1, <2>3, <3>1
  <2> QED
    BY <2>1, <2>2, <2>3
<1>6. SweepFits'
  <2>1. \A b \in Assets : Doomed(media[b]) => Doomed(media'[b])
    BY <1>2
  <2>2. sweep.todo \subseteq Assets /\ sweep.deleted \in Assets \cup {NoAsset}
    BY DEF MediaInv, MediaTypeOK, Sweep
  <2>3. \A b \in sweep'.todo : Doomed(media'[b])
    BY <2>1, <2>2 DEF MediaInv, SweepFits
  <2>4. ASSUME sweep'.deleted # NoAsset PROVE Doomed(media'[sweep'.deleted]) /\ object'[sweep'.deleted] = "none"
    <3>1. CASE sweep'.deleted = a
      <4>1. Doomed(media[a])
        BY <2>4, <3>1 DEF MediaInv, SweepFits
      <4> QED
        BY <1>2, <3>1, <4>1
    <3>2. CASE sweep'.deleted # a
      BY <1>2, <2>1, <2>2, <2>4, <3>2 DEF MediaInv, SweepFits
    <3> QED
      BY <3>1, <3>2
  <2> QED
    BY <2>3, <2>4 DEF SweepFits
<1> QED
  BY <1>3, <1>4, <1>5, <1>6 DEF MediaInv

(* Rows and objects stay; a request becomes d.                             *)
LEMMA CallStepInv ==
  ASSUME MediaInv, NEW c \in MediaCalls, NEW d \in MediaCall, mcall' = [mcall EXCEPT ![c] = d],
         UNCHANGED <<media, object, sweep>>, avatar' \in Assets \cup {NoAsset}, mediaOps' \in 0..MaxMediaOps,
         Named(d) => d.a \in Assets /\ CallOn(d, media[d.a], object[d.a]),
         \A e \in MediaCalls \ {c} : Creating(d) \/ Creating(mcall[e]) => mcall[e].a # d.a
  PROVE  MediaInv'
<1>1. mcall \in [MediaCalls -> MediaCall]
  BY DEF MediaInv, MediaTypeOK
<1>2. mcall'[c] = d /\ \A e \in MediaCalls \ {c} : mcall'[e] = mcall[e]
  BY <1>1
<1>3. MediaTypeOK'
  BY <1>1 DEF MediaInv, MediaTypeOK
<1>4. RowsFit' /\ SweepFits'
  BY DEF MediaInv, RowsFit, SweepFits
<1>5. CallsFit'
  BY <1>2 DEF MediaInv, CallsFit
<1>6. NewIsUnnamed'
  BY <1>2 DEF MediaInv, NewIsUnnamed
<1> QED
  BY <1>3, <1>4, <1>5, <1>6 DEF MediaInv

LEMMA ReturnMediaInv ==
  ASSUME MediaInv, NEW c \in MediaCalls, ReturnMedia(c), UNCHANGED <<media, object, avatar, sweep, mediaOps>>
  PROVE  MediaInv'
<1>1. \A e \in MediaCalls : Creating(mcall[e]) => mcall[e].a # NoAsset
  BY MediaAssumption DEF MediaInv, CallsFit, Named, Creating
<1>2. avatar' \in Assets \cup {NoAsset} /\ mediaOps' \in 0..MaxMediaOps
  BY DEF MediaInv, MediaTypeOK
<1>3. mcall' = [mcall EXCEPT ![c] = NoMediaCall] /\ NoMediaCall \in MediaCall /\ ~Named(NoMediaCall) /\ ~Creating(NoMediaCall)
      /\ NoMediaCall.a = NoAsset
  BY MediaNothing DEF ReturnMedia
<1>4. PICK d \in MediaCall : d = NoMediaCall
  BY <1>3
<1> QED
  BY <1>1, <1>2, <1>3, <1>4, CallStepInv

(* A request begins on a live asset.                                       *)
LEMMA RequestInv ==
  ASSUME MediaInv, NEW c \in MediaCalls, NEW pc \in {"inspect", "tags", "delete"}, NEW a \in Assets, LiveAsset(a), NEW s \in AssetRow,
         MediaRequest(c, pc, a, s), UNCHANGED <<media, object, avatar, sweep>>,
         s.status = media[a].status, s.trash = "live", pc = "inspect" => media[a].url # "lapsed"
  PROVE  MediaInv'
<1>1. PICK d : d = [pc |-> pc, a |-> a, saw |-> s, old |-> avatar]
  OBVIOUS
<1>2. d \in MediaCall /\ d.pc = pc /\ d.a = a /\ d.saw = s
  BY <1>1 DEF MediaCall, MediaInv, MediaTypeOK
<1>3. mcall' = [mcall EXCEPT ![c] = d] /\ avatar' \in Assets \cup {NoAsset} /\ mediaOps' \in 0..MaxMediaOps
  BY <1>1, MediaAssumption DEF MediaRequest, MediaInv, MediaTypeOK
<1>4. CallOn(d, media[a], object[a])
  BY <1>2 DEF CallOn, Rewriting, Creating, LiveAsset, MediaInv, RowsFit, RowOn
<1>5. \A e \in MediaCalls : Creating(mcall[e]) => mcall[e].a # a
  BY DEF MediaInv, CallsFit, CallOn, Named, Creating, LiveAsset
<1>6. ~Creating(d)
  BY <1>2 DEF Creating
<1> QED
  BY <1>2, <1>3, <1>4, <1>5, <1>6, CallStepInv

LEMMA MediaBeginInv ==
  ASSUME MediaInv, NEW c \in MediaCalls, CompleteUpload(c) \/ UpdateTags(c) \/ DeleteMedia(c)
  PROVE  MediaInv'
<1>1. \A a \in Assets : media[a] \in AssetRow
  BY DEF MediaInv, MediaTypeOK
<1>2. CASE CompleteUpload(c)
  <2>1. PICK a \in Assets : LiveAsset(a) /\ media[a].url = "valid" /\ MediaRequest(c, "inspect", a, media[a])
    BY <1>2 DEF CompleteUpload
  <2>2. UNCHANGED <<media, object, avatar, sweep>> /\ media[a].trash = "live"
    BY <1>2, <2>1 DEF CompleteUpload, LiveAsset
  <2> QED
    BY <1>1, <2>1, <2>2, RequestInv
<1>3. CASE UpdateTags(c)
  <2>1. PICK a \in Assets, tagged \in BOOLEAN :
           LiveAsset(a) /\ MediaRequest(c, "tags", a, [media[a] EXCEPT !.avatarTag = tagged])
    BY <1>3 DEF UpdateTags
  <2>2. PICK s : s = [media[a] EXCEPT !.avatarTag = tagged]
    OBVIOUS
  <2>3. s \in AssetRow /\ s.status = media[a].status /\ s.trash = media[a].trash
    BY <1>1, <2>2 DEF AssetRow
  <2>4. UNCHANGED <<media, object, avatar, sweep>> /\ media[a].trash = "live"
    BY <1>3, <2>1 DEF UpdateTags, LiveAsset
  <2> QED
    BY <2>1, <2>2, <2>3, <2>4, RequestInv
<1>4. CASE DeleteMedia(c)
  <2>1. PICK a \in Assets : LiveAsset(a) /\ MediaRequest(c, "delete", a, media[a])
    BY <1>4 DEF DeleteMedia
  <2>2. UNCHANGED <<media, object, avatar, sweep>> /\ media[a].trash = "live"
    BY <1>4, <2>1 DEF DeleteMedia, LiveAsset
  <2> QED
    BY <1>1, <2>1, <2>2, RequestInv
<1> QED
  BY <1>2, <1>3, <1>4

LEMMA InspectObjectInv ==
  ASSUME MediaInv, NEW c \in MediaCalls, InspectObject(c)
  PROVE  MediaInv'
<1>1. mcall[c].pc = "inspect" /\ UNCHANGED <<media, object, avatar, sweep, mediaOps>>
  BY DEF InspectObject
<1>2. CASE ReturnMedia(c)
  BY <1>1, <1>2, ReturnMediaInv
<1>3. CASE object[mcall[c].a] = "good" /\ mcall' = [mcall EXCEPT ![c].pc = "complete", ![c].saw.status = "ready"]
  <2>1. PICK b \in MediaCall : b = mcall[c]
    BY DEF MediaInv, MediaTypeOK
  <2>2. b.pc = "inspect" /\ b.a \in Assets /\ CallOn(b, media[b.a], object[b.a]) /\ object[b.a] = "good"
    BY <1>1, <1>3, <2>1 DEF MediaInv, CallsFit, Named
  <2>3. PICK s : s = [b.saw EXCEPT !.status = "ready"]
    OBVIOUS
  <2>4. s \in AssetRow /\ s.status = "ready" /\ s.trash = b.saw.trash
    BY <2>1, <2>3 DEF MediaCall, AssetRow
  <2>5. PICK d : d = [b EXCEPT !.pc = "complete", !.saw = s]
    OBVIOUS
  <2>6. d \in MediaCall /\ d.pc = "complete" /\ d.a = b.a /\ d.saw = s
    BY <2>1, <2>4, <2>5 DEF MediaCall
  <2>7. mcall' = [mcall EXCEPT ![c] = d]
    BY <1>3, <2>1, <2>3, <2>5 DEF MediaInv, MediaTypeOK, MediaCall
  <2>8. CallOn(d, media[d.a], object[d.a])
    BY <2>2, <2>4, <2>6 DEF CallOn, Rewriting, Creating
  <2>9. ~Creating(d) /\ \A e \in MediaCalls \ {c} : Creating(mcall[e]) => mcall[e].a # d.a
    BY <2>1, <2>6 DEF Creating, MediaInv, NewIsUnnamed
  <2>10. avatar' \in Assets \cup {NoAsset} /\ mediaOps' \in 0..MaxMediaOps
    BY <1>1 DEF MediaInv, MediaTypeOK
  <2> QED
    BY <1>1, <2>2, <2>6, <2>7, <2>8, <2>9, <2>10, CallStepInv
<1> QED
  BY <1>2, <1>3 DEF InspectObject

LEMMA AvatarBeginInv ==
  ASSUME MediaInv, NEW c \in MediaCalls, UploadAvatar(c) \/ DeleteAvatar(c)
  PROVE  MediaInv'
<1>1. CASE UploadAvatar(c)
  <2>1. PICK a \in Assets : NewAsset(a) /\ MediaRequest(c, "put", a, NoAssetRow)
    BY <1>1 DEF UploadAvatar
  <2>2. PICK d : d = [pc |-> "put", a |-> a, saw |-> NoAssetRow, old |-> avatar]
    OBVIOUS
  <2>3. d \in MediaCall /\ d.pc = "put" /\ d.a = a
    BY <2>2, MediaNothing DEF MediaCall, MediaInv, MediaTypeOK
  <2>4. /\ mcall' = [mcall EXCEPT ![c] = d] /\ avatar' \in Assets \cup {NoAsset} /\ mediaOps' \in 0..MaxMediaOps
        /\ UNCHANGED <<media, object, sweep>>
    <3>1. UNCHANGED <<media, object, sweep>> /\ avatar' = avatar
      BY <1>1 DEF UploadAvatar
    <3>2. mcall' = [mcall EXCEPT ![c] = d] /\ mediaOps' = mediaOps + 1 /\ mediaOps < MaxMediaOps
      BY <2>1, <2>2 DEF MediaRequest
    <3> QED
      BY <3>1, <3>2, MediaAssumption DEF MediaInv, MediaTypeOK
  <2>5. CallOn(d, media[a], object[a])
    BY <2>1, <2>3 DEF CallOn, Creating, Rewriting, NewAsset
  <2>6. \A e \in MediaCalls : mcall[e].a # a
    BY <2>1 DEF NewAsset
  <2> QED
    BY <2>3, <2>4, <2>5, <2>6, CallStepInv
<1>2. CASE DeleteAvatar(c)
  <2>1. PICK d : d = [pc |-> "clear", a |-> NoAsset, saw |-> NoAssetRow, old |-> avatar]
    OBVIOUS
  <2>2. d \in MediaCall /\ d.pc = "clear" /\ d.a = NoAsset
    BY <2>1, MediaNothing DEF MediaCall, MediaInv, MediaTypeOK
  <2>3. /\ mcall' = [mcall EXCEPT ![c] = d] /\ avatar' \in Assets \cup {NoAsset} /\ mediaOps' \in 0..MaxMediaOps
        /\ UNCHANGED <<media, object, sweep>>
    BY <1>2, <2>1, MediaAssumption DEF DeleteAvatar, MediaRequest, MediaInv, MediaTypeOK
  <2>4. \A e \in MediaCalls : Creating(mcall[e]) => mcall[e].a # NoAsset
    BY MediaAssumption DEF MediaInv, CallsFit, Named, Creating
  <2>5. ~Creating(d) /\ ~Named(d)
    BY <2>2 DEF Creating, Named
  <2> QED
    BY <2>2, <2>3, <2>4, <2>5, CallStepInv
<1> QED
  BY <1>1, <1>2

LEMMA SetAvatarInv ==
  ASSUME MediaInv, NEW c \in MediaCalls, SetAvatar(c)
  PROVE  MediaInv'
<1>1. PICK b \in MediaCall : b = mcall[c]
  BY DEF MediaInv, MediaTypeOK
<1>2. b.pc \in {"set", "clear"} /\ UNCHANGED <<media, object, sweep, mediaOps>> /\ (b.pc = "set" => b.a \in Assets)
  BY <1>1 DEF SetAvatar, MediaInv, CallsFit, Named
<1>3. avatar' \in Assets \cup {NoAsset}
  BY <1>1, <1>2 DEF SetAvatar
<1>4. PICK d : d = [b EXCEPT !.pc = "remove"]
  OBVIOUS
<1>5. d \in MediaCall /\ d.pc = "remove" /\ d.a = b.a
  BY <1>1, <1>4 DEF MediaCall
<1>6. mcall' = [mcall EXCEPT ![c] = d]
  BY <1>1, <1>4 DEF SetAvatar
<1>7. ~Named(d) /\ ~Creating(d) /\ \A e \in MediaCalls \ {c} : Creating(mcall[e]) => mcall[e].a # d.a
  BY <1>1, <1>5 DEF Named, Creating, MediaInv, NewIsUnnamed
<1>8. mediaOps' \in 0..MaxMediaOps
  BY <1>2 DEF MediaInv, MediaTypeOK
<1> QED
  BY <1>2, <1>3, <1>5, <1>6, <1>7, <1>8, CallStepInv

LEMMA RemoveOwnedAvatarInv ==
  ASSUME MediaInv, NEW c \in MediaCalls, RemoveOwnedAvatar(c)
  PROVE  MediaInv'
<1>1. UNCHANGED <<media, object, avatar, sweep, mediaOps>>
  BY DEF RemoveOwnedAvatar
<1>2. CASE ReturnMedia(c)
  BY <1>1, <1>2, ReturnMediaInv
<1>3. CASE LiveAsset(mcall[c].old) /\ mcall' = [mcall EXCEPT ![c] = [NoMediaCall EXCEPT !.pc = "delete", !.a = mcall[c].old]]
  <2>1. PICK a : a = mcall[c].old
    OBVIOUS
  <2>2. a \in Assets /\ LiveAsset(a)
    BY <1>3, <2>1 DEF LiveAsset, MediaInv, MediaTypeOK, MediaCall
  <2>3. PICK d : d = [NoMediaCall EXCEPT !.pc = "delete", !.a = a]
    OBVIOUS
  <2>4. d \in MediaCall /\ d.pc = "delete" /\ d.a = a
    BY <2>2, <2>3, MediaNothing DEF MediaCall
  <2>5. mcall' = [mcall EXCEPT ![c] = d]
    BY <1>3, <2>1, <2>3
  <2>6. CallOn(d, media[a], object[a])
    BY <2>2, <2>4 DEF CallOn, Rewriting, Creating, LiveAsset
  <2>7. ~Creating(d) /\ \A e \in MediaCalls : Creating(mcall[e]) => mcall[e].a # a
    BY <2>2, <2>4 DEF MediaInv, CallsFit, CallOn, Named, Creating, LiveAsset
  <2>8. avatar' \in Assets \cup {NoAsset} /\ mediaOps' \in 0..MaxMediaOps
    BY <1>1 DEF MediaInv, MediaTypeOK
  <2> QED
    BY <1>1, <2>2, <2>4, <2>5, <2>6, <2>7, <2>8, CallStepInv
<1> QED
  BY <1>2, <1>3 DEF RemoveOwnedAvatar

LEMMA ReturnedUnnamed ==
  ASSUME MediaInv, NEW c \in MediaCalls, ReturnMedia(c)
  PROVE  /\ mcall' \in [MediaCalls -> MediaCall] /\ NewIsUnnamed' /\ ~Named(mcall'[c])
         /\ \A e \in MediaCalls \ {c} : mcall'[e] = mcall[e]
<1>1. mcall \in [MediaCalls -> MediaCall]
  BY DEF MediaInv, MediaTypeOK
<1>2. mcall'[c] = NoMediaCall /\ \A e \in MediaCalls \ {c} : mcall'[e] = mcall[e]
  BY <1>1 DEF ReturnMedia
<1>3. mcall' \in [MediaCalls -> MediaCall]
  BY <1>1, MediaNothing DEF ReturnMedia
<1>4. \A e \in MediaCalls : Creating(mcall[e]) => mcall[e].a # NoAsset
  BY MediaAssumption DEF MediaInv, CallsFit, Named, Creating
<1>5. NewIsUnnamed'
  BY <1>2, <1>4, MediaNothing DEF MediaInv, NewIsUnnamed
<1> QED
  BY <1>2, <1>3, <1>5, MediaNothing

LEMMA MediaKnown ==
  ASSUME MediaInv, NEW a \in Assets
  PROVE  /\ media[a] \in AssetRow /\ object[a] \in {"none", "good", "bad"} /\ RowOn(media[a], object[a])
         /\ media = [media EXCEPT ![a] = media[a]] /\ object = [object EXCEPT ![a] = object[a]]
         /\ sweep \in Sweep /\ (sweep.deleted = a => object[a] = "none" /\ Doomed(media[a]))
         /\ mcall \in [MediaCalls -> MediaCall] /\ avatar \in Assets \cup {NoAsset} /\ mediaOps \in 0..MaxMediaOps
<1>1. media \in [Assets -> AssetRow] /\ object \in [Assets -> {"none", "good", "bad"}]
  BY DEF MediaInv, MediaTypeOK
<1>2. sweep.deleted = a => object[a] = "none" /\ Doomed(media[a])
  BY MediaAssumption DEF MediaInv, SweepFits
<1> QED
  BY <1>1, <1>2 DEF MediaInv, MediaTypeOK, RowsFit

LEMMA PresignUploadInv ==
  ASSUME MediaInv, NEW c \in MediaCalls, PresignUpload(c)
  PROVE  MediaInv'
<1>1. PICK a \in Assets : /\ NewAsset(a)
                          /\ media' = [media EXCEPT ![a] = [NoAssetRow EXCEPT !.status = "pending", !.url = "valid"]]
  BY DEF PresignUpload
<1>2. PICK n : n = [NoAssetRow EXCEPT !.status = "pending", !.url = "valid"]
  OBVIOUS
<1>3. n \in AssetRow /\ n.status = "pending" /\ n.url = "valid" /\ n.trash = "live"
  BY <1>2, MediaNothing DEF AssetRow
<1>4. object[a] = "none" /\ ~Doomed(media[a]) /\ \A e \in MediaCalls : mcall[e].a # a
  BY <1>1 DEF NewAsset, Doomed
<1>5. PICK o \in {"none", "good", "bad"} : o = object[a]
  BY MediaKnown
<1>6. UNCHANGED <<object, avatar, mcall, sweep>> /\ mediaOps' \in 0..MaxMediaOps
  BY MediaAssumption DEF PresignUpload, MediaInv, MediaTypeOK
<1>7. RowOn(n, o)
  BY <1>3 DEF RowOn
<1>8. /\ sweep' \in Sweep /\ mcall' \in [MediaCalls -> MediaCall] /\ avatar' \in Assets \cup {NoAsset}
      /\ object' = [object EXCEPT ![a] = o] /\ media' = [media EXCEPT ![a] = n]
  BY <1>1, <1>2, <1>5, <1>6, MediaKnown
<1>9. NewIsUnnamed'
  BY <1>6 DEF MediaInv, NewIsUnnamed
<1>10. sweep'.todo \subseteq sweep.todo /\ sweep'.deleted \in {sweep.deleted, NoAsset} /\ (sweep'.deleted = a => o = "none")
  BY <1>4, <1>5, <1>6
<1>11. \A e \in MediaCalls : Named(mcall'[e]) => \/ mcall'[e].a = a /\ CallOn(mcall'[e], n, o)
                                                 \/ mcall'[e].a # a /\ mcall'[e] = mcall[e]
  BY <1>4, <1>6
<1>12. Doomed(media[a]) => Doomed(n)
  BY <1>4
<1>13. n \in AssetRow /\ mediaOps' \in 0..MaxMediaOps
  BY <1>3, <1>6
<1> QED
  BY <1>7, <1>8, <1>9, <1>10, <1>11, <1>12, <1>13, RowStepInv

LEMMA SaveAssetInv ==
  ASSUME MediaInv, NEW c \in MediaCalls, SaveAsset(c)
  PROVE  MediaInv'
<1>1. PICK b \in MediaCall : b = mcall[c]
  BY DEF MediaInv, MediaTypeOK
<1>2. PICK a : a = b.a
  OBVIOUS
<1>3. b.pc \in {"complete", "tags"} /\ ReturnMedia(c) /\ UNCHANGED <<object, avatar, sweep, mediaOps>>
  BY <1>1 DEF SaveAsset
<1>4. a \in Assets /\ CallOn(b, media[a], object[a])
  BY <1>1, <1>2, <1>3 DEF MediaInv, CallsFit, Named
<1>5. CASE ~LiveAsset(a)
  <2>1. media' = media
    BY <1>1, <1>2, <1>5 DEF SaveAsset
  <2> QED
    BY <1>3, <2>1, ReturnMediaInv
<1>6. CASE LiveAsset(a)
  <2>1. PICK m \in AssetRow : m = media[a]
    BY <1>4, MediaKnown
  <2>2. PICK o \in {"none", "good", "bad"} : o = object[a]
    BY <1>4, MediaKnown
  <2>3. PICK n : n = [b.saw EXCEPT !.url = m.url]
    OBVIOUS
  <2>4. n \in AssetRow /\ n.status = b.saw.status /\ n.trash = b.saw.trash /\ n.url = m.url
    BY <2>1, <2>3 DEF MediaCall, AssetRow
  <2>5. media' = [media EXCEPT ![a] = n]
    BY <1>1, <1>2, <1>6, <2>1, <2>3 DEF SaveAsset
  <2>6. m.status \in {"pending", "ready"} /\ m.trash = "live" /\ Rewriting(b) /\ CallOn(b, m, o)
    BY <1>3, <1>4, <1>6, <2>1, <2>2 DEF LiveAsset, Rewriting
  <2>7. n.status \in {"pending", "ready"} /\ n.trash = "live" /\ (n.status = "ready" => o # "none")
        /\ (m.url = "lapsed" => n.status = m.status)
    BY <1>3, <2>4, <2>6 DEF CallOn
  <2>8. RowOn(n, o)
    BY <2>7 DEF RowOn
  <2>9. Doomed(m) => Doomed(n)
    BY <2>4, <2>6, <2>7 DEF Doomed
  <2>10. ASSUME NEW e \in MediaCalls, Named(mcall'[e])
         PROVE  \/ mcall'[e].a = a /\ CallOn(mcall'[e], n, o)
                \/ mcall'[e].a # a /\ mcall'[e] = mcall[e]
    <3>1. e # c /\ mcall'[e] = mcall[e]
      BY <1>3, <2>10, ReturnedUnnamed
    <3>2. PICK d : d = mcall[e]
      OBVIOUS
    <3>3. ASSUME d.a = a PROVE CallOn(d, n, o)
      <4>1. CallOn(d, m, o)
        BY <2>1, <2>2, <2>10, <3>1, <3>2, <3>3 DEF MediaInv, CallsFit
      <4> QED
        BY <2>4, <2>6, <2>7, <4>1 DEF CallOn
    <3> QED
      BY <3>1, <3>2, <3>3
  <2>11. /\ sweep' \in Sweep /\ mcall' \in [MediaCalls -> MediaCall] /\ avatar' \in Assets \cup {NoAsset}
         /\ object' = [object EXCEPT ![a] = o] /\ mediaOps' \in 0..MaxMediaOps /\ NewIsUnnamed'
    BY <1>3, <1>4, <2>2, MediaKnown, ReturnedUnnamed
  <2>12. sweep'.todo \subseteq sweep.todo /\ sweep'.deleted \in {sweep.deleted, NoAsset} /\ (sweep'.deleted = a => o = "none")
    BY <1>3, <1>4, <2>2, MediaKnown
  <2> QED
    BY <1>4, <2>1, <2>4, <2>5, <2>8, <2>9, <2>10, <2>11, <2>12, RowStepInv
<1> QED
  BY <1>5, <1>6

LEMMA CommitDeleteInv ==
  ASSUME MediaInv, NEW c \in MediaCalls, CommitDelete(c)
  PROVE  MediaInv'
<1>1. PICK a : a = mcall[c].a
  OBVIOUS
<1>2. a \in Assets /\ ReturnMedia(c) /\ UNCHANGED <<object, sweep, mediaOps>>
  BY <1>1 DEF CommitDelete, MediaInv, CallsFit, Named
<1>3. CASE ~LiveAsset(a)
  <2>1. media' = media /\ avatar' = avatar
    BY <1>1, <1>3 DEF CommitDelete
  <2> QED
    BY <1>2, <2>1, ReturnMediaInv
<1>4. CASE LiveAsset(a)
  <2>1. PICK m \in AssetRow : m = media[a]
    BY <1>2, MediaKnown
  <2>2. PICK o \in {"none", "good", "bad"} : o = object[a]
    BY <1>2, MediaKnown
  <2>3. PICK n : n = [m EXCEPT !.trash = "deleted"]
    OBVIOUS
  <2>4. n \in AssetRow /\ n.status = m.status /\ n.trash = "deleted" /\ n.url = m.url
    BY <2>1, <2>3 DEF AssetRow
  <2>5. media' = [media EXCEPT ![a] = n] /\ avatar' \in Assets \cup {NoAsset}
    BY <1>1, <1>2, <1>4, <2>1, <2>3, MediaKnown DEF CommitDelete, Trashed, ClearedAvatar
  <2>6. m.status \in {"pending", "ready"} /\ m.trash = "live"
    BY <1>4, <2>1 DEF LiveAsset
  <2>7. RowOn(n, o)
    BY <2>4, <2>6 DEF RowOn
  <2>8. Doomed(m) => Doomed(n)
    BY <2>4 DEF Doomed
  <2>9. ASSUME NEW e \in MediaCalls, Named(mcall'[e])
        PROVE  \/ mcall'[e].a = a /\ CallOn(mcall'[e], n, o)
               \/ mcall'[e].a # a /\ mcall'[e] = mcall[e]
    <3>1. e # c /\ mcall'[e] = mcall[e]
      BY <1>2, <2>9, ReturnedUnnamed
    <3>2. PICK d : d = mcall[e]
      OBVIOUS
    <3>3. ASSUME d.a = a PROVE CallOn(d, n, o)
      <4>1. CallOn(d, m, o)
        BY <2>1, <2>2, <2>9, <3>1, <3>2, <3>3 DEF MediaInv, CallsFit
      <4> QED
        BY <2>4, <2>6, <4>1 DEF CallOn
    <3> QED
      BY <3>1, <3>2, <3>3
  <2>10. /\ sweep' \in Sweep /\ mcall' \in [MediaCalls -> MediaCall]
         /\ object' = [object EXCEPT ![a] = o] /\ mediaOps' \in 0..MaxMediaOps /\ NewIsUnnamed'
    BY <1>2, <2>2, MediaKnown, ReturnedUnnamed
  <2>11. sweep'.todo \subseteq sweep.todo /\ sweep'.deleted \in {sweep.deleted, NoAsset} /\ (sweep'.deleted = a => o = "none")
    BY <1>2, <2>2, MediaKnown
  <2>12. n \in AssetRow /\ a \in Assets /\ (Doomed(media[a]) => Doomed(n))
    BY <1>2, <2>1, <2>4, <2>8
  <2> QED
    BY <2>5, <2>7, <2>9, <2>10, <2>11, <2>12, RowStepInv
<1> QED
  BY <1>3, <1>4

(* The upload of an avatar goes on: c becomes d, nobody else names a.      *)
LEMMA UploadGoesOn ==
  ASSUME MediaInv, NEW c \in MediaCalls, Creating(mcall[c]), NEW d \in MediaCall, mcall' = [mcall EXCEPT ![c] = d],
         d.a = mcall[c].a, Named(d)
  PROVE  /\ mcall' \in [MediaCalls -> MediaCall] /\ NewIsUnnamed' /\ mcall'[c] = d
         /\ \A e \in MediaCalls \ {c} : mcall'[e] = mcall[e] /\ mcall'[e].a # d.a
<1>1. mcall \in [MediaCalls -> MediaCall]
  BY DEF MediaInv, MediaTypeOK
<1>2. mcall'[c] = d /\ \A e \in MediaCalls \ {c} : mcall'[e] = mcall[e] /\ mcall'[e].a # d.a
  BY <1>1 DEF MediaInv, NewIsUnnamed
<1>3. NewIsUnnamed'
  BY <1>2 DEF MediaInv, NewIsUnnamed
<1> QED
  BY <1>1, <1>2, <1>3

LEMMA AvatarRowInv ==
  ASSUME MediaInv, NEW c \in MediaCalls, PutAvatar(c) \/ CreateAvatar(c)
  PROVE  MediaInv'
<1>1. PICK b \in MediaCall : b = mcall[c]
  BY DEF MediaInv, MediaTypeOK
<1>2. PICK a : a = b.a
  OBVIOUS
<1>3. Creating(b) /\ UNCHANGED <<avatar, sweep, mediaOps>>
  BY <1>1 DEF PutAvatar, CreateAvatar, Creating
<1>4. a \in Assets /\ CallOn(b, media[a], object[a]) /\ media[a].status = "none"
  BY <1>1, <1>2, <1>3 DEF MediaInv, CallsFit, Named, Creating, CallOn
<1>5. PICK m \in AssetRow : m = media[a]
  BY <1>4, MediaKnown
<1>6. m.status = "none" /\ m.url = "none" /\ m.trash = "live" /\ ~Doomed(m)
  BY <1>4, <1>5, MediaKnown DEF RowOn, Doomed
<1>7. /\ sweep' \in Sweep /\ avatar' \in Assets \cup {NoAsset} /\ mediaOps' \in 0..MaxMediaOps
      /\ sweep'.todo \subseteq sweep.todo /\ sweep'.deleted \in {sweep.deleted, NoAsset} /\ sweep'.deleted # a
  BY <1>3, <1>4, <1>5, <1>6, MediaKnown
<1>8. CASE PutAvatar(c)
  <2>1. PICK d : d = [b EXCEPT !.pc = "create"]
    OBVIOUS
  <2>2. d \in MediaCall /\ d.pc = "create" /\ d.a = a /\ Named(d)
    BY <1>1, <1>2, <2>1 DEF MediaCall, Named
  <2>3. mcall' = [mcall EXCEPT ![c] = d] /\ object' = [object EXCEPT ![a] = "good"] /\ media' = [media EXCEPT ![a] = m]
    BY <1>1, <1>2, <1>4, <1>5, <1>8, <2>1, MediaKnown DEF PutAvatar
  <2>4. /\ mcall' \in [MediaCalls -> MediaCall] /\ NewIsUnnamed' /\ mcall'[c] = d
        /\ \A e \in MediaCalls \ {c} : mcall'[e] = mcall[e] /\ mcall'[e].a # a
    <3>1. Creating(mcall[c]) /\ d.a = mcall[c].a
      BY <1>1, <1>2, <1>3, <2>2
    <3>2. /\ mcall' \in [MediaCalls -> MediaCall] /\ NewIsUnnamed' /\ mcall'[c] = d
          /\ \A e \in MediaCalls \ {c} : mcall'[e] = mcall[e] /\ mcall'[e].a # d.a
      BY <2>2, <2>3, <3>1, UploadGoesOn
    <3> QED
      BY <2>2, <3>2
  <2>5. CallOn(d, m, "good") /\ RowOn(m, "good")
    BY <1>6, <2>2 DEF CallOn, RowOn, Creating, Rewriting
  <2>6. \A e \in MediaCalls : Named(mcall'[e]) => \/ mcall'[e].a = a /\ CallOn(mcall'[e], m, "good")
                                                  \/ mcall'[e].a # a /\ mcall'[e] = mcall[e]
    <3>1. mcall'[c].a = a /\ CallOn(mcall'[c], m, "good")
      BY <2>2, <2>4, <2>5
    <3>2. \A e \in MediaCalls \ {c} : mcall'[e].a # a /\ mcall'[e] = mcall[e]
      BY <2>4
    <3> QED
      BY <3>1, <3>2, Zenon
  <2> QED
    BY <1>4, <1>5, <1>7, <2>3, <2>4, <2>5, <2>6, RowStepInv
<1>9. CASE CreateAvatar(c)
  <2>1. PICK d : d = [b EXCEPT !.pc = "set"]
    OBVIOUS
  <2>2. d \in MediaCall /\ d.pc = "set" /\ d.a = a /\ Named(d)
    BY <1>1, <1>2, <2>1 DEF MediaCall, Named
  <2>3. PICK n : n = [NoAssetRow EXCEPT !.status = "ready", !.avatarTag = TRUE]
    OBVIOUS
  <2>4. n \in AssetRow /\ n.status = "ready" /\ n.url = "none" /\ n.trash = "live"
    BY <2>3, MediaNothing DEF AssetRow
  <2>5. PICK o \in {"none", "good", "bad"} : o = object[a]
    BY <1>4, MediaKnown
  <2>6. mcall' = [mcall EXCEPT ![c] = d] /\ object' = [object EXCEPT ![a] = o] /\ media' = [media EXCEPT ![a] = n]
    BY <1>1, <1>2, <1>4, <1>9, <2>1, <2>3, <2>5, MediaKnown DEF CreateAvatar
  <2>7. /\ mcall' \in [MediaCalls -> MediaCall] /\ NewIsUnnamed' /\ mcall'[c] = d
        /\ \A e \in MediaCalls \ {c} : mcall'[e] = mcall[e] /\ mcall'[e].a # a
    <3>1. Creating(mcall[c]) /\ d.a = mcall[c].a
      BY <1>1, <1>2, <1>3, <2>2
    <3>2. /\ mcall' \in [MediaCalls -> MediaCall] /\ NewIsUnnamed' /\ mcall'[c] = d
          /\ \A e \in MediaCalls \ {c} : mcall'[e] = mcall[e] /\ mcall'[e].a # d.a
      BY <2>2, <2>6, <3>1, UploadGoesOn
    <3> QED
      BY <2>2, <3>2
  <2>8. o # "none"
    BY <1>1, <1>4, <1>9, <2>5 DEF CreateAvatar, CallOn
  <2>9. CallOn(d, n, o) /\ RowOn(n, o)
    BY <2>2, <2>4, <2>8 DEF CallOn, RowOn, Creating, Rewriting
  <2>10. \A e \in MediaCalls : Named(mcall'[e]) => \/ mcall'[e].a = a /\ CallOn(mcall'[e], n, o)
                                                   \/ mcall'[e].a # a /\ mcall'[e] = mcall[e]
    <3>1. mcall'[c].a = a /\ CallOn(mcall'[c], n, o)
      BY <2>2, <2>7, <2>9
    <3>2. \A e \in MediaCalls \ {c} : mcall'[e].a # a /\ mcall'[e] = mcall[e]
      BY <2>7
    <3> QED
      BY <3>1, <3>2, Zenon
  <2>11. /\ n \in AssetRow /\ a \in Assets /\ (Doomed(media[a]) => Doomed(n)) /\ RowOn(n, o)
         /\ (sweep'.deleted = a => o = "none")
    BY <1>4, <1>5, <1>6, <1>7, <2>4, <2>9
  <2> QED
    <3>1. /\ mcall' \in [MediaCalls -> MediaCall] /\ NewIsUnnamed'
          /\ \A e \in MediaCalls : Named(mcall'[e]) => \/ mcall'[e].a = a /\ CallOn(mcall'[e], n, o)
                                                       \/ mcall'[e].a # a /\ mcall'[e] = mcall[e]
      BY <2>7, <2>10
    <3> QED
      <4>1. n \in AssetRow /\ o \in {"none", "good", "bad"} /\ a \in Assets
        BY <2>11
      <4>2. media' = [media EXCEPT ![a] = n] /\ object' = [object EXCEPT ![a] = o] /\ RowOn(n, o)
        BY <2>6, <2>11
      <4>3. avatar' \in Assets \cup {NoAsset} /\ mediaOps' \in 0..MaxMediaOps /\ sweep' \in Sweep /\ sweep'.todo \subseteq sweep.todo
        BY <1>7
      <4>4. sweep'.deleted \in {sweep.deleted, NoAsset} \/ (sweep'.deleted = a /\ Doomed(media[a]))
        BY <1>7
      <4>5. (sweep'.deleted = a => o = "none") /\ (Doomed(media[a]) => Doomed(n))
        BY <2>11
      <4> QED
        BY <3>1, <4>1, <4>2, <4>3, <4>4, <4>5, RowStepInv
<1> QED
  BY <1>8, <1>9

(* Time passes for an asset, or its uploader puts a file.                  *)
LEMMA AssetStepInv ==
  ASSUME MediaInv, NEW a \in Assets, PutPresigned(a) \/ UrlExpires(a) \/ GracePasses(a) \/ RetentionPasses(a)
  PROVE  MediaInv'
<1>1. PICK m \in AssetRow : m = media[a]
  BY MediaKnown
<1>2. PICK p \in {"none", "good", "bad"} : p = object[a]
  BY MediaKnown
<1>3. PICK n : n = media'[a]
  OBVIOUS
<1>4. PICK o : o = object'[a]
  OBVIOUS
<1>5. UNCHANGED <<avatar, mcall, sweep, mediaOps>>
  BY DEF PutPresigned, UrlExpires, GracePasses, RetentionPasses
<1>6. media \in [Assets -> AssetRow] /\ object \in [Assets -> {"none", "good", "bad"}] /\ RowOn(m, p)
  BY <1>1, <1>2, MediaKnown DEF MediaInv, MediaTypeOK
<1>7. /\ n \in AssetRow /\ o \in {"none", "good", "bad"} /\ media' = [media EXCEPT ![a] = n] /\ object' = [object EXCEPT ![a] = o]
      /\ n.status = m.status
      /\ \/ n = m /\ m.url = "valid" /\ m.status # "gone" /\ o # "none"
         \/ o = p /\ m.url = "valid" /\ n.url = "expired" /\ n.trash = m.trash
         \/ o = p /\ m.url = "expired" /\ n.url = "lapsed" /\ n.trash = m.trash /\ Untouched(a)
         \/ o = p /\ m.url = n.url /\ n.trash = "old" /\ m.trash = "deleted" /\ m.url # "valid" /\ Untouched(a)
  <2>1. CASE PutPresigned(a)
    BY <1>1, <1>2, <1>3, <1>4, <1>6, <2>1 DEF PutPresigned
  <2>2. CASE UrlExpires(a)
    BY <1>1, <1>2, <1>3, <1>4, <1>6, <2>2 DEF UrlExpires, AssetRow
  <2>3. CASE GracePasses(a)
    BY <1>1, <1>2, <1>3, <1>4, <1>6, <2>3 DEF GracePasses, AssetRow
  <2>4. CASE RetentionPasses(a)
    BY <1>1, <1>2, <1>3, <1>4, <1>6, <2>4 DEF RetentionPasses, AssetRow
  <2> QED
    BY <2>1, <2>2, <2>3, <2>4
<1>8. RowOn(n, o)
  BY <1>6, <1>7 DEF RowOn
<1>9. Doomed(m) => Doomed(n)
  BY <1>7 DEF Doomed
<1>10. ASSUME NEW e \in MediaCalls, Named(mcall'[e])
       PROVE  \/ mcall'[e].a = a /\ CallOn(mcall'[e], n, o)
              \/ mcall'[e].a # a /\ mcall'[e] = mcall[e]
  <2>1. mcall'[e] = mcall[e]
    BY <1>5
  <2>2. PICK d : d = mcall[e]
    OBVIOUS
  <2>3. ASSUME d.a = a PROVE CallOn(d, n, o)
    <3>1. CallOn(d, m, p) /\ ~Untouched(a)
      BY <1>1, <1>2, <1>10, <2>1, <2>2, <2>3 DEF MediaInv, CallsFit, Untouched
    <3> QED
      BY <1>7, <3>1 DEF CallOn
  <2> QED
    BY <2>1, <2>2, <2>3
<1>11. /\ sweep' \in Sweep /\ mcall' \in [MediaCalls -> MediaCall] /\ avatar' \in Assets \cup {NoAsset}
       /\ mediaOps' \in 0..MaxMediaOps /\ sweep'.todo \subseteq sweep.todo /\ sweep'.deleted \in {sweep.deleted, NoAsset}
  BY <1>5, MediaKnown
<1>12. NewIsUnnamed'
  BY <1>5 DEF MediaInv, NewIsUnnamed
<1>13. sweep'.deleted = a => o = "none"
  BY <1>1, <1>2, <1>5, <1>7, MediaKnown DEF Doomed
<1> QED
  BY <1>1, <1>7, <1>8, <1>9, <1>10, <1>11, <1>12, <1>13, RowStepInv

(* Only the cleanup moves.                                                 *)
LEMMA SweepStepInv ==
  ASSUME MediaInv, UNCHANGED <<media, object, avatar, mcall, mediaOps>>, sweep' \in Sweep, SweepFits'
  PROVE  MediaInv'
BY DEF MediaInv, MediaTypeOK, RowsFit, CallsFit, NewIsUnnamed

LEMMA SweepListsInv ==
  ASSUME MediaInv, ListOrphans \/ DeleteObjectFails \/ SweepStops
  PROVE  MediaInv'
<1>1. UNCHANGED <<media, object, avatar, mcall, mediaOps>>
  BY DEF ListOrphans, DeleteObjectFails, SweepStops
<1>2. sweep \in Sweep
  BY DEF MediaInv, MediaTypeOK
<1>3. CASE sweep' = NoSweep
  BY <1>1, <1>3, MediaNothing, SweepStepInv DEF SweepFits
<1>4. ASSUME NEW p \in {"abandoned", "trashed"}, NEW S \in SUBSET Assets, sweep' = [NoSweep EXCEPT !.pass = p, !.todo = S],
             \A a \in S : Doomed(media[a])
      PROVE  MediaInv'
  <2>1. sweep' \in Sweep /\ sweep'.todo = S /\ sweep'.deleted = NoAsset
    BY <1>4, MediaNothing DEF Sweep
  <2>2. SweepFits'
    BY <1>1, <1>4, <2>1 DEF SweepFits
  <2> QED
    BY <1>1, <2>1, <2>2, SweepStepInv
<1>5. \A a \in Abandoned : Doomed(media[a])
  BY DEF Abandoned, LiveAsset, Doomed
<1>6. \A a \in OldTrash : Doomed(media[a])
  BY DEF OldTrash, Doomed, MediaInv, RowsFit, RowOn
<1>7. Abandoned \in SUBSET Assets /\ OldTrash \in SUBSET Assets
  BY DEF Abandoned, OldTrash
<1>8. CASE DeleteObjectFails
  <2>1. PICK a \in sweep.todo : sweep' = [sweep EXCEPT !.todo = @ \ {a}]
    BY <1>8 DEF DeleteObjectFails, AfterFailedDelete
  <2>2. sweep' \in Sweep /\ sweep'.todo \subseteq sweep.todo /\ sweep'.deleted = sweep.deleted
    BY <1>2, <2>1 DEF Sweep
  <2>3. SweepFits'
    BY <1>1, <2>2 DEF MediaInv, SweepFits
  <2> QED
    BY <1>1, <2>2, <2>3, SweepStepInv
<1>9. CASE ListOrphans
  <2>1. CASE sweep.pass = "idle"
    <3>1. sweep' = [NoSweep EXCEPT !.pass = "abandoned", !.todo = Abandoned]
      BY <1>9, <2>1 DEF ListOrphans
    <3> QED
      BY <1>4, <1>5, <1>7, <3>1
  <2>2. CASE sweep.pass = "abandoned"
    <3>1. sweep' = [NoSweep EXCEPT !.pass = "trashed", !.todo = OldTrash]
      BY <1>9, <2>2 DEF ListOrphans
    <3> QED
      BY <1>4, <1>6, <1>7, <3>1
  <2>3. CASE sweep.pass = "trashed"
    <3>1. sweep' = NoSweep
      BY <1>9, <2>3 DEF ListOrphans
    <3> QED
      BY <1>3, <3>1
  <2> QED
    BY <1>2, <2>1, <2>2, <2>3 DEF Sweep
<1> QED
  BY <1>3, <1>8, <1>9 DEF SweepStops

LEMMA PurgeObjectInv ==
  ASSUME MediaInv, PurgeObject
  PROVE  MediaInv'
<1>1. PICK a \in sweep.todo : object' = [object EXCEPT ![a] = "none"] /\ sweep' = [sweep EXCEPT !.todo = @ \ {a}, !.deleted = a]
  BY DEF PurgeObject
<1>2. UNCHANGED <<media, avatar, mcall, mediaOps>>
  BY DEF PurgeObject
<1>3. a \in Assets /\ Doomed(media[a]) /\ sweep \in Sweep
  BY DEF MediaInv, MediaTypeOK, SweepFits, Sweep
<1>4. PICK m \in AssetRow : m = media[a]
  BY <1>3, MediaKnown
<1>5. PICK p \in {"none", "good", "bad"} : p = object[a]
  BY <1>3, MediaKnown
<1>6. sweep' \in Sweep /\ sweep'.todo \subseteq sweep.todo /\ sweep'.deleted = a
  BY <1>1, <1>3 DEF Sweep
<1>7. RowOn(m, "none")
  BY <1>3, <1>4, MediaKnown DEF RowOn, Doomed
<1>8. ASSUME NEW e \in MediaCalls, Named(mcall'[e])
      PROVE  \/ mcall'[e].a = a /\ CallOn(mcall'[e], m, "none")
             \/ mcall'[e].a # a /\ mcall'[e] = mcall[e]
  <2>1. mcall'[e] = mcall[e]
    BY <1>2
  <2>2. PICK d : d = mcall[e]
    OBVIOUS
  <2>3. ASSUME d.a = a PROVE CallOn(d, m, "none")
    <3>1. CallOn(d, m, p) /\ Doomed(m)
      BY <1>3, <1>4, <1>5, <1>8, <2>1, <2>2, <2>3 DEF MediaInv, CallsFit
    <3> QED
      BY <3>1 DEF CallOn, Doomed, Creating, Rewriting
  <2> QED
    BY <2>1, <2>2, <2>3
<1>9. /\ mcall' \in [MediaCalls -> MediaCall] /\ avatar' \in Assets \cup {NoAsset} /\ mediaOps' \in 0..MaxMediaOps
      /\ media' = [media EXCEPT ![a] = m]
  BY <1>2, <1>3, <1>4, MediaKnown
<1>10. NewIsUnnamed'
  BY <1>2 DEF MediaInv, NewIsUnnamed
<1> QED
  BY <1>1, <1>3, <1>4, <1>6, <1>7, <1>8, <1>9, <1>10, RowStepInv

LEMMA PurgeRowInv ==
  ASSUME MediaInv, PurgeRow
  PROVE  MediaInv'
<1>1. PICK a : a = sweep.deleted
  OBVIOUS
<1>2. sweep.deleted # NoAsset /\ sweep' = [sweep EXCEPT !.deleted = NoAsset] /\ UNCHANGED <<object, mcall, mediaOps>> /\ sweep \in Sweep
  BY DEF PurgeRow, MediaInv, MediaTypeOK
<1>3. a \in Assets /\ Doomed(media[a]) /\ object[a] = "none"
  BY <1>1, <1>2 DEF Sweep, MediaInv, SweepFits
<1>4. sweep' \in Sweep /\ sweep'.todo = sweep.todo /\ sweep'.deleted = NoAsset /\ a # NoAsset
  BY <1>1, <1>2 DEF Sweep
<1>5. CASE media' = media /\ avatar' = avatar
  <2>1. SweepFits'
    BY <1>4, <1>5 DEF SweepFits, MediaInv
  <2> QED
    BY <1>2, <1>4, <1>5, <2>1, SweepStepInv
<1>6. CASE media' = [media EXCEPT ![a].status = "gone"] /\ avatar' = ClearedAvatar(a)
  <2>1. PICK m \in AssetRow : m = media[a]
    BY <1>3, MediaKnown
  <2>2. PICK n : n = [m EXCEPT !.status = "gone"]
    OBVIOUS
  <2>3. n \in AssetRow /\ n.status = "gone" /\ n.trash = m.trash /\ n.url = m.url
    BY <2>1, <2>2 DEF AssetRow
  <2>4. media' = [media EXCEPT ![a] = n] /\ object' = [object EXCEPT ![a] = "none"]
    BY <1>2, <1>3, <1>6, <2>1, <2>2, MediaKnown
  <2>5. Doomed(m) /\ Doomed(n) /\ RowOn(n, "none")
    BY <1>3, <2>1, <2>3, MediaKnown DEF Doomed, RowOn
  <2>6. ASSUME NEW e \in MediaCalls, Named(mcall'[e])
        PROVE  \/ mcall'[e].a = a /\ CallOn(mcall'[e], n, "none")
               \/ mcall'[e].a # a /\ mcall'[e] = mcall[e]
    <3>1. mcall'[e] = mcall[e]
      BY <1>2
    <3>2. PICK d : d = mcall[e]
      OBVIOUS
    <3>3. ASSUME d.a = a PROVE CallOn(d, n, "none")
      <4>1. CallOn(d, m, "none")
        BY <1>3, <2>1, <2>6, <3>1, <3>2, <3>3 DEF MediaInv, CallsFit
      <4> QED
        BY <2>3, <2>5, <4>1 DEF CallOn, Doomed, Creating, Rewriting
    <3> QED
      BY <3>1, <3>2, <3>3
  <2>7. mcall' \in [MediaCalls -> MediaCall] /\ avatar' \in Assets \cup {NoAsset} /\ mediaOps' \in 0..MaxMediaOps
    BY <1>2, <1>3, <1>6, MediaKnown DEF ClearedAvatar
  <2>8. NewIsUnnamed'
    BY <1>2 DEF MediaInv, NewIsUnnamed
  <2> QED
    BY <1>3, <1>4, <2>1, <2>3, <2>4, <2>5, <2>6, <2>7, <2>8, RowStepInv
<1> QED
  BY <1>1, <1>5, <1>6 DEF PurgeRow

LEMMA MediaNextInv ==
  ASSUME MediaInv, [MediaNext]_mediaVars
  PROVE  MediaInv'
<1>1. CASE UNCHANGED mediaVars
  BY <1>1 DEF mediaVars, MediaInv, MediaTypeOK, RowsFit, CallsFit, NewIsUnnamed, SweepFits
<1>2. ASSUME NEW c \in MediaCalls, MediaCallFails(c) PROVE MediaInv'
  BY <1>2, ReturnMediaInv DEF MediaCallFails
<1> QED
  BY <1>1, <1>2, PresignUploadInv, MediaBeginInv, InspectObjectInv, SaveAssetInv, CommitDeleteInv, AvatarBeginInv,
     AvatarRowInv, SetAvatarInv, RemoveOwnedAvatarInv, AssetStepInv, SweepListsInv, PurgeObjectInv, PurgeRowInv
     DEF MediaNext

(* Rows and objects of the media library agree, for any number of assets   *)
(* and overlapping requests: what is served is in the bucket, and a purged *)
(* row leaves no object behind (CompleteUpload, UpdateTags, PurgeOrphans). *)
THEOREM MediaIsSound == MediaSpec => []MediaInvariant
<1>1. MediaInv => MediaInvariant
  BY DEF MediaInv, MediaInvariant, RowsFit, RowOn, ReadyIsStored, GetReady, LiveAsset, PurgedLeavesNothing
<1> QED
  BY <1>1, MediaInitInv, MediaNextInv, PTL DEF MediaSpec

-----------------------------------------------------------------------------
(* Profiles.  What has been promised to later reads is what the cache no   *)
(* longer holds anything older than, and a read starts from both: so the   *)
(* view a visit is answered with is among those since the promise.         *)

VisitSound(x, n) ==
  /\ x.since <= x.from
  /\ x.pc # "idle" => x.since > 0
  /\ x.pc = "load" => x.from \in 1..n
  /\ x.pc = "shown" => \E i \in x.since..n : ShownTo(views[i], x.owner)

ProfilesInv ==
  /\ ProfilesTypeOK
  /\ promised <= cacheFloor /\ cacheFloor <= Len(views)
  /\ \A c \in ProfileCalls : profileCall[c].wrote <= Len(views)
  /\ \A v \in Visitors : VisitSound(visit[v], Len(views))

LEMMA ProfileTypes ==
  /\ DefaultView \in ProfileView /\ [DefaultView EXCEPT !.active = FALSE] \in ProfileView
  /\ NoProfileCall \in ProfileCall /\ NoProfileCall.wrote = 0 /\ NoVisit \in Visit
<1>1. DefaultView \in ProfileView
  BY DEF DefaultView, ProfileView, Privacy, Reach
<1>2. [DefaultView EXCEPT !.active = FALSE] \in ProfileView
  <2>1. PICK d : d = DefaultView
    OBVIOUS
  <2>2. [d EXCEPT !.active = FALSE] \in ProfileView
    BY <1>1, <2>1 DEF ProfileView
  <2> QED
    BY <2>1, <2>2
<1> QED
  BY <1>1, <1>2, ProfileBounds DEF NoProfileCall, ProfileCall, NoVisit, Visit

(* Patches keep the shape of what they are applied to.                     *)
LEMMA PatchTypes ==
  /\ \A view \in ProfileView, patch \in ProfilePatches : Patched(view, patch) \in ProfileView
  /\ \A p \in Privacy, patch \in PrivacyPatches : ApplyPrivacy(p, patch) \in Privacy
<1>1. ASSUME NEW view \in ProfileView, NEW patch \in ProfilePatches
      PROVE  Patched(view, patch) \in ProfileView
  <2>1. DOMAIN view = {"consent", "privacy", "active"}
    BY DEF ProfileView
  <2>2. CASE patch = <<>>
    <3>1. DOMAIN patch = {}
      BY <2>2
    <3>2. Patched(view, patch) = [x \in {"consent", "privacy", "active"} |-> view[x]]
      BY <2>1, <3>1 DEF Patched
    <3> QED
      BY <3>2 DEF ProfileView
  <2>3. CASE patch \in [{"consent"} -> BOOLEAN]
    <3>1. DOMAIN patch = {"consent"}
      BY <2>3
    <3>2. Patched(view, patch) = [x \in {"consent", "privacy", "active"} |-> IF x = "consent" THEN patch[x] ELSE view[x]]
      BY <2>1, <3>1 DEF Patched
    <3>3. PICK b \in BOOLEAN : b = patch["consent"]
      BY <2>3
    <3> QED
      BY <3>2, <3>3 DEF ProfileView
  <2> QED
    BY <2>2, <2>3 DEF ProfilePatches
<1>2. ASSUME NEW p \in Privacy, NEW patch \in PrivacyPatches
      PROVE  ApplyPrivacy(p, patch) \in Privacy
  <2>1. DOMAIN p = {"reach", "email"}
    BY DEF Privacy
  <2>2. CASE patch \in [{"reach"} -> Reach]
    <3>1. DOMAIN patch = {"reach"} /\ patch["reach"] \in Reach
      BY <2>2
    <3>2. ApplyPrivacy(p, patch) = [x \in {"reach", "email"} |-> IF x = "reach" THEN patch[x] ELSE p[x]]
      BY <2>1, <3>1 DEF ApplyPrivacy
    <3> QED
      BY <3>1, <3>2 DEF Privacy
  <2>3. CASE patch \in [{"email"} -> BOOLEAN]
    <3>1. DOMAIN patch = {"email"}
      BY <2>3
    <3>2. ApplyPrivacy(p, patch) = [x \in {"reach", "email"} |-> IF x = "email" THEN patch[x] ELSE p[x]]
      BY <2>1, <3>1 DEF ApplyPrivacy
    <3>3. PICK b \in BOOLEAN : b = patch["email"]
      BY <2>3
    <3> QED
      BY <3>2, <3>3 DEF Privacy
  <2> QED
    BY <2>2, <2>3 DEF PrivacyPatches
<1> QED
  BY <1>1, <1>2

(* A view is committed: the visits under way are still answered from views *)
(* since their promise.                                                    *)
LEMMA ViewAppended ==
  ASSUME ProfilesInv, NEW c \in ProfileCalls, NEW view \in ProfileView, CommitView(c, view),
         UNCHANGED <<cacheFloor, promised, visit>>,
         privacyLog' \in Seq([before : Privacy, after : Privacy, proof : BOOLEAN])
  PROVE  ProfilesInv'
<1>1. PICK n \in Nat : n = Len(views)
  BY DEF ProfilesInv, ProfilesTypeOK
<1>2. /\ views \in Seq(ProfileView) /\ n \in 1..MaxViews /\ n < MaxViews
      /\ views' \in Seq(ProfileView) /\ Len(views') = n + 1 /\ \A i \in 1..n : views'[i] = views[i]
  BY <1>1, ProfileBounds DEF ProfilesInv, ProfilesTypeOK, CommitView
<1>3. PICK d : d = [NoProfileCall EXCEPT !.pc = "invalidate", !.wrote = n + 1]
  OBVIOUS
<1>4. d \in ProfileCall /\ d.wrote = n + 1
  <2>1. PICK e \in ProfileCall : e = NoProfileCall
    BY ProfileTypes
  <2>2. PICK m \in 0..MaxViews : m = n + 1
    BY <1>2, ProfileBounds
  <2>3. d = [e EXCEPT !.pc = "invalidate", !.wrote = m]
    BY <1>3, <2>1, <2>2
  <2>4. d \in ProfileCall /\ d.wrote = m
    BY <2>1, <2>3 DEF ProfileCall
  <2> QED
    BY <2>2, <2>4
<1>5. profileCall' = [profileCall EXCEPT ![c] = d]
  BY <1>1, <1>3 DEF CommitView
<1>6. ProfilesTypeOK'
  BY <1>2, <1>4, <1>5, ProfileBounds DEF ProfilesInv, ProfilesTypeOK
<1>7. promised' <= cacheFloor' /\ cacheFloor' <= Len(views')
  BY <1>1, <1>2, ProfileBounds DEF ProfilesInv, ProfilesTypeOK
<1>8. \A k \in ProfileCalls : profileCall'[k].wrote <= Len(views')
  BY <1>1, <1>2, <1>4, <1>5, ProfileBounds DEF ProfilesInv, ProfilesTypeOK, ProfileCall
<1>9. ASSUME NEW v \in Visitors
      PROVE  VisitSound(visit[v], n + 1)'
  <2>1. PICK x \in Visit : x = visit[v]
    BY DEF ProfilesInv, ProfilesTypeOK
  <2>2. x.since \in Nat /\ x.from \in Nat
    BY <2>1, ProfileBounds DEF Visit
  <2>3. VisitSound(x, n)
    BY <1>1, <2>1 DEF ProfilesInv
  <2>4. x.pc = "load" => x.from \in 1..n + 1
    BY <1>2, <2>2, <2>3 DEF VisitSound
  <2>5. ASSUME x.pc = "shown" PROVE \E i \in x.since..n + 1 : ShownTo(views'[i], x.owner)
    <3>1. PICK i \in x.since..n : ShownTo(views[i], x.owner)
      BY <2>3, <2>5 DEF VisitSound
    <3>2. i \in x.since..n + 1 /\ views'[i] = views[i]
      BY <1>2, <2>2, <2>3, <2>5, <3>1 DEF VisitSound
    <3> QED
      BY <3>1, <3>2 DEF ShownTo
  <2> QED
    BY <2>1, <2>3, <2>4, <2>5 DEF VisitSound
<1>10. \A v \in Visitors : VisitSound(visit[v], Len(views))'
  BY <1>2, <1>9
<1> QED
  BY <1>6, <1>7, <1>8, <1>10 DEF ProfilesInv

(* A call that only reads, or ends.                                        *)
LEMMA CallChanged ==
  ASSUME ProfilesInv, NEW c \in ProfileCalls, NEW d \in ProfileCall, d.wrote = 0,
         profileCall' = [profileCall EXCEPT ![c] = d], UNCHANGED <<views, visit, privacyLog>>,
         promised' \in 1..MaxViews, cacheFloor' \in 1..MaxViews,
         promised' <= cacheFloor', cacheFloor' <= Len(views)
  PROVE  ProfilesInv'
<1>1. ProfilesTypeOK'
  BY DEF ProfilesInv, ProfilesTypeOK
<1>2. \A k \in ProfileCalls : profileCall'[k].wrote <= Len(views')
  <2>1. \A k \in ProfileCalls : profileCall'[k] = profileCall[k] \/ profileCall'[k].wrote = 0
    BY DEF ProfilesInv, ProfilesTypeOK
  <2>2. Len(views) \in Nat
    BY DEF ProfilesInv, ProfilesTypeOK
  <2> QED
    BY <2>1, <2>2 DEF ProfilesInv
<1>3. \A v \in Visitors : VisitSound(visit[v], Len(views))'
  <2>1. \A v \in Visitors : VisitSound(visit[v], Len(views))
    BY DEF ProfilesInv
  <2> QED
    BY <2>1 DEF VisitSound
<1> QED
  BY <1>1, <1>2, <1>3 DEF ProfilesInv

LEMMA WriteInv ==
  ASSUME ProfilesInv, NEW c \in ProfileCalls,
         \/ UpdateProfile(c) \/ SaveProfile(c) \/ UpdatePrivacy(c) \/ SavePrivacy(c)
         \/ EraseProfile(c) \/ ProfileCallFails(c) \/ InvalidateUsers(c) \/ InvalidateUsersFails(c)
  PROVE  ProfilesInv'
<1>1. PICK n \in Nat : n = Len(views) /\ n \in 1..MaxViews
  BY DEF ProfilesInv, ProfilesTypeOK
<1>2. PICK w \in ProfileView : w = CurrentView
  BY <1>1 DEF ProfilesInv, ProfilesTypeOK, CurrentView, Last
<1>3. PICK e \in ProfileCall : e = NoProfileCall /\ e.wrote = 0
  BY ProfileTypes
<1>4. PICK d \in ProfileCall : d = profileCall[c] /\ d.wrote <= n
  BY <1>1 DEF ProfilesInv, ProfilesTypeOK
<1>5. /\ promised \in 1..MaxViews /\ cacheFloor \in 1..MaxViews
      /\ promised <= cacheFloor /\ cacheFloor <= Len(views)
      /\ privacyLog \in Seq([before : Privacy, after : Privacy, proof : BOOLEAN])
  BY <1>1 DEF ProfilesInv, ProfilesTypeOK
<1>6. CASE UpdateProfile(c)
  <2>1. PICK patch \in ProfilePatches :
          profileCall' = [profileCall EXCEPT ![c] = [NoProfileCall EXCEPT !.pc = "profile",
              !.read = CurrentView, !.next = Patched(CurrentView, patch)]]
    BY <1>6 DEF UpdateProfile
  <2>2. PICK x \in ProfileView : x = Patched(CurrentView, patch)
    BY <1>2, PatchTypes
  <2>3. PICK f : f = [e EXCEPT !.pc = "profile", !.read = w, !.next = x]
    OBVIOUS
  <2>4. f \in ProfileCall /\ f.wrote = 0
    BY <1>3, <2>2, <2>3 DEF ProfileCall
  <2>5. profileCall' = [profileCall EXCEPT ![c] = f]
    BY <1>2, <1>3, <2>1, <2>2, <2>3
  <2>6. UNCHANGED <<views, visit, privacyLog, promised, cacheFloor>>
    BY <1>6 DEF UpdateProfile
  <2> QED
    BY <1>1, <1>5, <2>4, <2>5, <2>6, CallChanged
<1>7. CASE SaveProfile(c)
  <2>1. PICK b \in BOOLEAN : b = d.next.consent
    BY <1>4 DEF ProfileCall, ProfileView
  <2>2. PICK x : x = [w EXCEPT !.consent = b]
    OBVIOUS
  <2>3. x \in ProfileView
    BY <1>2, <2>1, <2>2 DEF ProfileView
  <2>4. CommitView(c, x)
    BY <1>2, <1>4, <1>7, <2>1, <2>2 DEF SaveProfile
  <2>5. UNCHANGED <<cacheFloor, promised, privacyLog, visit>>
    BY <1>7 DEF SaveProfile
  <2> QED
    BY <1>5, <2>3, <2>4, <2>5, ViewAppended
<1>8. CASE UpdatePrivacy(c)
  <2>1. PICK patch \in PrivacyPatches : \E x, b :
          /\ x = ApplyPrivacy(w.privacy, patch)
          /\ b = Narrows(w.privacy.reach, x.reach)
          /\ profileCall' = [profileCall EXCEPT ![c] = [NoProfileCall EXCEPT !.pc = "privacy",
                 !.read = CurrentView, !.next = [CurrentView EXCEPT !.privacy = x], !.proof = b]]
    BY <1>2, <1>8 DEF UpdatePrivacy
  <2>2. PICK x, b :
          /\ x = ApplyPrivacy(w.privacy, patch)
          /\ b = Narrows(w.privacy.reach, x.reach)
          /\ profileCall' = [profileCall EXCEPT ![c] = [NoProfileCall EXCEPT !.pc = "privacy",
                 !.read = CurrentView, !.next = [CurrentView EXCEPT !.privacy = x], !.proof = b]]
    BY <2>1
  <2>3. w.privacy \in Privacy /\ x \in Privacy
    BY <1>2, <2>2, PatchTypes DEF ProfileView
  <2>4. b \in BOOLEAN
    <3>1. b = Narrows(w.privacy.reach, x.reach)
      BY <2>2
    <3>2. CASE x.reach < w.privacy.reach
      <4>1. b = TRUE
        BY <3>1, <3>2 DEF Narrows
      <4> QED
        BY <4>1
    <3>3. CASE ~(x.reach < w.privacy.reach)
      <4>1. FALSE = (x.reach < w.privacy.reach)
        BY <3>3
      <4>2. FALSE = Narrows(w.privacy.reach, x.reach)
        BY <4>1 DEF Narrows
      <4>3. b = FALSE
        BY <3>1, <4>2
      <4> QED
        BY <4>3
    <3> QED
      BY <3>2, <3>3
  <2>5. PICK y : y = [w EXCEPT !.privacy = x]
    OBVIOUS
  <2>6. y \in ProfileView
    BY <1>2, <2>3, <2>5 DEF ProfileView
  <2>7. PICK f : f = [e EXCEPT !.pc = "privacy", !.read = w, !.next = y, !.proof = b]
    OBVIOUS
  <2>8. f \in ProfileCall /\ f.wrote = 0
    BY <1>2, <1>3, <2>4, <2>6, <2>7 DEF ProfileCall
  <2>9. profileCall' = [profileCall EXCEPT ![c] = f]
    BY <1>2, <1>3, <2>2, <2>5, <2>7
  <2>10. UNCHANGED <<views, visit, privacyLog, promised, cacheFloor>>
    BY <1>8 DEF UpdatePrivacy
  <2> QED
    BY <1>1, <1>5, <2>8, <2>9, <2>10, CallChanged
<1>9. CASE SavePrivacy(c)
  <2>1. PICK p \in Privacy : p = d.next.privacy
    BY <1>4 DEF ProfileCall, ProfileView
  <2>2. PICK x : x = [w EXCEPT !.privacy = p]
    OBVIOUS
  <2>3. x \in ProfileView
    BY <1>2, <2>1, <2>2 DEF ProfileView
  <2>4. CommitView(c, x)
    BY <1>2, <1>4, <1>9, <2>1, <2>2 DEF SavePrivacy
  <2>5. UNCHANGED <<cacheFloor, promised, visit>>
    BY <1>9 DEF SavePrivacy
  <2>6. PICK r : r = [before |-> d.read.privacy, after |-> p, proof |-> d.proof]
    OBVIOUS
  <2>7. r \in [before : Privacy, after : Privacy, proof : BOOLEAN]
    <3>1. d.read.privacy \in Privacy /\ d.proof \in BOOLEAN
      BY <1>4 DEF ProfileCall, ProfileView
    <3> QED
      BY <2>1, <2>6, <3>1
  <2>8. privacyLog' = Append(privacyLog, r)
    BY <1>4, <1>9, <2>1, <2>6 DEF SavePrivacy
  <2>9. privacyLog' \in Seq([before : Privacy, after : Privacy, proof : BOOLEAN])
    BY <1>5, <2>7, <2>8
  <2> QED
    BY <2>3, <2>4, <2>5, <2>9, ViewAppended
<1>10. CASE EraseProfile(c)
  BY <1>5, <1>10, ProfileTypes, ViewAppended DEF EraseProfile
<1>11. CASE ProfileCallFails(c)
  <2>1. profileCall' = [profileCall EXCEPT ![c] = e] /\ UNCHANGED <<views, visit, privacyLog, promised, cacheFloor>>
    BY <1>3, <1>11 DEF ProfileCallFails
  <2> QED
    BY <1>1, <1>3, <1>5, <2>1, CallChanged
<1>12. CASE InvalidateUsers(c)
  <2>1. profileCall' = [profileCall EXCEPT ![c] = e] /\ UNCHANGED <<views, visit, privacyLog>>
    BY <1>3, <1>12 DEF InvalidateUsers
  <2>2. cacheFloor' = n /\ (promised' = promised \/ (promised' = d.wrote /\ d.wrote > promised))
    BY <1>1, <1>4, <1>12 DEF InvalidateUsers, Invalidated
  <2>3. d.wrote \in Nat
    BY <1>4, ProfileBounds DEF ProfileCall
  <2>4. promised' \in 1..MaxViews /\ cacheFloor' \in 1..MaxViews /\ promised' <= cacheFloor' /\ cacheFloor' <= Len(views)
    BY <1>1, <1>4, <1>5, <2>2, <2>3, ProfileBounds
  <2> QED
    BY <1>1, <1>3, <2>1, <2>4, CallChanged
<1>13. CASE InvalidateUsersFails(c)
  <2>1. profileCall' = [profileCall EXCEPT ![c] = e] /\ UNCHANGED <<views, visit, privacyLog, promised, cacheFloor>>
    BY <1>3, <1>13 DEF InvalidateUsersFails
  <2> QED
    BY <1>1, <1>3, <1>5, <2>1, CallChanged
<1> QED
  BY <1>6, <1>7, <1>8, <1>9, <1>10, <1>11, <1>12, <1>13

LEMMA VisitInv ==
  ASSUME ProfilesInv, NEW v \in Visitors, BeginVisit(v) \/ ServeProfile(v) \/ EndVisit(v)
  PROVE  ProfilesInv'
<1>1. UNCHANGED <<views, cacheFloor, promised, profileCall, privacyLog>>
  BY DEF BeginVisit, ServeProfile, EndVisit
<1>2. PICK n \in Nat : n = Len(views) /\ n \in 1..MaxViews
  BY DEF ProfilesInv, ProfilesTypeOK
<1>3. PICK x \in Visit : x = visit[v] /\ VisitSound(x, n)
  BY <1>2 DEF ProfilesInv, ProfilesTypeOK
<1>4. PICK a \in 1..MaxViews, b \in 1..MaxViews : a = promised /\ b = cacheFloor /\ a <= b /\ b <= n
  BY <1>2 DEF ProfilesInv, ProfilesTypeOK
<1>5. \E y \in Visit : visit' = [visit EXCEPT ![v] = y] /\ VisitSound(y, n)
  <2>1. CASE BeginVisit(v)
    <3>1. PICK o \in BOOLEAN : visit' = [visit EXCEPT ![v] = [pc |-> "load", owner |-> o, from |-> b, since |-> a]]
      BY <1>4, <2>1 DEF BeginVisit
    <3>2. PICK y : y = [pc |-> "load", owner |-> o, from |-> b, since |-> a]
      OBVIOUS
    <3>3. y \in Visit
      BY <3>1, <3>2, ProfileBounds DEF Visit
    <3>4. VisitSound(y, n)
      BY <1>2, <1>4, <3>2, ProfileBounds DEF VisitSound
    <3> QED
      BY <3>1, <3>2, <3>3, <3>4
  <2>2. CASE ServeProfile(v)
    <3>1. PICK i \in x.from..n :
            visit' = [visit EXCEPT ![v].pc = IF ShownTo(views[i], x.owner) THEN "shown" ELSE "hidden"]
      BY <1>2, <1>3, <2>2 DEF ServeProfile
    <3>2. PICK s : s = IF ShownTo(views[i], x.owner) THEN "shown" ELSE "hidden"
      OBVIOUS
    <3>3. PICK y : y = [x EXCEPT !.pc = s]
      OBVIOUS
    <3>4. y \in Visit /\ y.pc = s /\ y.since = x.since /\ y.from = x.from /\ y.owner = x.owner
      BY <1>3, <3>2, <3>3 DEF Visit
    <3>5. visit' = [visit EXCEPT ![v] = y]
      BY <1>3, <3>1, <3>2, <3>3 DEF ProfilesInv, ProfilesTypeOK
    <3>6. x.since \in Nat /\ x.from \in Nat /\ x.since <= x.from /\ x.since > 0
      BY <1>3, <2>2, ProfileBounds DEF Visit, VisitSound, ServeProfile
    <3>7. i \in x.since..n
      BY <1>2, <3>1, <3>6
    <3>8. s = "shown" => ShownTo(views[i], x.owner)
      BY <3>2
    <3>9. s # "load"
      BY <3>2
    <3>10. VisitSound(y, n)
      BY <3>4, <3>6, <3>7, <3>8, <3>9 DEF VisitSound
    <3> QED
      BY <3>4, <3>5, <3>10
  <2>3. CASE EndVisit(v)
    <3>1. NoVisit \in Visit /\ VisitSound(NoVisit, n)
      BY ProfileTypes DEF NoVisit, VisitSound
    <3> QED
      BY <2>3, <3>1 DEF EndVisit
  <2> QED
    BY <2>1, <2>2, <2>3
<1>6. PICK y \in Visit : visit' = [visit EXCEPT ![v] = y] /\ VisitSound(y, n)
  BY <1>5
<1>7. ProfilesTypeOK'
  BY <1>1, <1>6 DEF ProfilesInv, ProfilesTypeOK
<1>8. \A u \in Visitors : VisitSound(visit'[u], n)
  BY <1>2, <1>6 DEF ProfilesInv, ProfilesTypeOK
<1>9. \A u \in Visitors : VisitSound(visit[u], n)'
  BY <1>1, <1>8 DEF VisitSound
<1> QED
  BY <1>1, <1>2, <1>7, <1>9 DEF ProfilesInv

(* For every number of writers, visitors and views: a profile is shown     *)
(* only if it was visible in some view since the last write that had       *)
(* returned before the visit (UpdatePrivacy, invalidate, Public).          *)
THEOREM HiddenProfilesStayHidden == ProfilesSpec => []ProfilesInvariant
<1>1. ProfilesInit => ProfilesInv
  <2> SUFFICES ASSUME ProfilesInit PROVE ProfilesInv
    OBVIOUS
  <2>1. views \in Seq(ProfileView) /\ Len(views) = 1
    BY ProfileTypes DEF ProfilesInit
  <2>2. ProfilesTypeOK
    BY <2>1, ProfileTypes, ProfileBounds DEF ProfilesInit, ProfilesTypeOK
  <2>3. \A c \in ProfileCalls : profileCall[c].wrote <= Len(views)
    BY <2>1, ProfileTypes DEF ProfilesInit
  <2>4. \A v \in Visitors : VisitSound(visit[v], Len(views))
    BY DEF ProfilesInit, NoVisit, VisitSound
  <2> QED
    BY <2>1, <2>2, <2>3, <2>4 DEF ProfilesInv, ProfilesInit
<1>2. ProfilesInv /\ [ProfilesNext]_profileVars => ProfilesInv'
  <2> SUFFICES ASSUME ProfilesInv, [ProfilesNext]_profileVars PROVE ProfilesInv'
    OBVIOUS
  <2>1. CASE ProfilesNext
    BY <2>1, WriteInv, VisitInv DEF ProfilesNext
  <2>2. CASE UNCHANGED profileVars
    BY <2>2 DEF profileVars, ProfilesInv, ProfilesTypeOK, VisitSound, ShownTo
  <2> QED
    BY <2>1, <2>2
<1>3. ProfilesInv => ProfilesInvariant
  BY DEF ProfilesInv, ProfilesInvariant, HiddenStaysHidden, VisitSound, ShownTo
<1> QED
  BY <1>1, <1>2, <1>3, PTL DEF ProfilesSpec

(* Tags.  Whoever resolves names or replaces links does it for a post, and *)
(* a merge has a tag to merge into; the rest is that a save finds all its  *)
(* tags or fails.                                                          *)
NamesItsRows(call) ==
  /\ call.pc \in {"resolve", "replace"} => call.post \in TaggedPosts
  /\ call.pc \in {"merge", "copied"} => call.b \in TagIDs

TagInv == TagTypeOK /\ \A c \in TagCalls : NamesItsRows(tcall[c])

LEMMA NoTagCallIs == NoTagCall \in TagCall /\ NoTagCall.pc = "idle"
  BY DEF TagCall, NoTagCall

(* A step of one call, whatever it writes to the tables.                   *)
LEMMA TagCallStep ==
  ASSUME TagInv, NEW c \in TagCalls, NEW call \in TagCall, NamesItsRows(call),
         tcall' = [tcall EXCEPT ![c] = call] \/ tcall' = tcall,
         tag' \in [TagIDs -> TagSlugs \cup {NoSlug}], links' \in [TaggedPosts -> SUBSET TagIDs],
         tagOps' \in 0..MaxTagOps
  PROVE  TagInv'
<1>1. tcall \in [TagCalls -> TagCall]
  BY DEF TagInv, TagTypeOK
<1>2. tcall' \in [TagCalls -> TagCall]
  BY <1>1
<1>3. ASSUME NEW q \in TagCalls PROVE NamesItsRows(tcall'[q])
  <2>1. CASE tcall' = tcall \/ q # c
    <3>1. tcall'[q] = tcall[q]
      BY <1>1, <2>1
    <3> QED
      BY <3>1 DEF TagInv
  <2>2. CASE tcall' = [tcall EXCEPT ![c] = call] /\ q = c
    <3>1. tcall'[q] = call
      BY <1>1, <2>2
    <3> QED
      BY <3>1
  <2> QED
    BY <2>1, <2>2
<1> QED
  BY <1>2, <1>3 DEF TagInv, TagTypeOK, NamesItsRows

LEMMA TagKinds ==
  ASSUME TagInv
  PROVE  /\ tag \in [TagIDs -> TagSlugs \cup {NoSlug}] /\ links \in [TaggedPosts -> SUBSET TagIDs]
         /\ tcall \in [TagCalls -> TagCall] /\ tagOps \in 0..MaxTagOps
         /\ MaxTagOps \in Nat /\ NoTag \notin TagIDs /\ NoSlug \notin TagSlugs
  BY TagsAssumption DEF TagInv, TagTypeOK

LEMMA TagRequest ==
  ASSUME TagInv, NEW c \in TagCalls, NEW call \in TagCall, NamesItsRows(call), StartTag(c, call), UNCHANGED <<tag, links>>
  PROVE  TagInv'
<1>1. tagOps' \in 0..MaxTagOps
  BY TagKinds DEF StartTag
<1> QED
  BY <1>1, TagKinds, TagCallStep DEF StartTag

LEMMA TagReturn ==
  ASSUME TagInv, NEW c \in TagCalls, ReturnTag(c), tagOps' = tagOps,
         tag' \in [TagIDs -> TagSlugs \cup {NoSlug}], links' \in [TaggedPosts -> SUBSET TagIDs]
  PROVE  TagInv'
<1>1. NamesItsRows(NoTagCall)
  BY NoTagCallIs DEF NamesItsRows
<1> QED
  BY <1>1, TagKinds, NoTagCallIs, TagCallStep DEF ReturnTag

LEMMA TagStarts ==
  ASSUME TagInv, NEW c \in TagCalls, SavePost(c) \/ RenameTag(c) \/ MergeTags(c) \/ DeleteTag(c)
  PROVE  TagInv'
<1>1. CASE SavePost(c)
  <2>1. PICK p \in TaggedPosts, w \in SUBSET TagSlugs : StartTag(c, [NoTagCall EXCEPT !.pc = "resolve", !.post = p, !.want = w])
    BY <1>1 DEF SavePost
  <2>2. PICK call : call = [NoTagCall EXCEPT !.pc = "resolve", !.post = p, !.want = w]
    OBVIOUS
  <2>3. call \in TagCall /\ NamesItsRows(call)
    BY <2>2 DEF NoTagCall, TagCall, NamesItsRows
  <2>4. UNCHANGED <<tag, links>> /\ StartTag(c, call)
    BY <1>1, <2>1, <2>2 DEF SavePost
  <2> QED
    BY <2>3, <2>4, TagRequest
<1>2. CASE RenameTag(c)
  <2>1. PICK t \in TagIDs, s \in TagSlugs : StartTag(c, [NoTagCall EXCEPT !.pc = "rename", !.a = t, !.slug = s])
    BY <1>2 DEF RenameTag
  <2>2. PICK call : call = [NoTagCall EXCEPT !.pc = "rename", !.a = t, !.slug = s]
    OBVIOUS
  <2>3. call \in TagCall /\ NamesItsRows(call)
    BY <2>2 DEF NoTagCall, TagCall, NamesItsRows
  <2>4. UNCHANGED <<tag, links>> /\ StartTag(c, call)
    BY <1>2, <2>1, <2>2 DEF RenameTag
  <2> QED
    BY <2>3, <2>4, TagRequest
<1>3. CASE MergeTags(c)
  <2>1. PICK s \in TagIDs, t \in TagIDs : StartTag(c, [NoTagCall EXCEPT !.pc = "merge", !.a = s, !.b = t])
    BY <1>3 DEF MergeTags
  <2>2. PICK call : call = [NoTagCall EXCEPT !.pc = "merge", !.a = s, !.b = t]
    OBVIOUS
  <2>3. call \in TagCall /\ NamesItsRows(call)
    BY <2>2 DEF NoTagCall, TagCall, NamesItsRows
  <2>4. UNCHANGED <<tag, links>> /\ StartTag(c, call)
    BY <1>3, <2>1, <2>2 DEF MergeTags
  <2> QED
    BY <2>3, <2>4, TagRequest
<1>4. CASE DeleteTag(c)
  <2>1. PICK t \in TagIDs : StartTag(c, [NoTagCall EXCEPT !.pc = "delete", !.a = t])
    BY <1>4 DEF DeleteTag
  <2>2. PICK call : call = [NoTagCall EXCEPT !.pc = "delete", !.a = t]
    OBVIOUS
  <2>3. call \in TagCall /\ NamesItsRows(call)
    BY <2>2 DEF NoTagCall, TagCall, NamesItsRows
  <2>4. UNCHANGED <<tag, links>> /\ StartTag(c, call)
    BY <1>4, <2>1, <2>2 DEF DeleteTag
  <2> QED
    BY <2>3, <2>4, TagRequest
<1> QED
  BY <1>1, <1>2, <1>3, <1>4

LEMMA TagResolves ==
  ASSUME TagInv, NEW c \in TagCalls, ResolveOrCreate(c)
  PROVE  TagInv'
<1>1. PICK old \in TagCall : old = tcall[c] /\ old.pc = "resolve" /\ old.post \in TaggedPosts
  BY TagKinds DEF ResolveOrCreate, TagInv, NamesItsRows
<1>2. CASE old.want = {}
  <2>1. PICK call : call = [old EXCEPT !.pc = "replace"]
    OBVIOUS
  <2>2. call \in TagCall /\ NamesItsRows(call)
    BY <1>1, <2>1 DEF TagCall, NamesItsRows
  <2>3. tcall' = [tcall EXCEPT ![c] = call] /\ UNCHANGED <<tag, links, tagOps>>
    BY <1>1, <1>2, <2>1, TagKinds DEF ResolveOrCreate
  <2> QED
    BY <2>2, <2>3, TagKinds, TagCallStep
<1>3. CASE old.want # {}
  <2>1. PICK s \in old.want, t \in TagIDs :
          /\ tag' = tag \/ tag' = [tag EXCEPT ![t] = s]
          /\ tcall' = [tcall EXCEPT ![c].want = @ \ {s}, ![c].ids = @ \cup {t}]
    BY <1>1, <1>3 DEF ResolveOrCreate
  <2>2. PICK call : call = [old EXCEPT !.want = old.want \ {s}, !.ids = old.ids \cup {t}]
    OBVIOUS
  <2>3. call \in TagCall /\ NamesItsRows(call)
    BY <1>1, <2>2 DEF TagCall, NamesItsRows
  <2>4. tcall' = [tcall EXCEPT ![c] = call]
    BY <1>1, <2>1, <2>2, TagKinds
  <2>5. s \in TagSlugs
    BY <1>1 DEF TagCall
  <2>6. tag' \in [TagIDs -> TagSlugs \cup {NoSlug}]
    BY <2>1, <2>5, TagKinds
  <2>7. UNCHANGED <<links, tagOps>>
    BY DEF ResolveOrCreate
  <2> QED
    BY <2>3, <2>4, <2>6, <2>7, TagKinds, TagCallStep
<1> QED
  BY <1>2, <1>3

LEMMA TagWrites ==
  ASSUME TagInv, NEW c \in TagCalls, ReplacePostTags(c) \/ StoreTag(c) \/ CommitMerge(c) \/ RemoveTag(c) \/ TagCallFails(c)
  PROVE  TagInv'
<1>1. PICK old \in TagCall : old = tcall[c]
  BY TagKinds
<1>2. /\ old.ids \subseteq TagIDs /\ old.slug \in TagSlugs \cup {NoSlug}
      /\ old.a \in TagIDs \cup {NoTag} /\ old.b \in TagIDs \cup {NoTag}
  BY <1>1 DEF TagCall
<1>3. ReturnTag(c) /\ tagOps' = tagOps
  BY DEF ReplacePostTags, StoreTag, CommitMerge, RemoveTag, TagCallFails
<1>4. links' \in [TaggedPosts -> SUBSET TagIDs]
  <2>1. CASE ReplacePostTags(c)
    <3>1. PICK kept \in SUBSET TagIDs : kept = {t \in old.ids : TagExists(t)}
      BY <1>2
    <3>2. links' = links \/ links' = [links EXCEPT ![old.post] = kept]
      BY <1>1, <2>1, <3>1 DEF ReplacePostTags
    <3> QED
      BY <3>2, TagKinds
  <2>2. CASE CommitMerge(c)
    <3>1. old.b \in TagIDs
      BY <1>1, <2>2 DEF CommitMerge, TagInv, NamesItsRows
    <3> QED
      BY <1>1, <1>2, <2>2, <3>1, TagKinds DEF CommitMerge
  <2>3. CASE RemoveTag(c)
    BY <1>1, <2>3, TagKinds DEF RemoveTag
  <2>4. CASE StoreTag(c) \/ TagCallFails(c)
    BY <2>4, TagKinds DEF StoreTag, TagCallFails
  <2> QED
    BY <2>1, <2>2, <2>3, <2>4
<1>5. tag' \in [TagIDs -> TagSlugs \cup {NoSlug}]
  <2>1. tag' = tag \/ tag' = [tag EXCEPT ![old.a] = NoSlug] \/ tag' = [tag EXCEPT ![old.a] = old.slug]
    BY <1>1 DEF ReplacePostTags, StoreTag, CommitMerge, RemoveTag, TagCallFails
  <2> QED
    BY <1>2, <2>1, TagKinds
<1> QED
  BY <1>3, <1>4, <1>5, TagReturn

LEMMA TagCopies ==
  ASSUME TagInv, NEW c \in TagCalls, CopyLinks(c)
  PROVE  TagInv'
<1>1. PICK old \in TagCall : old = tcall[c] /\ old.pc = "merge" /\ old.b \in TagIDs
  BY TagKinds DEF CopyLinks, TagInv, NamesItsRows
<1>2. UNCHANGED <<tag, links, tagOps>>
  BY DEF CopyLinks
<1>3. CASE ReturnTag(c)
  BY <1>2, <1>3, TagKinds, TagReturn
<1>4. CASE ~ReturnTag(c)
  <2>1. PICK copy \in SUBSET TaggedPosts : copy = {p \in TaggedPosts : tcall[c].a \in links[p]}
    OBVIOUS
  <2>2. tcall' = [tcall EXCEPT ![c].pc = "copied", ![c].copy = copy]
    BY <1>4, <2>1 DEF CopyLinks
  <2>3. PICK call : call = [old EXCEPT !.pc = "copied", !.copy = copy]
    OBVIOUS
  <2>4. call \in TagCall /\ NamesItsRows(call)
    BY <1>1, <2>3 DEF TagCall, NamesItsRows
  <2>5. tcall' = [tcall EXCEPT ![c] = call]
    BY <1>1, <2>2, <2>3, TagKinds
  <2> QED
    BY <1>2, <2>4, <2>5, TagKinds, TagCallStep
<1> QED
  BY <1>3, <1>4

LEMMA TagCreates ==
  ASSUME TagInv, NEW c \in TagCalls, CreateTag(c)
  PROVE  TagInv'
<1>1. tagOps' \in 0..MaxTagOps /\ UNCHANGED <<links, tcall>>
  BY TagKinds DEF CreateTag
<1>2. tag' \in [TagIDs -> TagSlugs \cup {NoSlug}]
  BY TagKinds DEF CreateTag
<1>3. tcall[c] \in TagCall /\ NamesItsRows(tcall[c])
  BY TagKinds DEF TagInv
<1> QED
  BY <1>1, <1>2, <1>3, TagKinds, TagCallStep

LEMMA TagStep == TagInv /\ [TagNext]_tagVars => TagInv'
<1> SUFFICES ASSUME TagInv, [TagNext]_tagVars PROVE TagInv'
  OBVIOUS
<1>1. CASE UNCHANGED tagVars
  BY <1>1 DEF tagVars, TagInv, TagTypeOK, NamesItsRows
<1>2. ASSUME NEW c \in TagCalls,
             \/ CreateTag(c) \/ SavePost(c) \/ ResolveOrCreate(c) \/ ReplacePostTags(c) \/ RenameTag(c) \/ StoreTag(c)
             \/ MergeTags(c) \/ CopyLinks(c) \/ CommitMerge(c) \/ DeleteTag(c) \/ RemoveTag(c) \/ TagCallFails(c)
      PROVE  TagInv'
  BY <1>2, TagCreates, TagStarts, TagResolves, TagCopies, TagWrites
<1> QED
  BY <1>1, <1>2 DEF TagNext

(* TagsCorrect: tags and links keep their types, and a save either gives   *)
(* the post all the tags it resolved or fails, although they are renamed,  *)
(* merged and deleted meanwhile (ResolveOrCreate, ReplacePostTags).        *)
THEOREM TagsAreSavedWhole == TagSpec => TagsCorrect
<1>1. TagInit => TagInv
  <2> SUFFICES ASSUME TagInit PROVE TagInv
    OBVIOUS
  <2>1. \A c \in TagCalls : tcall[c] = NoTagCall
    BY DEF TagInit
  <2>2. tcall \in [TagCalls -> TagCall]
    BY NoTagCallIs DEF TagInit
  <2>3. TagTypeOK
    BY <2>2, TagsAssumption DEF TagInit, TagTypeOK
  <2> QED
    BY <2>1, <2>3, NoTagCallIs DEF TagInv, NamesItsRows
<1>2. TagInv /\ [TagNext]_tagVars =>
        [\A c \in TagCalls : ReplacePostTags(c) /\ links' # links => links'[tcall[c].post] = tcall[c].ids]_tagVars
  <2> SUFFICES ASSUME TagInv, NEW c \in TagCalls, ReplacePostTags(c), links' # links
               PROVE  links'[tcall[c].post] = tcall[c].ids
    OBVIOUS
  <2>1. PICK old \in TagCall : old = tcall[c] /\ old.post \in TaggedPosts
    BY TagKinds DEF ReplacePostTags, TagInv, NamesItsRows
  <2>2. PICK kept : kept = {t \in old.ids : TagExists(t)}
    OBVIOUS
  <2>3. links' = [links EXCEPT ![old.post] = kept] /\ AllKnown(old.ids)
    BY <2>1, <2>2 DEF ReplacePostTags
  <2>4. kept = old.ids
    BY <2>2, <2>3 DEF AllKnown
  <2> QED
    BY <2>1, <2>3, <2>4, TagKinds
<1>3. TagInv => TagTypeOK
  BY DEF TagInv
<1>4. TagSpec => []TagInv
  BY <1>1, TagStep, PTL DEF TagSpec
<1> QED
  BY <1>2, <1>3, <1>4, PTL DEF TagSpec, TagsCorrect, SaveIsWhole

-----------------------------------------------------------------------------
(* The references of a post.  RestoreAccounts needs that an open restore   *)
(* already accounts for its source, which no later step rewrites; that an  *)
(* attachment request takes its cover from the attachments; and that every *)
(* SEO a restore may bring back, of any revision, was valid when stored.   *)

KeptFold == INSTANCE SequenceFolds WITH op <- AppendKept
KeywordFold == INSTANCE SequenceFolds WITH op <- AddKeyword

(* What is kept of a sequence are its elements that are wanted.            *)
LEMMA KeptAre ==
  ASSUME NEW S, NEW s \in Seq(S), NEW T
  PROVE  Kept(s, T) \in Seq(S \cap T) /\ ToSet(Kept(s, T)) = ToSet(s) \cap T
<1> DEFINE marked == [i \in DOMAIN s |-> [item |-> s[i], keep |-> s[i] \in T]]
           E == [item : S, keep : BOOLEAN]
           held == [n \in 0..Len(s) |-> {q \in Seq(S \cap T) : ToSet(q) = {s[i] : i \in 1..n} \cap T}]
<1>1. Len(s) \in Nat /\ DOMAIN s = 1..Len(s)
  OBVIOUS
<1>2. \A i \in DOMAIN s : s[i] \in S /\ (s[i] \in T) \in BOOLEAN
  OBVIOUS
<1>3. \A i \in DOMAIN s : [item |-> s[i], keep |-> s[i] \in T] \in E
  BY <1>2
<1>4. marked \in Seq(E) /\ Len(marked) = Len(s)
  BY <1>1, <1>3
<1>5. <<>> \in held[0]
  <2>1. 0 \in 0..Len(s) /\ {s[i] : i \in 1..0} = {} /\ <<>> \in Seq(S \cap T)
    BY <1>1
  <2>2. ToSet(<<>>) = {}
    BY DEF ToSet
  <2> QED
    BY <2>1, <2>2
<1>6. ASSUME NEW n \in 1..Len(s), NEW a \in held[n - 1] PROVE AppendKept(a, marked[n]) \in held[n]
  <2>1. n - 1 \in 0..Len(s) /\ n \in 0..Len(s) /\ n \in DOMAIN s
    BY <1>1
  <2>2. a \in Seq(S \cap T) /\ ToSet(a) = {s[i] : i \in 1..(n - 1)} \cap T
    BY <2>1
  <2>3. {s[i] : i \in 1..n} = {s[i] : i \in 1..(n - 1)} \cup {s[n]}
    BY <1>1
  <2>4. marked[n].item = s[n] /\ marked[n].keep = (s[n] \in T)
    BY <2>1
  <2>5. CASE s[n] \in T
    <3>1. AppendKept(a, marked[n]) = Append(a, s[n])
      BY <2>4, <2>5 DEF AppendKept
    <3>2. Append(a, s[n]) \in Seq(S \cap T) /\ DOMAIN Append(a, s[n]) = 1..Len(a) + 1
      BY <2>2, <2>5, <1>2, <2>1
    <3>3. ToSet(Append(a, s[n])) = ToSet(a) \cup {s[n]}
      <4>1. Len(a) \in Nat /\ DOMAIN a = 1..Len(a)
        BY <2>2
      <4>2. \A i \in 1..Len(a) : Append(a, s[n])[i] = a[i]
        BY <2>2
      <4>3. Append(a, s[n])[Len(a) + 1] = s[n]
        BY <2>2
      <4>4. \A i \in 1..Len(a) + 1 : i \in 1..Len(a) \/ i = Len(a) + 1
        BY <4>1
      <4>5. Len(a) + 1 \in 1..Len(a) + 1 /\ 1..Len(a) \subseteq 1..Len(a) + 1
        BY <4>1
      <4> QED
        BY <3>2, <4>1, <4>2, <4>3, <4>4, <4>5 DEF ToSet
    <3> QED
      BY <2>1, <2>2, <2>3, <2>5, <3>1, <3>2, <3>3
  <2>6. CASE s[n] \notin T
    <3>1. AppendKept(a, marked[n]) = a
      BY <2>4, <2>6 DEF AppendKept
    <3> QED
      BY <2>1, <2>2, <2>3, <2>6, <3>1
  <2> QED
    BY <2>5, <2>6
<1>7. Kept(s, T) = KeptFold!FoldOf(<<>>, marked)
  BY DEF Kept, KeptFold!FoldOf, KeptFold!FoldLeft, FoldLeft, KeptFold!MapThenFoldSet, MapThenFoldSet, KeptFold!Max, Max
<1>8. KeptFold!FoldOf(<<>>, marked) \in held[Len(marked)]
  <2>1. \A n \in 1..Len(marked) : \A a \in held[n - 1] : AppendKept(a, marked[n]) \in held[n]
    BY <1>4, <1>6
  <2> HIDE DEF held, marked, E
  <2> QED
    BY <1>4, <1>5, <2>1, KeptFold!FoldRule
<1>9. Len(s) \in 0..Len(s) /\ {s[i] : i \in 1..Len(s)} = ToSet(s)
  BY <1>1 DEF ToSet
<1> QED
  BY <1>4, <1>7, <1>8, <1>9

(* It depends on which of its elements are wanted only.                    *)
LEMMA KeptAlike ==
  ASSUME NEW s, NEW T, NEW U, \A i \in DOMAIN s : s[i] \in T <=> s[i] \in U
  PROVE  Kept(s, T) = Kept(s, U)
<1>1. \A i \in DOMAIN s : (s[i] \in T) = (s[i] \in U)
  OBVIOUS
<1>2. [i \in DOMAIN s |-> [item |-> s[i], keep |-> s[i] \in T]] = [i \in DOMAIN s |-> [item |-> s[i], keep |-> s[i] \in U]]
  BY <1>1
<1> QED
  BY <1>2 DEF Kept

-----------------------------------------------------------------------------
(* SEO fields.                                                             *)

TypedWords == {"blank", "Plain", "padded", "plain", "markup"}
StoredWords == {"Plain", "plain", "markup"}

Distinct(words) == \A i, j \in DOMAIN words : i # j => ToLower(words[i]) # ToLower(words[j])

GoodSEO(seo) == seo \in SEO /\ ValidSEO(seo) /\ Distinct(seo.keywords)

(* Keywords that were normalised are distinct but for their case.          *)
LEMMA AddKeywordKeeps ==
  ASSUME NEW out \in Seq(StoredWords), Distinct(out), NEW w \in TypedWords
  PROVE  AddKeyword(out, w) \in Seq(StoredWords) /\ Distinct(AddKeyword(out, w))
<1> DEFINE k == CollapseSpace(w)
<1>1. k = "" \/ k \in StoredWords
  BY DEF CollapseSpace, TypedWords, StoredWords
<1>2. CASE k = "" \/ \E i \in DOMAIN out : ToLower(out[i]) = ToLower(k)
  <2>1. AddKeyword(out, w) = out
    BY <1>2 DEF AddKeyword
  <2> QED
    BY <2>1
<1>3. CASE ~(k = "" \/ \E i \in DOMAIN out : ToLower(out[i]) = ToLower(k))
  <2> HIDE DEF k
  <2>1. AddKeyword(out, w) = Append(out, k)
    BY <1>3 DEF AddKeyword, k
  <2>2. k \in StoredWords
    BY <1>1, <1>3
  <2>3. Len(out) \in Nat /\ DOMAIN out = 1..Len(out) /\ Append(out, k) \in Seq(StoredWords) /\ Len(Append(out, k)) = Len(out) + 1
    BY <2>2
  <2>4. \A i \in 1..Len(out) : Append(out, k)[i] = out[i]
    BY <2>2
  <2>5. Append(out, k)[Len(out) + 1] = k
    BY <2>2
  <2>6. DOMAIN Append(out, k) = 1..Len(out) + 1
    BY <2>3
  <2>7. ASSUME NEW i \in DOMAIN Append(out, k), NEW j \in DOMAIN Append(out, k), i # j
        PROVE  ToLower(Append(out, k)[i]) # ToLower(Append(out, k)[j])
    <3>1. i \in 1..Len(out) \/ i = Len(out) + 1
      BY <2>3, <2>6
    <3>2. j \in 1..Len(out) \/ j = Len(out) + 1
      BY <2>3, <2>6
    <3>3. CASE i \in 1..Len(out) /\ j \in 1..Len(out)
      BY <2>3, <2>4, <2>7, <3>3 DEF Distinct
    <3>4. CASE i = Len(out) + 1 /\ j \in 1..Len(out)
      BY <1>3, <2>3, <2>4, <2>5, <3>4
    <3>5. CASE j = Len(out) + 1 /\ i \in 1..Len(out)
      BY <1>3, <2>3, <2>4, <2>5, <3>5
    <3> QED
      BY <2>7, <3>1, <3>2, <3>3, <3>4, <3>5
  <2> QED
    BY <2>1, <2>3, <2>7 DEF Distinct
<1> QED
  BY <1>2, <1>3

(* So are the keywords of any list a client sends.                         *)
LEMMA KeywordsNormal ==
  ASSUME NEW words \in Seq(TypedWords)
  PROVE  NormaliseKeywords(words) \in Seq(StoredWords) /\ Distinct(NormaliseKeywords(words))
<1> DEFINE held == [n \in 0..Len(words) |-> {q \in Seq(StoredWords) : Distinct(q)}]
<1>1. Len(words) \in Nat
  OBVIOUS
<1>2. <<>> \in held[0]
  <2>1. 0 \in 0..Len(words) /\ <<>> \in Seq(StoredWords) /\ DOMAIN <<>> = {}
    BY <1>1
  <2>2. Distinct(<<>>)
    BY <2>1 DEF Distinct
  <2> QED
    BY <2>1, <2>2
<1>3. ASSUME NEW n \in 1..Len(words), NEW a \in held[n - 1] PROVE AddKeyword(a, words[n]) \in held[n]
  <2>1. n - 1 \in 0..Len(words) /\ n \in 0..Len(words) /\ words[n] \in TypedWords
    BY <1>1
  <2> QED
    BY <2>1, AddKeywordKeeps
<1>4. NormaliseKeywords(words) = KeywordFold!FoldOf(<<>>, words)
  BY DEF NormaliseKeywords, KeywordFold!FoldOf, KeywordFold!FoldLeft, FoldLeft, KeywordFold!MapThenFoldSet,
     MapThenFoldSet, KeywordFold!Max, Max
<1>5. KeywordFold!FoldOf(<<>>, words) \in held[Len(words)]
  <2> HIDE DEF held
  <2> QED
    BY <1>2, <1>3, KeywordFold!FoldRule
<1>6. Len(words) \in 0..Len(words)
  BY <1>1
<1> QED
  BY <1>4, <1>5, <1>6

(* A patch of one field changes that field.                                *)
LEMMA ApplyOne ==
  ASSUME NEW seo, seo = [f \in DOMAIN seo |-> seo[f]], NEW g \in DOMAIN seo, NEW patch, DOMAIN patch = {g}
  PROVE  Apply(seo, patch) = [seo EXCEPT ![g] = FieldPatch(g, patch[g])]
<1>1. \A f \in DOMAIN seo : (IF f \in DOMAIN patch THEN FieldPatch(f, patch[f]) ELSE seo[f]) =
                           (IF f = g THEN FieldPatch(g, patch[g]) ELSE seo[f])
  OBVIOUS
<1>2. Apply(seo, patch) = [f \in DOMAIN seo |-> IF f = g THEN FieldPatch(g, patch[g]) ELSE seo[f]]
  BY <1>1 DEF Apply
<1> QED
  BY <1>2

(* A patch of a valid SEO that passes validation leaves one that could be  *)
(* stored.                                                                 *)
LEMMA ApplyIsGood ==
  ASSUME NEW seo, GoodSEO(seo), NEW patch \in Patches, ValidSEO(Apply(seo, patch))
  PROVE  GoodSEO(Apply(seo, patch))
<1> DEFINE next == Apply(seo, patch)
<1>1. seo = [title |-> seo.title, keywords |-> seo.keywords, canonical |-> seo.canonical, og |-> seo.og, tw |-> seo.tw,
             noindex |-> seo.noindex]
  BY DEF GoodSEO, SEO
<1>2. DOMAIN seo = {"title", "keywords", "canonical", "og", "tw", "noindex"}
  BY <1>1
<1>3. /\ Distinct(seo.keywords) /\ seo.title \in {"", "plain"} /\ seo.canonical \in {"", "own"} /\ seo.noindex \in BOOLEAN
      /\ seo.keywords \in Seq({"plain", "Plain"}) /\ seo.og \in Images \cup {Unset} /\ seo.tw \in Images \cup {Unset}
  BY DEF GoodSEO, SEO
<1>4. CASE patch \in [{"title"} -> {"", "padded", "markup"}]
  <2>1. DOMAIN patch = {"title"} /\ patch["title"] \in {"", "padded", "markup"}
    BY <1>4
  <2>2. next = [seo EXCEPT !.title = CollapseSpace(patch["title"])]
    BY <1>1, <1>2, <2>1, ApplyOne DEF FieldPatch
  <2>3. CollapseSpace(patch["title"]) \in {"", "plain"} \/ ~TextFits(CollapseSpace(patch["title"]))
    BY <2>1 DEF CollapseSpace, TextFits
  <2>4. next.title = CollapseSpace(patch["title"]) /\ next.keywords = seo.keywords
    BY <1>1, <2>2
  <2>5. CollapseSpace(patch["title"]) \in {"", "plain"}
    BY <2>3, <2>4 DEF ValidSEO
  <2>6. next \in SEO
    BY <1>1, <1>3, <2>2, <2>5 DEF SEO
  <2> QED
    BY <1>3, <2>4, <2>6 DEF GoodSEO
<1>5. CASE patch \in [{"canonical"} -> {"", "own", "foreign"}]
  <2>1. DOMAIN patch = {"canonical"} /\ patch["canonical"] \in {"", "own", "foreign"}
    BY <1>5
  <2>2. next = [seo EXCEPT !.canonical = patch["canonical"]]
    BY <1>1, <1>2, <2>1, ApplyOne DEF FieldPatch
  <2>3. next.canonical = patch["canonical"] /\ next.keywords = seo.keywords
    BY <1>1, <2>2
  <2>4. patch["canonical"] \in {"", "own"}
    BY <2>1, <2>3 DEF ValidSEO, URLFits
  <2>5. next \in SEO
    BY <1>1, <1>3, <2>2, <2>4 DEF SEO
  <2> QED
    BY <1>3, <2>3, <2>5 DEF GoodSEO
<1>6. CASE patch \in [{"noindex"} -> BOOLEAN]
  <2>1. DOMAIN patch = {"noindex"} /\ patch["noindex"] \in BOOLEAN
    BY <1>6
  <2>2. next = [seo EXCEPT !.noindex = patch["noindex"]]
    BY <1>1, <1>2, <2>1, ApplyOne DEF FieldPatch
  <2>3. next.keywords = seo.keywords /\ next \in SEO
    BY <1>1, <1>3, <2>1, <2>2 DEF SEO
  <2> QED
    BY <1>3, <2>3 DEF GoodSEO
<1>7. CASE patch \in [{"og"} -> Images \cup {Unset}]
  <2>1. DOMAIN patch = {"og"} /\ patch["og"] \in Images \cup {Unset}
    BY <1>7
  <2>2. next = [seo EXCEPT !.og = patch["og"]]
    BY <1>1, <1>2, <2>1, ApplyOne DEF FieldPatch
  <2>3. next.keywords = seo.keywords /\ next \in SEO
    BY <1>1, <1>3, <2>1, <2>2 DEF SEO
  <2> QED
    BY <1>3, <2>3 DEF GoodSEO
<1>8. CASE patch \in [{"tw"} -> Images \cup {Unset}]
  <2>1. DOMAIN patch = {"tw"} /\ patch["tw"] \in Images \cup {Unset}
    BY <1>8
  <2>2. next = [seo EXCEPT !.tw = patch["tw"]]
    BY <1>1, <1>2, <2>1, ApplyOne DEF FieldPatch
  <2>3. next.keywords = seo.keywords /\ next \in SEO
    BY <1>1, <1>3, <2>1, <2>2 DEF SEO
  <2> QED
    BY <1>3, <2>3 DEF GoodSEO
<1>9. CASE patch \in [{"keywords"} -> KeywordLists]
  <2>1. DOMAIN patch = {"keywords"} /\ patch["keywords"] \in KeywordLists
    BY <1>9
  <2>2. \A q \in KeywordLists : q \in Seq(TypedWords)
    <3>1. <<>> \in Seq(TypedWords) /\ <<"blank">> \in Seq(TypedWords)
      BY DEF TypedWords
    <3>2. <<"Plain", "padded", "plain">> \in Seq(TypedWords)
      BY DEF TypedWords
    <3>3. <<"plain", "markup">> \in Seq(TypedWords)
      BY DEF TypedWords
    <3> QED
      BY <3>1, <3>2, <3>3 DEF KeywordLists
  <2>3. patch["keywords"] \in Seq(TypedWords)
    BY <2>1, <2>2
  <2>4. PICK words : words = NormaliseKeywords(patch["keywords"])
    OBVIOUS
  <2>5. words \in Seq(StoredWords) /\ Distinct(words)
    BY <2>3, <2>4, KeywordsNormal
  <2>6. next = [seo EXCEPT !.keywords = words]
    BY <1>1, <1>2, <2>1, <2>4, ApplyOne DEF FieldPatch
  <2>7. next.keywords = words
    BY <1>1, <2>6
  <2>8. \A i \in DOMAIN words : words[i] # "markup"
    BY <2>7 DEF ValidSEO, TextFits
  <2>9. Len(words) \in Nat /\ DOMAIN words = 1..Len(words)
    BY <2>5
  <2>10. \A i \in 1..Len(words) : words[i] \in {"plain", "Plain"}
    BY <2>5, <2>8, <2>9 DEF StoredWords
  <2>11. words \in Seq({"plain", "Plain"})
    BY <2>5, <2>9, <2>10
  <2>12. next \in SEO
    BY <1>1, <1>3, <2>6, <2>11 DEF SEO
  <2> QED
    BY <2>5, <2>7, <2>12 DEF GoodSEO
<1> QED
  BY <1>4, <1>5, <1>6, <1>7, <1>8, <1>9 DEF Patches

-----------------------------------------------------------------------------
(* Snapshots.                                                              *)

GoodPage(p) == p \in PostPage /\ GoodSEO(p.seo)

RefSets == [topics : SUBSET Topics, labels : SUBSET Labels, images : SUBSET Images]

(* What RestoreAccounts says of a source, what was restored of it and what *)
(* was skipped.                                                            *)
Accounts(src, new, out) ==
  /\ \A f \in DOMAIN SnapshotRefs(src) : /\ SnapshotRefs(src)[f] = SnapshotRefs(new)[f] \cup out[f]
                                         /\ SnapshotRefs(new)[f] \cap out[f] = {}
  /\ DropMissing(src, SnapshotRefs(new)).media = new.media
  /\ new.text = src.text

(* A snapshot is its fields.                                               *)
LEMMA FieldsOfPage ==
  ASSUME NEW p \in PostPage
  PROVE  /\ p = [text |-> p.text, category |-> p.category, cover |-> p.cover, tags |-> p.tags, media |-> p.media,
                 seo |-> p.seo, version |-> p.version]
         /\ p.text \in Nat /\ p.category \in Topics \cup {Unset} /\ p.cover \in Images \cup {Unset}
         /\ p.tags \subseteq Labels /\ p.media \in Seq(MediaItem) /\ p.seo \in SEO /\ p.version \in Nat
  BY DEF PostPage

(* So is an SEO.                                                           *)
LEMMA FieldsOfSEO ==
  ASSUME NEW s \in SEO
  PROVE  /\ s = [title |-> s.title, keywords |-> s.keywords, canonical |-> s.canonical, og |-> s.og, tw |-> s.tw,
                 noindex |-> s.noindex]
         /\ s.title \in {"", "plain"} /\ s.keywords \in Seq({"plain", "Plain"}) /\ s.canonical \in {"", "own"}
         /\ s.og \in Images \cup {Unset} /\ s.tw \in Images \cup {Unset} /\ s.noindex \in BOOLEAN
  BY DEF SEO

(* Other social images leave a stored SEO one that could be stored.        *)
LEMMA SocialIsGood ==
  ASSUME NEW s, GoodSEO(s), NEW t \in SEO, t.title = s.title, t.keywords = s.keywords, t.canonical = s.canonical
  PROVE  GoodSEO(t)
  BY DEF GoodSEO, ValidSEO

(* The attachments kept are those whose asset is among the images.         *)
LEMMA MediaKept ==
  ASSUME NEW items \in Seq(MediaItem), NEW images \in SUBSET Images
  PROVE  /\ Kept(items, [asset : images, kind : MediaKinds]) \in Seq(MediaItem)
         /\ ItemAssets(Kept(items, [asset : images, kind : MediaKinds])) = ItemAssets(items) \cap images
<1> DEFINE T == [asset : images, kind : MediaKinds]
<1>1. PICK q : q = Kept(items, T)
  OBVIOUS
<1>2. q \in Seq(MediaItem \cap T) /\ ToSet(q) = ToSet(items) \cap T
  BY <1>1, KeptAre
<1>3. Len(q) \in Nat /\ DOMAIN q = 1..Len(q) /\ \A i \in 1..Len(q) : q[i] \in MediaItem
  BY <1>2
<1>4. q \in Seq(MediaItem)
  BY <1>2, <1>3
<1>5. \A i \in DOMAIN items : items[i] \in MediaItem
  OBVIOUS
<1>6. \A m \in MediaItem : m \in T <=> m.asset \in images
  BY DEF MediaItem
<1>7. \A m \in ToSet(items) : m \in MediaItem
  BY <1>5 DEF ToSet
<1>8. ItemAssets(q) = {m.asset : m \in ToSet(q)} /\ ItemAssets(items) = {m.asset : m \in ToSet(items)}
  BY DEF ItemAssets, ToSet
<1>9. {m.asset : m \in ToSet(items) \cap T} = {m.asset : m \in ToSet(items)} \cap images
  <2>1. ASSUME NEW m \in ToSet(items) \cap T PROVE m.asset \in {x.asset : x \in ToSet(items)} \cap images
    BY <1>6, <1>7
  <2>2. ASSUME NEW a \in {x.asset : x \in ToSet(items)} \cap images PROVE a \in {m.asset : m \in ToSet(items) \cap T}
    <3>1. PICK x \in ToSet(items) : a = x.asset
      OBVIOUS
    <3>2. x \in ToSet(items) \cap T
      BY <1>6, <1>7, <3>1
    <3> QED
      BY <3>1, <3>2
  <2> QED
    BY <2>1, <2>2
<1> QED
  BY <1>1, <1>2, <1>4, <1>8, <1>9

(* dropMissing keeps of a snapshot what exists.                            *)
LEMMA DropIs ==
  ASSUME NEW snap, GoodPage(snap), NEW existing \in RefSets, NEW new, new = DropMissing(snap, existing)
  PROVE  /\ GoodPage(new)
         /\ new.text = snap.text /\ new.category = KeepIn(snap.category, existing.topics)
         /\ new.tags = snap.tags \cap existing.labels
         /\ new.media = Kept(snap.media, [asset : existing.images, kind : MediaKinds])
         /\ new.cover = KeepIn(snap.cover, existing.images)
         /\ new.seo.og = KeepIn(snap.seo.og, existing.images) /\ new.seo.tw = KeepIn(snap.seo.tw, existing.images)
<1>1. snap \in PostPage /\ GoodSEO(snap.seo)
  BY DEF GoodPage
<1>2. snap = [text |-> snap.text, category |-> snap.category, cover |-> snap.cover, tags |-> snap.tags,
              media |-> snap.media, seo |-> snap.seo, version |-> snap.version]
  BY <1>1, FieldsOfPage
<1>3. snap.seo \in SEO
  BY <1>1 DEF GoodSEO
<1>4. PICK o, w : o = KeepIn(snap.seo.og, existing.images) /\ w = KeepIn(snap.seo.tw, existing.images)
  OBVIOUS
<1>5. o \in Images \cup {Unset} /\ w \in Images \cup {Unset}
  BY <1>3, <1>4, FieldsOfSEO DEF KeepIn
<1>6. PICK s : s = DropMissingSEO(snap.seo, existing.images)
  OBVIOUS
<1>7. s = [snap.seo EXCEPT !.og = o, !.tw = w]
  BY <1>4, <1>6 DEF DropMissingSEO
<1>8. GoodSEO(s) /\ s.og = o /\ s.tw = w
  <2>1. PICK d : d = snap.seo
    OBVIOUS
  <2>2. GoodSEO(d) /\ d \in SEO /\ s = [d EXCEPT !.og = o, !.tw = w]
    BY <1>1, <1>3, <1>7, <2>1
  <2>3. s \in SEO /\ s.title = d.title /\ s.keywords = d.keywords /\ s.canonical = d.canonical /\ s.og = o /\ s.tw = w
    BY <1>5, <2>2 DEF SEO
  <2>4. GoodSEO(s)
    BY <2>2, <2>3, SocialIsGood
  <2> QED
    BY <2>3, <2>4
<1>9. existing.images \in SUBSET Images /\ snap.media \in Seq(MediaItem)
  BY <1>1, FieldsOfPage DEF RefSets
<1>10. PICK q : q = Kept(snap.media, [asset : existing.images, kind : MediaKinds])
  OBVIOUS
<1>11. q \in Seq(MediaItem)
  BY <1>9, <1>10, MediaKept
<1>12. PICK c, v, g : /\ c = KeepIn(snap.category, existing.topics) /\ v = KeepIn(snap.cover, existing.images)
                      /\ g = snap.tags \cap existing.labels
  OBVIOUS
<1>13. c \in Topics \cup {Unset} /\ v \in Images \cup {Unset} /\ g \in SUBSET Labels
  BY <1>1, <1>12, FieldsOfPage DEF KeepIn
<1>14. new = [snap EXCEPT !.category = c, !.tags = g, !.media = q, !.cover = v, !.seo = s]
  BY <1>6, <1>10, <1>12 DEF DropMissing
<1>15. new = [text |-> snap.text, category |-> c, cover |-> v, tags |-> g, media |-> q, seo |-> s,
              version |-> snap.version]
  BY <1>2, <1>14
<1>16. new.seo = s /\ new.text = snap.text /\ new.category = c /\ new.tags = g /\ new.media = q /\ new.cover = v
  BY <1>15
<1>17. new \in PostPage
  BY <1>1, <1>8, <1>11, <1>13, <1>15, FieldsOfPage DEF PostPage, GoodSEO
<1> QED
  BY <1>4, <1>8, <1>10, <1>12, <1>16, <1>17 DEF GoodPage

(* DiffSnapshots lists exactly the fields that differ.                     *)
LEMMA DiffIs ==
  ASSUME NEW prev \in PostPage, NEW next \in PostPage
  PROVE  /\ DiffSnapshots(prev, next) \in Seq(PageFields)
         /\ ToSet(DiffSnapshots(prev, next)) =
              {f \in PageFields : next[f] # prev[f]}
<1> DEFINE changed(f) == CASE f = "tags"  -> TagChange(prev.tags, next.tags)
                           [] f = "media" -> MediaChange(prev.media, next.media)
                           [] f = "seo"   -> SEOChange(prev.seo, next.seo)
                           [] OTHER       -> prev[f] # next[f]
           T == {f \in PageFields : changed(f)}
<1>1. FieldOrder \in Seq(PageFields) /\ ToSet(FieldOrder) = PageFields
  <2>1. Len(FieldOrder) = 6 /\ DOMAIN FieldOrder = 1..6
    BY DEF FieldOrder
  <2>2. FieldOrder \in Seq(PageFields)
    BY DEF FieldOrder, PageFields
  <2>3. ToSet(FieldOrder) = {FieldOrder[1], FieldOrder[2], FieldOrder[3], FieldOrder[4], FieldOrder[5], FieldOrder[6]}
    BY <2>1 DEF ToSet
  <2> QED
    BY <2>2, <2>3 DEF FieldOrder, PageFields
<1>2. changed("tags") <=> next["tags"] # prev["tags"]
  <2>1. TagChange(prev.tags, next.tags) <=> next.tags # prev.tags
    BY DEF TagChange
  <2> QED
    BY <2>1
<1>3. changed("media") <=> next["media"] # prev["media"]
  <2>1. MediaChange(prev.media, next.media) <=> next.media # prev.media
    BY DEF MediaChange
  <2> QED
    BY <2>1
<1>4. changed("seo") <=> next["seo"] # prev["seo"]
  <2>1. prev.seo \in SEO /\ next.seo \in SEO
    BY FieldsOfPage
  <2>2. PICK a, b : a = prev.seo /\ b = next.seo
    OBVIOUS
  <2>3. /\ DOMAIN a = {"title", "keywords", "canonical", "og", "tw", "noindex"} /\ a = [f \in DOMAIN a |-> a[f]]
        /\ DOMAIN b = DOMAIN a /\ b = [f \in DOMAIN b |-> b[f]]
    BY <2>1, <2>2 DEF SEO
  <2>4. a = b <=> \A f \in DOMAIN a : a[f] = b[f]
    BY <2>3
  <2>5. SEOChange(prev.seo, next.seo) <=> \E f \in DOMAIN a : a[f] # b[f]
    BY <2>2 DEF SEOChange, ChangedKeys
  <2> QED
    BY <2>2, <2>4, <2>5
<1>5. \A f \in {"text", "category", "cover"} : changed(f) <=> next[f] # prev[f]
  OBVIOUS
<1>6. T = {f \in PageFields : next[f] # prev[f]}
  <2> HIDE DEF changed
  <2>1. \A f \in PageFields : f \in {"text", "category", "cover"} \/ f = "tags" \/ f = "media" \/ f = "seo"
    BY DEF PageFields
  <2> QED
    BY <2>1, <1>2, <1>3, <1>4, <1>5
<1>7. DiffSnapshots(prev, next) = Kept(FieldOrder, T)
  BY DEF DiffSnapshots
<1>8. PICK q : q = Kept(FieldOrder, T)
  OBVIOUS
<1>9. q \in Seq(PageFields \cap T) /\ ToSet(q) = ToSet(FieldOrder) \cap T
  <2> HIDE DEF T
  <2> QED
    BY <1>1, <1>8, KeptAre
<1>10. q \in Seq(PageFields)
  <2>1. Len(q) \in Nat /\ DOMAIN q = 1..Len(q) /\ \A i \in 1..Len(q) : q[i] \in PageFields
    BY <1>9
  <2> QED
    BY <1>9, <2>1
<1>11. ToSet(FieldOrder) \cap T = T
  <2> HIDE DEF changed
  <2> QED
    BY <1>1
<1> QED
  <2> HIDE DEF T
  <2> QED
    BY <1>6, <1>7, <1>8, <1>9, <1>10, <1>11

(* The references of a snapshot are of the post's kinds.                   *)
LEMMA RefsTyped ==
  ASSUME NEW p \in PostPage
  PROVE  /\ SnapshotRefs(p) \in RefSets
         /\ DOMAIN SnapshotRefs(p) = {"topics", "labels", "images"}
<1>1. ItemAssets(p.media) \subseteq Images
  <2>1. p.media \in Seq(MediaItem)
    BY FieldsOfPage
  <2>2. \A i \in DOMAIN p.media : p.media[i] \in MediaItem
    BY <2>1
  <2> QED
    BY <2>2 DEF ItemAssets, MediaItem
<1>2. p.seo.og \in Images \cup {Unset} /\ p.seo.tw \in Images \cup {Unset}
  BY FieldsOfPage, FieldsOfSEO
<1> QED
  BY <1>1, <1>2, FieldsOfPage DEF SnapshotRefs, RefSets

(* What a restore finds, drops and reports accounts for its source.        *)
LEMMA RestoreFits ==
  ASSUME NEW src, GoodPage(src), NEW existing, existing = Existing(SnapshotRefs(src)),
         NEW new, new = DropMissing(src, existing)
  PROVE  /\ existing \in RefSets /\ GoodPage(new) /\ Skipped(src, existing) \in RefSets
         /\ Accounts(src, new, Skipped(src, existing))
<1>1. src \in PostPage
  BY DEF GoodPage
<1>2. SnapshotRefs(src) \in RefSets
  BY <1>1, RefsTyped
<1>3. /\ SnapshotRefs(src).topics = {src.category} \ {Unset}
      /\ SnapshotRefs(src).labels = src.tags
      /\ SnapshotRefs(src).images = (ItemAssets(src.media) \cup {src.cover, src.seo.og, src.seo.tw}) \ {Unset}
  BY DEF SnapshotRefs
<1>4. /\ existing \in RefSets
      /\ existing.topics \subseteq SnapshotRefs(src).topics /\ existing.labels \subseteq SnapshotRefs(src).labels
      /\ existing.images \subseteq SnapshotRefs(src).images
  BY <1>2 DEF Existing, RefSets
<1>5. /\ GoodPage(new)
      /\ new.text = src.text /\ new.category = KeepIn(src.category, existing.topics)
      /\ new.tags = src.tags \cap existing.labels
      /\ new.media = Kept(src.media, [asset : existing.images, kind : MediaKinds])
      /\ new.cover = KeepIn(src.cover, existing.images)
      /\ new.seo.og = KeepIn(src.seo.og, existing.images) /\ new.seo.tw = KeepIn(src.seo.tw, existing.images)
  BY <1>4, DropIs
<1>6. src.media \in Seq(MediaItem) /\ existing.images \in SUBSET Images
  BY <1>1, <1>4, FieldsOfPage DEF RefSets
<1>7. ItemAssets(new.media) = ItemAssets(src.media) \cap existing.images
  BY <1>5, <1>6, MediaKept
<1>8. /\ SnapshotRefs(new).topics = existing.topics
      /\ SnapshotRefs(new).labels = existing.labels
      /\ SnapshotRefs(new).images = existing.images
  <2>1. /\ SnapshotRefs(new).topics = {new.category} \ {Unset}
        /\ SnapshotRefs(new).labels = new.tags
        /\ SnapshotRefs(new).images = (ItemAssets(new.media) \cup {new.cover, new.seo.og, new.seo.tw}) \ {Unset}
    BY DEF SnapshotRefs
  <2>2. SnapshotRefs(new).topics = existing.topics
    BY <1>3, <1>4, <1>5, <2>1 DEF KeepIn
  <2>3. SnapshotRefs(new).labels = existing.labels
    BY <1>3, <1>4, <1>5, <2>1
  <2>4. Unset \notin existing.images
    BY <1>3, <1>4
  <2>5. \A i \in existing.images : i \in ItemAssets(src.media) \/ i = src.cover \/ i = src.seo.og \/ i = src.seo.tw
    BY <1>3, <1>4
  <2>6. SnapshotRefs(new).images = existing.images
    BY <1>5, <1>7, <2>1, <2>4, <2>5 DEF KeepIn
  <2> QED
    BY <2>2, <2>3, <2>6
<1>9. /\ Skipped(src, existing).topics = SnapshotRefs(src).topics \ existing.topics
      /\ Skipped(src, existing).labels = SnapshotRefs(src).labels \ existing.labels
      /\ Skipped(src, existing).images = SnapshotRefs(src).images \ existing.images
      /\ Skipped(src, existing) \in RefSets
  BY <1>2 DEF Skipped, RefSets
<1>10. ASSUME NEW f \in DOMAIN SnapshotRefs(src)
       PROVE  /\ SnapshotRefs(src)[f] = SnapshotRefs(new)[f] \cup Skipped(src, existing)[f]
              /\ SnapshotRefs(new)[f] \cap Skipped(src, existing)[f] = {}
  <2>1. f \in {"topics", "labels", "images"}
    BY <1>1, RefsTyped
  <2>2. CASE f = "topics"
    BY <1>4, <1>8, <1>9, <2>2
  <2>3. CASE f = "labels"
    BY <1>4, <1>8, <1>9, <2>3
  <2>4. CASE f = "images"
    BY <1>4, <1>8, <1>9, <2>4
  <2> QED
    BY <2>1, <2>2, <2>3, <2>4
<1>11. DropMissing(src, SnapshotRefs(new)).media = new.media
  <2>1. new \in PostPage
    BY <1>5 DEF GoodPage
  <2>2. SnapshotRefs(new) \in RefSets
    BY <2>1, RefsTyped
  <2>3. DropMissing(src, SnapshotRefs(new)).media = Kept(src.media, [asset : SnapshotRefs(new).images, kind : MediaKinds])
    BY <2>2, DropIs
  <2> QED
    BY <1>5, <1>8, <2>3
<1> QED
  BY <1>4, <1>5, <1>9, <1>10, <1>11 DEF Accounts

(* Whether a revision accounts for its source does not depend on the       *)
(* version it was saved with.                                              *)
LEMMA AccountsAlike ==
  ASSUME NEW src, NEW new, NEW out, NEW snap, Accounts(src, new, out),
         snap.text = new.text, snap.category = new.category, snap.tags = new.tags, snap.media = new.media,
         snap.cover = new.cover, snap.seo = new.seo
  PROVE  Accounts(src, snap, out)
<1>1. SnapshotRefs(snap) = SnapshotRefs(new)
  BY DEF SnapshotRefs
<1> QED
  BY <1>1 DEF Accounts

-----------------------------------------------------------------------------
(* The invariant.                                                          *)

EditFits(d) ==
  /\ GoodSEO(d.mem.seo) /\ d.from <= Len(history)
  /\ d.op = "media" => d.mem.cover \in ItemAssets(d.mem.media) \cup {Unset}
  /\ d.op = "restore" => d.from >= 1 /\ Accounts(history[d.from].snap, d.mem, d.skips)

SEOsGood == GoodSEO(page.seo) /\ \A n \in DOMAIN history : GoodSEO(history[n].snap.seo)

RestoresNameSource == \A n \in DOMAIN history : history[n].op = "restore" => history[n].from >= 1

PointsAtRows(p) ==
  /\ SnapshotRefs(p).topics \cup SnapshotRefs(p).labels \subseteq present
  /\ \A i \in SnapshotRefs(p).images : asset[i] # "gone"

RefInv ==
  /\ ReferencesTypeOK
  /\ Len(history) >= 1
  /\ SEOsGood
  /\ RestoresNameSource
  /\ RestoreAccounts
  /\ DiffIsExact
  /\ NothingDangles
  /\ \A e \in Editors : edit[e] # NoEdit => EditFits(edit[e])

(* Every revision has a well formed snapshot.                              *)
LEMMA HistoryTyped ==
  ASSUME RefInv
  PROVE  /\ history \in Seq(HistoryEntry) /\ Len(history) \in Nat /\ DOMAIN history = 1..Len(history)
         /\ \A n \in 1..Len(history) : history[n] \in HistoryEntry /\ GoodPage(history[n].snap) /\ history[n].from \in Nat
<1>1. history \in Seq(HistoryEntry)
  BY DEF RefInv, ReferencesTypeOK
<1>2. Len(history) \in Nat /\ DOMAIN history = 1..Len(history)
  BY <1>1
<1>3. \A n \in 1..Len(history) : history[n] \in HistoryEntry
  BY <1>1
<1>4. \A n \in 1..Len(history) : history[n].snap \in PostPage /\ history[n].from \in Nat
  BY <1>3 DEF HistoryEntry
<1> QED
  BY <1>1, <1>2, <1>3, <1>4 DEF RefInv, SEOsGood, GoodPage

(* So has every open request.                                              *)
LEMMA EditTyped ==
  ASSUME RefInv, NEW e \in Editors, edit[e] # NoEdit
  PROVE  /\ edit[e] \in OpenEdit /\ edit[e].op \in {"update", "media", "seo", "restore"}
         /\ GoodPage(edit[e].mem) /\ edit[e].from \in Nat /\ edit[e].skips \in RefSets /\ EditFits(edit[e])
<1>1. edit[e] \in OpenEdit
  BY DEF RefInv, ReferencesTypeOK
<1>2. EditFits(edit[e])
  BY DEF RefInv
<1>3. GoodSEO(edit[e].mem.seo)
  BY <1>2 DEF EditFits
<1> QED
  BY <1>1, <1>2, <1>3 DEF OpenEdit, RefSets, GoodPage

(* A step that leaves the history and the requests alone.                  *)
LEMMA RefRowsMove ==
  ASSUME RefInv, UNCHANGED <<history, edit, edits>>, GoodPage(page'), asset' \in [Images -> {"ready", "trashed", "gone"}],
         present' \subseteq Topics \cup Labels, unused' \subseteq Topics \cup Labels, NothingDangles'
  PROVE  RefInv'
<1>1. ReferencesTypeOK'
  BY DEF RefInv, ReferencesTypeOK, GoodPage
<1>2. SEOsGood'
  BY DEF RefInv, SEOsGood, GoodPage
<1>3. RestoresNameSource' /\ RestoreAccounts' /\ DiffIsExact'
  BY DEF RefInv, RestoresNameSource, RestoreAccounts, DiffIsExact
<1>4. \A e \in Editors : (edit[e] # NoEdit)' => EditFits(edit[e])'
  BY DEF RefInv, EditFits
<1> QED
  BY <1>1, <1>2, <1>3, <1>4 DEF RefInv

(* A request begins with changes that fit.                                 *)
LEMMA StartKeeps ==
  ASSUME RefInv, NEW e \in Editors, MayStart(e), NEW op \in {"update", "media", "seo", "restore"},
         NEW mem, GoodPage(mem), NEW from \in Nat, from <= Len(history), NEW skips \in RefSets,
         op = "media" => mem.cover \in ItemAssets(mem.media) \cup {Unset},
         op = "restore" => from >= 1 /\ Accounts(history[from].snap, mem, skips),
         StartEdit(e, op, mem, from, skips)
  PROVE  RefInv'
<1>1. PICK d : d = [op |-> op, mem |-> mem, read |-> page.version, from |-> from, skips |-> skips]
  OBVIOUS
<1>2. d.op = op /\ d.mem = mem /\ d.from = from /\ d.skips = skips
  BY <1>1
<1>3. page.version \in Nat
  BY FieldsOfPage DEF RefInv, ReferencesTypeOK
<1>4. d \in OpenEdit
  BY <1>1, <1>3 DEF OpenEdit, GoodPage, RefSets
<1>5. edit' = [edit EXCEPT ![e] = d] /\ edits' = edits + 1 /\ UNCHANGED <<page, history, asset, present, unused>>
  BY <1>1 DEF StartEdit
<1>6. EditFits(d)
  BY <1>2 DEF EditFits, GoodPage
<1>7. edit \in [Editors -> OpenEdit \cup {NoEdit}]
  BY DEF RefInv, ReferencesTypeOK
<1>8. edit' \in [Editors -> OpenEdit \cup {NoEdit}]
  BY <1>4, <1>5, <1>7
<1>9. edits' \in 0..MaxEdits
  BY <1>5, ReferencesAssumption DEF MayStart, RefInv, ReferencesTypeOK
<1>10. ReferencesTypeOK'
  BY <1>5, <1>8, <1>9 DEF RefInv, ReferencesTypeOK
<1>11. SEOsGood' /\ RestoresNameSource' /\ RestoreAccounts' /\ DiffIsExact' /\ NothingDangles'
  BY <1>5 DEF RefInv, SEOsGood, RestoresNameSource, RestoreAccounts, DiffIsExact, NothingDangles
<1>12. ASSUME NEW f \in Editors PROVE (edit[f] # NoEdit => EditFits(edit[f]))'
  <2>1. edit'[f] = IF f = e THEN d ELSE edit[f]
    BY <1>5, <1>7
  <2>2. CASE f = e
    BY <1>5, <1>6, <2>1, <2>2 DEF EditFits
  <2>3. CASE f # e
    BY <1>5, <2>1, <2>3 DEF EditFits, RefInv
  <2> QED
    BY <2>2, <2>3
<1> QED
  BY <1>5, <1>10, <1>11, <1>12 DEF RefInv

(* Update of category and tags.                                            *)
LEMMA LinksKeep ==
  ASSUME RefInv, NEW e \in Editors, MayStart(e), NEW c \in Topics \cup {Unset}, NEW t \in SUBSET Labels, EditLinks(e, c, t)
  PROVE  RefInv'
<1>1. PICK mem : mem = [page EXCEPT !.text = edits + 1, !.category = c, !.tags = t]
  OBVIOUS
<1>2. page \in PostPage /\ GoodSEO(page.seo) /\ edits + 1 \in Nat
  BY ReferencesAssumption DEF RefInv, ReferencesTypeOK, SEOsGood
<1>3. mem \in PostPage /\ mem.seo = page.seo
  BY <1>1, <1>2 DEF PostPage
<1>4. GoodPage(mem) /\ NoSkips \in RefSets
  BY <1>2, <1>3 DEF GoodPage, NoSkips, RefSets
<1>5. StartEdit(e, "update", mem, 0, NoSkips)
  BY <1>1 DEF EditLinks
<1>6. 0 <= Len(history)
  BY DEF RefInv
<1> QED
  BY <1>4, <1>5, <1>6, StartKeeps

(* ReplaceMedia: the cover is one of the attachments.                      *)
LEMMA MediaKeep ==
  ASSUME RefInv, NEW e \in Editors, MayStart(e), NEW items \in MediaLists, EditMedia(e, items)
  PROVE  RefInv'
<1>1. PICK cover \in ItemAssets(items) \cup {Unset} :
        StartEdit(e, "media", [page EXCEPT !.media = items, !.cover = cover], 0, NoSkips)
  BY DEF EditMedia
<1>2. PICK mem : mem = [page EXCEPT !.media = items, !.cover = cover]
  OBVIOUS
<1>3. page \in PostPage /\ GoodSEO(page.seo)
  BY DEF RefInv, ReferencesTypeOK, SEOsGood
<1>4. items \in Seq(MediaItem) /\ \A i \in DOMAIN items : items[i] \in MediaItem
  <2>1. PICK m \in 0..2 : items \in [1..m -> MediaItem]
    BY DEF MediaLists, SeqOf
  <2> QED
    BY <2>1
<1>5. cover \in Images \cup {Unset}
  <2>1. \A i \in DOMAIN items : items[i].asset \in Images
    BY <1>4 DEF MediaItem
  <2> QED
    BY <2>1 DEF ItemAssets
<1>6. mem \in PostPage /\ mem.seo = page.seo /\ mem.cover = cover /\ mem.media = items
  BY <1>2, <1>3, <1>4, <1>5 DEF PostPage
<1>7. GoodPage(mem) /\ NoSkips \in RefSets
  BY <1>3, <1>6 DEF GoodPage, NoSkips, RefSets
<1>8. StartEdit(e, "media", mem, 0, NoSkips)
  BY <1>1, <1>2
<1>9. 0 <= Len(history)
  BY DEF RefInv
<1> QED
  BY <1>6, <1>7, <1>8, <1>9, StartKeeps

(* UpdateSEO: what passes validation may be stored.                        *)
LEMMA SEOKeep ==
  ASSUME RefInv, NEW e \in Editors, MayStart(e), NEW patch \in Patches, EditSEO(e, patch)
  PROVE  RefInv'
<1>1. PICK next : next = Apply(page.seo, patch)
  OBVIOUS
<1>2. PICK mem : mem = [page EXCEPT !.seo = next]
  OBVIOUS
<1>3. page \in PostPage /\ GoodSEO(page.seo)
  BY DEF RefInv, ReferencesTypeOK, SEOsGood
<1>4. ValidSEO(next) /\ StartEdit(e, "seo", mem, 0, NoSkips)
  BY <1>1, <1>2 DEF EditSEO
<1>5. GoodSEO(next)
  <2>1. ValidSEO(Apply(page.seo, patch))
    BY <1>1, <1>4
  <2> QED
    BY <1>1, <1>3, <2>1, ApplyIsGood
<1>6. mem \in PostPage /\ mem.seo = next
  <2>1. next \in SEO
    BY <1>5 DEF GoodSEO
  <2> QED
    BY <1>2, <1>3, <2>1 DEF PostPage
<1>7. GoodPage(mem) /\ NoSkips \in RefSets
  BY <1>5, <1>6 DEF GoodPage, NoSkips, RefSets
<1>8. 0 <= Len(history)
  BY DEF RefInv
<1> QED
  BY <1>4, <1>7, <1>8, StartKeeps

(* RestoreRevision: what is restored and what is skipped account for the   *)
(* source.                                                                 *)
LEMMA RestoreKeeps ==
  ASSUME RefInv, NEW e \in Editors, MayStart(e), NEW n \in DOMAIN history, RestoreFrom(e, n)
  PROVE  RefInv'
<1>1. PICK src, existing, new, mem, skips :
        /\ src = history[n].snap /\ existing = Existing(SnapshotRefs(src)) /\ new = DropMissing(src, existing)
        /\ mem = [new EXCEPT !.version = page.version] /\ skips = Skipped(src, existing)
  OBVIOUS
<1>2. n \in 1..Len(history) /\ Len(history) \in Nat /\ GoodPage(src)
  BY <1>1, HistoryTyped
<1>3. GoodPage(new) /\ skips \in RefSets /\ Accounts(src, new, skips)
  BY <1>1, <1>2, RestoreFits
<1>4. page.version \in Nat
  BY FieldsOfPage DEF RefInv, ReferencesTypeOK
<1>5. new \in PostPage
  BY <1>3 DEF GoodPage
<1>6. /\ mem \in PostPage /\ mem.text = new.text /\ mem.category = new.category /\ mem.tags = new.tags
      /\ mem.media = new.media /\ mem.cover = new.cover /\ mem.seo = new.seo
  BY <1>1, <1>4, <1>5 DEF PostPage
<1>7. GoodPage(mem)
  BY <1>3, <1>6 DEF GoodPage
<1>8. Accounts(src, mem, skips)
  BY <1>3, <1>6, AccountsAlike
<1>9. StartEdit(e, "restore", mem, n, skips)
  BY <1>1 DEF RestoreFrom
<1>10. n \in Nat /\ n >= 1 /\ n <= Len(history)
  BY <1>2
<1>11. Accounts(history[n].snap, mem, skips)
  BY <1>1, <1>8
<1> QED
  BY <1>3, <1>7, <1>9, <1>10, <1>11, StartKeeps

(* A request that fails changes nothing.                                   *)
LEMMA FailKeeps ==
  ASSUME RefInv, NEW e \in Editors, EditFails(e)
  PROVE  RefInv'
<1>1. edit' = [edit EXCEPT ![e] = NoEdit] /\ UNCHANGED <<page, history, asset, present, unused, edits>>
  BY DEF EditFails
<1>2. edit \in [Editors -> OpenEdit \cup {NoEdit}]
  BY DEF RefInv, ReferencesTypeOK
<1>3. edit' \in [Editors -> OpenEdit \cup {NoEdit}]
  BY <1>1, <1>2
<1>4. ReferencesTypeOK'
  BY <1>1, <1>3 DEF RefInv, ReferencesTypeOK
<1>5. SEOsGood' /\ RestoresNameSource' /\ RestoreAccounts' /\ DiffIsExact' /\ NothingDangles'
  BY <1>1 DEF RefInv, SEOsGood, RestoresNameSource, RestoreAccounts, DiffIsExact, NothingDangles
<1>6. ASSUME NEW f \in Editors PROVE (edit[f] # NoEdit => EditFits(edit[f]))'
  <2>1. edit'[f] = edit[f] \/ edit'[f] = NoEdit
    BY <1>1, <1>2
  <2> QED
    BY <1>1, <2>1 DEF EditFits, RefInv
<1> QED
  BY <1>1, <1>4, <1>5, <1>6 DEF RefInv

-----------------------------------------------------------------------------
(* Transactions.                                                           *)

(* The page a transaction writes points at rows only: it resolved what it  *)
(* writes, and the rest is the page's.                                     *)
LEMMA WrittenIsGood ==
  ASSUME RefInv, NEW e \in Editors, edit[e] # NoEdit, NEW d, d = edit[e], AllResolve(d), NEW p, p = WrittenPage(d)
  PROVE  /\ GoodPage(p) /\ PointsAtRows(p)
         /\ d.op = "restore" => /\ p.text = d.mem.text /\ p.category = d.mem.category /\ p.tags = d.mem.tags
                                /\ p.media = d.mem.media /\ p.cover = d.mem.cover /\ p.seo = d.mem.seo
<1>1. /\ d \in OpenEdit /\ d.op \in {"update", "media", "seo", "restore"} /\ GoodPage(d.mem) /\ EditFits(d)
  BY EditTyped
<1>2. PICK mem : mem = d.mem
  OBVIOUS
<1>3. /\ mem \in PostPage /\ GoodSEO(mem.seo) /\ mem.version + 1 \in Nat
      /\ page \in PostPage /\ GoodSEO(page.seo) /\ PointsAtRows(page)
  BY <1>1, <1>2, FieldsOfPage DEF GoodPage, RefInv, ReferencesTypeOK, SEOsGood, NothingDangles, PointsAtRows
<1>4. /\ SnapshotRefs(p).topics = {p.category} \ {Unset} /\ SnapshotRefs(p).labels = p.tags
      /\ SnapshotRefs(p).images = (ItemAssets(p.media) \cup {p.cover, p.seo.og, p.seo.tw}) \ {Unset}
  BY DEF SnapshotRefs
<1>5. /\ {page.category} \ {Unset} \subseteq present /\ page.tags \subseteq present
      /\ \A i \in (ItemAssets(page.media) \cup {page.cover, page.seo.og, page.seo.tw}) \ {Unset} : asset[i] # "gone"
  BY <1>3 DEF PointsAtRows, SnapshotRefs
<1>6. CASE d.op = "update"
  <2>1. p = [mem EXCEPT !.media = page.media, !.seo = page.seo, !.version = mem.version + 1]
    BY <1>2, <1>6 DEF WrittenPage
  <2>2. /\ p.text = mem.text /\ p.category = mem.category /\ p.tags = mem.tags /\ p.cover = mem.cover
        /\ p.media = page.media /\ p.seo = page.seo /\ p \in PostPage
    BY <1>3, <2>1 DEF PostPage
  <2>3. /\ {mem.category} \ {Unset} \subseteq present /\ mem.tags \subseteq present
        /\ \A i \in {mem.cover} \ {Unset} : asset[i] # "gone"
    BY <1>2, <1>6 DEF AllResolve, ResolvedRefs, SnapshotRefs
  <2>4. PointsAtRows(p)
    BY <1>4, <1>5, <2>2, <2>3 DEF PointsAtRows
  <2> QED
    BY <1>3, <1>6, <2>2, <2>4 DEF GoodPage
<1>7. CASE d.op = "media"
  <2>1. p = [page EXCEPT !.media = mem.media, !.cover = mem.cover]
    BY <1>2, <1>7 DEF WrittenPage
  <2>2. /\ p.category = page.category /\ p.tags = page.tags /\ p.cover = mem.cover
        /\ p.media = mem.media /\ p.seo = page.seo /\ p \in PostPage
    BY <1>3, <2>1 DEF PostPage
  <2>3. \A i \in ItemAssets(mem.media) : asset[i] # "gone"
    BY <1>2, <1>7 DEF AllResolve, ResolvedRefs, NoSkips
  <2>4. mem.cover \in ItemAssets(mem.media) \cup {Unset}
    BY <1>1, <1>2, <1>7 DEF EditFits
  <2>5. PointsAtRows(p)
    BY <1>4, <1>5, <2>2, <2>3, <2>4 DEF PointsAtRows
  <2> QED
    BY <1>3, <1>7, <2>2, <2>5 DEF GoodPage
<1>8. CASE d.op = "seo"
  <2>1. p = [page EXCEPT !.seo = mem.seo]
    BY <1>2, <1>8 DEF WrittenPage
  <2>2. /\ p.category = page.category /\ p.tags = page.tags /\ p.cover = page.cover
        /\ p.media = page.media /\ p.seo = mem.seo /\ p \in PostPage
    BY <1>3, <2>1 DEF PostPage
  <2>3. \A i \in {mem.seo.og, mem.seo.tw} \ {Unset} : asset[i] # "gone"
    BY <1>2, <1>8 DEF AllResolve, ResolvedRefs, NoSkips
  <2>4. PointsAtRows(p)
    BY <1>4, <1>5, <2>2, <2>3 DEF PointsAtRows
  <2> QED
    BY <1>3, <1>8, <2>2, <2>4 DEF GoodPage
<1>9. CASE d.op = "restore"
  <2>1. p = [mem EXCEPT !.version = mem.version + 1]
    BY <1>2, <1>9 DEF WrittenPage
  <2>2. /\ p.text = mem.text /\ p.category = mem.category /\ p.tags = mem.tags /\ p.cover = mem.cover
        /\ p.media = mem.media /\ p.seo = mem.seo /\ p \in PostPage
    BY <1>3, <2>1 DEF PostPage
  <2>3. SnapshotRefs(p) = SnapshotRefs(mem)
    BY <2>2 DEF SnapshotRefs
  <2>4. PointsAtRows(p)
    BY <1>2, <1>9, <2>3 DEF AllResolve, ResolvedRefs, PointsAtRows
  <2> QED
    BY <1>2, <1>3, <2>2, <2>4 DEF GoodPage
<1> QED
  BY <1>1, <1>6, <1>7, <1>8, <1>9

(* A transaction appends one revision, which lists what it changed.        *)
LEMMA CommitKeeps ==
  ASSUME RefInv, NEW e \in Editors, CommitEdit(e)
  PROVE  RefInv'
<1>1. PICK d, p, snap, entry :
        /\ d = edit[e] /\ p = WrittenPage(d) /\ snap = SnapshotFrom(d, p)
        /\ entry = [op |-> d.op, snap |-> snap, fields |-> DiffSnapshots(history[Len(history)].snap, snap),
                    from |-> d.from, skips |-> d.skips]
  OBVIOUS
<1>2. /\ edit[e] # NoEdit /\ AllResolve(d) /\ page' = p /\ history' = Append(history, entry)
      /\ edit' = [edit EXCEPT ![e] = NoEdit] /\ UNCHANGED <<asset, present, unused, edits>>
  BY <1>1 DEF CommitEdit
<1>3. /\ d \in OpenEdit /\ d.op \in {"update", "media", "seo", "restore"} /\ GoodPage(d.mem) /\ d.from \in Nat
      /\ d.skips \in RefSets /\ EditFits(d)
  BY <1>1, <1>2, EditTyped
<1>4. /\ GoodPage(p) /\ PointsAtRows(p)
      /\ d.op = "restore" => /\ p.text = d.mem.text /\ p.category = d.mem.category /\ p.tags = d.mem.tags
                             /\ p.media = d.mem.media /\ p.cover = d.mem.cover /\ p.seo = d.mem.seo
  BY <1>1, <1>2, WrittenIsGood
<1>5. PICK t, c, v : t = d.mem.text /\ c = d.mem.category /\ v = d.mem.cover
  OBVIOUS
<1>6. t \in Nat /\ c \in Topics \cup {Unset} /\ v \in Images \cup {Unset}
  BY <1>3, <1>5, FieldsOfPage DEF GoodPage
<1>7. snap = [p EXCEPT !.text = t, !.category = c, !.cover = v]
  BY <1>1, <1>5 DEF SnapshotFrom
<1>8. p \in PostPage /\ GoodSEO(p.seo)
  BY <1>4 DEF GoodPage
<1>9. /\ snap \in PostPage /\ snap.text = t /\ snap.category = c /\ snap.cover = v /\ snap.tags = p.tags
      /\ snap.media = p.media /\ snap.seo = p.seo
  BY <1>6, <1>7, <1>8 DEF PostPage
<1>10. GoodPage(snap)
  BY <1>8, <1>9 DEF GoodPage
<1>11. /\ history \in Seq(HistoryEntry) /\ Len(history) \in Nat /\ DOMAIN history = 1..Len(history) /\ Len(history) >= 1
       /\ \A n \in 1..Len(history) : history[n] \in HistoryEntry /\ GoodPage(history[n].snap) /\ history[n].from \in Nat
  BY HistoryTyped DEF RefInv
<1>12. PICK last : last = history[Len(history)].snap
  OBVIOUS
<1>13. last \in PostPage
  BY <1>11, <1>12 DEF GoodPage
<1>14. PICK fields : fields = DiffSnapshots(last, snap)
  OBVIOUS
<1>15. fields \in Seq(PageFields) /\ ToSet(fields) = {f \in PageFields : snap[f] # last[f]}
  BY <1>9, <1>13, <1>14, DiffIs
<1>16. entry = [op |-> d.op, snap |-> snap, fields |-> fields, from |-> d.from, skips |-> d.skips]
  BY <1>1, <1>12, <1>14
<1>17. entry \in HistoryEntry
  BY <1>3, <1>9, <1>15, <1>16 DEF HistoryEntry, RefSets
<1>18. entry.op = d.op /\ entry.snap = snap /\ entry.fields = fields /\ entry.from = d.from /\ entry.skips = d.skips
  BY <1>16
<1>19. /\ history' \in Seq(HistoryEntry) /\ Len(history') = Len(history) + 1 /\ DOMAIN history' = 1..Len(history) + 1
       /\ \A n \in 1..Len(history) : history'[n] = history[n]
       /\ history'[Len(history) + 1] = entry
  BY <1>2, <1>11, <1>17
<1>20. \A n \in DOMAIN history' : n \in 1..Len(history) \/ n = Len(history) + 1
  BY <1>11, <1>19
<1>21. d.from <= Len(history)
  BY <1>3 DEF EditFits
<1>22. edit \in [Editors -> OpenEdit \cup {NoEdit}]
  BY DEF RefInv, ReferencesTypeOK
<1>23. edit' \in [Editors -> OpenEdit \cup {NoEdit}]
  BY <1>2, <1>22
<1>24. \A n \in DOMAIN history' : history'[n].from < n
  <2>1. \A n \in 1..Len(history) : history[n].from < n
    BY <1>11 DEF RefInv, ReferencesTypeOK
  <2>2. entry.from < Len(history) + 1
    BY <1>3, <1>11, <1>18, <1>21
  <2> QED
    BY <1>19, <1>20, <2>1, <2>2
<1>25. ReferencesTypeOK'
  BY <1>2, <1>8, <1>19, <1>23, <1>24 DEF RefInv, ReferencesTypeOK
<1>26. SEOsGood'
  <2>1. \A n \in DOMAIN history' : GoodSEO(history'[n].snap.seo)
    BY <1>10, <1>11, <1>18, <1>19, <1>20 DEF GoodPage
  <2> QED
    BY <1>2, <1>8, <2>1 DEF SEOsGood
<1>27. d.op = "restore" => d.from >= 1 /\ d.from \in 1..Len(history) /\ Accounts(history[d.from].snap, snap, d.skips)
  <2> SUFFICES ASSUME d.op = "restore"
               PROVE  d.from >= 1 /\ d.from \in 1..Len(history) /\ Accounts(history[d.from].snap, snap, d.skips)
    OBVIOUS
  <2>1. d.from >= 1 /\ Accounts(history[d.from].snap, d.mem, d.skips)
    BY <1>3 DEF EditFits
  <2>2. d.from \in 1..Len(history)
    BY <1>3, <1>11, <1>21, <2>1
  <2>3. PICK src, mem : src = history[d.from].snap /\ mem = d.mem
    OBVIOUS
  <2>4. /\ Accounts(src, mem, d.skips) /\ snap.text = mem.text /\ snap.category = mem.category /\ snap.tags = mem.tags
        /\ snap.media = mem.media /\ snap.cover = mem.cover /\ snap.seo = mem.seo
    BY <1>4, <1>5, <1>9, <2>1, <2>3
  <2>5. Accounts(src, snap, d.skips)
    BY <2>4, AccountsAlike
  <2> QED
    BY <2>1, <2>2, <2>3, <2>5
<1>28. RestoresNameSource'
  BY <1>11, <1>18, <1>19, <1>20, <1>27 DEF RefInv, RestoresNameSource
<1>29. RestoreAccounts'
  <2>1. ASSUME NEW n \in DOMAIN history', history'[n].op = "restore"
        PROVE  Accounts(history'[history'[n].from].snap, history'[n].snap, history'[n].skips)
    <3>1. CASE n \in 1..Len(history)
      <4>1. history[n].op = "restore" /\ history[n].from >= 1 /\ history[n].from < n /\ history[n].from \in Nat
        BY <1>11, <1>19, <2>1, <3>1 DEF RefInv, RestoresNameSource, ReferencesTypeOK
      <4>2. history[n].from \in 1..Len(history)
        BY <1>11, <3>1, <4>1
      <4>3. Accounts(history[history[n].from].snap, history[n].snap, history[n].skips)
        BY <1>11, <3>1, <4>1 DEF RefInv, RestoreAccounts, Accounts
      <4> QED
        BY <1>19, <3>1, <4>2, <4>3
    <3>2. CASE n = Len(history) + 1
      <4>1. history'[n] = entry /\ d.op = "restore"
        BY <1>18, <1>19, <2>1, <3>2
      <4>2. history'[d.from] = history[d.from]
        BY <1>19, <1>27, <4>1
      <4> QED
        BY <1>18, <1>27, <4>1, <4>2
    <3> QED
      BY <1>20, <3>1, <3>2
  <2> QED
    BY <2>1 DEF RestoreAccounts, Accounts
<1>30. DiffIsExact'
  <2>1. ASSUME NEW n \in DOMAIN history', n > 1
        PROVE  ToSet(history'[n].fields) = {f \in PageFields : history'[n].snap[f] # history'[n - 1].snap[f]}
    <3>1. CASE n \in 1..Len(history)
      <4>1. n - 1 \in 1..Len(history) /\ history'[n] = history[n] /\ history'[n - 1] = history[n - 1]
        BY <1>11, <1>19, <2>1, <3>1
      <4> QED
        BY <1>11, <2>1, <3>1, <4>1 DEF RefInv, DiffIsExact
    <3>2. CASE n = Len(history) + 1
      <4>1. history'[n] = entry /\ history'[n - 1] = history[Len(history)]
        BY <1>11, <1>19, <3>2
      <4> QED
        BY <1>12, <1>15, <1>18, <4>1
    <3> QED
      BY <1>20, <3>1, <3>2
  <2> QED
    BY <2>1 DEF DiffIsExact
<1>31. NothingDangles'
  BY <1>2, <1>4 DEF PointsAtRows, NothingDangles
<1>32. ASSUME NEW f \in Editors PROVE (edit[f] # NoEdit => EditFits(edit[f]))'
  <2> SUFFICES ASSUME edit'[f] # NoEdit PROVE EditFits(edit[f])'
    OBVIOUS
  <2>1. PICK x : x = edit[f]
    OBVIOUS
  <2>2. edit'[f] = x /\ edit[f] # NoEdit
    BY <1>2, <1>22, <2>1
  <2>3. EditFits(x) /\ x.from \in Nat
    BY <2>1, <2>2, EditTyped
  <2>4. x.from <= Len(history')
    BY <1>11, <1>19, <2>3 DEF EditFits
  <2>5. x.op = "restore" => x.from >= 1 /\ Accounts(history'[x.from].snap, x.mem, x.skips)
    <3> SUFFICES ASSUME x.op = "restore" PROVE x.from >= 1 /\ Accounts(history'[x.from].snap, x.mem, x.skips)
      OBVIOUS
    <3>1. x.from >= 1 /\ x.from <= Len(history) /\ Accounts(history[x.from].snap, x.mem, x.skips)
      BY <2>3 DEF EditFits
    <3>2. history'[x.from] = history[x.from]
      BY <1>11, <1>19, <2>3, <3>1
    <3> QED
      BY <3>1, <3>2
  <2> QED
    BY <2>2, <2>3, <2>4, <2>5 DEF EditFits
<1>33. Len(history') >= 1
  BY <1>11, <1>19
<1> QED
  BY <1>25, <1>26, <1>28, <1>29, <1>30, <1>31, <1>32, <1>33 DEF RefInv

-----------------------------------------------------------------------------
(* References going away.                                                  *)

LEMMA CountKeeps ==
  ASSUME RefInv, NEW r \in Topics \cup Labels, CountPosts(r)
  PROVE  RefInv'
<1>1. unused' = unused \cup {r} /\ UNCHANGED <<page, history, asset, present, edit, edits>>
  BY DEF CountPosts
<1>2. GoodPage(page') /\ NothingDangles'
  BY <1>1 DEF RefInv, ReferencesTypeOK, SEOsGood, GoodPage, NothingDangles
<1>3. /\ asset' \in [Images -> {"ready", "trashed", "gone"}]
      /\ present' \subseteq Topics \cup Labels /\ unused' \subseteq Topics \cup Labels
  BY <1>1 DEF RefInv, ReferencesTypeOK
<1> QED
  BY <1>1, <1>2, <1>3, RefRowsMove

(* A deleted category or tag is taken off the post.                        *)
LEMMA DeleteRowKeeps ==
  ASSUME RefInv, NEW r \in Topics \cup Labels, DeleteRow(r)
  PROVE  RefInv'
<1>1. /\ present' = present \ {r} /\ UNCHANGED <<history, asset, unused, edit, edits>>
      /\ page' = [page EXCEPT !.category = Cleared(page.category, r), !.tags = page.tags \ {r}]
  BY DEF DeleteRow
<1>2. page \in PostPage /\ GoodSEO(page.seo)
  BY DEF RefInv, ReferencesTypeOK, SEOsGood
<1>3. PICK c, g : c = Cleared(page.category, r) /\ g = page.tags \ {r}
  OBVIOUS
<1>4. c \in Topics \cup {Unset} /\ g \in SUBSET Labels
  BY <1>2, <1>3, FieldsOfPage DEF Cleared
<1>5. page' = [page EXCEPT !.category = c, !.tags = g]
  BY <1>1, <1>3
<1>6. /\ page' \in PostPage /\ page'.category = c /\ page'.tags = g /\ page'.seo = page.seo
      /\ page'.cover = page.cover /\ page'.media = page.media
  BY <1>2, <1>4, <1>5 DEF PostPage
<1>7. GoodPage(page')
  BY <1>2, <1>6 DEF GoodPage
<1>8. NothingDangles'
  <2>1. /\ SnapshotRefs(page').topics = {c} \ {Unset} /\ SnapshotRefs(page').labels = g
        /\ SnapshotRefs(page').images = SnapshotRefs(page).images
    BY <1>6 DEF SnapshotRefs
  <2>2. {page.category} \ {Unset} \subseteq present /\ page.tags \subseteq present
        /\ \A i \in SnapshotRefs(page).images : asset[i] # "gone"
    BY DEF RefInv, NothingDangles, SnapshotRefs
  <2>3. ({c} \ {Unset}) \cup g \subseteq present'
    BY <1>1, <1>3, <2>2 DEF Cleared
  <2> QED
    BY <1>1, <2>1, <2>2, <2>3 DEF NothingDangles
<1>9. /\ asset' \in [Images -> {"ready", "trashed", "gone"}]
      /\ present' \subseteq Topics \cup Labels /\ unused' \subseteq Topics \cup Labels
  BY <1>1 DEF RefInv, ReferencesTypeOK
<1> QED
  BY <1>1, <1>7, <1>8, <1>9, RefRowsMove

(* The page without an asset points at nothing else than before.           *)
LEMMA WithoutIs ==
  ASSUME NEW p, GoodPage(p), NEW i \in Images, NEW q, q = WithoutAsset(p, i)
  PROVE  /\ GoodPage(q) /\ q.category = p.category /\ q.tags = p.tags /\ q.seo = p.seo
         /\ q.cover = Cleared(p.cover, i) /\ ItemAssets(q.media) = ItemAssets(p.media) \ {i}
<1>1. p \in PostPage /\ GoodSEO(p.seo) /\ p.media \in Seq(MediaItem)
  BY FieldsOfPage DEF GoodPage
<1>2. PICK items, v : items = Kept(p.media, [asset : Images \ {i}, kind : MediaKinds]) /\ v = Cleared(p.cover, i)
  OBVIOUS
<1>3. Images \ {i} \in SUBSET Images
  OBVIOUS
<1>4. items \in Seq(MediaItem) /\ ItemAssets(items) = ItemAssets(p.media) \cap (Images \ {i})
  BY <1>1, <1>2, <1>3, MediaKept
<1>5. ItemAssets(p.media) \subseteq Images
  <2>1. \A k \in DOMAIN p.media : p.media[k] \in MediaItem
    BY <1>1
  <2> QED
    BY <2>1 DEF ItemAssets, MediaItem
<1>6. v \in Images \cup {Unset}
  BY <1>1, <1>2, FieldsOfPage DEF Cleared
<1>7. q = [p EXCEPT !.media = items, !.cover = v]
  BY <1>2 DEF WithoutAsset
<1>8. /\ q \in PostPage /\ q.category = p.category /\ q.tags = p.tags /\ q.seo = p.seo /\ q.cover = v /\ q.media = items
  BY <1>1, <1>4, <1>6, <1>7 DEF PostPage
<1> QED
  BY <1>1, <1>2, <1>4, <1>5, <1>8 DEF GoodPage

(* A trashed asset is still a row; the post keeps its social images.       *)
LEMMA TrashKeeps ==
  ASSUME RefInv, NEW i \in Images, TrashAsset(i)
  PROVE  RefInv'
<1>1. /\ asset' = [asset EXCEPT ![i] = "trashed"] /\ page' = WithoutAsset(page, i)
      /\ UNCHANGED <<history, present, unused, edit, edits>>
  BY DEF TrashAsset
<1>2. GoodPage(page) /\ asset \in [Images -> {"ready", "trashed", "gone"}]
  BY DEF RefInv, ReferencesTypeOK, SEOsGood, GoodPage
<1>3. PICK p, q : p = page /\ q = WithoutAsset(p, i)
  OBVIOUS
<1>4. /\ GoodPage(q) /\ q.category = p.category /\ q.tags = p.tags /\ q.seo = p.seo
      /\ q.cover = Cleared(p.cover, i) /\ ItemAssets(q.media) = ItemAssets(p.media) \ {i}
  <2>1. GoodPage(p) /\ q = WithoutAsset(p, i)
    BY <1>2, <1>3
  <2> QED
    BY <2>1, WithoutIs
<1>5. /\ SnapshotRefs(q).topics = SnapshotRefs(p).topics /\ SnapshotRefs(q).labels = SnapshotRefs(p).labels
      /\ SnapshotRefs(q).images \subseteq SnapshotRefs(p).images
  BY <1>4 DEF SnapshotRefs, Cleared
<1>6. page' = q
  BY <1>1, <1>3
<1>7. SnapshotRefs(q).images \subseteq Images
  BY <1>4, RefsTyped DEF GoodPage, RefSets
<1>8. NothingDangles'
  <2>1. /\ SnapshotRefs(p).topics \cup SnapshotRefs(p).labels \subseteq present
        /\ \A j \in SnapshotRefs(p).images : asset[j] # "gone"
    BY <1>3 DEF RefInv, NothingDangles
  <2>2. \A j \in SnapshotRefs(q).images : asset'[j] # "gone"
    BY <1>1, <1>2, <1>5, <1>7, <2>1
  <2> QED
    BY <1>1, <1>5, <1>6, <2>1, <2>2 DEF NothingDangles
<1>9. /\ asset' \in [Images -> {"ready", "trashed", "gone"}]
      /\ present' \subseteq Topics \cup Labels /\ unused' \subseteq Topics \cup Labels
  BY <1>1, <1>2 DEF RefInv, ReferencesTypeOK
<1>10. GoodPage(page')
  BY <1>4, <1>6
<1> QED
  BY <1>1, <1>8, <1>9, <1>10, RefRowsMove

(* A purged asset is taken off the social images, too.                     *)
LEMMA PurgeKeeps ==
  ASSUME RefInv, NEW i \in Images, PurgeAsset(i)
  PROVE  RefInv'
<1>1. PICK p, q, s : p = page /\ q = WithoutAsset(p, i) /\ s = WithoutSocial(q.seo, i)
  OBVIOUS
<1>2. /\ asset' = [asset EXCEPT ![i] = "gone"] /\ page' = [q EXCEPT !.seo = s]
      /\ UNCHANGED <<history, present, unused, edit, edits>>
  BY <1>1 DEF PurgeAsset
<1>3. GoodPage(p) /\ asset \in [Images -> {"ready", "trashed", "gone"}]
  BY <1>1 DEF RefInv, ReferencesTypeOK, SEOsGood, GoodPage
<1>4. /\ GoodPage(q) /\ q.category = p.category /\ q.tags = p.tags /\ q.seo = p.seo
      /\ q.cover = Cleared(p.cover, i) /\ ItemAssets(q.media) = ItemAssets(p.media) \ {i}
  <2>1. GoodPage(p) /\ q = WithoutAsset(p, i)
    BY <1>1, <1>3
  <2> QED
    BY <2>1, WithoutIs
<1>5. PICK old, o, w : old = q.seo /\ o = Cleared(old.og, i) /\ w = Cleared(old.tw, i)
  OBVIOUS
<1>6. old \in SEO /\ GoodSEO(old)
  BY <1>4, <1>5 DEF GoodPage, GoodSEO
<1>7. o \in Images \cup {Unset} /\ w \in Images \cup {Unset}
  BY <1>5, <1>6, FieldsOfSEO DEF Cleared
<1>8. s = [old EXCEPT !.og = o, !.tw = w]
  BY <1>1, <1>5 DEF WithoutSocial
<1>9. /\ s \in SEO /\ s.title = old.title /\ s.keywords = old.keywords /\ s.canonical = old.canonical
      /\ s.og = o /\ s.tw = w
  BY <1>6, <1>7, <1>8 DEF SEO
<1>10. GoodSEO(s)
  BY <1>6, <1>9, SocialIsGood
<1>11. PICK r : r = [q EXCEPT !.seo = s]
  OBVIOUS
<1>12. /\ r \in PostPage /\ r.seo = s /\ r.category = q.category /\ r.tags = q.tags /\ r.cover = q.cover
       /\ r.media = q.media
  BY <1>4, <1>9, <1>11 DEF PostPage, GoodPage
<1>13. page' = r /\ GoodPage(r)
  BY <1>2, <1>10, <1>11, <1>12 DEF GoodPage
<1>14. /\ SnapshotRefs(r).topics = SnapshotRefs(p).topics /\ SnapshotRefs(r).labels = SnapshotRefs(p).labels
       /\ SnapshotRefs(r).images \subseteq SnapshotRefs(p).images \ {i}
  <2>1. SnapshotRefs(r).topics = SnapshotRefs(p).topics /\ SnapshotRefs(r).labels = SnapshotRefs(p).labels
    BY <1>4, <1>12 DEF SnapshotRefs
  <2>2. /\ SnapshotRefs(r).images = (ItemAssets(r.media) \cup {r.cover, r.seo.og, r.seo.tw}) \ {Unset}
        /\ SnapshotRefs(p).images = (ItemAssets(p.media) \cup {p.cover, p.seo.og, p.seo.tw}) \ {Unset}
    BY DEF SnapshotRefs
  <2>3. Unset # i
    BY ReferencesAssumption
  <2> QED
    BY <1>4, <1>5, <1>9, <1>12, <2>1, <2>2, <2>3 DEF Cleared
<1>15. SnapshotRefs(r).images \subseteq Images
  BY <1>12, RefsTyped DEF RefSets
<1>16. NothingDangles'
  <2>1. /\ SnapshotRefs(p).topics \cup SnapshotRefs(p).labels \subseteq present
        /\ \A j \in SnapshotRefs(p).images : asset[j] # "gone"
    BY <1>1 DEF RefInv, NothingDangles
  <2>2. \A j \in SnapshotRefs(r).images : asset'[j] # "gone"
    BY <1>2, <1>3, <1>14, <1>15, <2>1
  <2> QED
    BY <1>2, <1>13, <1>14, <2>1, <2>2 DEF NothingDangles
<1>17. /\ asset' \in [Images -> {"ready", "trashed", "gone"}]
       /\ present' \subseteq Topics \cup Labels /\ unused' \subseteq Topics \cup Labels
  BY <1>2, <1>3 DEF RefInv, ReferencesTypeOK
<1>18. GoodPage(page')
  BY <1>13
<1> QED
  BY <1>2, <1>16, <1>17, <1>18, RefRowsMove

(* The first revision is a draft without references.                       *)
LEMMA ReferencesInitInv == ReferencesInit => RefInv
<1> SUFFICES ASSUME ReferencesInit PROVE RefInv
  OBVIOUS
<1>1. NoSEO \in SEO
  BY DEF NoSEO, SEO
<1>2. GoodSEO(NoSEO)
  <2>1. NoSEO.keywords = <<>> /\ NoSEO.title = "" /\ NoSEO.canonical = ""
    BY DEF NoSEO
  <2>2. \A k : k = <<>> => DOMAIN k = {}
    OBVIOUS
  <2> QED
    BY <1>1, <2>1, <2>2 DEF GoodSEO, ValidSEO, Distinct, TextFits, URLFits
<1>3. Draft \in PostPage /\ Draft.seo = NoSEO /\ Draft.category = Unset /\ Draft.tags = {} /\ Draft.cover = Unset
      /\ Draft.media = <<>>
  BY <1>1 DEF Draft, PostPage
<1>4. PICK entry : entry = [op |-> "create", snap |-> Draft, fields |-> <<>>, from |-> 0, skips |-> NoSkips]
  OBVIOUS
<1>5. entry \in HistoryEntry
  <2>1. <<>> \in Seq(PageFields) /\ NoSkips \in RefSets
    BY DEF NoSkips, RefSets
  <2> QED
    BY <1>3, <1>4, <2>1 DEF HistoryEntry, RefSets
<1>6. history = <<entry>>
  BY <1>4 DEF ReferencesInit
<1>7. history \in Seq(HistoryEntry) /\ Len(history) = 1 /\ DOMAIN history = {1} /\ history[1] = entry
  BY <1>5, <1>6
<1>8. entry.op = "create" /\ entry.snap = Draft /\ entry.from = 0
  BY <1>4
<1>9. ReferencesTypeOK
  BY <1>3, <1>7, <1>8, ReferencesAssumption DEF ReferencesInit, ReferencesTypeOK
<1>10. SEOsGood
  BY <1>2, <1>3, <1>7, <1>8 DEF ReferencesInit, SEOsGood
<1>11. RestoresNameSource /\ RestoreAccounts /\ DiffIsExact
  BY <1>7, <1>8 DEF RestoresNameSource, RestoreAccounts, DiffIsExact
<1>12. NothingDangles
  <2>1. page = Draft /\ ItemAssets(<<>>) = {} /\ NoSEO.og = Unset /\ NoSEO.tw = Unset
    BY DEF ReferencesInit, ItemAssets, NoSEO
  <2>2. SnapshotRefs(page).topics = {} /\ SnapshotRefs(page).labels = {} /\ SnapshotRefs(page).images = {}
    BY <1>3, <2>1 DEF SnapshotRefs
  <2> QED
    BY <2>2 DEF NothingDangles
<1>13. \A e \in Editors : edit[e] = NoEdit
  BY DEF ReferencesInit
<1> QED
  BY <1>7, <1>9, <1>10, <1>11, <1>12, <1>13 DEF RefInv

(* Every step keeps the invariant.                                         *)
LEMMA ReferencesNextInv == RefInv /\ [ReferencesNext]_refVars => RefInv'
<1> SUFFICES ASSUME RefInv, [ReferencesNext]_refVars PROVE RefInv'
  OBVIOUS
<1>1. ASSUME NEW e \in Editors, MayStart(e),
             \/ \E c \in Topics \cup {Unset}, t \in SUBSET Labels : EditLinks(e, c, t)
             \/ \E items \in MediaLists : EditMedia(e, items)
             \/ \E patch \in Patches : EditSEO(e, patch)
             \/ \E n \in DOMAIN history : RestoreFrom(e, n)
      PROVE  RefInv'
  BY <1>1, LinksKeep, MediaKeep, SEOKeep, RestoreKeeps
<1>2. ASSUME NEW e \in Editors, CommitEdit(e) \/ EditFails(e) PROVE RefInv'
  BY <1>2, CommitKeeps, FailKeeps
<1>3. ASSUME NEW r \in Topics \cup Labels, CountPosts(r) \/ DeleteRow(r) PROVE RefInv'
  BY <1>3, CountKeeps, DeleteRowKeeps
<1>4. ASSUME NEW i \in Images, TrashAsset(i) \/ PurgeAsset(i) PROVE RefInv'
  BY <1>4, TrashKeeps, PurgeKeeps
<1>5. CASE UNCHANGED refVars
  <2>1. UNCHANGED <<page, history, asset, present, unused, edit, edits>>
    BY <1>5 DEF refVars
  <2>2. GoodPage(page') /\ NothingDangles'
    BY <2>1 DEF RefInv, ReferencesTypeOK, SEOsGood, GoodPage, NothingDangles
  <2>3. /\ asset' \in [Images -> {"ready", "trashed", "gone"}]
        /\ present' \subseteq Topics \cup Labels /\ unused' \subseteq Topics \cup Labels
    BY <2>1 DEF RefInv, ReferencesTypeOK
  <2> QED
    BY <2>1, <2>2, <2>3, RefRowsMove
<1> QED
  BY <1>1, <1>2, <1>3, <1>4, <1>5 DEF ReferencesNext

(* The cards of a typed page, whatever became of its images.               *)
LEMMA CardsOfPage == ReferencesTypeOK => CardsAreServable
<1> SUFFICES ASSUME ReferencesTypeOK PROVE CardsAreServable
  OBVIOUS
<1>1. PICK o, w, c : o = page.seo.og /\ w = page.seo.tw /\ c = page.cover
  OBVIOUS
<1>2. o \in Images \cup {Unset} /\ w \in Images \cup {Unset} /\ c \in Images \cup {Unset}
  <2>1. page \in PostPage
    BY DEF ReferencesTypeOK
  <2> QED
    BY <1>1, <2>1, FieldsOfPage, FieldsOfSEO
<1>3. PICK meta : meta = Render(page)
  OBVIOUS
<1>4. PICK og, tw, cover : og = ImageURL(o) /\ tw = ImageURL(w) /\ cover = ImageURL(c)
  OBVIOUS
<1>5. /\ meta.og = FirstNonEmpty(og, FirstNonEmpty(cover, SiteImage))
      /\ meta.twitter = FirstNonEmpty(tw, meta.og)
  BY <1>1, <1>3, <1>4 DEF Render, RenderSEO
<1>6. /\ (og = Unset /\ (o = Unset \/ asset[o] # "ready")) \/ (og = o /\ o \in Images /\ asset[o] = "ready")
      /\ (tw = Unset /\ (w = Unset \/ asset[w] # "ready")) \/ (tw = w /\ w \in Images /\ asset[w] = "ready")
      /\ (cover = Unset /\ (c = Unset \/ asset[c] # "ready")) \/ (cover = c /\ c \in Images /\ asset[c] = "ready")
  <2>1. ASSUME NEW x \in Images \cup {Unset}, NEW y, y = ImageURL(x)
        PROVE  (y = Unset /\ (x = Unset \/ asset[x] # "ready")) \/ (y = x /\ x \in Images /\ asset[x] = "ready")
    BY <2>1 DEF ImageURL
  <2> QED
    BY <1>2, <1>4, <2>1
<1>7. Unset \notin Images /\ SiteImage \notin Images
  BY ReferencesAssumption
<1>8. \A i \in {meta.og, meta.twitter} : i = SiteImage \/ asset[i] = "ready"
  BY <1>5, <1>6, <1>7 DEF FirstNonEmpty
<1>9. meta.twitter = SiteImage => \A i \in {o, w, c} \ {Unset} : asset[i] # "ready"
  BY <1>5, <1>6, <1>7 DEF FirstNonEmpty
<1> QED
  BY <1>1, <1>3, <1>8, <1>9 DEF CardsAreServable

(* For any number of editors, references and revisions: a restore accounts *)
(* for every reference of its source as kept or skipped, each revision     *)
(* lists what differs from the one before, the post points at no row that  *)
(* is gone and stores no SEO that validation would refuse, though a        *)
(* restore saves it unchecked, and its cards show images that can be       *)
(* served (RestoreRevision, DiffSnapshots, storeRestore, RenderSEO).       *)
THEOREM ReferencesSurvive == ReferencesSpec => []ReferencesInvariant
<1>1. RefInv => ReferencesInvariant
  BY CardsOfPage DEF RefInv, ReferencesInvariant, SEOsGood, GoodSEO, Distinct, StoredSEOIsValid
<1> QED
  BY <1>1, ReferencesInitInv, ReferencesNextInv, PTL DEF ReferencesSpec
=============================================================================
