------------------------------ MODULE MCRecords -----------------------------
(* Model checking instance of records that requests read, change and write *)
(* back: a newsletter subscriber, media, categories, tags, settings,       *)
(* profiles and the references of a post. They share no variables, so one  *)
(* of them moves in a behaviour and the others rest: the reachable states  *)
(* are the sum of theirs, not the product.                                 *)
EXTENDS NewsletterSubscriber, Media, Categories, Tags, Settings, Profiles, PostReferences, TLC

VARIABLE focus    \* the component that moves

recordsVars == <<focus, vars, mediaVars, catVars, tagVars, settingsVars, profileVars, refVars>>

(* A component that rests has one initial state.                           *)
AtRest ==
  /\ focus # "categories" => \A i \in Cats : ~cat[i].in
  /\ focus # "settings" => \A k \in AllKeys : settingRow[k] = NoSetting

RecordsInit ==
  /\ focus \in {"subscriber", "media", "categories", "tags", "settings", "profiles", "references"}
  /\ Init
  /\ MediaInit
  /\ CatInit
  /\ TagInit
  /\ SettingsInit
  /\ ProfilesInit
  /\ ReferencesInit
  /\ AtRest

RecordsNext ==
  /\ UNCHANGED focus
  /\ \/ focus = "subscriber" /\ Next /\ UNCHANGED <<mediaVars, catVars, tagVars, settingsVars, profileVars, refVars>>
     \/ focus = "media" /\ MediaNext /\ UNCHANGED <<vars, catVars, tagVars, settingsVars, profileVars, refVars>>
     \/ focus = "categories" /\ CatNext /\ UNCHANGED <<vars, mediaVars, tagVars, settingsVars, profileVars, refVars>>
     \/ focus = "tags" /\ TagNext /\ UNCHANGED <<vars, mediaVars, catVars, settingsVars, profileVars, refVars>>
     \/ focus = "settings" /\ SettingsNext /\ UNCHANGED <<vars, mediaVars, catVars, tagVars, profileVars, refVars>>
     \/ focus = "profiles" /\ ProfilesNext /\ UNCHANGED <<vars, mediaVars, catVars, tagVars, settingsVars, refVars>>
     \/ focus = "references" /\ ReferencesNext
          /\ UNCHANGED <<vars, mediaVars, catVars, tagVars, settingsVars, profileVars>>

RecordsSpec == RecordsInit /\ [][RecordsNext]_recordsVars

(* Transactions, calls and updates have the same names in all components,  *)
(* and so have lists, assets, images, slugs and keys: one component moves, *)
(* and none compares the names of two kinds.                               *)
Symmetry == Permutations(MediaCalls) \cup Permutations(Assets)
=============================================================================
