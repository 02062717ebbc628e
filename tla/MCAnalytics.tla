----------------------------- MODULE MCAnalytics ----------------------------
(* Model checking instance of roll-ups and retention, exports, consent     *)
(* with the event writer, the live board and the salts. They share no      *)
(* variables, so one of them moves in a behaviour and the others rest:     *)
(* the reachable states are the sum of theirs, not the product.            *)
EXTENDS Rollups, AnalyticsExports, Consent, LiveAnalytics, TLC

VARIABLE focus    \* the component that moves

analyticsVars == <<focus, rollupVars, exportsVars, consentVars, boardVars, saltVars>>

AnalyticsInit ==
  /\ focus \in {"rollups", "exports", "consent", "board", "salts"}
  /\ RollupsInit
  /\ ExportsInit
  /\ ConsentInit
  /\ LiveInit

AnalyticsNext ==
  /\ UNCHANGED focus
  /\ \/ focus = "rollups" /\ RollupsNext /\ UNCHANGED <<exportsVars, consentVars, boardVars, saltVars>>
     \/ focus = "exports" /\ ExportsNext /\ UNCHANGED <<rollupVars, consentVars, boardVars, saltVars>>
     \/ focus = "consent" /\ ConsentNext /\ UNCHANGED <<rollupVars, exportsVars, boardVars, saltVars>>
     \/ focus = "board" /\ BoardNext /\ UNCHANGED <<rollupVars, exportsVars, consentVars, saltVars>>
     \/ focus = "salts" /\ SaltNext /\ UNCHANGED <<rollupVars, exportsVars, consentVars, boardVars>>

AnalyticsSpec == AnalyticsInit /\ [][AnalyticsNext]_analyticsVars

(* Builders and calls have the same names, and so have events and          *)
(* sessions: one component moves, and none compares the names of two kinds.*)
Symmetry == Permutations(Calls) \cup Permutations(Events) \cup Permutations(SaltReplicas)
=============================================================================
