---------------------------- MODULE MCOperations ----------------------------
(* Model checking instance of impersonation and privacy requests. They     *)
(* share no variables, so one of them moves in a behaviour and the other   *)
(* rests: the reachable states are the sum of theirs, not the product.     *)
EXTENDS Impersonation, PrivacyRequests, TLC

VARIABLE focus    \* the component that moves

operationsVars == <<focus, impersonationVars, privacyVars>>

(* A component that rests has one initial state.                           *)
AtRest == focus # "impersonation" => \A i \in ImpIDs : imp[i].state = "none"

OperationsInit ==
  /\ focus \in {"impersonation", "privacy"}
  /\ ImpersonationInit
  /\ PrivacyInit
  /\ AtRest

OperationsNext ==
  /\ UNCHANGED focus
  /\ \/ focus = "impersonation" /\ ImpersonationNext /\ UNCHANGED privacyVars
     \/ focus = "privacy" /\ PrivacyNext /\ UNCHANGED impersonationVars

(* The scheduler runs ExpireStale again and again and its statements end.  *)
ImpersonationFairness ==
  /\ WF_impersonationVars(focus = "impersonation" /\ ListExpired)
  /\ \A i \in ImpIDs : WF_impersonationVars(focus = "impersonation" /\ EndExpired(i))

(* The job runs every minute, its calls return, and fifteen minutes pass.  *)
PrivacyFairness ==
  /\ \A p \in Processors : WF_privacyVars(focus = "privacy" /\ ProcessStep(p))
  /\ \A i \in PrivacyIDs : WF_privacyVars(focus = "privacy" /\ GoStale(i))

OperationsSpec ==
  /\ OperationsInit
  /\ [][OperationsNext]_operationsVars
  /\ ImpersonationFairness /\ PrivacyFairness
=============================================================================
