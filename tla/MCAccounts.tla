----------------------------- MODULE MCAccounts -----------------------------
(* Model checking instance of sign-in and sessions, the second factor,     *)
(* and who owns an address. They share no variables, so one of them        *)
(* moves in a behaviour and the others rest: the reachable states are      *)
(* the sum of theirs, not the product.                                     *)
EXTENDS Sessions, TwoFactor, Identity, TLC

VARIABLE focus    \* the component that moves

accountsVars == <<focus, sessionsVars, twoFactorVars, identityVars>>

(* A component that rests has one initial state.                           *)
AtRest ==
  /\ focus # "twofactor" => secrets = 0
  /\ focus # "identity" => account[CHOOSE u \in UserIDs : TRUE].email = CHOOSE e \in Addresses : TRUE
  /\ focus # "identity" => linked = NoUser

AccountsInit ==
  /\ focus \in {"sessions", "twofactor", "identity"}
  /\ SessionsInit
  /\ TwoFactorInit
  /\ IdentityInit
  /\ AtRest

AccountsNext ==
  /\ UNCHANGED focus
  /\ \/ focus = "sessions" /\ SessionsNext /\ UNCHANGED <<twoFactorVars, identityVars>>
     \/ focus = "twofactor" /\ TwoFactorNext /\ UNCHANGED <<sessionsVars, identityVars>>
     \/ focus = "identity" /\ IdentityNext /\ UNCHANGED <<sessionsVars, twoFactorVars>>

AccountsSpec == AccountsInit /\ [][AccountsNext]_accountsVars

(* Requests have the same names in the three components: one component     *)
(* moves, and none compares the names of two kinds.                        *)
Symmetry == Permutations(SessionIDs) \cup Permutations(Challenges) \cup Permutations(AuthReqs)
=============================================================================
