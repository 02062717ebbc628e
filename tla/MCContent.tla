------------------------------ MODULE MCContent -----------------------------
(* Model checking instance of posts, comments and the read cache. They     *)
(* share no variables, so one of them moves in a behaviour and the others  *)
(* rest: the reachable states are the sum of theirs, not the product.      *)
EXTENDS ReadCache, Posts, Comments, TLC

VARIABLE focus    \* the component that moves

contentVars == <<focus, vars, postVars, commentVars>>

ContentInit ==
  /\ focus \in {"cache", "posts", "comments"}
  /\ Init
  /\ PostsInit
  /\ CommentsInit

ContentNext ==
  /\ UNCHANGED focus
  /\ \/ focus = "cache" /\ Next /\ UNCHANGED <<postVars, commentVars>>
     \/ focus = "posts" /\ PostsNext /\ UNCHANGED <<vars, commentVars>>
     \/ focus = "comments" /\ CommentsNext /\ UNCHANGED <<vars, postVars>>

ContentSpec == ContentInit /\ [][ContentNext]_contentVars

(* The configuration gives requests, readers and comment requests the same *)
(* names, and likewise the writers, posts and comments: one component      *)
(* moves, and none compares the names of two kinds.                        *)
Symmetry == Permutations(Txs) \cup Permutations(PostIDs) \cup Permutations(Bodies)
=============================================================================
