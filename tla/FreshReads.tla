----------------------------- MODULE FreshReads -----------------------------
(***************************************************************************)
(* What the read cache promises the public endpoints                       *)
(* (core/readcache/readcache.go, docs/backend/services.md): a read may     *)
(* return an old value while a write is still under way, but never one     *)
(* older than the last write that was invalidated before the read began.   *)
(***************************************************************************)
EXTENDS Naturals

CONSTANTS Readers

VARIABLES version,  \* version of the data committed last
          floor,    \* newest version whose write has invalidated the cache
          read      \* each reader's read: the floor when it began, what it got

vars == <<version, floor, read>>

NoRead == [on |-> FALSE, since |-> 0, got |-> 0]

Init ==
  /\ version = 1
  /\ floor = 1
  /\ read = [r \in Readers |-> NoRead]

Write == version' = version + 1 /\ UNCHANGED <<floor, read>>

Invalidate ==
  /\ floor' \in floor..version
  /\ UNCHANGED <<version, read>>

Begin(r) ==
  /\ ~read[r].on
  /\ read' = [read EXCEPT ![r] = [on |-> TRUE, since |-> floor, got |-> 0]]
  /\ UNCHANGED <<version, floor>>

(* The value a read gets is at least as new as the floor it began with.    *)
Get(r) ==
  /\ read[r].on
  /\ \E v \in read[r].since..version :
       read' = [read EXCEPT ![r] = [on |-> TRUE, since |-> read[r].since, got |-> v]]
  /\ UNCHANGED <<version, floor>>

End(r) ==
  /\ read[r].on /\ read[r].got # 0
  /\ read' = [read EXCEPT ![r] = NoRead]
  /\ UNCHANGED <<version, floor>>

Next == Write \/ Invalidate \/ \E r \in Readers : Begin(r) \/ Get(r) \/ End(r)

Spec == Init /\ [][Next]_vars
=============================================================================
