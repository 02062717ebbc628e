---------------------------- MODULE SequenceFolds ----------------------------
(***************************************************************************)
(* A rule to reason about FoldLeft.  The provers cannot apply a theorem    *)
(* that has an operator among its parameters, but they can use a theorem   *)
(* of an instance: a module of proofs takes                                *)
(*     F == INSTANCE SequenceFolds WITH op <- TheOperator                  *)
(* and cites F!FoldRule.  The recursive function under FoldLeft is shown   *)
(* to exist by induction on the length, and induction itself is the        *)
(* absence of a first counterexample (NoFirst).                            *)
(***************************************************************************)
EXTENDS Integers, Sequences, SequencesExt, TLAPS, WellFoundedInduction

CONSTANT op(_, _)    \* takes what is folded so far and the next element

FoldOf(base, seq) == FoldLeft(op, base, seq)

(* it folds any subset of the first k elements, in order.                  *)
FoldsPrefix(it, base, seq, k) ==
  it = [s \in SUBSET (1..k) |-> IF s = {} THEN base ELSE op(it[s \ {Max(s)}], seq[Max(s)])]

(* Induction: a set of numbers without 0 and without any successor of a   *)
(* number outside it is empty.                                             *)
LEMMA NoFirst ==
  ASSUME NEW B, B \subseteq Nat, 0 \notin B, \A k \in Nat : k \notin B => k + 1 \notin B
  PROVE  B = {}
<1> SUFFICES ASSUME B # {} PROVE FALSE
  OBVIOUS
<1>1. PICK k \in B : \A y \in B : ~ (<<y, k>> \in OpToRel(<, Nat))
  BY NatLessThanWellFounded, WFMin
<1>2. k \in Nat /\ k # 0
  BY <1>1
<1>3. k - 1 \in Nat /\ (k - 1) + 1 = k
  BY <1>2
<1>4. k - 1 \in B
  BY <1>1, <1>3
<1>5. <<k - 1, k>> \in OpToRel(<, Nat)
  BY <1>2, <1>3 DEF OpToRel
<1> QED
  BY <1>1, <1>4, <1>5

(* The last of some of the first k positions.                              *)
LEMMA MaxOfPrefix ==
  ASSUME NEW k \in Nat, NEW s \in SUBSET (1..k), s # {}
  PROVE  Max(s) \in s /\ \A x \in s : x <= Max(s)
<1> DEFINE Below == {k - x : x \in s}
<1>0. \A x \in s : x \in Nat /\ x <= k /\ k - x \in Nat
  OBVIOUS
<1>1. Below \in SUBSET Nat /\ Below # {}
  BY <1>0
<1>2. PICK d \in Below : \A y \in Below : ~ (<<y, d>> \in OpToRel(<, Nat))
  BY <1>1, NatLessThanWellFounded, WFMin
<1>3. ASSUME NEW y \in Below PROVE d <= y
  <2>1. ~(d <= y) => <<y, d>> \in OpToRel(<, Nat)
    BY <1>1, <1>2 DEF OpToRel
  <2> QED
    BY <2>1, <1>2
<1>4. PICK x \in s : d = k - x
  BY <1>2
<1>5. \A y \in s : y <= x
  <2> SUFFICES ASSUME NEW y \in s PROVE y <= x
    OBVIOUS
  <2>1. k - y \in Below
    OBVIOUS
  <2>2. d <= k - y
    BY <2>1, <1>3
  <2> QED
    BY <2>2, <1>4, <1>0
<1>6. \E m \in s : \A y \in s : m >= y
  BY <1>5
<1>7. Max(s) \in s /\ \A y \in s : Max(s) >= y
  BY <1>6 DEF Max
<1> QED
  BY <1>7

(* The recursion has a solution: one for k positions extends to k + 1.     *)
LEMMA FoldsExist ==
  ASSUME NEW base, NEW seq, NEW n \in Nat
  PROVE  \E it : FoldsPrefix(it, base, seq, n)
<1> DEFINE Bad == {k \in Nat : ~ \E it : FoldsPrefix(it, base, seq, k)}
<1>0. 0 \notin Bad
  <2> DEFINE none == [s \in SUBSET (1..0) |-> base]
  <2>1. \A s \in SUBSET (1..0) : s = {}
    OBVIOUS
  <2>2. FoldsPrefix(none, base, seq, 0)
    BY <2>1 DEF FoldsPrefix
  <2> QED
    BY <2>2
<1>1. ASSUME NEW j \in Nat, j \notin Bad PROVE j + 1 \notin Bad
  <2> DEFINE k == j + 1
  <2>1. k \in Nat /\ k - 1 = j /\ k \in 1..k /\ \A x \in 1..k : x # k => x \in 1..(k - 1)
    OBVIOUS
  <2>4. PICK it : FoldsPrefix(it, base, seq, k - 1)
    BY <1>1, <2>1
  <2> HIDE DEF k
  <2> DEFINE next == [s \in SUBSET (1..k) |-> IF k \in s THEN op(it[s \ {k}], seq[k]) ELSE it[s]]
  <2>5. ASSUME NEW s \in SUBSET (1..k)
        PROVE  next[s] = IF s = {} THEN base ELSE op(next[s \ {Max(s)}], seq[Max(s)])
    <3>1. CASE s = {}
      <4>1. s \in SUBSET (1..(k - 1)) /\ k \notin s
        BY <3>1
      <4>2. it[s] = base
        BY <4>1, <3>1, <2>4 DEF FoldsPrefix
      <4> QED
        BY <4>1, <4>2, <3>1
    <3>2. CASE s # {} /\ k \in s
      <4>1. Max(s) = k
        <5>1. Max(s) \in s /\ \A x \in s : x <= Max(s)
          BY <3>2, <2>1, MaxOfPrefix
        <5>2. Max(s) \in 1..k /\ k <= Max(s)
          BY <5>1, <3>2
        <5> QED
          BY <5>2, <2>1
      <4>2. s \ {k} \in SUBSET (1..k) /\ k \notin s \ {k}
        OBVIOUS
      <4>3. next[s \ {k}] = it[s \ {k}]
        BY <4>2
      <4> QED
        BY <4>1, <4>3, <3>2
    <3>3. CASE s # {} /\ k \notin s
      <4>1. s \in SUBSET (1..(k - 1))
        BY <3>3, <2>1
      <4>2. Max(s) \in s
        BY <3>3, <2>1, MaxOfPrefix
      <4>3. s \ {Max(s)} \in SUBSET (1..k) /\ k \notin s \ {Max(s)}
        BY <3>3
      <4>4. next[s \ {Max(s)}] = it[s \ {Max(s)}]
        BY <4>3
      <4>5. it[s] = op(it[s \ {Max(s)}], seq[Max(s)])
        BY <4>1, <3>3, <2>4 DEF FoldsPrefix
      <4> QED
        BY <4>4, <4>5, <3>3
    <3> QED
      BY <3>1, <3>2, <3>3
  <2>6. FoldsPrefix(next, base, seq, k)
    BY <2>5 DEF FoldsPrefix
  <2> QED
    BY <2>6, <2>1
<1>2. Bad = {}
  <2> HIDE DEF Bad
  <2>1. Bad \subseteq Nat
    BY DEF Bad
  <2> QED
    BY <2>1, <1>0, <1>1, NoFirst
<1> QED
  BY <1>2

(* The rule of folds: what holds of the base and is kept by each element   *)
(* holds of the fold.  held[n] is the set of values allowed after n        *)
(* elements.                                                               *)
THEOREM FoldRule ==
  ASSUME NEW E, NEW seq \in Seq(E), NEW base, NEW held, base \in held[0],
         \A n \in 1..Len(seq) : \A a \in held[n - 1] : op(a, seq[n]) \in held[n]
  PROVE  FoldOf(base, seq) \in held[Len(seq)]
<1> DEFINE it == CHOOSE f : FoldsPrefix(f, base, seq, Len(seq))
<1>1. Len(seq) \in Nat /\ DOMAIN seq = 1..Len(seq)
  OBVIOUS
<1>2. FoldsPrefix(it, base, seq, Len(seq))
  <2>1. \E f : FoldsPrefix(f, base, seq, Len(seq))
    BY <1>1, FoldsExist
  <2> QED
    BY <2>1
<1>3. FoldOf(base, seq) = it[1..Len(seq)]
  BY <1>1 DEF FoldOf, FoldLeft, MapThenFoldSet, FoldsPrefix
<1> HIDE DEF it
<1>4. ASSUME NEW n \in 1..Len(seq), it[1..(n - 1)] \in held[n - 1] PROVE it[1..n] \in held[n]
  <2>1. 1..n \in SUBSET (1..Len(seq)) /\ n \in 1..n /\ n \in Nat
    BY <1>1
  <2>2. it[1..n] = op(it[(1..n) \ {Max(1..n)}], seq[Max(1..n)])
    BY <2>1, <1>2 DEF FoldsPrefix
  <2>3. Max(1..n) = n
    <3>1. Max(1..n) \in 1..n /\ n <= Max(1..n)
      BY <2>1, MaxOfPrefix
    <3> QED
      BY <3>1, <2>1
  <2>4. (1..n) \ {n} = 1..(n - 1)
    BY <2>1
  <2>5. it[1..n] = op(it[1..(n - 1)], seq[n])
    BY <2>2, <2>3, <2>4
  <2> QED
    BY <2>5, <1>4
<1> DEFINE Bad == {n \in Nat : n <= Len(seq) /\ it[1..n] \notin held[n]}
<1>5. 0 \notin Bad
  <2>1. 1..0 = {} /\ 1..0 \in SUBSET (1..Len(seq))
    OBVIOUS
  <2>2. it[1..0] = base
    BY <2>1, <1>2 DEF FoldsPrefix
  <2> QED
    BY <2>2
<1>6. ASSUME NEW j \in Nat, j \notin Bad PROVE j + 1 \notin Bad
  <2> SUFFICES ASSUME j + 1 <= Len(seq) PROVE it[1..(j + 1)] \in held[j + 1]
    OBVIOUS
  <2>1. j + 1 \in 1..Len(seq) /\ (j + 1) - 1 = j /\ j <= Len(seq)
    BY <1>1
  <2>2. it[1..j] \in held[j]
    BY <1>6, <2>1
  <2> QED
    BY <2>1, <2>2, <1>4
<1>7. Bad = {}
  <2> HIDE DEF Bad
  <2>1. Bad \subseteq Nat
    BY DEF Bad
  <2> QED
    BY <2>1, <1>5, <1>6, NoFirst
<1>8. it[1..Len(seq)] \in held[Len(seq)]
  BY <1>1, <1>7
<1> QED
  BY <1>3, <1>8
=============================================================================
