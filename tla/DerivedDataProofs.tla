-------------------------- MODULE DerivedDataProofs -------------------------
(***************************************************************************)
(* What is computed from other data and kept beside it: the read cache     *)
(* implements FreshReads, and the analytics roll-ups keep their totals     *)
(* while retention deletes the raw events, both for every value of the     *)
(* constants; and a rebuild of the category tree writes nested bounds.     *)
(*                                                                         *)
(* The read cache: while a generation is current the floor does not move,  *)
(* because only Invalidate moves it and it begins another generation.  So  *)
(* floorOf[g] bounds from below every value stored, or about to be stored, *)
(* under g, and from above the floor of every read that uses g.  The       *)
(* roll-ups and the tree have their argument where their part begins.      *)
(***************************************************************************)
EXTENDS ReadCache, Rollups, Categories, FiniteSetTheorems, WellFoundedInduction, TLAPS

(* Generation numbers grow: the current one is the newest, and nothing is  *)
(* stored under a number not yet handed out.                               *)
GenerationsGrow ==
  /\ gen \in {0, used}
  /\ \A g \in Gens : g > used => entry[g] = 0

(* floor and floorOf mean what their comments say.                         *)
FloorsAgree ==
  /\ floor <= version
  /\ \A w \in Writers : writer[w] <= version
  /\ gen # 0 => floorOf[gen] = floor
  /\ \A g \in Gens : floorOf[g] <= floor

(* Every stored value is at least as new as its generation.                *)
EntriesFresh == \A g \in Gens : entry[g] # 0 => floorOf[g] <= entry[g] /\ entry[g] <= version

(* A read that uses generation g began before g ended, and what it loaded  *)
(* is newer than the floor it began with.                                  *)
ReadInv(r) ==
  LET d == reader[r]
  IN  /\ d.pc = "idle" => d.since = 0
      /\ d.since <= floor
      /\ d.g <= used
      /\ d.pc \in {"lookup", "fill"} => d.g # 0
      /\ d.g # 0 => d.since <= floorOf[d.g]
      /\ d.pc = "fill" => floorOf[d.g] <= d.got /\ d.got <= version /\ d.got # 0
      /\ d.pc = "done" => d.since <= d.got /\ d.got <= version /\ d.got # 0

IInv ==
  /\ TypeOK
  /\ GenerationsGrow
  /\ FloorsAgree
  /\ EntriesFresh
  /\ \A r \in Readers : ReadInv(r)

USE CacheAssumption

(* The initial state satisfies the invariant.                              *)
LEMMA InitIInv == Init => IInv
  BY DEF Init, IInv, TypeOK, GenerationsGrow, FloorsAgree, EntriesFresh, ReadInv, Idle, Read, Gens, Versions

(* A step of one reader that leaves Redis and the database alone.          *)
LEMMA ReaderStep ==
  ASSUME IInv, NEW r \in Readers,
         reader' = [reader EXCEPT ![r] = reader'[r]],
         reader'[r] \in Read,
         UNCHANGED <<version, gen, used, entry, writer, floor, floorOf>>,
         ReadInv(r)'
  PROVE  IInv'
<1>1. TypeOK'
  BY DEF IInv, TypeOK
<1>2. GenerationsGrow' /\ FloorsAgree' /\ EntriesFresh'
  BY DEF IInv, GenerationsGrow, FloorsAgree, EntriesFresh
<1>3. ASSUME NEW q \in Readers PROVE ReadInv(q)'
  <2>1. CASE q = r
    BY <2>1
  <2>2. CASE q # r
    <3>1. reader'[q] = reader[q] /\ ReadInv(q)
      BY <2>2 DEF IInv, TypeOK
    <3>. QED BY <3>1 DEF ReadInv
  <2>. QED BY <2>1, <2>2
<1>. QED BY <1>1, <1>2, <1>3 DEF IInv

(* A new generation, above every number handed out, while the floor is f.  *)
LEMMA BeginsKeeps ==
  ASSUME IInv, NEW f \in Versions, NEW g \in Gens,
         g > used, floor <= f, f <= version, floor' = f,
         Begins(g, f),
         UNCHANGED <<version, entry>>,
         writer' \in [Writers -> 0..MaxVersion],
         \A w \in Writers : writer'[w] <= version,
         reader' \in [Readers -> Read],
         \A r \in Readers : /\ reader'[r].g = reader[r].g
                            /\ reader'[r].since = reader[r].since
                            /\ reader'[r].got = reader[r].got
                            /\ \/ reader'[r].pc = reader[r].pc
                               \/ reader[r].pc = "seed" /\ reader'[r].pc = "again"
  PROVE  IInv'
<1>1. used \in 0..MaxGen /\ used' = g /\ gen' = g /\ floorOf' = [floorOf EXCEPT ![g] = f]
  BY DEF IInv, TypeOK, Begins, Gens
<1>2. TypeOK'
  BY <1>1 DEF IInv, TypeOK, Gens, Versions
<1>3. GenerationsGrow'
  BY <1>1 DEF IInv, TypeOK, GenerationsGrow, Gens
<1>4. FloorsAgree'
  BY <1>1 DEF IInv, TypeOK, FloorsAgree, Gens, Versions
<1>5. EntriesFresh'
  BY <1>1 DEF IInv, TypeOK, EntriesFresh, GenerationsGrow, Gens, Versions
<1>6. ASSUME NEW r \in Readers PROVE ReadInv(r)'
  <2>1. reader[r] \in Read /\ ReadInv(r)
    BY DEF IInv, TypeOK
  <2>2. reader[r].g # 0 => floorOf'[reader[r].g] = floorOf[reader[r].g]
    BY <1>1, <2>1 DEF IInv, TypeOK, ReadInv, Read, Gens
  <2>3. /\ reader'[r].g = reader[r].g /\ reader'[r].since = reader[r].since /\ reader'[r].got = reader[r].got
        /\ \/ reader'[r].pc = reader[r].pc
           \/ reader[r].pc = "seed" /\ reader'[r].pc = "again"
    OBVIOUS
  <2>4. version' = version /\ used \in Nat /\ used' \in Nat /\ used < used' /\ floor' = f
    BY <1>1 DEF Gens
  <2>5. reader[r].since \in Nat /\ reader[r].g \in Nat /\ floor \in Nat /\ f \in Nat
    BY <2>1 DEF IInv, TypeOK, Read, Versions
  <2>6. (reader'[r].pc \in {"lookup", "fill"} => reader'[r].g # 0) /\ (reader'[r].pc = "idle" => reader'[r].since = 0)
    BY <2>1, <2>3 DEF ReadInv
  <2>7. reader'[r].since <= floor' /\ reader'[r].g <= used'
    BY <2>1, <2>3, <2>4, <2>5 DEF ReadInv
  <2>8. reader'[r].g # 0 => reader'[r].since <= floorOf'[reader'[r].g]
    BY <2>1, <2>2, <2>3 DEF ReadInv
  <2>9. reader'[r].pc = "fill" => floorOf'[reader'[r].g] <= reader'[r].got /\ reader'[r].got <= version' /\ reader'[r].got # 0
    BY <2>1, <2>2, <2>3, <2>4 DEF ReadInv
  <2>10. reader'[r].pc = "done" => reader'[r].since <= reader'[r].got /\ reader'[r].got <= version' /\ reader'[r].got # 0
    BY <2>1, <2>3, <2>4 DEF ReadInv
  <2>. QED BY <2>6, <2>7, <2>8, <2>9, <2>10 DEF ReadInv
<1>. QED BY <1>2, <1>3, <1>4, <1>5, <1>6 DEF IInv

(* Every step keeps the invariant.                                         *)
LEMMA NextIInv == IInv /\ [Next]_vars => IInv'
<1>. SUFFICES ASSUME IInv, [Next]_vars PROVE IInv'
  OBVIOUS
<1>t. TypeOK
  BY DEF IInv
<1>1. ASSUME NEW r \in Readers,
             Through(r) \/ Generation(r) \/ GenerationMissing(r) \/ Hit(r) \/ Miss(r)
               \/ FailOpen(r) \/ Load(r) \/ FillFails(r) \/ Return(r)
      PROVE  IInv'
  <2>1. UNCHANGED <<version, gen, used, entry, writer, floor, floorOf>>
    BY <1>1 DEF Through, Generation, GenerationMissing, Hit, Miss, FailOpen, Load, FillFails, Return
  <2>2. reader' = [reader EXCEPT ![r] = reader'[r]]
    BY <1>1, <1>t DEF TypeOK,
       Through, Generation, GenerationMissing, Hit, Miss, FailOpen, Load, FillFails, Return
  <2>i. reader[r] \in Read /\ ReadInv(r)
    BY <1>t DEF IInv, TypeOK
  <2>3. CASE Through(r)
    <3>1. reader'[r] = [pc |-> "generation", g |-> 0, since |-> floor, got |-> 0]
      BY <2>3, <1>t DEF Through, TypeOK
    <3>2. ReadInv(r)'
      BY <3>1, <2>1, <1>t DEF ReadInv, TypeOK, Versions
    <3>3. reader'[r] \in Read
      BY <3>1, <2>i, <1>t DEF Read, TypeOK, Idle, ReadInv, Gens, Versions
    <3>. QED BY <3>2, <3>3, <2>1, <2>2, ReaderStep
  <2>4. CASE Generation(r)
    <3>1. reader'[r] = [reader[r] EXCEPT !.pc = "lookup", !.g = gen] /\ gen # 0
      BY <2>4, <1>t DEF Generation, TypeOK
    <3>2. ReadInv(r)'
      BY <3>1, <2>1, <2>i, <1>t DEF IInv, ReadInv, Read, TypeOK, Versions, Gens, GenerationsGrow, FloorsAgree
    <3>3. reader'[r] \in Read
      BY <3>1, <2>i, <1>t DEF Read, TypeOK, Idle, ReadInv, Gens, Versions
    <3>. QED BY <3>2, <3>3, <2>1, <2>2, ReaderStep
  <2>5. CASE GenerationMissing(r)
    <3>1. reader'[r] = [reader[r] EXCEPT !.pc = "seed"]
      BY <2>5, <1>t DEF GenerationMissing, TypeOK
    <3>2. ReadInv(r)'
      BY <3>1, <2>1, <2>i DEF ReadInv, Read
    <3>3. reader'[r] \in Read
      BY <3>1, <2>i, <1>t DEF Read, TypeOK, Idle, ReadInv, Gens, Versions
    <3>. QED BY <3>2, <3>3, <2>1, <2>2, ReaderStep
  <2>6. CASE Hit(r)
    <3>1. /\ reader'[r] = [reader[r] EXCEPT !.pc = "done", !.got = entry[reader[r].g]]
          /\ reader[r].pc = "lookup" /\ entry[reader[r].g] # 0
      BY <2>6, <1>t DEF Hit, TypeOK
    <3>2. ReadInv(r)'
      BY <3>1, <2>1, <2>i, <1>t DEF IInv, ReadInv, Read, TypeOK, Versions, Gens, EntriesFresh
    <3>4. entry[reader[r].g] \in 0..MaxVersion
      <4>1. reader[r].g \in Gens
        BY <3>1, <2>i DEF ReadInv, Read, Gens
      <4>. QED BY <4>1, <1>t DEF TypeOK
    <3>3. reader'[r] \in Read
      BY <3>1, <3>4, <2>i DEF Read
    <3>. QED BY <3>2, <3>3, <2>1, <2>2, ReaderStep
  <2>7. CASE Miss(r)
    <3>1. reader'[r] = [reader[r] EXCEPT !.pc = "load"]
      BY <2>7, <1>t DEF Miss, TypeOK
    <3>2. ReadInv(r)'
      BY <3>1, <2>1, <2>i DEF ReadInv, Read
    <3>3. reader'[r] \in Read
      BY <3>1, <2>i, <1>t DEF Read, TypeOK, Idle, ReadInv, Gens, Versions
    <3>. QED BY <3>2, <3>3, <2>1, <2>2, ReaderStep
  <2>8. CASE FailOpen(r)
    <3>1. reader'[r] = [reader[r] EXCEPT !.pc = "load", !.g = 0] /\ reader[r].pc # "idle"
      BY <2>8, <1>t DEF FailOpen, TypeOK
    <3>2. ReadInv(r)'
      BY <3>1, <2>1, <2>i, <1>t DEF ReadInv, Read, TypeOK
    <3>4. 0 \in 0..MaxGen
      BY CacheAssumption
    <3>3. reader'[r] \in Read
      BY <3>1, <3>4, <2>i DEF Read
    <3>. QED BY <3>2, <3>3, <2>1, <2>2, ReaderStep
  <2>9. CASE Load(r)
    <3>1. /\ reader'[r] = [reader[r] EXCEPT !.pc = IF reader[r].g = 0 THEN "done" ELSE "fill", !.got = version]
          /\ reader[r].pc = "load"
      BY <2>9, <1>t DEF Load, TypeOK
    <3>2. ReadInv(r)'
      BY <3>1, <2>1, <2>i, <1>t DEF IInv, ReadInv, Read, TypeOK, Versions, Gens, FloorsAgree
    <3>4. version \in 0..MaxVersion
      BY <1>t DEF TypeOK, Versions
    <3>3. reader'[r] \in Read
      BY <3>1, <3>4, <2>i DEF Read
    <3>. QED BY <3>2, <3>3, <2>1, <2>2, ReaderStep
  <2>10. CASE FillFails(r)
    <3>1. reader'[r] = [reader[r] EXCEPT !.pc = "done"] /\ reader[r].pc = "fill"
      BY <2>10, <1>t DEF FillFails, TypeOK
    <3>2. ReadInv(r)'
      BY <3>1, <2>1, <2>i, <1>t DEF IInv, ReadInv, Read, TypeOK, Versions, Gens
    <3>3. reader'[r] \in Read
      BY <3>1, <2>i, <1>t DEF Read, TypeOK, Idle, ReadInv, Gens, Versions
    <3>. QED BY <3>2, <3>3, <2>1, <2>2, ReaderStep
  <2>11. CASE Return(r)
    <3>1. reader'[r] = Idle
      BY <2>11, <1>t DEF Return, TypeOK
    <3>2. ReadInv(r)'
      BY <3>1, <2>1, <1>t DEF ReadInv, Idle, TypeOK, Versions
    <3>3. reader'[r] \in Read
      BY <3>1, <2>i, <1>t DEF Read, TypeOK, Idle, ReadInv, Gens, Versions
    <3>. QED BY <3>2, <3>3, <2>1, <2>2, ReaderStep
  <2>. QED BY <1>1, <2>3, <2>4, <2>5, <2>6, <2>7, <2>8, <2>9, <2>10, <2>11
<1>2. ASSUME NEW r \in Readers, SeedGeneration(r) PROVE IInv'
  <2>1. /\ reader' = [reader EXCEPT ![r].pc = "again"] /\ reader[r].pc = "seed"
        /\ UNCHANGED <<version, entry, writer, floor>>
    BY <1>2 DEF SeedGeneration
  <2>2. /\ reader' \in [Readers -> Read]
        /\ \A q \in Readers : q # r => reader'[q] = reader[q]
        /\ reader'[r] = [reader[r] EXCEPT !.pc = "again"]
    BY <2>1, <1>t DEF TypeOK, Read
  <2>i. reader[r] \in Read /\ ReadInv(r)
    BY <1>t DEF IInv, TypeOK
  <2>3. CASE gen = 0
    <3>1. Seed(1) \in Gens /\ Begins(Seed(1), floor) /\ Seed(1) > used
      BY <1>2, <2>3, <1>t DEF SeedGeneration, Seed, TypeOK
    <3>2. \A q \in Readers : /\ reader'[q].g = reader[q].g
                             /\ reader'[q].since = reader[q].since
                             /\ reader'[q].got = reader[q].got
                             /\ \/ reader'[q].pc = reader[q].pc
                                \/ reader[q].pc = "seed" /\ reader'[q].pc = "again"
      BY <2>1, <2>2, <2>i DEF Read
    <3>3. /\ floor \in Versions /\ floor <= floor /\ floor <= version
          /\ writer' \in [Writers -> 0..MaxVersion] /\ \A w \in Writers : writer'[w] <= version
      BY <2>1, <1>t DEF IInv, TypeOK, FloorsAgree, Versions
    <3>. QED BY <3>1, <3>2, <3>3, <2>1, <2>2, BeginsKeeps
  <2>4. CASE gen # 0
    <3>1. UNCHANGED <<version, gen, used, entry, writer, floor, floorOf>>
      BY <1>2, <2>4 DEF SeedGeneration
    <3>2. ReadInv(r)'
      BY <2>1, <2>2, <2>i, <3>1 DEF ReadInv, Read
    <3>3. reader' = [reader EXCEPT ![r] = reader'[r]] /\ reader'[r] \in Read
      BY <2>1, <2>2, <1>t DEF TypeOK
    <3>. QED BY <3>1, <3>2, <3>3, ReaderStep
  <2>. QED BY <2>3, <2>4
<1>3. ASSUME NEW r \in Readers, Fill(r) PROVE IInv'
  <2>1. /\ entry' = [entry EXCEPT ![reader[r].g] = reader[r].got]
        /\ reader' = [reader EXCEPT ![r].pc = "done"] /\ reader[r].pc = "fill"
        /\ UNCHANGED <<version, gen, used, writer, floor, floorOf>>
    BY <1>3 DEF Fill
  <2>i. reader[r] \in Read /\ ReadInv(r)
    BY <1>t DEF IInv, TypeOK
  <2>2. /\ reader[r].g \in Gens /\ reader[r].g <= used /\ reader[r].got \in 0..MaxVersion
        /\ reader[r].got # 0 /\ floorOf[reader[r].g] <= reader[r].got /\ reader[r].got <= version
        /\ reader[r].since <= floorOf[reader[r].g]
    BY <2>1, <2>i, <1>t DEF ReadInv, Read, Gens, TypeOK
  <2>3. TypeOK'
    BY <2>1, <2>2, <1>t DEF TypeOK, Read
  <2>4. GenerationsGrow' /\ FloorsAgree' /\ EntriesFresh'
    BY <2>1, <2>2, <1>t DEF IInv, GenerationsGrow, FloorsAgree, EntriesFresh, TypeOK, Gens
  <2>5. ASSUME NEW q \in Readers PROVE ReadInv(q)'
    <3>1. CASE q = r
      BY <3>1, <2>1, <2>2, <2>i, <1>t DEF ReadInv, Read, TypeOK, Gens, Versions
    <3>2. CASE q # r
      <4>1. ReadInv(q) /\ reader'[q] = reader[q]
        BY <3>2, <2>1, <1>t DEF IInv, TypeOK
      <4>. QED BY <4>1, <2>1 DEF ReadInv
    <3>. QED BY <3>1, <3>2
  <2>. QED BY <2>3, <2>4, <2>5 DEF IInv
<1>4. ASSUME NEW w \in Writers, Commit(w) PROVE IInv'
  <2>1. /\ version' = version + 1 /\ version < MaxVersion
        /\ writer' = [writer EXCEPT ![w] = version + 1]
        /\ UNCHANGED <<gen, used, entry, reader, floor, floorOf>>
    BY <1>4 DEF Commit
  <2>2. TypeOK'
    BY <2>1, <1>t DEF TypeOK, Versions
  <2>3. GenerationsGrow' /\ FloorsAgree' /\ EntriesFresh'
    BY <2>1, <1>t DEF IInv, GenerationsGrow, FloorsAgree, EntriesFresh, TypeOK, Versions
  <2>4. ASSUME NEW q \in Readers PROVE ReadInv(q)'
    <3>1. ReadInv(q) /\ reader[q] \in Read
      BY <1>t DEF IInv, TypeOK
    <3>. QED BY <3>1, <2>1, <1>t DEF ReadInv, Read, TypeOK, Versions
  <2>. QED BY <2>2, <2>3, <2>4 DEF IInv
<1>5. ASSUME NEW w \in Writers, Invalidate(w) PROVE IInv'
  <2>1. /\ NextGeneration \in Gens /\ Begins(NextGeneration, NewFloor(w))
        /\ floor' = NewFloor(w) /\ writer' = [writer EXCEPT ![w] = 0]
        /\ UNCHANGED <<version, entry, reader>>
    BY <1>5 DEF Invalidate
  <2>2. NextGeneration > used
    BY <1>t DEF IInv, GenerationsGrow, NextGeneration, Seed, TypeOK
  <2>3. NewFloor(w) \in Versions /\ floor <= NewFloor(w) /\ NewFloor(w) <= version
    BY <1>t DEF IInv, FloorsAgree, NewFloor, TypeOK, Versions
  <2>4. writer' \in [Writers -> 0..MaxVersion] /\ \A v \in Writers : writer'[v] <= version
    BY <2>1, <1>t DEF IInv, FloorsAgree, TypeOK, Versions
  <2>5. reader' \in [Readers -> Read]
    BY <2>1, <1>t DEF TypeOK
  <2>6. \A q \in Readers : /\ reader'[q].g = reader[q].g
                           /\ reader'[q].since = reader[q].since
                           /\ reader'[q].got = reader[q].got
                           /\ \/ reader'[q].pc = reader[q].pc
                              \/ reader[q].pc = "seed" /\ reader'[q].pc = "again"
    BY <2>1
  <2>. HIDE DEF NextGeneration, NewFloor
  <2>. QED BY <2>1, <2>2, <2>3, <2>4, <2>5, <2>6, BeginsKeeps
<1>6. ASSUME NEW w \in Writers, InvalidateFails(w) PROVE IInv'
  <2>1. writer' = [writer EXCEPT ![w] = 0] /\ UNCHANGED <<version, gen, used, entry, reader, floor, floorOf>>
    BY <1>6 DEF InvalidateFails
  <2>2. TypeOK' /\ GenerationsGrow' /\ EntriesFresh'
    BY <2>1, <1>t DEF IInv, GenerationsGrow, EntriesFresh, TypeOK
  <2>3. FloorsAgree'
    BY <2>1, <1>t DEF IInv, FloorsAgree, TypeOK, Versions
  <2>4. \A q \in Readers : ReadInv(q)'
    BY <2>1 DEF IInv, ReadInv
  <2>. QED BY <2>2, <2>3, <2>4 DEF IInv
<1>7. ASSUME NEW g \in Gens, Expire(g) PROVE IInv'
  <2>1. entry' = [entry EXCEPT ![g] = 0] /\ UNCHANGED <<version, gen, used, reader, writer, floor, floorOf>>
    BY <1>7 DEF Expire
  <2>2. TypeOK' /\ GenerationsGrow' /\ FloorsAgree' /\ EntriesFresh'
    BY <2>1, <1>t DEF IInv, GenerationsGrow, FloorsAgree, EntriesFresh, TypeOK
  <2>3. \A q \in Readers : ReadInv(q)'
    BY <2>1 DEF IInv, ReadInv
  <2>. QED BY <2>2, <2>3 DEF IInv
<1>8. CASE LoseGeneration
  <2>1. gen' = 0 /\ UNCHANGED <<version, used, entry, reader, writer, floor, floorOf>>
    BY <1>8 DEF LoseGeneration
  <2>2. TypeOK' /\ GenerationsGrow' /\ FloorsAgree' /\ EntriesFresh'
    BY <2>1, <1>t DEF IInv, GenerationsGrow, FloorsAgree, EntriesFresh, TypeOK
  <2>3. \A q \in Readers : ReadInv(q)'
    BY <2>1 DEF IInv, ReadInv
  <2>. QED BY <2>2, <2>3 DEF IInv
<1>9. CASE UNCHANGED vars
  BY <1>9 DEF vars, IInv, TypeOK, GenerationsGrow, FloorsAgree, EntriesFresh, ReadInv
<1>. QED BY <1>1, <1>2, <1>3, <1>4, <1>5, <1>6, <1>7, <1>8, <1>9 DEF Next

(* The invariant holds in every reachable state.                           *)
THEOREM CacheInvariant == Spec => []IInv
  BY InitIInv, NextIInv, PTL DEF Spec

(* Types are respected, for every number of readers and writers.           *)
THEOREM CacheTypes == Spec => []TypeOK
<1>1. IInv => TypeOK
  BY DEF IInv
<1>. QED BY <1>1, CacheInvariant, PTL

-----------------------------------------------------------------------------
(* A step of the cache, seen through the refinement mapping, is a step of  *)
(* FreshReads or changes nothing of it.                                    *)
LEMMA StepRefines == IInv /\ [Next]_vars => [Fresh!Next]_(Fresh!vars)
<1>. SUFFICES ASSUME IInv, [Next]_vars PROVE [Fresh!Next]_(Fresh!vars)
  OBVIOUS
<1>. DEFINE read == [r \in Readers |-> ReadOf(r)]
<1>t. TypeOK
  BY DEF IInv
<1>s. ASSUME UNCHANGED <<version, floor>>,
             \A r \in Readers : ReadOf(r)' = ReadOf(r)
      PROVE  UNCHANGED Fresh!vars
  BY <1>s DEF Fresh!vars
(* One reader r moves, and the caller sees its read become x.             *)
<1>m. ASSUME NEW r \in Readers, NEW x, ReadOf(r)' = x,
             \A q \in Readers : q # r => reader'[q] = reader[q]
      PROVE  read' = [read EXCEPT ![r] = x]
  BY <1>m DEF ReadOf
<1>1. ASSUME NEW r \in Readers, Through(r) PROVE [Fresh!Next]_(Fresh!vars)
  <2>1. \A q \in Readers : q # r => reader'[q] = reader[q]
    BY <1>1, <1>t DEF Through, TypeOK
  <2>2. ReadOf(r)' = [on |-> TRUE, since |-> floor, got |-> 0]
    BY <1>1, <1>t DEF Through, TypeOK, ReadOf
  <2>3. read' = [read EXCEPT ![r] = [on |-> TRUE, since |-> floor, got |-> 0]]
    BY <2>1, <2>2, <1>m
  <2>4. ~read[r].on
    BY <1>1 DEF Through, ReadOf
  <2>5. Fresh!Begin(r)
    BY <2>3, <2>4, <1>1 DEF Fresh!Begin, Through
  <2>. QED BY <2>5 DEF Fresh!Next
<1>2. ASSUME NEW r \in Readers,
             Generation(r) \/ GenerationMissing(r) \/ SeedGeneration(r) \/ Miss(r) \/ FailOpen(r)
      PROVE  UNCHANGED Fresh!vars
  <2>1. UNCHANGED <<version, floor>>
    BY <1>2 DEF Generation, GenerationMissing, SeedGeneration, Miss, FailOpen
  <2>2. /\ \A q \in Readers : q # r => reader'[q] = reader[q]
        /\ reader'[r].since = reader[r].since
        /\ reader[r].pc \notin {"idle", "done"} /\ reader'[r].pc \notin {"idle", "done"}
    BY <1>2, <1>t DEF TypeOK, Read, Generation, GenerationMissing, SeedGeneration, Miss, FailOpen
  <2>. QED BY <2>1, <2>2, <1>s DEF ReadOf
<1>3. ASSUME NEW r \in Readers, NEW v, v \in reader[r].since..version, v # 0,
             reader[r].pc \notin {"idle", "done"},
             reader' = [reader EXCEPT ![r] = reader'[r]],
             reader'[r].pc = "done", reader'[r].since = reader[r].since, reader'[r].got = v,
             UNCHANGED <<version, floor>>
      PROVE  [Fresh!Next]_(Fresh!vars)
  <2>1. \A q \in Readers : q # r => reader'[q] = reader[q]
    BY <1>3, <1>t DEF TypeOK
  <2>2. ReadOf(r)' = [on |-> TRUE, since |-> reader[r].since, got |-> v]
    BY <1>3 DEF ReadOf
  <2>3. read[r] = [on |-> TRUE, since |-> reader[r].since, got |-> 0]
    BY <1>3 DEF ReadOf
  <2>4. read' = [read EXCEPT ![r] = [on |-> TRUE, since |-> reader[r].since, got |-> v]]
    BY <2>1, <2>2, <1>m
  <2>5. read' = [read EXCEPT ![r] = [on |-> TRUE, since |-> read[r].since, got |-> v]]
    <3>. HIDE DEF read
    <3>. QED BY <2>3, <2>4
  <2>6. Fresh!Get(r)
    <3>1. read[r].on /\ v \in read[r].since..version
      <4>. HIDE DEF read
      <4>. QED BY <2>3, <1>3
    <3>2. \E u \in read[r].since..version : read' = [read EXCEPT ![r] = [on |-> TRUE, since |-> read[r].since, got |-> u]]
      <4>. HIDE DEF read
      <4>. QED BY <2>5, <3>1
    <3>. QED BY <3>1, <3>2, <1>3 DEF Fresh!Get
  <2>. QED BY <2>6 DEF Fresh!Next
<1>4. ASSUME NEW r \in Readers, Hit(r) PROVE [Fresh!Next]_(Fresh!vars)
  <2>1. reader[r] \in Read /\ ReadInv(r) /\ reader[r].pc = "lookup"
    BY <1>4, <1>t DEF IInv, TypeOK, Hit
  <2>2. reader[r].g \in Gens /\ entry[reader[r].g] # 0
    BY <1>4, <2>1 DEF ReadInv, Read, Gens, Hit
  <2>3. entry[reader[r].g] \in reader[r].since..version
    BY <2>1, <2>2, <1>t DEF IInv, EntriesFresh, ReadInv, Read, TypeOK, Gens, Versions
  <2>4. /\ reader' = [reader EXCEPT ![r] = reader'[r]]
        /\ reader'[r].pc = "done" /\ reader'[r].since = reader[r].since /\ reader'[r].got = entry[reader[r].g]
        /\ UNCHANGED <<version, floor>>
    BY <1>4, <1>t, <2>1 DEF Hit, TypeOK, Read
  <2>. QED BY <2>1, <2>2, <2>3, <2>4, <1>3
<1>5. ASSUME NEW r \in Readers, Load(r) PROVE [Fresh!Next]_(Fresh!vars)
  <2>1. reader[r] \in Read /\ ReadInv(r) /\ reader[r].pc = "load"
    BY <1>5, <1>t DEF IInv, TypeOK, Load
  <2>2. /\ reader' = [reader EXCEPT ![r] = reader'[r]]
        /\ reader'[r].pc = (IF reader[r].g = 0 THEN "done" ELSE "fill")
        /\ reader'[r].since = reader[r].since /\ reader'[r].got = version
        /\ UNCHANGED <<version, floor>>
    BY <1>5, <1>t, <2>1 DEF Load, TypeOK, Read
  <2>3. CASE reader[r].g = 0
    <3>1. version \in reader[r].since..version /\ version # 0
      BY <2>1, <1>t DEF IInv, FloorsAgree, ReadInv, Read, TypeOK, Versions
    <3>. QED BY <2>1, <2>2, <2>3, <3>1, <1>3
  <2>4. CASE reader[r].g # 0
    <3>1. \A q \in Readers : q # r => reader'[q] = reader[q]
      BY <2>2, <1>t DEF TypeOK
    <3>. QED BY <2>1, <2>2, <2>4, <3>1, <1>s DEF ReadOf
  <2>. QED BY <2>3, <2>4
<1>6. ASSUME NEW r \in Readers, Fill(r) \/ FillFails(r) PROVE [Fresh!Next]_(Fresh!vars)
  <2>1. reader[r] \in Read /\ ReadInv(r) /\ reader[r].pc = "fill"
    BY <1>6, <1>t DEF IInv, TypeOK, Fill, FillFails
  <2>2. reader[r].got \in reader[r].since..version /\ reader[r].got # 0
    BY <2>1, <1>t DEF ReadInv, Read, TypeOK, Versions, Gens
  <2>3. /\ reader' = [reader EXCEPT ![r] = reader'[r]]
        /\ reader'[r].pc = "done" /\ reader'[r].since = reader[r].since /\ reader'[r].got = reader[r].got
        /\ UNCHANGED <<version, floor>>
    BY <1>6, <1>t, <2>1 DEF Fill, FillFails, TypeOK, Read
  <2>. QED BY <2>1, <2>2, <2>3, <1>3
<1>7. ASSUME NEW r \in Readers, Return(r) PROVE [Fresh!Next]_(Fresh!vars)
  <2>1. reader[r].pc = "done" /\ ReadInv(r) /\ UNCHANGED <<version, floor>>
    BY <1>7 DEF IInv, Return
  <2>2. \A q \in Readers : q # r => reader'[q] = reader[q]
    BY <1>7, <1>t DEF Return, TypeOK
  <2>3. ReadOf(r)' = Fresh!NoRead
    BY <1>7, <1>t DEF Return, TypeOK, ReadOf, Idle, Fresh!NoRead
  <2>4. read' = [read EXCEPT ![r] = Fresh!NoRead]
    BY <2>2, <2>3, <1>m
  <2>5. read[r].on /\ read[r].got # 0
    BY <2>1 DEF ReadOf, ReadInv
  <2>6. Fresh!End(r)
    BY <2>1, <2>4, <2>5 DEF Fresh!End
  <2>. QED BY <2>6 DEF Fresh!Next
<1>8. ASSUME NEW w \in Writers, Commit(w) PROVE [Fresh!Next]_(Fresh!vars)
  <2>1. Fresh!Write
    BY <1>8 DEF Commit, Fresh!Write, ReadOf
  <2>. QED BY <2>1 DEF Fresh!Next
<1>9. ASSUME NEW w \in Writers, Invalidate(w) PROVE [Fresh!Next]_(Fresh!vars)
  <2>1. NewFloor(w) \in floor..version
    BY <1>t DEF IInv, FloorsAgree, NewFloor, TypeOK, Versions
  <2>2. Fresh!Invalidate
    BY <1>9, <2>1 DEF Invalidate, Fresh!Invalidate, ReadOf
  <2>. QED BY <2>2 DEF Fresh!Next
<1>10. ASSUME NEW w \in Writers, InvalidateFails(w) PROVE UNCHANGED Fresh!vars
  BY <1>10, <1>s DEF InvalidateFails, ReadOf
<1>11. ASSUME NEW g \in Gens, Expire(g) PROVE UNCHANGED Fresh!vars
  BY <1>11, <1>s DEF Expire, ReadOf
<1>12. CASE LoseGeneration
  BY <1>12, <1>s DEF LoseGeneration, ReadOf
<1>13. CASE UNCHANGED vars
  BY <1>13, <1>s DEF vars, ReadOf
<1>. QED BY <1>1, <1>2, <1>4, <1>5, <1>6, <1>7, <1>8, <1>9, <1>10, <1>11, <1>12, <1>13 DEF Next

(* Redis with its generations implements FreshReads: no read returns a     *)
(* value older than the last write invalidated before it began.            *)
THEOREM CacheRefines == Spec => ImplementsFreshReads
<1>1. Init => Fresh!Init
  <2>. SUFFICES ASSUME Init PROVE Fresh!Init
    OBVIOUS
  <2>1. \A r \in Readers : reader[r] = Idle
    BY DEF Init
  <2>2. ASSUME NEW r \in Readers PROVE ReadOf(r) = Fresh!NoRead
    <3>1. reader[r].pc = "idle" /\ reader[r].since = 0
      BY <2>1 DEF Idle
    <3>2. (reader[r].pc # "idle") = FALSE /\ reader[r].pc # "done"
      BY <3>1
    <3>. QED BY <3>1, <3>2 DEF ReadOf, Fresh!NoRead
  <2>. QED BY <2>2 DEF Init, Fresh!Init
<1>. QED BY <1>1, StepRefines, CacheInvariant, PTL DEF Spec, ImplementsFreshReads, Fresh!Spec

(* A new generation starts without entries, also after the generation key  *)
(* was lost.                                                               *)
THEOREM GenerationsFresh == Spec => GenerationNotReused
<1>1. IInv /\ [Next]_vars => [gen' \notin {0, gen} => entry[gen'] = 0]_vars
  <2>. SUFFICES ASSUME IInv, Next, gen' \notin {0, gen} PROVE entry[gen'] = 0
    OBVIOUS
  <2>1. gen' \in Gens /\ gen' > used
    <3>1. ASSUME NEW r \in Readers, SeedGeneration(r) PROVE gen' \in Gens /\ gen' > used
      BY <3>1 DEF IInv, TypeOK, SeedGeneration, Begins, Seed
    <3>2. ASSUME NEW w \in Writers, Invalidate(w) PROVE gen' \in Gens /\ gen' > used
      BY <3>2 DEF IInv, TypeOK, GenerationsGrow, Invalidate, NextGeneration, Begins, Seed
    <3>. QED BY <3>1, <3>2 DEF Next, Through, Generation, GenerationMissing, Hit, Miss, FailOpen, Load, Fill,
            FillFails, Return, Commit, InvalidateFails, Expire, LoseGeneration
  <2>. QED BY <2>1 DEF IInv, GenerationsGrow
<1>. QED BY <1>1, CacheInvariant, PTL DEF Spec, GenerationNotReused

LEMMA Divides ==
  ASSUME NEW n \in Nat \ {0}, NEW d \in Nat
  PROVE  d \div n \in Nat /\ (d \div n) * n <= d /\ d < (d \div n) * n + n
  OBVIOUS

LEMMA TimesGrows ==
  ASSUME NEW n \in Nat \ {0}, NEW p \in Int, NEW q \in Int, p <= q
  PROVE  p * n \in Int /\ q * n \in Int /\ p * n <= q * n
  OBVIOUS

(* The sets of what is no later than a member are ordered by inclusion,    *)
(* and the least of them belongs to the earliest member.                   *)
UpTo(S, t) == {u \in S : u <= t}

LEMMA HasEarliest ==
  ASSUME NEW S, IsFiniteSet(S), S \subseteq Nat, S # {}
  PROVE  Earliest(S) \in S /\ \A u \in S : Earliest(S) <= u
<1>1. PICK T : T = {UpTo(S, t) : t \in S}
  OBVIOUS
<1>2. T \subseteq FiniteSubsetsOf(S) /\ T # {}
  <2>1. \A t \in S : UpTo(S, t) \in SUBSET S
    BY DEF UpTo
  <2>2. FiniteSubsetsOf(S) = SUBSET S
    BY FS_FiniteSubsetsOfFinite
  <2>3. T \subseteq SUBSET S
    BY <1>1, <2>1
  <2>4. PICK t \in S : UpTo(S, t) \in T
    BY <1>1
  <2> QED
    BY <2>2, <2>3, <2>4
<1>3. PICK X \in T : \A Y \in T : <<Y, X>> \notin StrictSubsetOrdering(S)
  <2>1. IsWellFoundedOn(StrictSubsetOrdering(S), FiniteSubsetsOf(S))
    BY FS_StrictSubsetOrderingWellFounded
  <2> QED
    BY <1>2, <2>1, WFMin
<1>4. PICK t \in S : X = UpTo(S, t)
  BY <1>1
<1>5. ASSUME NEW u \in S, u < t PROVE FALSE
  <2>1. ASSUME NEW v \in S, v <= u PROVE v <= t
    BY <1>5, <2>1
  <2>2. UpTo(S, u) \subseteq UpTo(S, t)
    BY <2>1 DEF UpTo
  <2>3. t \in UpTo(S, t) /\ t \notin UpTo(S, u)
    BY <1>5 DEF UpTo
  <2>4. UpTo(S, u) \subseteq S /\ UpTo(S, t) \subseteq S
    BY DEF UpTo
  <2>5. <<UpTo(S, u), X>> \in StrictSubsetOrdering(S)
    BY <1>4, <2>2, <2>3, <2>4 DEF StrictSubsetOrdering
  <2> QED
    BY <1>1, <1>3, <2>5
<1>6. \A u \in S : t <= u
  BY <1>5
<1> QED
  BY <1>6 DEF Earliest

-----------------------------------------------------------------------------
(* Roll-ups.  As long as the zone stays, what retention has deleted lies   *)
(* before the cutoff of today, and therefore before every day, month and   *)
(* return that a scheduled run of today computes: what a run counts from   *)
(* the raw events is all that was not taken back.  As long as nothing is,  *)
(* a stored total is never above the number of views that were stored for  *)
(* its period, and a stored return was seen and its day is over.           *)

RollTypes == RollupsTypeOK /\ views \subseteq ViewSlots /\ buffered \subseteq ViewSlots

RunIsOfToday == agg # AggIdle => agg.zone = 0 /\ agg.at = now

OldIsPruned ==
  /\ prune # none => prune = RawRetentionCutoff(DateOf(now, 0))
  /\ \A t \in views \ raw : DateOf(t, 0) < RawRetentionCutoff(DateOf(now, 0))

TotalsAreCounts == \A k \in Keys : rollup[k] <= Cardinality(views \cap PeriodSlots(k[1], k[2], 0))

ReturnsWereSeen ==
  \A d \in Dates : \A n \in cohort[d].returned :
    /\ DateOf(now, 0) > d + n /\ \E t \in views : DateOf(t, 0) = d + n
    /\ firstSeen # none /\ DateOf(firstSeen, 0) <= d

InWindow(run) ==
  /\ \A k \in run.todo : k[2] \in PeriodsBetween(k[1], Later(DateOf(now, 0) - 1, 0), DateOf(now, 0))
  /\ \A d \in run.cohorts : d >= DateOf(now, 0) - 1 - CohortLookback

RunIsInWindow == agg # AggIdle /\ agg.kind = "run" => InWindow(agg)

Steady == zone = 0 /\ RunIsOfToday /\ OldIsPruned /\ RunIsInWindow
Counted == TotalsAreCounts /\ ReturnsWereSeen

RollInv ==
  /\ RollTypes
  /\ zoneMoves = 0 => Steady
  /\ zoneMoves = 0 /\ visitor = "consented" => Counted

LEMMA RollConstants ==
  /\ DaysPerMonth \in Nat \ {0} /\ CohortLookback \in Nat \ {0} /\ RetentionDays \in Nat /\ MaxSlot \in Nat
  /\ FloorDays \in Nat /\ FloorDays > CohortLookback /\ CohortDays \subseteq 1..CohortLookback
  /\ MaxZoneChanges \in Nat /\ DayRollupMonths \in Nat /\ ViewSlots \subseteq Slots
  /\ Slots \subseteq Nat /\ Dates \subseteq Nat /\ 0 \in Dates /\ 0 \in Slots /\ (MaxSlot + 1) \div 2 \in Nat
  BY RollupsAssumption DEF Slots, Dates

LEMMA DateFacts ==
  ASSUME NEW t \in Slots, NEW z \in 0..1
  PROVE  DateOf(t, z) \in Dates /\ DateOf(t, z) \in Nat
  BY RollConstants DEF DateOf, Slots, Dates

LEMMA DatesGrow ==
  ASSUME NEW t \in Int, NEW u \in Int, t <= u
  PROVE  DateOf(t, 0) \in Int /\ DateOf(u, 0) \in Int /\ DateOf(t, 0) <= DateOf(u, 0)
  BY DEF DateOf

LEMMA LaterDate ==
  ASSUME NEW d \in Dates, NEW e \in Dates, NEW n \in Int, n <= d
  PROVE  Later(n, e) \in Dates
<1>1. PICK m \in Nat : m = (MaxSlot + 1) \div 2
  BY RollConstants
<1>2. d \in 0..m /\ e \in 0..m
  BY <1>1 DEF Dates
<1>3. Later(n, e) \in 0..m
  BY <1>2 DEF Later
<1> QED
  BY <1>1, <1>3 DEF Dates

(* What RawRetentionCutoff keeps, and that it only moves forward.          *)
LEMMA CutoffParts ==
  /\ Later(RetentionDays, FloorDays) \in Nat /\ Later(RetentionDays, FloorDays) >= FloorDays
  /\ \A m \in Int : (m - 1) * DaysPerMonth \in Int
<1>1. RetentionDays \in Nat /\ FloorDays \in Nat
  BY RollConstants
<1>2. Later(RetentionDays, FloorDays) \in Nat /\ Later(RetentionDays, FloorDays) >= FloorDays
  BY <1>1 DEF Later
<1>3. PICK n \in Nat : n = DaysPerMonth
  BY RollConstants
<1>4. \A m \in Int : (m - 1) * n \in Int
  OBVIOUS
<1> QED
  BY <1>2, <1>3, <1>4

LEMMA CutoffFacts ==
  ASSUME NEW d \in Nat
  PROVE  /\ RawRetentionCutoff(d) \in 0..d
         /\ RawRetentionCutoff(d) > 0 => /\ RawRetentionCutoff(d) <= d - FloorDays
                                         /\ RawRetentionCutoff(d) <= (d \div DaysPerMonth - 1) * DaysPerMonth
<1>1. PICK m \in Nat : m = d \div DaysPerMonth
  BY Divides, RollConstants
<1>2. PICK x \in Int : x = (m - 1) * DaysPerMonth
  BY CutoffParts
<1>3. PICK y \in Int : y = d - Later(RetentionDays, FloorDays)
  BY CutoffParts
<1>4. y <= d - FloorDays /\ y <= d
  BY <1>3, CutoffParts, RollConstants
<1>5. RawRetentionCutoff(d) = Later(Earlier(y, x), 0)
  BY <1>1, <1>2, <1>3 DEF RawRetentionCutoff, Period
<1>6. RawRetentionCutoff(d) \in 0..d /\ (RawRetentionCutoff(d) > 0 => RawRetentionCutoff(d) <= y /\ RawRetentionCutoff(d) <= x)
  BY <1>4, <1>5 DEF Later, Earlier
<1> QED
  BY <1>1, <1>2, <1>4, <1>6, RollConstants

LEMMA MonthsGrow ==
  ASSUME NEW d \in Nat, NEW e \in Nat, d <= e
  PROVE  d \div DaysPerMonth \in Nat /\ e \div DaysPerMonth \in Nat /\ d \div DaysPerMonth <= e \div DaysPerMonth
<1>1. PICK n \in Nat \ {0} : n = DaysPerMonth
  BY RollConstants
<1>2. PICK p \in Nat : p = d \div n /\ p * n <= d
  BY Divides
<1>3. PICK q \in Nat : q = e \div n /\ e < q * n + n
  BY Divides
<1>4. p <= q
  <2> SUFFICES ASSUME q + 1 <= p PROVE FALSE
    BY <1>2, <1>3
  <2>1. (q + 1) * n <= p * n /\ (q + 1) * n = q * n + n
    BY <1>2, <1>3, TimesGrows
  <2>2. q * n \in Int /\ p * n \in Int
    BY <1>2, <1>3
  <2> QED
    BY <1>2, <1>3, <2>1, <2>2
<1> QED
  BY <1>1, <1>2, <1>3, <1>4

LEMMA CutoffGrows ==
  ASSUME NEW d \in Nat, NEW e \in Nat, d <= e
  PROVE  RawRetentionCutoff(d) <= RawRetentionCutoff(e)
<1>1. PICK p \in Nat, q \in Nat : p = d \div DaysPerMonth /\ q = e \div DaysPerMonth /\ p <= q
  BY MonthsGrow
<1>2. PICK x \in Int, y \in Int : x = (p - 1) * DaysPerMonth /\ y = (q - 1) * DaysPerMonth /\ x <= y
  <2>1. PICK n \in Nat \ {0} : n = DaysPerMonth
    BY RollConstants
  <2>2. (p - 1) * n \in Int /\ (q - 1) * n \in Int /\ (p - 1) * n <= (q - 1) * n
    BY <1>1, TimesGrows
  <2> QED
    BY <2>1, <2>2
<1>3. PICK r \in Int : r = Later(RetentionDays, FloorDays)
  BY CutoffParts
<1>4. RawRetentionCutoff(d) = Later(Earlier(d - r, x), 0) /\ RawRetentionCutoff(e) = Later(Earlier(e - r, y), 0)
  BY <1>1, <1>2, <1>3 DEF RawRetentionCutoff, Period
<1> QED
  BY <1>2, <1>3, <1>4 DEF Later, Earlier

(* A day before the cutoff is in no period that has yesterday or today,    *)
(* and is no return of a cohort within the look-back.                      *)
LEMMA WindowIsKept ==
  ASSUME NEW today \in Nat, NEW date \in Nat, date < RawRetentionCutoff(today),
         NEW d \in Later(today - 1, 0)..today, NEW g \in Grains
  PROVE  Period(g, date) # Period(g, d)
<1>1. RawRetentionCutoff(today) \in Nat /\ RawRetentionCutoff(today) > 0
  BY CutoffFacts
<1>2. date < today - FloorDays /\ date < (today \div DaysPerMonth - 1) * DaysPerMonth
  <2>1. PICK x \in Int : x = (today \div DaysPerMonth - 1) * DaysPerMonth
    <3>1. PICK m \in Int : m = today \div DaysPerMonth
      BY Divides, RollConstants
    <3> QED
      BY <3>1, CutoffParts
  <2> QED
    BY <1>1, <2>1, CutoffFacts, RollConstants
<1>3. d \in Nat /\ today - 1 <= d /\ d <= today
  BY DEF Later
<1>4. CASE g = "day"
  BY <1>2, <1>3, <1>4, RollConstants DEF Period
<1>5. CASE g # "day"
  <2>1. PICK n \in Nat \ {0} : n = DaysPerMonth
    BY RollConstants
  <2>2. PICK m \in Nat : m = today \div n /\ m * n <= today
    BY Divides
  <2>3. PICK q \in Nat : q = date \div n /\ q * n <= date
    BY Divides
  <2>4. PICK p \in Nat : p = d \div n /\ d < p * n + n
    BY <1>3, Divides
  <2>5. q < m - 1
    <3> SUFFICES ASSUME m - 1 <= q PROVE FALSE
      BY <2>2, <2>3
    <3>1. (m - 1) * n <= q * n /\ (m - 1) * n \in Int /\ q * n \in Int
      BY <2>2, <2>3, TimesGrows
    <3> QED
      BY <1>2, <2>1, <2>2, <2>3, <3>1
  <2>6. m <= p + 1
    <3> SUFFICES ASSUME p + 2 <= m PROVE FALSE
      BY <2>2, <2>4
    <3>1. (p + 2) * n <= m * n /\ (p + 2) * n = p * n + n + n /\ p * n \in Int /\ m * n \in Int
      BY <2>2, <2>4, TimesGrows
    <3> QED
      BY <1>3, <2>2, <2>4, <3>1
  <2>7. Period(g, date) = q /\ Period(g, d) = p
    BY <1>5, <2>1, <2>3, <2>4 DEF Period
  <2> QED
    BY <2>2, <2>3, <2>4, <2>5, <2>6, <2>7
<1> QED
  BY <1>4, <1>5

LEMMA CountsGrow ==
  ASSUME NEW A, NEW B, NEW P, A \subseteq B, B \subseteq ViewSlots
  PROVE  /\ Cardinality(A \cap P) \in Nat /\ Cardinality(B \cap P) \in Nat
         /\ Cardinality(A \cap P) <= Cardinality(B \cap P)
         /\ Cardinality(A \cap P) \in 0..Cardinality(ViewSlots)
<1>1. IsFiniteSet(ViewSlots)
  <2>1. IsFiniteSet(0..MaxSlot)
    BY RollConstants, FS_Interval
  <2> QED
    BY <2>1, RollConstants, FS_Subset DEF Slots
<1>2. A \cap P \subseteq B \cap P /\ B \cap P \subseteq ViewSlots /\ A \cap P \subseteq ViewSlots
  OBVIOUS
<1>3. IsFiniteSet(A \cap P) /\ IsFiniteSet(B \cap P)
  BY <1>1, <1>2, FS_Subset
<1>4. Cardinality(A \cap P) \in Nat /\ Cardinality(B \cap P) \in Nat /\ Cardinality(ViewSlots) \in Nat
  BY <1>1, <1>3, FS_CardinalityType
<1>5. Cardinality(A \cap P) <= Cardinality(B \cap P)
  BY <1>2, <1>3, FS_Subset
<1>6. Cardinality(A \cap P) <= Cardinality(ViewSlots)
  BY <1>1, <1>2, FS_Subset
<1> QED
  BY <1>4, <1>5, <1>6

(* The aggregator takes a step: the traffic, the clock and retention rest. *)
AggRests == UNCHANGED <<now, zone, zoneMoves, buffered, raw, views, visitor, prune>>

LEMMA AggStep ==
  ASSUME RollInv, AggRests, agg' \in AggRun \cup {AggIdle}, built' \in -1..1, firstSeen' \in -1..MaxSlot,
         rollup' \in [Keys -> 0..Cardinality(ViewSlots)], cohort' \in [Dates -> CohortRow],
         zoneMoves = 0 => RunIsOfToday' /\ RunIsInWindow',
         zoneMoves = 0 /\ visitor = "consented" => TotalsAreCounts' /\ ReturnsWereSeen'
  PROVE  RollInv'
<1>1. RollTypes'
  BY DEF AggRests, RollInv, RollTypes, RollupsTypeOK
<1>2. zoneMoves = 0 => zone' = 0 /\ OldIsPruned'
  BY DEF AggRests, RollInv, Steady, OldIsPruned
<1>3. zoneMoves' = zoneMoves /\ visitor' = visitor
  BY DEF AggRests
<1> QED
  BY <1>1, <1>2, <1>3 DEF RollInv, Steady, Counted

(* A run that starts.                                                      *)
RunKinds == {"run", "backfill", "rebuild"}
RunPCs == {"delete", "first_seen", "periods", "set_zone"}

LEMMA RunWords ==
  /\ "run" \in RunKinds /\ "backfill" \in RunKinds /\ "rebuild" \in RunKinds
  /\ "delete" \in RunPCs /\ "first_seen" \in RunPCs /\ "set_zone" \in RunPCs /\ 0 \in Dates
  BY RollConstants DEF RunKinds, RunPCs

StartsAs(r, kind) == r \in AggRun /\ r.kind = kind /\ r.zone = zone /\ r.at = now
ToDo(from, to, minStart) == {k \in Keys : k[2] \in PeriodsBetween(k[1], from, to) /\ Start(k[1], k[2]) >= minStart}
HasToDo(r, todo, cohorts) == r.todo = todo /\ r.cohorts = cohorts

LEMMA RecomputeFits ==
  ASSUME RollInv, NEW kind \in RunKinds, NEW pc \in RunPCs,
         NEW from \in Dates, NEW to \in Dates, NEW minStart \in Dates, NEW cohortFrom \in Dates,
         NEW r, r = Recompute(kind, pc, from, to, minStart, cohortFrom)
  PROVE  StartsAs(r, kind) /\ HasToDo(r, ToDo(from, to, minStart), Later(cohortFrom, minStart)..to)
<1>1. PICK todo : todo = {k \in Keys : k[2] \in PeriodsBetween(k[1], from, to) /\ Start(k[1], k[2]) >= minStart}
  OBVIOUS
<1>2. PICK cohorts : cohorts = Later(cohortFrom, minStart)..to
  OBVIOUS
<1>3. todo \in SUBSET Keys
  BY <1>1
<1>4. cohorts \in SUBSET Dates
  BY <1>2, RollConstants DEF Later, Dates
<1>5. r = [kind |-> kind, pc |-> pc, zone |-> zone, at |-> now, from |-> from, to |-> to, minStart |-> minStart,
           cohortFrom |-> cohortFrom, todo |-> todo, cohorts |-> cohorts]
  BY <1>1, <1>2 DEF Recompute
<1>6. zone \in 0..1 /\ now \in Slots
  BY DEF RollInv, RollTypes, RollupsTypeOK
<1>7. r \in AggRun
  BY <1>3, <1>4, <1>5, <1>6 DEF AggRun, RunKinds, RunPCs
<1>8. StartsAs(r, kind)
  BY <1>5, <1>7 DEF StartsAs
<1>9. r.todo = todo /\ r.cohorts = cohorts
  BY <1>5
<1> QED
  BY <1>1, <1>2, <1>8, <1>9 DEF HasToDo, ToDo

LEMMA RunStarts ==
  ASSUME RollInv, AggRests, NEW r \in AggRun, agg' = r, UNCHANGED <<firstSeen, rollup, cohort, built>>,
         r.zone = zone, r.at = now, r.kind = "run" /\ zoneMoves = 0 => InWindow(r)
  PROVE  RollInv'
<1>1. /\ built' \in -1..1 /\ firstSeen' \in -1..MaxSlot
      /\ rollup' \in [Keys -> 0..Cardinality(ViewSlots)] /\ cohort' \in [Dates -> CohortRow]
  BY DEF RollInv, RollTypes, RollupsTypeOK
<1>2. ASSUME zoneMoves = 0 PROVE RunIsOfToday' /\ RunIsInWindow'
  <2>1. zone = 0
    BY <1>2 DEF RollInv, Steady
  <2>2. RunIsOfToday'
    BY <2>1 DEF RunIsOfToday, AggRests
  <2>3. RunIsInWindow'
    BY <1>2 DEF RunIsInWindow, InWindow, AggRests
  <2> QED
    BY <2>2, <2>3
<1>3. zoneMoves = 0 /\ visitor = "consented" => TotalsAreCounts' /\ ReturnsWereSeen'
  BY DEF RollInv, Counted, TotalsAreCounts, ReturnsWereSeen, AggRests
<1> QED
  BY <1>1, <1>2, <1>3, AggStep

(* A run that goes on, with less to do, or ends.                           *)
LEMMA RunGoesOn ==
  ASSUME RollInv, AggRests, zoneMoves = 0,
         \/ agg' = AggIdle
         \/ /\ agg # AggIdle /\ agg'.kind = agg.kind /\ agg'.zone = agg.zone /\ agg'.at = agg.at
            /\ agg'.todo \subseteq agg.todo /\ agg'.cohorts \subseteq agg.cohorts
  PROVE  RunIsOfToday' /\ RunIsInWindow'
<1>1. RunIsOfToday /\ RunIsInWindow /\ now' = now
  BY DEF RollInv, Steady, AggRests
<1> QED
  BY <1>1 DEF RunIsOfToday, RunIsInWindow, InWindow

LEMMA StartRunStep == ASSUME RollInv, StartRun PROVE RollInv'
<1>1. now \in Slots /\ zone \in 0..1
  BY DEF RollInv, RollTypes, RollupsTypeOK
<1>2. PICK today \in Dates : today = Today /\ today \in Nat
  BY <1>1, DateFacts DEF Today
<1>3. PICK from \in Dates : from = Later(today - 1, 0) /\ from = WindowFrom
  BY <1>2, RollConstants DEF Later, WindowFrom, Dates
<1>4. PICK cohortFrom \in Dates : cohortFrom = Later(today - 1 - CohortLookback, 0)
  <2>1. today - 1 - CohortLookback \in Int /\ today - 1 - CohortLookback <= today
    BY <1>2, RollConstants
  <2> QED
    BY <2>1, LaterDate, RollConstants
<1>5. PICK r : r = Recompute("run", "first_seen", from, today, 0, cohortFrom)
  OBVIOUS
<1>6. agg' = r
  BY <1>2, <1>3, <1>4, <1>5 DEF StartRun
<1>7. StartsAs(r, "run") /\ HasToDo(r, ToDo(from, today, 0), Later(cohortFrom, 0)..today)
  BY <1>5, RunWords, RecomputeFits
<1>8. ASSUME zoneMoves = 0 PROVE InWindow(r)
  <2>1. zone = 0
    BY <1>8 DEF RollInv, Steady
  <2>2. today = DateOf(now, 0)
    BY <1>2, <2>1 DEF Today
  <2>3. \A k \in r.todo : k[2] \in PeriodsBetween(k[1], Later(DateOf(now, 0) - 1, 0), DateOf(now, 0))
    BY <1>3, <1>7, <2>2 DEF HasToDo, ToDo
  <2>4. \A d \in r.cohorts : d >= DateOf(now, 0) - 1 - CohortLookback
    BY <1>2, <1>4, <1>7, <2>2, RollConstants DEF Later, HasToDo
  <2> QED
    BY <2>3, <2>4 DEF InWindow
<1>9. AggRests /\ UNCHANGED <<firstSeen, rollup, cohort, built>>
  BY DEF StartRun, AggRests
<1> QED
  BY <1>6, <1>7, <1>8, <1>9, RunStarts DEF StartsAs

LEMMA EarliestDateFits == ASSUME RollInv, raw # {} PROVE EarliestDate \in Dates
<1>1. zone \in 0..1 /\ raw \subseteq Slots
  BY DEF RollInv, RollTypes, RollupsTypeOK
<1>2. IsFiniteSet(raw)
  <2>1. IsFiniteSet(0..MaxSlot)
    BY RollConstants, FS_Interval
  <2> QED
    BY <1>1, <2>1, FS_Subset DEF Slots
<1>3. Earliest(raw) \in raw
  BY <1>1, <1>2, HasEarliest, RollConstants
<1> QED
  BY <1>1, <1>3, DateFacts DEF EarliestDate

LEMMA StartRebuildStep == ASSUME RollInv, StartRebuild PROVE RollInv'
<1>1. now \in Slots /\ zone \in 0..1
  BY DEF RollInv, RollTypes, RollupsTypeOK
<1>2. Today \in Dates
  BY <1>1, DateFacts DEF Today
<1>3. AggRests /\ UNCHANGED <<firstSeen, rollup, cohort, built>>
  BY DEF StartRebuild, AggRests
<1>4. CASE raw = {}
  <2>1. PICK q : q = Recompute("rebuild", "set_zone", Today, Today, 0, 0)
    OBVIOUS
  <2>2. StartsAs(q, "rebuild")
    BY <1>2, <2>1, RunWords, RecomputeFits
  <2>3. PICK r : r = [q EXCEPT !.todo = {}, !.cohorts = {}]
    OBVIOUS
  <2>4. StartsAs(r, "rebuild")
    BY <2>2, <2>3 DEF AggRun, StartsAs
  <2>5. agg' = r
    BY <1>4, <2>1, <2>3 DEF StartRebuild
  <2> QED
    BY <1>3, <2>4, <2>5, RunStarts DEF StartsAs
<1>5. CASE raw # {} /\ built = none
  <2>1. PICK r : r = Recompute("rebuild", "first_seen", EarliestDate, Today, 0, EarliestDate)
    OBVIOUS
  <2>2. EarliestDate \in Dates
    BY <1>5, EarliestDateFits
  <2>3. StartsAs(r, "rebuild")
    BY <1>2, <2>1, <2>2, RunWords, RecomputeFits
  <2>4. agg' = r
    BY <1>5, <2>1 DEF StartRebuild
  <2> QED
    BY <1>3, <2>3, <2>4, RunStarts DEF StartsAs
<1>6. CASE raw # {} /\ built # none
  <2>1. PICK r : r = Recompute("rebuild", "delete", EarliestDate, Today, EarliestDate, EarliestDate)
    OBVIOUS
  <2>2. EarliestDate \in Dates
    BY <1>6, EarliestDateFits
  <2>3. StartsAs(r, "rebuild")
    BY <1>2, <2>1, <2>2, RunWords, RecomputeFits
  <2>4. agg' = r
    BY <1>6, <2>1 DEF StartRebuild
  <2> QED
    BY <1>3, <2>3, <2>4, RunStarts DEF StartsAs
<1> QED
  BY <1>4, <1>5, <1>6

LEMMA StartBackfillStep == ASSUME RollInv, StartBackfill PROVE RollInv'
<1>1. now \in Slots /\ zone \in 0..1 /\ raw # {}
  BY DEF RollInv, RollTypes, RollupsTypeOK, StartBackfill
<1>2. PICK today \in Dates : today = Today
  BY <1>1, DateFacts DEF Today
<1>3. PICK early \in Dates : early = EarliestDate
  BY <1>1, EarliestDateFits
<1>4. PICK from \in 0..today, to \in 0..today :
        agg' = Recompute("backfill", "first_seen", Later(from, early), to, 0, Later(Later(from, early) - CohortLookback, early))
  BY <1>2, <1>3 DEF StartBackfill
<1>5. from \in Dates /\ to \in Dates
  BY <1>2, RollConstants DEF Dates
<1>6. PICK first \in Dates : first = Later(from, early)
  BY <1>3, <1>5 DEF Later
<1>7. PICK cohortFrom \in Dates : cohortFrom = Later(first - CohortLookback, early)
  <2>1. first - CohortLookback \in Int /\ first - CohortLookback <= first
    BY <1>6, RollConstants
  <2> QED
    BY <1>3, <1>6, <2>1, LaterDate
<1>8. PICK r : r = Recompute("backfill", "first_seen", first, to, 0, cohortFrom)
  OBVIOUS
<1>9. StartsAs(r, "backfill")
  BY <1>5, <1>6, <1>7, <1>8, RunWords, RecomputeFits
<1>10. agg' = r
  BY <1>4, <1>6, <1>7, <1>8
<1>11. AggRests /\ UNCHANGED <<firstSeen, rollup, cohort, built>>
  BY DEF StartBackfill, AggRests
<1> QED
  BY <1>9, <1>10, <1>11, RunStarts DEF StartsAs

(* A step of the run under way.                                            *)
LEMMA UnderWay ==
  ASSUME RollInv, agg # AggIdle
  PROVE  /\ agg \in AggRun /\ agg.zone \in 0..1 /\ agg.at \in Slots
         /\ agg.todo \subseteq Keys /\ agg.cohorts \subseteq Dates
         /\ zoneMoves = 0 => agg.zone = 0 /\ agg.at = now
  BY DEF RollInv, RollTypes, RollupsTypeOK, AggRun, Steady, RunIsOfToday

LEMMA Kept ==
  ASSUME RollInv
  PROVE  /\ built \in -1..1 /\ firstSeen \in -1..MaxSlot /\ now \in Slots /\ zone \in 0..1
         /\ rollup \in [Keys -> 0..Cardinality(ViewSlots)] /\ cohort \in [Dates -> CohortRow]
         /\ raw \subseteq views /\ views \subseteq ViewSlots /\ views \subseteq Slots /\ buffered \subseteq ViewSlots
         /\ Cardinality(ViewSlots) \in Nat
<1>1. Cardinality(ViewSlots) \in Nat
  BY CountsGrow
<1> QED
  BY <1>1 DEF RollInv, RollTypes, RollupsTypeOK

LEMMA DeleteFromStep == ASSUME RollInv, DeleteFrom PROVE RollInv'
<1>1. agg # AggIdle
  BY DEF DeleteFrom, AggIdle
<1>2. PICK run \in AggRun : run = agg
  BY <1>1, UnderWay
<1>3. agg' = [run EXCEPT !.pc = "first_seen"]
  BY <1>2 DEF DeleteFrom
<1>4. /\ agg' \in AggRun /\ agg'.kind = agg.kind /\ agg'.zone = agg.zone /\ agg'.at = agg.at
      /\ agg'.todo = agg.todo /\ agg'.cohorts = agg.cohorts
  BY <1>2, <1>3 DEF AggRun
<1>5. AggRests /\ UNCHANGED <<firstSeen, built>>
  BY DEF DeleteFrom, AggRests
<1>6. rollup' \in [Keys -> 0..Cardinality(ViewSlots)] /\ \A k \in Keys : rollup'[k] = 0 \/ rollup'[k] = rollup[k]
  BY Kept DEF DeleteFrom
<1>7. cohort' \in [Dates -> CohortRow] /\ \A d \in Dates : cohort'[d] = NoCohort \/ cohort'[d] = cohort[d]
  <2>1. NoCohort \in CohortRow
    BY DEF NoCohort, CohortRow
  <2> QED
    BY <2>1, Kept DEF DeleteFrom
<1>8. ASSUME zoneMoves = 0, visitor = "consented" PROVE TotalsAreCounts' /\ ReturnsWereSeen'
  <2>1. TotalsAreCounts /\ ReturnsWereSeen
    BY <1>8 DEF RollInv, Counted
  <2>2. ASSUME NEW k \in Keys PROVE rollup'[k] <= Cardinality(views \cap PeriodSlots(k[1], k[2], 0))
    <3>1. Cardinality(views \cap PeriodSlots(k[1], k[2], 0)) \in Nat
      BY Kept, CountsGrow
    <3> QED
      BY <1>6, <2>1, <3>1 DEF TotalsAreCounts
  <2>3. TotalsAreCounts'
    BY <1>5, <2>2 DEF TotalsAreCounts, AggRests
  <2>4. ReturnsWereSeen'
    <3>1. NoCohort.returned = {}
      BY DEF NoCohort
    <3>2. \A d \in Dates : cohort'[d].returned \subseteq cohort[d].returned
      BY <1>7, <3>1
    <3> QED
      BY <1>5, <2>1, <3>2 DEF ReturnsWereSeen, AggRests
  <2> QED
    BY <2>3, <2>4
<1>9. zoneMoves = 0 => RunIsOfToday' /\ RunIsInWindow'
  BY <1>1, <1>4, <1>5, RunGoesOn
<1> QED
  BY <1>4, <1>5, <1>6, <1>7, <1>8, <1>9, Kept, AggStep

LEMMA RefreshFirstSeenStep == ASSUME RollInv, RefreshFirstSeen PROVE RollInv'
<1>1. agg # AggIdle
  BY DEF RefreshFirstSeen, AggIdle
<1>2. PICK run \in AggRun : run = agg
  BY <1>1, UnderWay
<1>3. agg' = [run EXCEPT !.pc = "periods"]
  BY <1>2 DEF RefreshFirstSeen
<1>4. /\ agg' \in AggRun /\ agg'.kind = agg.kind /\ agg'.zone = agg.zone /\ agg'.at = agg.at
      /\ agg'.todo = agg.todo /\ agg'.cohorts = agg.cohorts
  BY <1>2, <1>3 DEF AggRun
<1>5. AggRests /\ UNCHANGED <<rollup, cohort, built>>
  BY DEF RefreshFirstSeen, AggRests
<1>6. firstSeen' \in -1..MaxSlot /\ (firstSeen # none => firstSeen' # none /\ firstSeen' <= firstSeen)
  <2>1. PICK seen : seen = {t \in raw : DateOf(t, agg.zone) \in agg.from..agg.to}
    OBVIOUS
  <2>2. firstSeen' = IF seen = {} \/ visitor = "erased" THEN firstSeen ELSE KeptFirstSeen(Earliest(seen))
    BY <2>1 DEF RefreshFirstSeen
  <2>3. CASE seen = {} \/ visitor = "erased"
    BY <2>2, <2>3, Kept DEF none
  <2>4. CASE ~(seen = {} \/ visitor = "erased")
    <3>1. seen \subseteq Slots
      BY <2>1, Kept
    <3>2. IsFiniteSet(seen)
      <4>1. IsFiniteSet(0..MaxSlot)
        BY RollConstants, FS_Interval
      <4> QED
        BY <3>1, <4>1, FS_Subset DEF Slots
    <3>3. seen \subseteq Nat
      BY <3>1, RollConstants
    <3>4. PICK t \in Slots : t = Earliest(seen)
      BY <2>4, <3>1, <3>2, <3>3, HasEarliest
    <3>5. firstSeen' = IF firstSeen = none THEN t ELSE IF t < firstSeen THEN t ELSE firstSeen
      BY <2>2, <2>4, <3>4 DEF KeptFirstSeen, Earlier
    <3>6. t \in 0..MaxSlot /\ firstSeen \in -1..MaxSlot
      BY Kept DEF Slots
    <3> QED
      BY <3>5, <3>6, RollConstants DEF none
  <2> QED
    BY <2>3, <2>4
<1>7. ASSUME zoneMoves = 0, visitor = "consented" PROVE TotalsAreCounts' /\ ReturnsWereSeen'
  <2>1. TotalsAreCounts /\ ReturnsWereSeen
    BY <1>7 DEF RollInv, Counted
  <2>2. TotalsAreCounts'
    BY <1>5, <2>1 DEF TotalsAreCounts, AggRests
  <2>3. ASSUME NEW d \in Dates, firstSeen # none, DateOf(firstSeen, 0) <= d PROVE DateOf(firstSeen', 0) <= d
    <3>1. firstSeen \in Int /\ firstSeen' \in Int /\ firstSeen' <= firstSeen
      BY <1>6, <2>3, Kept, RollConstants
    <3>2. DateOf(firstSeen', 0) \in Int /\ DateOf(firstSeen, 0) \in Int /\ DateOf(firstSeen', 0) <= DateOf(firstSeen, 0)
      BY <3>1, DatesGrow
    <3> QED
      BY <2>3, <3>2, RollConstants
  <2>4. ReturnsWereSeen'
    BY <1>5, <1>6, <2>1, <2>3 DEF ReturnsWereSeen, AggRests
  <2> QED
    BY <2>2, <2>4
<1>8. zoneMoves = 0 => RunIsOfToday' /\ RunIsInWindow'
  BY <1>1, <1>4, <1>5, RunGoesOn
<1> QED
  BY <1>4, <1>5, <1>6, <1>7, <1>8, Kept, AggStep

LEMMA EndsStep ==
  ASSUME RollInv, EndRecompute \/ SetTimezone \/ AggregatorFails
  PROVE  RollInv'
<1>1. agg # AggIdle
  BY DEF EndRecompute, SetTimezone, AggregatorFails, AggIdle
<1>2. PICK run \in AggRun : run = agg
  BY <1>1, UnderWay
<1>3. AggRests /\ UNCHANGED <<firstSeen, rollup, cohort>>
  BY DEF EndRecompute, SetTimezone, AggregatorFails, AggRests
<1>4. agg' = AggIdle \/ agg' = [run EXCEPT !.pc = "set_zone"]
  BY <1>2 DEF EndRecompute, SetTimezone, AggregatorFails
<1>5. agg' # AggIdle => /\ agg' \in AggRun /\ agg'.kind = agg.kind /\ agg'.zone = agg.zone /\ agg'.at = agg.at
                        /\ agg'.todo = agg.todo /\ agg'.cohorts = agg.cohorts
  BY <1>2, <1>4 DEF AggRun
<1>6. built' \in -1..1
  <2>1. agg.zone \in 0..1 /\ built \in -1..1
    BY <1>1, UnderWay, Kept
  <2>2. built' = built \/ built' = agg.zone
    BY DEF EndRecompute, SetTimezone, AggregatorFails
  <2> QED
    BY <2>1, <2>2
<1>7. ASSUME zoneMoves = 0, visitor = "consented" PROVE TotalsAreCounts' /\ ReturnsWereSeen'
  BY <1>3, <1>7 DEF RollInv, Counted, TotalsAreCounts, ReturnsWereSeen, AggRests
<1>8. zoneMoves = 0 => RunIsOfToday' /\ RunIsInWindow'
  BY <1>1, <1>3, <1>5, RunGoesOn
<1> QED
  BY <1>3, <1>5, <1>6, <1>7, <1>8, Kept, AggStep

LEMMA RecomputePeriodStep == ASSUME RollInv, RecomputePeriod PROVE RollInv'
<1>1. agg # AggIdle
  BY DEF RecomputePeriod, AggIdle
<1>2. PICK run \in AggRun : run = agg
  BY <1>1, UnderWay
<1>3. PICK k \in run.todo :
        /\ rollup' = [rollup EXCEPT ![k] = Cardinality(raw \cap PeriodSlots(k[1], k[2], run.zone))]
        /\ agg' = [run EXCEPT !.todo = run.todo \ {k}]
  BY <1>2 DEF RecomputePeriod
<1>4. /\ agg' \in AggRun /\ agg'.kind = agg.kind /\ agg'.zone = agg.zone /\ agg'.at = agg.at
      /\ agg'.todo \subseteq agg.todo /\ agg'.cohorts = agg.cohorts
  BY <1>2, <1>3 DEF AggRun
<1>5. AggRests /\ UNCHANGED <<firstSeen, cohort, built>>
  BY DEF RecomputePeriod, AggRests
<1>6. k \in Keys
  BY <1>1, <1>2, UnderWay
<1>7. PICK n : n = Cardinality(raw \cap PeriodSlots(k[1], k[2], run.zone))
  OBVIOUS
<1>8. n \in 0..Cardinality(ViewSlots)
  BY <1>7, Kept, CountsGrow
<1>9. rollup' = [rollup EXCEPT ![k] = n]
  BY <1>3, <1>7
<1>10. rollup' \in [Keys -> 0..Cardinality(ViewSlots)]
  BY <1>6, <1>8, <1>9, Kept
<1>11. ASSUME zoneMoves = 0, visitor = "consented" PROVE TotalsAreCounts' /\ ReturnsWereSeen'
  <2>1. TotalsAreCounts /\ ReturnsWereSeen
    BY <1>11 DEF RollInv, Counted
  <2>2. run.zone = 0
    BY <1>1, <1>2, <1>11, UnderWay
  <2>3. n <= Cardinality(views \cap PeriodSlots(k[1], k[2], 0))
    BY <1>7, <2>2, Kept, CountsGrow
  <2>4. ASSUME NEW j \in Keys PROVE rollup'[j] <= Cardinality(views \cap PeriodSlots(j[1], j[2], 0))
    <3>1. CASE j = k
      BY <1>6, <1>9, <2>3, <3>1, Kept
    <3>2. CASE j # k
      BY <1>9, <2>1, <3>2, Kept DEF TotalsAreCounts
    <3> QED
      BY <3>1, <3>2
  <2>5. TotalsAreCounts'
    BY <1>5, <2>4 DEF TotalsAreCounts, AggRests
  <2>6. ReturnsWereSeen'
    BY <1>5, <2>1 DEF ReturnsWereSeen, AggRests
  <2> QED
    BY <2>5, <2>6
<1>12. zoneMoves = 0 => RunIsOfToday' /\ RunIsInWindow'
  BY <1>1, <1>4, <1>5, RunGoesOn
<1> QED
  BY <1>4, <1>5, <1>10, <1>11, <1>12, Kept, AggStep

LEMMA RecomputeCohortStep == ASSUME RollInv, RecomputeCohort PROVE RollInv'
<1>1. agg # AggIdle
  BY DEF RecomputeCohort, AggIdle
<1>2. PICK run \in AggRun : run = agg
  BY <1>1, UnderWay
<1>3. PICK d \in run.cohorts :
        \E row : /\ row = IF firstSeen # none /\ DateOf(firstSeen, run.zone) = d
                         THEN [size |-> 1, returned |-> Returns(d)] ELSE NoCohort
                /\ cohort' = [cohort EXCEPT ![d] = row]
                /\ agg' = [run EXCEPT !.cohorts = run.cohorts \ {d}]
  BY <1>2 DEF RecomputeCohort
<1>r. PICK row : /\ row = IF firstSeen # none /\ DateOf(firstSeen, run.zone) = d
                        THEN [size |-> 1, returned |-> Returns(d)] ELSE NoCohort
                /\ cohort' = [cohort EXCEPT ![d] = row]
                /\ agg' = [run EXCEPT !.cohorts = run.cohorts \ {d}]
  BY <1>3
<1>4. /\ agg' \in AggRun /\ agg'.kind = agg.kind /\ agg'.zone = agg.zone /\ agg'.at = agg.at
      /\ agg'.todo = agg.todo /\ agg'.cohorts \subseteq agg.cohorts
  BY <1>2, <1>r DEF AggRun
<1>5. AggRests /\ UNCHANGED <<firstSeen, rollup, built>>
  BY DEF RecomputeCohort, AggRests
<1>6. d \in Dates
  BY <1>1, <1>2, UnderWay
<1>7. PICK returns \in SUBSET CohortDays : returns = Returns(d)
  BY DEF Returns
<1>8. row = [size |-> 1, returned |-> returns] \/ row = NoCohort
  BY <1>r, <1>7
<1>9. row \in CohortRow
  BY <1>8 DEF CohortRow, NoCohort
<1>10. cohort' \in [Dates -> CohortRow]
  BY <1>r, <1>6, <1>9, Kept
<1>11. ASSUME zoneMoves = 0, visitor = "consented" PROVE TotalsAreCounts' /\ ReturnsWereSeen'
  <2>1. TotalsAreCounts /\ ReturnsWereSeen
    BY <1>11 DEF RollInv, Counted
  <2>2. run.zone = 0 /\ run.at = now
    BY <1>1, <1>2, <1>11, UnderWay
  <2>3. ASSUME NEW n \in row.returned
        PROVE  /\ DateOf(now, 0) > d + n /\ \E t \in views : DateOf(t, 0) = d + n
               /\ firstSeen # none /\ DateOf(firstSeen, 0) <= d
    <3>1. row # NoCohort
      BY <2>3 DEF NoCohort
    <3>2. firstSeen # none /\ DateOf(firstSeen, 0) = d
      BY <1>r, <2>2, <3>1
    <3>3. n \in Returns(d)
      BY <1>7, <1>8, <2>3, <3>1
    <3>4. DateOf(now, 0) > d + n /\ \E t \in raw : DateOf(t, 0) = d + n
      BY <1>2, <2>2, <3>3 DEF Returns
    <3> QED
      BY <1>6, <3>2, <3>4, Kept, RollConstants
  <2>4. ASSUME NEW e \in Dates, NEW n \in cohort'[e].returned
        PROVE  /\ DateOf(now, 0) > e + n /\ \E t \in views : DateOf(t, 0) = e + n
               /\ firstSeen # none /\ DateOf(firstSeen, 0) <= e
    <3>1. CASE e = d
      BY <1>r, <1>6, <2>3, <2>4, <3>1, Kept
    <3>2. CASE e # d
      <4>1. cohort'[e] = cohort[e]
        BY <1>r, <3>2, Kept
      <4> QED
        BY <2>1, <2>4, <4>1 DEF ReturnsWereSeen
    <3> QED
      BY <3>1, <3>2
  <2>5. ReturnsWereSeen'
    BY <1>5, <2>4 DEF ReturnsWereSeen, AggRests
  <2>6. TotalsAreCounts'
    BY <1>5, <2>1 DEF TotalsAreCounts, AggRests
  <2> QED
    BY <2>5, <2>6
<1>12. zoneMoves = 0 => RunIsOfToday' /\ RunIsInWindow'
  BY <1>1, <1>4, <1>5, RunGoesOn
<1> QED
  BY <1>4, <1>5, <1>10, <1>11, <1>12, Kept, AggStep

(* Traffic, retention, the clock and the site's zone.                      *)
LEMMA AcceptViewStep == ASSUME RollInv, AcceptView PROVE RollInv'
<1>1. now \in ViewSlots /\ buffered' = buffered \cup {now}
  BY DEF AcceptView
<1>2. UNCHANGED <<now, zone, zoneMoves, raw, views, visitor, firstSeen, rollup, cohort, built, agg, prune>>
  BY DEF AcceptView
<1>3. RollTypes'
  <2>1. buffered' \subseteq ViewSlots /\ buffered' \subseteq Slots
    BY <1>1, Kept, RollConstants
  <2> QED
    BY <1>2, <2>1 DEF RollInv, RollTypes, RollupsTypeOK
<1>4. zoneMoves = 0 => Steady'
  BY <1>2 DEF RollInv, Steady, RunIsOfToday, OldIsPruned, RunIsInWindow, InWindow
<1>5. zoneMoves = 0 /\ visitor = "consented" => Counted'
  BY <1>2 DEF RollInv, Counted, TotalsAreCounts, ReturnsWereSeen
<1> QED
  BY <1>2, <1>3, <1>4, <1>5 DEF RollInv

LEMMA FlushViewsStep == ASSUME RollInv, FlushViews PROVE RollInv'
<1>1. UNCHANGED <<now, zone, zoneMoves, visitor, firstSeen, rollup, cohort, built, agg, prune>> /\ buffered' = {}
  BY DEF FlushViews
<1>2. /\ raw' \subseteq views' /\ views \subseteq views' /\ views' \subseteq ViewSlots
      /\ views' \ raw' \subseteq views \ raw
  BY Kept DEF FlushViews
<1>3. RollTypes'
  <2>1. views' \subseteq Slots /\ buffered' \subseteq Slots
    BY <1>1, <1>2, RollConstants
  <2> QED
    BY <1>1, <1>2, <2>1 DEF RollInv, RollTypes, RollupsTypeOK
<1>4. ASSUME zoneMoves = 0 PROVE Steady'
  <2>1. zone = 0 /\ RunIsOfToday /\ OldIsPruned /\ RunIsInWindow
    BY <1>4 DEF RollInv, Steady
  <2>2. RunIsOfToday' /\ RunIsInWindow'
    BY <1>1, <2>1 DEF RunIsOfToday, RunIsInWindow, InWindow
  <2>3. OldIsPruned'
    BY <1>1, <1>2, <2>1 DEF OldIsPruned
  <2> QED
    BY <1>1, <2>1, <2>2, <2>3 DEF Steady
<1>5. ASSUME zoneMoves = 0, visitor = "consented" PROVE Counted'
  <2>1. TotalsAreCounts /\ ReturnsWereSeen
    BY <1>5 DEF RollInv, Counted
  <2>4. ASSUME NEW k \in Keys PROVE rollup'[k] <= Cardinality(views' \cap PeriodSlots(k[1], k[2], 0))
    <3>1. /\ Cardinality(views \cap PeriodSlots(k[1], k[2], 0)) \in Nat
          /\ Cardinality(views' \cap PeriodSlots(k[1], k[2], 0)) \in Nat
          /\ Cardinality(views \cap PeriodSlots(k[1], k[2], 0)) <= Cardinality(views' \cap PeriodSlots(k[1], k[2], 0))
      BY <1>2, CountsGrow
    <3>2. rollup'[k] = rollup[k] /\ rollup[k] \in Nat
      BY <1>1, Kept
    <3> QED
      BY <2>1, <3>1, <3>2 DEF TotalsAreCounts
  <2>5. TotalsAreCounts'
    BY <2>4 DEF TotalsAreCounts
  <2>6. ReturnsWereSeen'
    BY <1>1, <1>2, <2>1 DEF ReturnsWereSeen
  <2> QED
    BY <2>5, <2>6 DEF Counted
<1> QED
  BY <1>1, <1>3, <1>4, <1>5 DEF RollInv

(* A withdrawal: nothing stored is left, and nothing is promised of the    *)
(* totals any more.                                                        *)
LEMMA TakeBackStep == ASSUME RollInv, TakeBack PROVE RollInv'
<1>1. /\ UNCHANGED <<now, zone, zoneMoves, buffered, rollup, cohort, built, agg, prune>>
      /\ raw' = {} /\ views' = {} /\ firstSeen' = none /\ visitor' \in {"withdrew", "erased"}
  BY DEF TakeBack
<1>2. RollTypes'
  BY <1>1, RollConstants DEF RollInv, RollTypes, RollupsTypeOK, none
<1>3. zoneMoves = 0 => Steady'
  BY <1>1 DEF RollInv, Steady, RunIsOfToday, OldIsPruned, RunIsInWindow, InWindow
<1> QED
  BY <1>1, <1>2, <1>3 DEF RollInv

LEMMA StartRetentionStep == ASSUME RollInv, StartRetention PROVE RollInv'
<1>1. UNCHANGED <<now, zone, zoneMoves, buffered, raw, views, visitor, firstSeen, rollup, cohort, built, agg>>
  BY DEF StartRetention
<1>2. PICK today \in Dates : today = Today /\ today \in Nat
  BY Kept, DateFacts DEF Today
<1>3. prune' = RawRetentionCutoff(today)
  BY <1>2 DEF StartRetention
<1>4. prune' \in Dates
  <2>1. PICK m \in Nat : m = (MaxSlot + 1) \div 2
    BY RollConstants
  <2>2. today \in 0..m
    BY <1>2, <2>1 DEF Dates
  <2>3. prune' \in 0..today
    BY <1>2, <1>3, CutoffFacts
  <2> QED
    BY <2>1, <2>2, <2>3 DEF Dates
<1>5. RollTypes'
  BY <1>1, <1>4 DEF RollInv, RollTypes, RollupsTypeOK
<1>6. ASSUME zoneMoves = 0 PROVE Steady'
  <2>1. zone = 0 /\ RunIsOfToday /\ OldIsPruned /\ RunIsInWindow
    BY <1>6 DEF RollInv, Steady
  <2>2. prune' = RawRetentionCutoff(DateOf(now, 0))
    BY <1>2, <1>3, <2>1 DEF Today
  <2>3. OldIsPruned'
    BY <1>1, <2>1, <2>2 DEF OldIsPruned
  <2>4. RunIsOfToday' /\ RunIsInWindow'
    BY <1>1, <2>1 DEF RunIsOfToday, RunIsInWindow, InWindow
  <2> QED
    BY <1>1, <2>1, <2>3, <2>4 DEF Steady
<1>7. zoneMoves = 0 /\ visitor = "consented" => Counted'
  BY <1>1 DEF RollInv, Counted, TotalsAreCounts, ReturnsWereSeen
<1> QED
  BY <1>1, <1>5, <1>6, <1>7 DEF RollInv

LEMMA PruneRawStep == ASSUME RollInv, PruneRaw PROVE RollInv'
<1>1. UNCHANGED <<now, zone, zoneMoves, buffered, views, visitor, firstSeen, rollup, cohort, built, agg, prune>> /\ prune # none
  BY DEF PruneRaw
<1>2. PICK batch \in SUBSET Prunable : raw' = raw \ batch
  BY DEF PruneRaw
<1>3. RollTypes'
  BY <1>1, <1>2 DEF RollInv, RollTypes, RollupsTypeOK
<1>4. ASSUME zoneMoves = 0 PROVE Steady'
  <2>1. zone = 0 /\ RunIsOfToday /\ OldIsPruned /\ RunIsInWindow
    BY <1>4 DEF RollInv, Steady
  <2>2. \A t \in batch : DateOf(t, 0) < RawRetentionCutoff(DateOf(now, 0))
    BY <1>1, <1>2, <2>1 DEF OldIsPruned, Prunable
  <2>3. OldIsPruned'
    BY <1>1, <1>2, <2>1, <2>2 DEF OldIsPruned
  <2>4. RunIsOfToday' /\ RunIsInWindow'
    BY <1>1, <2>1 DEF RunIsOfToday, RunIsInWindow, InWindow
  <2> QED
    BY <1>1, <2>1, <2>3, <2>4 DEF Steady
<1>5. zoneMoves = 0 /\ visitor = "consented" => Counted'
  BY <1>1 DEF RollInv, Counted, TotalsAreCounts, ReturnsWereSeen
<1> QED
  BY <1>1, <1>3, <1>4, <1>5 DEF RollInv

LEMMA EndRetentionStep == ASSUME RollInv, EndRetention PROVE RollInv'
<1>1. UNCHANGED <<now, zone, zoneMoves, buffered, raw, views, visitor, firstSeen, cohort, built, agg>> /\ prune' = none
  BY DEF EndRetention
<1>2. rollup' \in [Keys -> 0..Cardinality(ViewSlots)] /\ \A k \in Keys : rollup'[k] = 0 \/ rollup'[k] = rollup[k]
  <2>1. CASE Prunable = {} /\ DayRollupMonths > 0
    <3>1. rollup' = [k \in Keys |-> IF k[1] = "day" /\ k[2] < Today - DayRollupMonths * DaysPerMonth THEN 0 ELSE rollup[k]]
      BY <2>1 DEF EndRetention
    <3>2. 0 \in 0..Cardinality(ViewSlots)
      BY Kept
    <3> QED
      BY <3>1, <3>2, Kept
  <2>2. CASE ~(Prunable = {} /\ DayRollupMonths > 0)
    <3>1. rollup' = rollup
      BY <2>2 DEF EndRetention
    <3> QED
      BY <3>1, Kept
  <2> QED
    BY <2>1, <2>2
<1>3. RollTypes'
  BY <1>1, <1>2 DEF RollInv, RollTypes, RollupsTypeOK
<1>4. zoneMoves = 0 => Steady'
  BY <1>1 DEF RollInv, Steady, OldIsPruned, RunIsOfToday, RunIsInWindow, InWindow
<1>5. ASSUME zoneMoves = 0, visitor = "consented" PROVE Counted'
  <2>1. TotalsAreCounts /\ ReturnsWereSeen
    BY <1>5 DEF RollInv, Counted
  <2>3. ASSUME NEW k \in Keys PROVE rollup'[k] <= Cardinality(views \cap PeriodSlots(k[1], k[2], 0))
    <3>1. Cardinality(views \cap PeriodSlots(k[1], k[2], 0)) \in Nat
      BY Kept, CountsGrow
    <3> QED
      BY <1>2, <2>1, <3>1 DEF TotalsAreCounts
  <2>4. TotalsAreCounts'
    BY <1>1, <2>3 DEF TotalsAreCounts
  <2>5. ReturnsWereSeen'
    BY <1>1, <2>1 DEF ReturnsWereSeen
  <2> QED
    BY <2>4, <2>5 DEF Counted
<1> QED
  BY <1>1, <1>3, <1>4, <1>5 DEF RollInv

LEMMA RollupClockStep == ASSUME RollInv, RollupClock PROVE RollInv'
<1>1. UNCHANGED <<zone, zoneMoves, buffered, raw, views, visitor, firstSeen, rollup, cohort, built, agg, prune>>
  BY DEF RollupClock
<1>2. agg = AggIdle /\ prune = none /\ now < MaxSlot /\ now' = now + 1
  BY DEF RollupClock
<1>3. now \in Nat /\ now' \in Slots
  BY <1>2, Kept, RollConstants DEF Slots
<1>4. RollTypes'
  BY <1>1, <1>3 DEF RollInv, RollTypes, RollupsTypeOK
<1>5. PICK d \in Nat, e \in Nat : d = DateOf(now, 0) /\ e = DateOf(now', 0) /\ d <= e
  <2>1. DateOf(now, 0) \in Nat /\ DateOf(now', 0) \in Nat
    BY <1>3, Kept, DateFacts
  <2>2. DateOf(now, 0) <= DateOf(now', 0)
    BY <1>2, <1>3, DatesGrow
  <2> QED
    BY <2>1, <2>2
<1>6. PICK b \in Nat, c \in Nat : b = RawRetentionCutoff(d) /\ c = RawRetentionCutoff(e) /\ b <= c
  BY <1>5, CutoffFacts, CutoffGrows
<1>7. ASSUME zoneMoves = 0 PROVE Steady'
  <2>1. zone = 0 /\ OldIsPruned
    BY <1>7 DEF RollInv, Steady
  <2>2. ASSUME NEW t \in views \ raw PROVE DateOf(t, 0) < c
    <3>1. DateOf(t, 0) \in Nat
      BY <2>2, Kept, DateFacts
    <3>2. DateOf(t, 0) < b
      BY <1>5, <1>6, <2>1, <2>2 DEF OldIsPruned
    <3> QED
      BY <1>6, <3>1, <3>2
  <2>3. OldIsPruned'
    BY <1>1, <1>2, <1>5, <1>6, <2>2 DEF OldIsPruned
  <2>4. RunIsOfToday' /\ RunIsInWindow'
    BY <1>1, <1>2 DEF RunIsOfToday, RunIsInWindow
  <2> QED
    BY <1>1, <2>1, <2>3, <2>4 DEF Steady
<1>8. ASSUME zoneMoves = 0, visitor = "consented" PROVE Counted'
  <2>1. TotalsAreCounts /\ ReturnsWereSeen
    BY <1>8 DEF RollInv, Counted
  <2>4. TotalsAreCounts'
    BY <1>1, <2>1 DEF TotalsAreCounts
  <2>5. ASSUME NEW x \in Dates, NEW n \in cohort[x].returned PROVE e > x + n
    <3>1. d > x + n
      BY <1>5, <2>1, <2>5 DEF ReturnsWereSeen
    <3>2. n \in Nat /\ x \in Nat
      <4>1. cohort[x] \in CohortRow
        BY Kept
      <4>2. n \in CohortDays
        BY <2>5, <4>1 DEF CohortRow
      <4>3. CohortDays \subseteq 1..CohortLookback /\ CohortLookback \in Nat /\ Dates \subseteq Nat
        BY RollConstants
      <4> QED
        BY <4>2, <4>3
    <3> QED
      BY <1>5, <3>1, <3>2
  <2>6. ReturnsWereSeen'
    BY <1>1, <1>5, <2>1, <2>5 DEF ReturnsWereSeen
  <2> QED
    BY <2>4, <2>6 DEF Counted
<1> QED
  BY <1>1, <1>4, <1>7, <1>8 DEF RollInv

LEMMA ChangeZoneStep == ASSUME RollInv, ChangeZone PROVE RollInv'
<1>1. UNCHANGED <<now, buffered, raw, views, visitor, firstSeen, rollup, cohort, built, agg, prune>>
  BY DEF ChangeZone
<1>2. zone' = 1 - zone /\ zoneMoves' = zoneMoves + 1 /\ zoneMoves < MaxZoneChanges
  BY DEF ChangeZone
<1>3. zone \in 0..1 /\ zoneMoves \in 0..MaxZoneChanges
  BY DEF RollInv, RollTypes, RollupsTypeOK
<1>4. zone' \in 0..1 /\ zoneMoves' \in 0..MaxZoneChanges /\ zoneMoves' # 0
  BY <1>2, <1>3, RollConstants
<1>5. RollTypes'
  BY <1>1, <1>4 DEF RollInv, RollTypes, RollupsTypeOK
<1> QED
  BY <1>4, <1>5 DEF RollInv

LEMMA RollInitially == RollupsInit => RollInv
<1> SUFFICES ASSUME RollupsInit PROVE RollInv
  OBVIOUS
<1>1. /\ now = 0 /\ zone = 0 /\ zoneMoves = 0 /\ buffered = {} /\ raw = {} /\ views = {} /\ visitor = "consented" /\ firstSeen = none
      /\ rollup = [k \in Keys |-> 0] /\ cohort = [d \in Dates |-> NoCohort]
      /\ built = none /\ agg = AggIdle /\ prune = none
  BY DEF RollupsInit
<1>2. Cardinality(ViewSlots) \in Nat
  BY CountsGrow
<1>3. NoCohort \in CohortRow /\ NoCohort.returned = {}
  BY DEF NoCohort, CohortRow
<1>4. RollTypes
  <2>1. 0 \in Slots /\ 0 \in 0..1 /\ 0 \in 0..MaxZoneChanges /\ -1 \in -1..MaxSlot /\ -1 \in -1..1
    BY RollConstants
  <2>2. rollup \in [Keys -> 0..Cardinality(ViewSlots)] /\ cohort \in [Dates -> CohortRow]
    BY <1>1, <1>2, <1>3
  <2> QED
    BY <1>1, <2>1, <2>2 DEF RollTypes, RollupsTypeOK, none
<1>5. RunIsOfToday /\ OldIsPruned /\ RunIsInWindow
  BY <1>1 DEF RunIsOfToday, OldIsPruned, RunIsInWindow
<1>6. TotalsAreCounts
  <2>1. ASSUME NEW k \in Keys PROVE rollup[k] <= Cardinality(views \cap PeriodSlots(k[1], k[2], 0))
    <3>1. Cardinality(views \cap PeriodSlots(k[1], k[2], 0)) \in Nat
      BY <1>1, CountsGrow
    <3> QED
      BY <1>1, <3>1
  <2> QED
    BY <2>1 DEF TotalsAreCounts
<1>7. ReturnsWereSeen
  BY <1>1, <1>3 DEF ReturnsWereSeen
<1> QED
  BY <1>1, <1>4, <1>5, <1>6, <1>7 DEF RollInv, Steady, Counted

LEMMA RollStep == RollInv /\ [RollupsNext]_rollupVars => RollInv'
<1> SUFFICES ASSUME RollInv, [RollupsNext]_rollupVars PROVE RollInv'
  OBVIOUS
<1>1. CASE AcceptView \/ FlushViews \/ TakeBack \/ RollupClock \/ ChangeZone
  BY <1>1, AcceptViewStep, FlushViewsStep, TakeBackStep, RollupClockStep, ChangeZoneStep
<1>2. CASE StartRun \/ StartRebuild \/ StartBackfill
  BY <1>2, StartRunStep, StartRebuildStep, StartBackfillStep
<1>3. CASE DeleteFrom \/ RefreshFirstSeen \/ RecomputePeriod \/ RecomputeCohort
  BY <1>3, DeleteFromStep, RefreshFirstSeenStep, RecomputePeriodStep, RecomputeCohortStep
<1>4. CASE EndRecompute \/ SetTimezone \/ AggregatorFails
  BY <1>4, EndsStep
<1>5. CASE StartRetention \/ PruneRaw \/ EndRetention
  BY <1>5, StartRetentionStep, PruneRawStep, EndRetentionStep
<1>6. CASE UNCHANGED rollupVars
  BY <1>6 DEF rollupVars, RollInv, RollTypes, RollupsTypeOK, Steady, Counted, RunIsOfToday, OldIsPruned,
              TotalsAreCounts, ReturnsWereSeen, RunIsInWindow, InWindow
<1> QED
  BY <1>1, <1>2, <1>3, <1>4, <1>5, <1>6 DEF RollupsNext

(* A scheduled run while the zone stays: what a step writes is whole, and  *)
(* as long as nothing is taken back it keeps what the rollups had.         *)
IsWhole ==
  ScheduledWork => /\ \A k \in Keys : rollup'[k] \in {rollup[k], StoredViews(k)}
                   /\ \A d \in Dates : cohort'[d] = cohort[d] \/ cohort'[d].returned = EndedReturns(d)

KeepsTotals ==
  ScheduledWork /\ visitor = "consented"
    => /\ \A k \in Keys : rollup'[k] >= rollup[k]
       /\ \A d \in Dates : \/ cohort[d].returned \subseteq cohort'[d].returned
                           \/ firstSeen # none /\ DateOf(firstSeen, zone) < d

LEMMA PeriodIsWhole ==
  ASSUME RollInv, zoneMoves = 0, agg # AggIdle, agg.kind = "run", NEW k \in agg.todo
  PROVE  raw \cap PeriodSlots(k[1], k[2], 0) = views \cap PeriodSlots(k[1], k[2], 0)
<1>1. OldIsPruned /\ InWindow(agg)
  BY DEF RollInv, Steady, RunIsInWindow
<1>2. PICK today \in Nat : today = DateOf(now, 0)
  BY Kept, DateFacts
<1>3. k[2] \in PeriodsBetween(k[1], Later(today - 1, 0), today)
  BY <1>1, <1>2 DEF InWindow
<1>4. PICK d \in Later(today - 1, 0)..today : k[2] = Period(k[1], d)
  BY <1>3 DEF PeriodsBetween
<1>5. k[1] \in Grains
  <2>1. k \in Keys
    BY UnderWay
  <2> QED
    BY <2>1 DEF Keys
<1>6. ASSUME NEW t \in views \ raw, t \in PeriodSlots(k[1], k[2], 0) PROVE FALSE
  <2>1. Period(k[1], DateOf(t, 0)) = k[2]
    BY <1>6 DEF PeriodSlots
  <2>2. DateOf(t, 0) \in Nat
    BY <1>6, Kept, DateFacts
  <2>3. DateOf(t, 0) < RawRetentionCutoff(today)
    BY <1>1, <1>2, <1>6 DEF OldIsPruned
  <2> QED
    BY <1>2, <1>4, <1>5, <2>1, <2>2, <2>3, WindowIsKept
<1>7. raw \subseteq views
  BY Kept
<1> QED
  BY <1>6, <1>7

(* A return counted within the look-back: retention has left its views.    *)
LEMMA ReturnsAreWhole ==
  ASSUME RollInv, zoneMoves = 0, agg # AggIdle, agg.kind = "run", NEW d \in agg.cohorts, NEW n \in CohortDays
  PROVE  n \in Returns(d) <=> Today > d + n /\ \E t \in views : DateOf(t, zone) = d + n
<1>1. OldIsPruned /\ InWindow(agg) /\ agg.zone = 0 /\ agg.at = now /\ zone = 0
  BY UnderWay DEF RollInv, Steady, RunIsInWindow
<1>2. PICK today \in Nat : today = DateOf(now, 0) /\ today = Today
  BY <1>1, Kept, DateFacts DEF Today
<1>3. d \in Dates /\ d \in Nat /\ d >= today - 1 - CohortLookback
  BY <1>1, <1>2, UnderWay, RollConstants DEF InWindow
<1>4. n \in Nat /\ n >= 1 /\ CohortLookback \in Nat /\ FloorDays \in Nat /\ FloorDays > CohortLookback
  <2>1. CohortDays \subseteq 1..CohortLookback /\ CohortLookback \in Nat /\ FloorDays \in Nat /\ FloorDays > CohortLookback
    BY RollConstants
  <2> QED
    BY <2>1
<1>5. ASSUME NEW t \in views, DateOf(t, 0) = d + n PROVE t \in raw
  <2> SUFFICES ASSUME t \notin raw PROVE FALSE
    OBVIOUS
  <2>1. d + n < RawRetentionCutoff(today)
    BY <1>1, <1>2, <1>5 DEF OldIsPruned
  <2>2. PICK c \in Nat : c = RawRetentionCutoff(today) /\ (c > 0 => c <= today - FloorDays)
    BY CutoffFacts
  <2> QED
    BY <1>3, <1>4, <2>1, <2>2
<1>6. n \in Returns(d) <=> today > d + n /\ \E t \in raw : DateOf(t, 0) = d + n
  BY <1>1, <1>2 DEF Returns
<1>7. raw \subseteq views
  BY Kept
<1> QED
  BY <1>1, <1>2, <1>5, <1>6, <1>7

(* The work of a scheduled run: a period, a cohort, or its end.            *)
LEMMA RunWorks ==
  ASSUME RollInv, RollupsNext, agg' # agg, ScheduledWork
  PROVE  \/ /\ cohort' = cohort
            /\ \E k \in Keys : rollup' = [rollup EXCEPT ![k] = StoredViews(k)]
         \/ /\ rollup' = rollup
            /\ \E d \in Dates : \E row \in CohortRow :
                 cohort' = [cohort EXCEPT ![d] = row] /\ row.returned = EndedReturns(d)
         \/ rollup' = rollup /\ cohort' = cohort
<1>1. agg # AggIdle /\ agg.kind = "run" /\ zoneMoves = 0
  BY DEF AggIdle, ScheduledWork
<1>2. PICK run \in AggRun : run = agg /\ run.zone = 0
  BY <1>1, UnderWay
<1>3. zone = 0
  BY <1>1 DEF RollInv, Steady
<1>5. CASE RecomputePeriod
  <2>1. PICK k \in run.todo : rollup' = [rollup EXCEPT ![k] = Cardinality(raw \cap PeriodSlots(k[1], k[2], 0))]
    BY <1>2, <1>5 DEF RecomputePeriod
  <2>2. k \in Keys
    BY <1>1, <1>2, UnderWay
  <2>3. raw \cap PeriodSlots(k[1], k[2], 0) = views \cap PeriodSlots(k[1], k[2], 0)
    BY <1>1, <1>2, PeriodIsWhole
  <2>4. rollup' = [rollup EXCEPT ![k] = StoredViews(k)]
    BY <1>3, <2>1, <2>3 DEF StoredViews
  <2>5. cohort' = cohort
    BY <1>5 DEF RecomputePeriod
  <2> QED
    BY <2>2, <2>4, <2>5
<1>6. CASE RecomputeCohort
  <2>1. PICK d \in run.cohorts :
          cohort' = [cohort EXCEPT ![d] = IF firstSeen # none /\ DateOf(firstSeen, 0) = d
                                          THEN [size |-> 1, returned |-> Returns(d)] ELSE NoCohort]
    BY <1>2, <1>6 DEF RecomputeCohort
  <2>2. d \in Dates
    BY <1>1, <1>2, UnderWay
  <2>3. PICK returns \in SUBSET CohortDays : returns = Returns(d)
    BY DEF Returns
  <2>4. returns = {n \in CohortDays : Today > d + n /\ \E t \in views : DateOf(t, zone) = d + n}
    BY <1>1, <1>2, <2>3, ReturnsAreWhole
  <2>5. PICK row : row = IF firstSeen # none /\ DateOf(firstSeen, 0) = d
                         THEN [size |-> 1, returned |-> returns] ELSE NoCohort
    OBVIOUS
  <2>6. row \in CohortRow
    BY <2>5 DEF CohortRow, NoCohort
  <2>7. row.returned = EndedReturns(d)
    BY <1>3, <2>4, <2>5 DEF EndedReturns, NoCohort
  <2>8. cohort' = [cohort EXCEPT ![d] = row]
    BY <2>1, <2>3, <2>5
  <2>9. rollup' = rollup
    BY <1>6 DEF RecomputeCohort
  <2> QED
    BY <2>2, <2>6, <2>7, <2>8, <2>9
<1>7. CASE ~RecomputePeriod /\ ~RecomputeCohort
  <2>1. EndRecompute \/ SetTimezone \/ AggregatorFails
    BY <1>1, <1>7 DEF RollupsNext, StartRun, StartRebuild, StartBackfill, DeleteFrom, RefreshFirstSeen, AcceptView,
                      FlushViews, TakeBack, StartRetention, PruneRaw, EndRetention, RollupClock, ChangeZone, ScheduledWork
  <2> QED
    BY <2>1 DEF EndRecompute, SetTimezone, AggregatorFails
<1> QED
  BY <1>5, <1>6, <1>7

LEMMA RunIsWhole == RollInv /\ [RollupsNext]_rollupVars => [IsWhole]_agg
<1> SUFFICES ASSUME RollInv, RollupsNext, agg' # agg, ScheduledWork
             PROVE  /\ \A k \in Keys : rollup'[k] \in {rollup[k], StoredViews(k)}
                    /\ \A d \in Dates : cohort'[d] = cohort[d] \/ cohort'[d].returned = EndedReturns(d)
  BY DEF IsWhole, rollupVars
<1>1. rollup \in [Keys -> 0..Cardinality(ViewSlots)] /\ cohort \in [Dates -> CohortRow]
  BY Kept
<1>2. ASSUME NEW k \in Keys, rollup' = [rollup EXCEPT ![k] = StoredViews(k)], NEW j \in Keys
      PROVE  rollup'[j] \in {rollup[j], StoredViews(j)}
  <2>1. CASE j = k
    BY <1>1, <1>2, <2>1
  <2>2. CASE j # k
    BY <1>1, <1>2, <2>2
  <2> QED
    BY <2>1, <2>2
<1>3. ASSUME NEW d \in Dates, NEW row \in CohortRow, cohort' = [cohort EXCEPT ![d] = row],
             row.returned = EndedReturns(d), NEW e \in Dates
      PROVE  cohort'[e] = cohort[e] \/ cohort'[e].returned = EndedReturns(e)
  <2>1. CASE e = d
    BY <1>1, <1>3, <2>1
  <2>2. CASE e # d
    BY <1>1, <1>3, <2>2
  <2> QED
    BY <2>1, <2>2
<1> QED
  BY <1>2, <1>3, RunWorks

LEMMA RunKeepsTotals == RollInv /\ [RollupsNext]_rollupVars => [KeepsTotals]_agg
<1> SUFFICES ASSUME RollInv, RollupsNext, agg' # agg, ScheduledWork, visitor = "consented"
             PROVE  /\ \A k \in Keys : rollup'[k] >= rollup[k]
                    /\ \A d \in Dates : \/ cohort[d].returned \subseteq cohort'[d].returned
                                        \/ firstSeen # none /\ DateOf(firstSeen, zone) < d
  BY DEF KeepsTotals, rollupVars
<1>1. zone = 0 /\ TotalsAreCounts /\ ReturnsWereSeen
  BY DEF RollInv, Steady, Counted, ScheduledWork
<1>2. rollup \in [Keys -> 0..Cardinality(ViewSlots)] /\ cohort \in [Dates -> CohortRow] /\ \A k \in Keys : rollup[k] \in Nat
  BY Kept
<1>3. IsWhole
  BY RunIsWhole
<1>4. ASSUME NEW k \in Keys PROVE rollup'[k] >= rollup[k]
  <2>1. StoredViews(k) \in Nat
    BY <1>1, Kept, CountsGrow DEF StoredViews
  <2>2. rollup[k] <= StoredViews(k)
    BY <1>1 DEF TotalsAreCounts, StoredViews
  <2>3. rollup'[k] = rollup[k] \/ rollup'[k] = StoredViews(k)
    BY <1>3 DEF IsWhole
  <2> QED
    BY <1>2, <2>1, <2>2, <2>3
<1>5. ASSUME NEW d \in Dates, ~(cohort[d].returned \subseteq cohort'[d].returned)
      PROVE  firstSeen # none /\ DateOf(firstSeen, zone) < d
  <2>1. cohort'[d].returned = EndedReturns(d)
    BY <1>3, <1>5 DEF IsWhole
  <2>2. firstSeen # none /\ DateOf(firstSeen, 0) <= d
    BY <1>1, <1>5 DEF ReturnsWereSeen
  <2>3. DateOf(firstSeen, 0) # d
    <3> SUFFICES ASSUME DateOf(firstSeen, 0) = d PROVE FALSE
      OBVIOUS
    <3>1. cohort[d] \in CohortRow
      BY <1>2
    <3>2. cohort[d].returned \subseteq CohortDays
      BY <3>1 DEF CohortRow
    <3>3. cohort[d].returned \subseteq EndedReturns(d)
      BY <1>1, <2>2, <3>2 DEF ReturnsWereSeen, EndedReturns, Today
    <3> QED
      BY <1>5, <2>1, <3>3
  <2>4. DateOf(firstSeen, 0) \in Int /\ d \in Nat
    <3>1. firstSeen \in Int
      BY Kept, RollConstants
    <3> QED
      BY <3>1, DatesGrow, RollConstants
  <2> QED
    BY <1>1, <2>2, <2>3, <2>4
<1> QED
  BY <1>4, <1>5

(* RollupsCorrect: the analytics tables keep their types, and although     *)
(* retention and withdrawals delete raw events while the aggregator counts *)
(* them, what a scheduled run writes counts every view stored and not      *)
(* taken back, and replaces no total by a smaller one until a visitor      *)
(* takes its views back, as long as the site keeps its zone                *)
(* (Aggregator.Run, recompute, Retention.Run, DeleteSubjectEvents).        *)
THEOREM RunsKeepTotals == RollupsSpec => RollupsCorrect
<1>1. RollInv => RollupsTypeOK
  BY DEF RollInv, RollTypes
<1>2. RollupsSpec => []RollInv
  BY RollInitially, RollStep, PTL DEF RollupsSpec
<1>3. RollupsSpec => [][IsWhole]_agg
  BY <1>2, RunIsWhole, PTL DEF RollupsSpec
<1>4. RollupsSpec => [][KeepsTotals]_agg
  BY <1>2, RunKeepsTotals, PTL DEF RollupsSpec
<1> QED
  BY <1>1, <1>2, <1>3, <1>4, PTL
     DEF RollupsCorrect, ScheduledRunIsWhole, ScheduledRunKeepsTotals, IsWhole, KeepsTotals

(* The category tree.  The walk of rebuildBounds keeps to intervals: a     *)
(* category met later lies inside one the walk has not left, or after one  *)
(* it has left.  Categories that are open have different depths, and the   *)
(* one the walk is at is the deepest.                                      *)

ParentsIn(rows) == \A i \in Cats : rows[i].in /\ rows[i].parent # NoCat => rows[rows[i].parent].in
AbsentIsBlank(rows) == \A i \in Cats : ~rows[i].in => rows[i] = NoCatRow
Tidy(rows) == rows \in [Cats -> CatRow] /\ ParentsIn(rows) /\ AbsentIsBlank(rows)

Walks == [next : Nat \ {0}, at : 0..MaxCats, out : [Cats -> CatRow]]
Left(w) == {i \in Walked(w) : w.out[i].rgt # 0}
Opened(w) == {i \in Walked(w) : w.out[i].rgt = 0}

WalksRows(w, rows) ==
  /\ AbsentIsBlank(w.out)
  /\ \A i \in Walked(w) : rows[i].in /\ w.out[i].parent = rows[i].parent
  /\ \A i \in Left(w) : Siblings(rows, i) \subseteq Walked(w)

PathIsOpen(w) ==
  /\ w.at # NoCat => w.at \in Opened(w)
  /\ \A i \in Opened(w) : w.at # NoCat /\ w.out[i].depth <= w.out[w.at].depth
  /\ \A i, j \in Opened(w) : i # j => w.out[i].depth # w.out[j].depth

Numbered(w) ==
  /\ \A i \in Walked(w) : 1 <= w.out[i].lft /\ w.out[i].lft < w.next
  /\ \A i \in Left(w) : w.out[i].lft < w.out[i].rgt /\ w.out[i].rgt < w.next
  /\ Cardinality(Walked(w)) + Cardinality(Left(w)) = w.next - 1

BelowParent(o, i, p) ==
  /\ o[p].in /\ o[p].lft < o[i].lft /\ o[i].depth = o[p].depth + 1
  /\ o[p].rgt # 0 => o[i].rgt # 0 /\ o[i].rgt < o[p].rgt

ChildrenInside(w) ==
  \A i \in Walked(w) : /\ w.out[i].parent = NoCat => w.out[i].depth = 0
                       /\ w.out[i].parent # NoCat => BelowParent(w.out, i, w.out[i].parent)

Inside(o, i, j) ==
  /\ o[j].depth < o[i].depth
  /\ o[i].depth = o[j].depth + 1 => o[i].parent = j
  /\ o[j].rgt = 0 \/ (o[i].rgt # 0 /\ o[i].rgt < o[j].rgt)

Laminar(w) ==
  \A i, j \in Walked(w) : i # j =>
    /\ w.out[i].lft # w.out[j].lft
    /\ w.out[j].lft < w.out[i].lft =>
         (w.out[j].rgt # 0 /\ w.out[j].rgt < w.out[i].lft) \/ Inside(w.out, i, j)

SortsFollow(w) ==
  /\ \A i \in Walked(w) : w.out[i].sort < Cardinality(Siblings(w.out, w.out[i].parent))
  /\ \A i, j \in Walked(w) : i # j /\ w.out[i].parent = w.out[j].parent /\ w.out[j].lft < w.out[i].lft
                               => w.out[j].sort < w.out[i].sort

WalkInv(w, rows) ==
  /\ w \in Walks /\ WalksRows(w, rows) /\ PathIsOpen(w) /\ Numbered(w)
  /\ ChildrenInside(w) /\ Laminar(w) /\ SortsFollow(w)

LEMMA CatBounds ==
  /\ MaxCats \in Nat /\ MaxCatOps \in Nat
  /\ IsFiniteSet(Cats) /\ Cardinality(Cats) = MaxCats /\ NoCat \notin Cats
<1>1. MaxCats \in Nat /\ MaxCatOps \in Nat
  BY CategoriesAssumption
<1>2. IsFiniteSet(1..MaxCats) /\ Cardinality(1..MaxCats) = IF 1 > MaxCats THEN 0 ELSE MaxCats - 1 + 1
  BY <1>1, FS_Interval
<1> QED
  BY <1>1, <1>2 DEF Cats, NoCat

(* Sets of categories are finite.                                          *)
LEMMA CatsFinite ==
  ASSUME NEW S \in SUBSET Cats
  PROVE  IsFiniteSet(S) /\ Cardinality(S) \in Nat /\ Cardinality(S) <= MaxCats /\ (Cardinality(S) = MaxCats => S = Cats)
  BY CatBounds, FS_Subset, FS_CardinalityType

(* A set of categories has a first one in the order of siblings.           *)
LEMMA SmallestIn ==
  ASSUME NEW S \in SUBSET Nat, S # {}
  PROVE  \E m \in S : \A x \in S : m <= x
<1>1. PICK m \in S : \A y \in S : ~ (<<y, m>> \in OpToRel(<, Nat))
  BY NatLessThanWellFounded, WFMin
<1>2. \A y \in S : ~(y < m)
  BY <1>1 DEF OpToRel
<1> QED
  BY <1>2

LEMMA FirstSibling ==
  ASSUME NEW rows \in [Cats -> CatRow], NEW S \in SUBSET Cats, S # {}
  PROVE  \E i \in S : \A j \in S \ {i} : Before(rows, i, j)
<1> DEFINE Sorts == {rows[i].sort : i \in S}
<1>0. \A i \in Cats : rows[i].sort \in Nat /\ i \in Nat
  BY CatBounds DEF CatRow, Cats
<1>1. Sorts \in SUBSET Nat /\ Sorts # {}
  BY <1>0
<1>2. PICK m \in Sorts : \A x \in Sorts : m <= x
  BY <1>1, SmallestIn
<1> DEFINE Least == {i \in S : rows[i].sort = m}
<1>3. Least \in SUBSET Nat /\ Least # {}
  BY <1>0
<1>4. PICK i \in Least : \A x \in Least : i <= x
  BY <1>3, SmallestIn
<1>5. ASSUME NEW j \in S \ {i} PROVE Before(rows, i, j)
  <2>1. CASE rows[j].sort = m
    BY <2>1, <1>4, <1>0 DEF Before
  <2>2. CASE rows[j].sort # m
    <3>1. rows[j].sort \in Sorts /\ rows[j].sort \in Nat /\ m \in Nat /\ rows[i].sort = m
      BY <1>0, <1>1, <1>4
    <3>2. m < rows[j].sort
      BY <2>2, <3>1, <1>2
    <3> QED
      BY <3>1, <3>2 DEF Before
  <2> QED
    BY <2>1, <2>2
<1> QED
  BY <1>4, <1>5

(* What entering a category does, field by field.                          *)
Entered(w, v, i) ==
  /\ v \in Walks /\ v.next = w.next + 1 /\ v.at = i
  /\ \A j \in Cats \ {i} : v.out[j] = w.out[j]
  /\ v.out[i].in /\ v.out[i].parent = w.at /\ v.out[i].lft = w.next /\ v.out[i].rgt = 0
  /\ v.out[i].depth = IF w.at = NoCat THEN 0 ELSE w.out[w.at].depth + 1
  /\ v.out[i].sort = Cardinality(Siblings(w.out, w.at))

LEMMA EnterEnters ==
  ASSUME NEW w \in Walks, NEW rows, NEW i \in Cats
  PROVE  Entered(w, Enter(w, rows, i), i)
<1> DEFINE r == [in |-> TRUE, parent |-> w.at, lft |-> w.next, rgt |-> 0,
                 depth |-> IF w.at = NoCat THEN 0 ELSE w.out[w.at].depth + 1,
                 sort |-> Cardinality(Siblings(w.out, w.at))]
<1>1. w.next \in Nat \ {0} /\ w.at \in 0..MaxCats /\ w.out \in [Cats -> CatRow]
  BY DEF Walks
<1>2. Siblings(w.out, w.at) \in SUBSET Cats
  BY DEF Siblings
<1>3. Cardinality(Siblings(w.out, w.at)) \in Nat
  BY <1>2, CatsFinite
<1>4. (IF w.at = NoCat THEN 0 ELSE w.out[w.at].depth + 1) \in Nat
  <2>1. CASE w.at = NoCat
    BY <2>1
  <2>2. CASE w.at # NoCat
    <3>1. w.at \in Cats
      BY <2>2, <1>1, CatBounds DEF Cats, NoCat
    <3>2. w.out[w.at].depth \in Nat
      BY <3>1, <1>1 DEF CatRow
    <3> QED
      BY <3>2, <2>2
  <2> QED
    BY <2>1, <2>2
<1>5. r \in CatRow
  BY <1>1, <1>3, <1>4 DEF CatRow
<1>6. PICK o \in [Cats -> CatRow] : o = [w.out EXCEPT ![i] = r]
  BY <1>1, <1>5
<1>7. Enter(w, rows, i) = [next |-> w.next + 1, at |-> i, out |-> o]
  BY <1>6 DEF Enter
<1>8. i \in 0..MaxCats /\ w.next + 1 \in Nat \ {0}
  BY <1>1, CatBounds DEF Cats
<1>9. Enter(w, rows, i) \in Walks
  BY <1>7, <1>8 DEF Walks
<1>10. o[i] = r /\ \A j \in Cats \ {i} : o[j] = w.out[j]
  BY <1>1, <1>6
<1> QED
  BY <1>7, <1>9, <1>10 DEF Entered

(* Fields of what was walked.                                              *)
LEMMA WalkFields ==
  ASSUME NEW w \in Walks
  PROVE  /\ w.next \in Nat \ {0} /\ w.at \in 0..MaxCats /\ w.out \in [Cats -> CatRow]
         /\ Walked(w) \in SUBSET Cats /\ Left(w) \in SUBSET Walked(w) /\ Opened(w) = Walked(w) \ Left(w)
         /\ \A i \in Cats : /\ w.out[i].lft \in Nat /\ w.out[i].rgt \in Nat /\ w.out[i].depth \in Nat
                            /\ w.out[i].sort \in Nat /\ w.out[i].parent \in 0..MaxCats
         /\ w.at # NoCat => w.at \in Cats
<1>1. w.next \in Nat \ {0} /\ w.at \in 0..MaxCats /\ w.out \in [Cats -> CatRow]
  BY DEF Walks
<1>2. w.at # NoCat => w.at \in Cats
  BY <1>1, CatBounds DEF Cats, NoCat
<1>3. \A i \in Cats : w.out[i] \in CatRow
  BY <1>1
<1>4. \A i \in Cats : /\ w.out[i].lft \in Nat /\ w.out[i].rgt \in Nat /\ w.out[i].depth \in Nat
                      /\ w.out[i].sort \in Nat /\ w.out[i].parent \in 0..MaxCats
  BY <1>3 DEF CatRow
<1> QED
  BY <1>1, <1>2, <1>4 DEF Walked, Left, Opened

(* Entering a category that is not yet walked, below the one the walk is   *)
(* at.                                                                     *)
LEMMA EnterSets ==
  ASSUME NEW w \in Walks, NEW v, NEW i \in Cats, Entered(w, v, i), i \notin Walked(w)
  PROVE  /\ Walked(v) = Walked(w) \cup {i} /\ Left(v) = Left(w) /\ Opened(v) = Opened(w) \cup {i}
         /\ \A j \in Walked(w) : j # i /\ v.out[j] = w.out[j]
BY DEF Entered, Walked, Left, Opened

LEMMA EnterKeepsPath ==
  ASSUME NEW w \in Walks, NEW v, NEW i \in Cats, Entered(w, v, i), i \notin Walked(w), PathIsOpen(w)
  PROVE  PathIsOpen(v)
<1>1. /\ Opened(v) = Opened(w) \cup {i} /\ i \notin Opened(w)
      /\ \A j \in Opened(w) : j # i /\ v.out[j] = w.out[j]
  BY EnterSets DEF Opened
<1>2. v.at = i /\ v.out[i].depth = IF w.at = NoCat THEN 0 ELSE w.out[w.at].depth + 1
  BY DEF Entered
<1>3. \A j \in Opened(w) : w.out[j].depth \in Nat
  BY WalkFields
<1>4. i # NoCat
  BY CatBounds
<1>5. ASSUME NEW j \in Opened(w) PROVE v.out[j].depth < v.out[i].depth
  <2>1. w.at # NoCat /\ w.at \in Opened(w) /\ w.out[j].depth <= w.out[w.at].depth
    BY DEF PathIsOpen
  <2> QED
    BY <2>1, <1>1, <1>2, <1>3
<1>6. v.out[i].depth \in Nat
  BY WalkFields DEF Entered
<1>7. \A j \in Opened(v) : v.at # NoCat /\ v.out[j].depth <= v.out[v.at].depth
  <2>1. ASSUME NEW j \in Opened(v) PROVE v.out[j].depth <= v.out[i].depth
    BY <1>1, <1>3, <1>5, <1>6
  <2> QED
    BY <2>1, <1>2, <1>4
<1>8. \A j, k \in Opened(v) : j # k => v.out[j].depth # v.out[k].depth
  <2>1. ASSUME NEW j \in Opened(v), NEW k \in Opened(v), j # k PROVE v.out[j].depth # v.out[k].depth
    <3>1. CASE j = i
      BY <3>1, <2>1, <1>1, <1>3, <1>5, <1>6
    <3>2. CASE k = i
      BY <3>2, <2>1, <1>1, <1>3, <1>5, <1>6
    <3>3. CASE j # i /\ k # i
      BY <3>3, <2>1, <1>1 DEF PathIsOpen
    <3> QED
      BY <3>1, <3>2, <3>3
  <2> QED
    BY <2>1
<1> QED
  BY <1>1, <1>2, <1>7, <1>8 DEF PathIsOpen

LEMMA EnterKeepsNumbers ==
  ASSUME NEW w \in Walks, NEW v, NEW i \in Cats, Entered(w, v, i), i \notin Walked(w), Numbered(w)
  PROVE  Numbered(v)
<1>1. /\ Walked(v) = Walked(w) \cup {i} /\ Left(v) = Left(w) /\ i \notin Walked(w) /\ Left(w) \subseteq Walked(w)
      /\ \A j \in Walked(w) : j # i /\ v.out[j] = w.out[j]
  BY EnterSets, WalkFields
<1>2. v.next = w.next + 1 /\ v.out[i].lft = w.next /\ w.next \in Nat \ {0}
  BY WalkFields DEF Entered
<1>3. Walked(w) \in SUBSET Cats /\ Left(w) \in SUBSET Cats
  BY WalkFields
<1>4. Cardinality(Walked(v)) = Cardinality(Walked(w)) + 1
  BY <1>1, <1>3, CatsFinite, FS_AddElement
<1>5. Cardinality(Walked(w)) \in Nat /\ Cardinality(Left(w)) \in Nat
  BY <1>3, CatsFinite
<1>6. \A j \in Walked(w) : w.out[j].lft \in Nat /\ w.out[j].rgt \in Nat
  BY <1>3, WalkFields
<1>7. \A j \in Walked(v) : 1 <= v.out[j].lft /\ v.out[j].lft < v.next
  BY <1>1, <1>2, <1>6 DEF Numbered
<1>8. \A j \in Left(v) : v.out[j].lft < v.out[j].rgt /\ v.out[j].rgt < v.next
  BY <1>1, <1>2, <1>6 DEF Numbered
<1>9. Cardinality(Walked(v)) + Cardinality(Left(v)) = v.next - 1
  <2>1. Cardinality(Walked(w)) + Cardinality(Left(w)) = w.next - 1
    BY DEF Numbered
  <2>2. Cardinality(Left(v)) = Cardinality(Left(w))
    BY <1>1
  <2> HIDE DEF Numbered
  <2> QED
    BY <2>1, <2>2, <1>2, <1>4, <1>5
<1> QED
  BY <1>7, <1>8, <1>9 DEF Numbered

LEMMA EnterKeepsChildren ==
  ASSUME NEW w \in Walks, NEW v, NEW i \in Cats, Entered(w, v, i), i \notin Walked(w),
         PathIsOpen(w), Numbered(w), ChildrenInside(w)
  PROVE  ChildrenInside(v)
<1>1. /\ Walked(v) = Walked(w) \cup {i} /\ i \notin Walked(w)
      /\ \A j \in Walked(w) : j # i /\ v.out[j] = w.out[j]
  BY EnterSets
<1>2. ASSUME NEW j \in Walked(w)
      PROVE  /\ v.out[j].parent = NoCat => v.out[j].depth = 0
             /\ v.out[j].parent # NoCat => BelowParent(v.out, j, v.out[j].parent)
  <2>1. v.out[j] = w.out[j] /\ j \in Cats
    BY <1>1, WalkFields
  <2>2. w.out[j].parent = NoCat => w.out[j].depth = 0
    BY DEF ChildrenInside
  <2>3. CASE w.out[j].parent # NoCat
    <3>1. BelowParent(w.out, j, w.out[j].parent)
      BY <2>3 DEF ChildrenInside
    <3>2. w.out[j].parent \in Cats
      BY <2>1, <2>3, WalkFields, CatBounds DEF Cats, NoCat
    <3>3. v.out[w.out[j].parent] = w.out[w.out[j].parent]
      BY <3>1, <3>2, <1>1 DEF BelowParent, Walked
    <3> QED
      BY <2>1, <2>3, <3>1, <3>3 DEF BelowParent
  <2> QED
    BY <2>1, <2>2, <2>3
<1>3. v.out[i].parent = w.at /\ v.out[i].lft = w.next /\ v.out[i].rgt = 0
  BY DEF Entered
<1>4. w.at = NoCat => v.out[i].depth = 0
  BY DEF Entered
<1>5. CASE w.at # NoCat
  <2>1. w.at \in Opened(w) /\ w.at \in Walked(w)
    BY <1>5 DEF PathIsOpen, Opened
  <2>2. v.out[w.at] = w.out[w.at] /\ w.out[w.at].rgt = 0 /\ w.out[w.at].in
    BY <2>1, <1>1 DEF Opened, Walked
  <2>3. v.out[i].depth = w.out[w.at].depth + 1
    BY <1>5 DEF Entered
  <2>4. w.out[w.at].lft < w.next
    BY <2>1 DEF Numbered
  <2>5. BelowParent(v.out, i, w.at)
    BY <1>3, <2>2, <2>3, <2>4 DEF BelowParent
  <2> QED
    BY <1>1, <1>2, <1>3, <1>5, <2>5 DEF ChildrenInside
<1> QED
  BY <1>1, <1>2, <1>3, <1>4, <1>5 DEF ChildrenInside

LEMMA EnterKeepsLaminar ==
  ASSUME NEW w \in Walks, NEW v, NEW i \in Cats, Entered(w, v, i), i \notin Walked(w),
         PathIsOpen(w), Numbered(w), Laminar(w)
  PROVE  Laminar(v)
<1>1. /\ Walked(v) = Walked(w) \cup {i} /\ i \notin Walked(w)
      /\ \A j \in Walked(w) : j # i /\ v.out[j] = w.out[j]
  BY EnterSets
<1>2. v.out[i].lft = w.next /\ v.out[i].parent = w.at /\ w.next \in Nat
  BY WalkFields DEF Entered
<1>3. ASSUME NEW j \in Walked(w)
      PROVE  /\ v.out[j].lft < v.out[i].lft /\ v.out[j].lft \in Nat
             /\ (v.out[j].rgt # 0 /\ v.out[j].rgt < v.out[i].lft) \/ Inside(v.out, i, j)
  <2>1. v.out[j] = w.out[j] /\ w.out[j].lft < w.next /\ w.out[j].lft \in Nat
    BY <1>1, WalkFields DEF Numbered
  <2>2. CASE w.out[j].rgt # 0
    BY <2>1, <2>2, <1>2 DEF Numbered, Left
  <2>3. CASE w.out[j].rgt = 0
    <3>1. j \in Opened(w)
      BY <2>3 DEF Opened
    <3>2. w.at # NoCat /\ w.at \in Opened(w) /\ w.out[j].depth <= w.out[w.at].depth
      BY <3>1 DEF PathIsOpen
    <3>3. v.out[i].depth = w.out[w.at].depth + 1 /\ w.out[w.at].depth \in Nat /\ w.out[j].depth \in Nat
      BY <3>1, <3>2, WalkFields DEF Entered
    <3>4. w.out[j].depth = w.out[w.at].depth => w.at = j
      BY <3>1, <3>2 DEF PathIsOpen
    <3>5. Inside(v.out, i, j)
      BY <1>2, <2>1, <2>3, <3>2, <3>3, <3>4 DEF Inside
    <3> QED
      BY <3>5, <2>1, <1>2
  <2> QED
    BY <2>1, <2>2, <2>3, <1>2
<1>4. ASSUME NEW j \in Walked(v), NEW k \in Walked(v), j # k
      PROVE  /\ v.out[j].lft # v.out[k].lft
             /\ v.out[k].lft < v.out[j].lft =>
                  (v.out[k].rgt # 0 /\ v.out[k].rgt < v.out[j].lft) \/ Inside(v.out, j, k)
  <2>1. CASE j = i
    BY <2>1, <1>1, <1>2, <1>3, <1>4
  <2>2. CASE k = i
    <3>1. v.out[j].lft < v.out[i].lft /\ v.out[j].lft \in Nat /\ v.out[i].lft \in Nat
      BY <2>2, <1>1, <1>2, <1>3, <1>4
    <3> QED
      BY <3>1, <2>2
  <2>3. CASE j # i /\ k # i
    <3>1. j \in Walked(w) /\ k \in Walked(w) /\ v.out[j] = w.out[j] /\ v.out[k] = w.out[k]
      BY <2>3, <1>1
    <3>2. /\ w.out[j].lft # w.out[k].lft
          /\ w.out[k].lft < w.out[j].lft =>
               (w.out[k].rgt # 0 /\ w.out[k].rgt < w.out[j].lft) \/ Inside(w.out, j, k)
      BY <3>1, <1>4 DEF Laminar
    <3> QED
      BY <3>1, <3>2 DEF Inside
  <2> QED
    BY <2>1, <2>2, <2>3
<1> QED
  BY <1>4 DEF Laminar

LEMMA EnterKeepsSorts ==
  ASSUME NEW w \in Walks, NEW v, NEW i \in Cats, Entered(w, v, i), i \notin Walked(w),
         PathIsOpen(w), Numbered(w), SortsFollow(w)
  PROVE  SortsFollow(v)
<1>1. /\ Walked(v) = Walked(w) \cup {i} /\ i \notin Walked(w)
      /\ \A j \in Walked(w) : j # i /\ v.out[j] = w.out[j]
  BY EnterSets
<1>2. v.out[i].lft = w.next /\ v.out[i].parent = w.at /\ v.out[i].sort = Cardinality(Siblings(w.out, w.at)) /\ w.next \in Nat
  BY WalkFields DEF Entered
<1>3. \A p : Siblings(w.out, p) \in SUBSET Cats
  BY DEF Siblings
<1>4. \A p : Siblings(v.out, p) = IF p = w.at THEN Siblings(w.out, p) \cup {i} ELSE Siblings(w.out, p)
  BY DEF Siblings, Entered, Walked
<1>5. i \notin Siblings(w.out, w.at)
  BY DEF Siblings, Walked
<1>6. Cardinality(Siblings(v.out, w.at)) = Cardinality(Siblings(w.out, w.at)) + 1
  <2>1. Siblings(w.out, w.at) \in SUBSET Cats /\ Siblings(v.out, w.at) = Siblings(w.out, w.at) \cup {i}
    BY <1>3, <1>4
  <2> QED
    BY <2>1, <1>5, CatsFinite, FS_AddElement
<1>7. \A p : Cardinality(Siblings(w.out, p)) \in Nat
  BY <1>3, CatsFinite
<1>8. ASSUME NEW j \in Walked(v) PROVE v.out[j].sort < Cardinality(Siblings(v.out, v.out[j].parent))
  <2>1. CASE j = i
    BY <2>1, <1>2, <1>6, <1>7
  <2>2. CASE j # i
    <3>1. j \in Walked(w) /\ v.out[j] = w.out[j] /\ w.out[j].sort \in Nat
      BY <2>2, <1>1, WalkFields
    <3>2. w.out[j].sort < Cardinality(Siblings(w.out, w.out[j].parent))
      BY <3>1 DEF SortsFollow
    <3>3. Cardinality(Siblings(w.out, w.out[j].parent)) <= Cardinality(Siblings(v.out, w.out[j].parent))
          /\ Cardinality(Siblings(v.out, w.out[j].parent)) \in Nat
      <4>1. CASE w.out[j].parent = w.at
        BY <4>1, <1>6, <1>7
      <4>2. CASE w.out[j].parent # w.at
        <5>1. Siblings(v.out, w.out[j].parent) = Siblings(w.out, w.out[j].parent)
          BY <4>2, <1>4
        <5>2. Cardinality(Siblings(w.out, w.out[j].parent)) \in Nat
          BY <1>7
        <5> QED
          BY <5>1, <5>2
      <4> QED
        BY <4>1, <4>2
    <3> QED
      BY <3>1, <3>2, <3>3, <1>7
  <2> QED
    BY <2>1, <2>2
<1>9. ASSUME NEW j \in Walked(v), NEW k \in Walked(v), j # k, v.out[j].parent = v.out[k].parent, v.out[k].lft < v.out[j].lft
      PROVE  v.out[k].sort < v.out[j].sort
  <2>1. CASE j = i
    <3>1. k \in Walked(w) /\ v.out[k] = w.out[k]
      BY <2>1, <1>9, <1>1
    <3>2. w.out[k].sort < Cardinality(Siblings(w.out, w.out[k].parent))
      BY <3>1 DEF SortsFollow
    <3> QED
      BY <2>1, <3>1, <3>2, <1>2, <1>9
  <2>2. CASE k = i
    <3>1. j \in Walked(w) /\ v.out[j] = w.out[j] /\ w.out[j].lft \in Nat
      BY <2>2, <1>9, <1>1, WalkFields
    <3>2. w.out[j].lft < w.next
      BY <3>1 DEF Numbered
    <3> QED
      BY <2>2, <3>1, <3>2, <1>2, <1>9
  <2>3. CASE j # i /\ k # i
    BY <2>3, <1>1, <1>9 DEF SortsFollow
  <2> QED
    BY <2>1, <2>2, <2>3
<1> QED
  BY <1>8, <1>9 DEF SortsFollow

LEMMA EnterKeepsRows ==
  ASSUME NEW w \in Walks, NEW v, NEW i \in Cats, NEW rows, Entered(w, v, i), i \in Siblings(rows, w.at) \ Walked(w),
         WalksRows(w, rows)
  PROVE  WalksRows(v, rows)
<1>1. /\ Walked(v) = Walked(w) \cup {i} /\ Left(v) = Left(w)
      /\ \A j \in Walked(w) : j # i /\ v.out[j] = w.out[j]
  BY EnterSets
<1>2. rows[i].in /\ v.out[i].parent = rows[i].parent
  BY DEF Siblings, Entered
<1>3. AbsentIsBlank(v.out)
  BY DEF AbsentIsBlank, WalksRows, Entered
<1> QED
  BY <1>1, <1>2, <1>3 DEF WalksRows

(* What leaving the category the walk is at does.                          *)
Leaves(w, v, i) ==
  /\ v \in Walks /\ v.next = w.next + 1 /\ w.at = i /\ v.at = w.out[i].parent
  /\ \A j \in Cats \ {i} : v.out[j] = w.out[j]
  /\ v.out[i].in = w.out[i].in /\ v.out[i].parent = w.out[i].parent /\ v.out[i].lft = w.out[i].lft /\ v.out[i].rgt = w.next
  /\ v.out[i].depth = w.out[i].depth /\ v.out[i].sort = w.out[i].sort

LEMMA LeaveLeaves ==
  ASSUME NEW w \in Walks, w.at # NoCat
  PROVE  Leaves(w, Leave(w), w.at)
<1>1. PICK i \in Cats : i = w.at
  BY WalkFields
<1>2. w.next \in Nat \ {0} /\ w.out \in [Cats -> CatRow] /\ w.out[i] \in CatRow /\ w.out[i].parent \in 0..MaxCats
  BY WalkFields
<1>3. PICK r : r = [w.out[i] EXCEPT !.rgt = w.next]
  OBVIOUS
<1>4. /\ r \in CatRow /\ r.in = w.out[i].in /\ r.parent = w.out[i].parent /\ r.lft = w.out[i].lft /\ r.rgt = w.next
      /\ r.depth = w.out[i].depth /\ r.sort = w.out[i].sort
  BY <1>2, <1>3 DEF CatRow
<1>5. PICK o : o = [w.out EXCEPT ![i] = r]
  OBVIOUS
<1>6. o \in [Cats -> CatRow] /\ o[i] = r /\ \A j \in Cats \ {i} : o[j] = w.out[j]
  BY <1>2, <1>4, <1>5
<1>7. o = [w.out EXCEPT ![w.at].rgt = w.next]
  BY <1>1, <1>3, <1>5
<1>8. Leave(w) = [next |-> w.next + 1, at |-> w.out[i].parent, out |-> o]
  BY <1>1, <1>7 DEF Leave
<1>9. w.next + 1 \in Nat \ {0}
  BY <1>2
<1>10. Leave(w) \in Walks
  BY <1>2, <1>6, <1>8, <1>9 DEF Walks
<1> QED
  BY <1>1, <1>4, <1>6, <1>8, <1>10 DEF Leaves

LEMMA LeaveSets ==
  ASSUME NEW w \in Walks, NEW v, NEW i \in Cats, Leaves(w, v, i), i \in Opened(w)
  PROVE  /\ Walked(v) = Walked(w) /\ Left(v) = Left(w) \cup {i} /\ Opened(v) = Opened(w) \ {i} /\ i \notin Left(w)
         /\ \A p : Siblings(v.out, p) = Siblings(w.out, p)
<1>1. w.next # 0
  BY WalkFields
<1>2. Walked(v) = Walked(w)
  BY DEF Leaves, Walked
<1>3. Left(v) = Left(w) \cup {i} /\ Opened(v) = Opened(w) \ {i} /\ i \notin Left(w)
  BY <1>1, <1>2 DEF Leaves, Left, Opened, Walked
<1>4. \A p : Siblings(v.out, p) = Siblings(w.out, p)
  BY DEF Siblings, Leaves
<1> QED
  BY <1>2, <1>3, <1>4

(* What is open below the category the walk is at is nothing.              *)
LEMMA LeaveKeepsPath ==
  ASSUME NEW w \in Walks, NEW v, NEW i \in Cats, Leaves(w, v, i), i \in Opened(w), PathIsOpen(w), ChildrenInside(w)
  PROVE  PathIsOpen(v)
<1>1. Opened(v) = Opened(w) \ {i} /\ Opened(w) \in SUBSET Cats
  BY LeaveSets, WalkFields
<1>2. \A j \in Opened(v) : v.out[j] = w.out[j] /\ w.out[j].depth \in Nat
  BY <1>1, WalkFields DEF Leaves
<1>3. v.at = w.out[i].parent /\ w.at = i /\ w.out[i].depth \in Nat
  BY WalkFields DEF Leaves
<1>4. ASSUME NEW j \in Opened(v) PROVE w.out[j].depth < w.out[i].depth
  <2>1. j \in Opened(w) /\ j # i /\ w.out[j].depth <= w.out[i].depth
    BY <1>1, <1>3 DEF PathIsOpen
  <2>2. w.out[j].depth # w.out[i].depth
    BY <2>1 DEF PathIsOpen
  <2> QED
    BY <2>1, <2>2, <1>2, <1>3
<1>5. i \in Walked(w) /\ w.out[i].rgt = 0
  BY DEF Opened
<1>6. CASE v.at = NoCat
  <2>1. w.out[i].depth = 0
    BY <1>3, <1>5, <1>6 DEF ChildrenInside
  <2>2. Opened(v) = {}
    BY <1>2, <1>4, <2>1
  <2> QED
    BY <1>6, <2>2 DEF PathIsOpen
<1>7. CASE v.at # NoCat
  <2>1. BelowParent(w.out, i, v.at)
    BY <1>3, <1>5, <1>7 DEF ChildrenInside
  <2>2. v.at \in Cats /\ v.at # i
    <3>1. v.at \in Cats
      BY <1>3, <1>7, WalkFields, CatBounds DEF Cats, NoCat
    <3>2. w.out[i].lft \in Nat
      BY WalkFields
    <3> QED
      BY <2>1, <3>1, <3>2 DEF BelowParent
  <2>3. v.at \in Opened(v)
    BY <1>1, <1>5, <2>1, <2>2 DEF BelowParent, Opened, Walked
  <2>4. \A j \in Opened(v) : v.out[j].depth <= v.out[v.at].depth
    <3>1. w.out[i].depth = w.out[v.at].depth + 1
      BY <2>1 DEF BelowParent
    <3> QED
      BY <3>1, <2>3, <1>2, <1>4
  <2>5. \A j, k \in Opened(v) : j # k => v.out[j].depth # v.out[k].depth
    BY <1>1, <1>2 DEF PathIsOpen
  <2> QED
    BY <1>7, <2>3, <2>4, <2>5 DEF PathIsOpen
<1> QED
  BY <1>6, <1>7

LEMMA LeaveKeepsNumbers ==
  ASSUME NEW w \in Walks, NEW v, NEW i \in Cats, Leaves(w, v, i), i \in Opened(w), Numbered(w)
  PROVE  Numbered(v)
<1>1. Walked(v) = Walked(w) /\ Left(v) = Left(w) \cup {i} /\ i \notin Left(w)
  BY LeaveSets
<1>2. Walked(w) \in SUBSET Cats /\ Left(w) \in SUBSET Walked(w) /\ Left(w) \in SUBSET Cats /\ i \in Walked(w)
  BY WalkFields DEF Opened
<1>3. Cardinality(Left(v)) = Cardinality(Left(w)) + 1
  BY <1>1, <1>2, CatsFinite, FS_AddElement
<1>4. Cardinality(Walked(w)) \in Nat /\ Cardinality(Left(w)) \in Nat
  BY <1>2, CatsFinite
<1>5. v.next = w.next + 1 /\ w.next \in Nat \ {0} /\ v.out[i].lft = w.out[i].lft /\ v.out[i].rgt = w.next
  BY WalkFields DEF Leaves
<1>6. \A j \in Walked(w) \ {i} : v.out[j] = w.out[j]
  BY <1>2 DEF Leaves
<1>7. \A j \in Walked(w) : w.out[j].lft \in Nat /\ w.out[j].rgt \in Nat
  BY <1>2, WalkFields
<1>8. \A j \in Walked(w) : 1 <= v.out[j].lft /\ v.out[j].lft < v.next
  BY <1>2, <1>5, <1>6, <1>7 DEF Numbered
<1>9. \A j \in Left(v) : v.out[j].lft < v.out[j].rgt /\ v.out[j].rgt < v.next
  <2>1. w.out[i].lft < w.next
    BY <1>2 DEF Numbered
  <2>2. \A j \in Left(w) : j \in Walked(w) \ {i} /\ w.out[j].lft < w.out[j].rgt /\ w.out[j].rgt < w.next
    BY <1>1, <1>2 DEF Numbered
  <2> QED
    BY <2>1, <2>2, <1>1, <1>5, <1>6, <1>7
<1>10. Cardinality(Walked(v)) + Cardinality(Left(v)) = v.next - 1
  BY <1>1, <1>3, <1>4, <1>5 DEF Numbered
<1> QED
  BY <1>1, <1>8, <1>9, <1>10 DEF Numbered

LEMMA LeaveKeepsChildren ==
  ASSUME NEW w \in Walks, NEW v, NEW i \in Cats, Leaves(w, v, i), i \in Opened(w),
         PathIsOpen(w), Numbered(w), ChildrenInside(w)
  PROVE  ChildrenInside(v)
<1>1. Walked(v) = Walked(w) /\ Walked(w) \in SUBSET Cats /\ w.next \in Nat \ {0} /\ i \in Walked(w)
  BY LeaveSets, WalkFields DEF Opened
<1>2. /\ v.out[i].in = w.out[i].in /\ v.out[i].parent = w.out[i].parent /\ v.out[i].lft = w.out[i].lft /\ v.out[i].rgt = w.next
      /\ v.out[i].depth = w.out[i].depth /\ w.at = i /\ \A j \in Cats \ {i} : v.out[j] = w.out[j]
  BY DEF Leaves
<1>3. ASSUME NEW j \in Walked(w), w.out[j].parent # NoCat PROVE BelowParent(v.out, j, w.out[j].parent)
  <2>1. PICK p \in Cats : p = w.out[j].parent
    BY <1>1, <1>3, WalkFields, CatBounds DEF Cats, NoCat
  <2>2. BelowParent(w.out, j, p)
    BY <1>3, <2>1 DEF ChildrenInside
  <2>3. w.out[j].lft \in Nat /\ w.out[p].lft \in Nat /\ w.out[j].depth \in Nat /\ w.out[p].depth \in Nat
    BY <1>1, WalkFields
  <2>4. p # j
    BY <2>2, <2>3 DEF BelowParent
  <2>5. v.out[p].in /\ v.out[p].lft < v.out[j].lft /\ v.out[j].depth = v.out[p].depth + 1
    BY <1>1, <1>2, <2>2 DEF BelowParent
  <2>6. CASE p = i
    <3>1. w.out[j].rgt # 0
      <4>1. SUFFICES ASSUME w.out[j].rgt = 0 PROVE FALSE
        OBVIOUS
      <4>2. j \in Opened(w)
        BY <4>1 DEF Opened
      <4>3. w.out[j].depth <= w.out[i].depth
        BY <4>2, <1>2 DEF PathIsOpen
      <4> QED
        BY <4>3, <2>2, <2>3, <2>6 DEF BelowParent
    <3>2. j \in Left(w) /\ w.out[j].rgt < w.next
      BY <3>1 DEF Left, Numbered
    <3> QED
      BY <3>1, <3>2, <2>1, <2>4, <2>5, <2>6, <1>1, <1>2 DEF BelowParent
  <2>7. CASE p # i
    <3>1. v.out[p].rgt = w.out[p].rgt
      BY <2>7, <1>2
    <3>2. CASE j = i
      <4>1. w.out[j].rgt = 0
        BY <3>2 DEF Opened
      <4> QED
        BY <4>1, <3>1, <2>1, <2>2, <2>5 DEF BelowParent
    <3>3. CASE j # i
      BY <3>1, <3>3, <2>1, <2>2, <2>5, <1>1, <1>2 DEF BelowParent
    <3> QED
      BY <3>2, <3>3
  <2> QED
    BY <2>6, <2>7
<1>4. \A j \in Walked(w) : v.out[j].parent = w.out[j].parent /\ v.out[j].depth = w.out[j].depth
  BY <1>1, <1>2
<1> QED
  BY <1>1, <1>3, <1>4 DEF ChildrenInside

LEMMA LeaveKeepsLaminar ==
  ASSUME NEW w \in Walks, NEW v, NEW i \in Cats, Leaves(w, v, i), i \in Opened(w),
         PathIsOpen(w), Numbered(w), Laminar(w)
  PROVE  Laminar(v)
<1>1. Walked(v) = Walked(w) /\ Walked(w) \in SUBSET Cats /\ w.next \in Nat \ {0} /\ i \in Walked(w) /\ w.out[i].rgt = 0
  BY LeaveSets, WalkFields DEF Opened
<1>2. /\ v.out[i].parent = w.out[i].parent /\ v.out[i].lft = w.out[i].lft /\ v.out[i].rgt = w.next
      /\ v.out[i].depth = w.out[i].depth /\ w.at = i /\ \A j \in Cats \ {i} : v.out[j] = w.out[j]
  BY DEF Leaves
<1>3. \A j \in Walked(w) : /\ w.out[j].lft \in Nat /\ w.out[j].rgt \in Nat /\ w.out[j].depth \in Nat
                           /\ v.out[j].lft = w.out[j].lft /\ v.out[j].depth = w.out[j].depth /\ v.out[j].parent = w.out[j].parent
  BY <1>1, <1>2, WalkFields
<1>4. ASSUME NEW j \in Walked(w), NEW k \in Walked(w), j # k
      PROVE  /\ v.out[j].lft # v.out[k].lft
             /\ v.out[k].lft < v.out[j].lft =>
                  (v.out[k].rgt # 0 /\ v.out[k].rgt < v.out[j].lft) \/ Inside(v.out, j, k)
  <2>1. w.out[j].lft # w.out[k].lft
    BY <1>4 DEF Laminar
  <2>2. ASSUME w.out[k].lft < w.out[j].lft
        PROVE  (v.out[k].rgt # 0 /\ v.out[k].rgt < w.out[j].lft) \/ Inside(v.out, j, k)
    <3>1. (w.out[k].rgt # 0 /\ w.out[k].rgt < w.out[j].lft) \/ Inside(w.out, j, k)
      BY <1>4, <2>2 DEF Laminar
    <3>2. CASE w.out[k].rgt # 0 /\ w.out[k].rgt < w.out[j].lft
      <4>1. k # i /\ k \in Cats
        BY <3>2, <1>1
      <4> QED
        BY <4>1, <3>2, <1>2
    <3>3. CASE Inside(w.out, j, k) /\ k = i
      <4>1. w.out[i].depth < w.out[j].depth
        BY <3>3 DEF Inside
      <4>2. w.out[j].rgt # 0
        <5>1. SUFFICES ASSUME w.out[j].rgt = 0 PROVE FALSE
          OBVIOUS
        <5>2. j \in Opened(w)
          BY <5>1 DEF Opened
        <5>3. w.out[j].depth <= w.out[i].depth
          BY <5>2, <1>2 DEF PathIsOpen
        <5> QED
          BY <5>3, <4>1, <1>1, <1>3
      <4>3. w.out[j].rgt < w.next /\ j \in Cats \ {i}
        BY <4>2, <1>4, <3>3, <1>1 DEF Left, Numbered
      <4> QED
        BY <3>3, <4>2, <4>3, <1>2, <1>3 DEF Inside
    <3>4. CASE Inside(w.out, j, k) /\ k # i
      <4>1. v.out[k] = w.out[k]
        BY <3>4, <1>1, <1>2
      <4>2. CASE j = i
        BY <4>1, <4>2, <3>4, <1>1, <1>3 DEF Inside
      <4>3. CASE j # i
        <5>1. v.out[j] = w.out[j]
          BY <4>3, <1>1, <1>2
        <5> QED
          BY <4>1, <5>1, <3>4 DEF Inside
      <4> QED
        BY <4>2, <4>3
    <3> QED
      BY <3>1, <3>2, <3>3, <3>4
  <2> QED
    BY <2>1, <2>2, <1>3
<1> QED
  BY <1>1, <1>4 DEF Laminar

LEMMA LeaveKeepsSorts ==
  ASSUME NEW w \in Walks, NEW v, NEW i \in Cats, Leaves(w, v, i), i \in Opened(w), SortsFollow(w)
  PROVE  SortsFollow(v)
<1>1. Walked(v) = Walked(w) /\ Walked(w) \in SUBSET Cats /\ \A p : Siblings(v.out, p) = Siblings(w.out, p)
  BY LeaveSets, WalkFields
<1>2. \A j \in Walked(w) : v.out[j].lft = w.out[j].lft /\ v.out[j].sort = w.out[j].sort /\ v.out[j].parent = w.out[j].parent
  BY <1>1 DEF Leaves
<1> QED
  BY <1>1, <1>2 DEF SortsFollow

LEMMA LeaveKeepsRows ==
  ASSUME NEW w \in Walks, NEW v, NEW i \in Cats, NEW rows, Leaves(w, v, i), i \in Opened(w),
         Siblings(rows, i) \subseteq Walked(w), WalksRows(w, rows)
  PROVE  WalksRows(v, rows)
<1>1. Walked(v) = Walked(w) /\ Left(v) = Left(w) \cup {i} /\ Walked(w) \in SUBSET Cats /\ i \in Walked(w)
  BY LeaveSets, WalkFields DEF Opened
<1>2. \A j \in Walked(w) : v.out[j].parent = w.out[j].parent
  BY <1>1 DEF Leaves
<1>3. AbsentIsBlank(v.out)
  BY <1>1 DEF AbsentIsBlank, WalksRows, Leaves, Walked
<1> QED
  BY <1>1, <1>2, <1>3 DEF WalksRows

Finished(w, rows) == w.at = NoCat /\ Siblings(rows, NoCat) \subseteq Walked(w)

LEMMA WalkStarts == ASSUME NEW rows PROVE WalkInv(WalkStart, rows) /\ WalkStart.next = 1
<1>1. NoCatRow \in CatRow
  BY CatBounds DEF NoCatRow, CatRow
<1>2. PICK o : o = [i \in Cats |-> NoCatRow]
  OBVIOUS
<1>3. WalkStart = [next |-> 1, at |-> NoCat, out |-> o]
  BY <1>2 DEF WalkStart
<1>4. o \in [Cats -> CatRow] /\ \A i \in Cats : ~o[i].in /\ o[i] = NoCatRow
  BY <1>1, <1>2 DEF NoCatRow
<1>5. WalkStart \in Walks /\ WalkStart.next = 1 /\ WalkStart.at = NoCat /\ WalkStart.out = o
  BY <1>3, <1>4, CatBounds DEF Walks, NoCat
<1>6. Walked(WalkStart) = {} /\ Left(WalkStart) = {} /\ Opened(WalkStart) = {}
  BY <1>4, <1>5 DEF Walked, Left, Opened
<1>7. WalksRows(WalkStart, rows)
  BY <1>4, <1>5, <1>6 DEF WalksRows, AbsentIsBlank
<1>8. Numbered(WalkStart)
  BY <1>5, <1>6, FS_EmptySet DEF Numbered
<1> QED
  BY <1>5, <1>6, <1>7, <1>8 DEF WalkInv, PathIsOpen, ChildrenInside, Laminar, SortsFollow

(* A step of the walk advances the counter or finds nothing left to do.    *)
LEMMA StepWalks ==
  ASSUME NEW rows \in [Cats -> CatRow], NEW w, WalkInv(w, rows)
  PROVE  /\ WalkInv(WalkStep(w, rows), rows)
         /\ \/ WalkStep(w, rows).next = w.next + 1
            \/ Finished(w, rows) /\ WalkStep(w, rows) = w
<1>1. w \in Walks
  BY DEF WalkInv
<1>2. PICK left : left = Siblings(rows, w.at) \ Walked(w)
  OBVIOUS
<1>3. left \in SUBSET Cats
  BY <1>2 DEF Siblings
<1>4. CASE left # {}
  <2>1. PICK i : i = CHOOSE x \in left : \A j \in left \ {x} : Before(rows, x, j)
    OBVIOUS
  <2>2. i \in left
    BY <2>1, <1>3, <1>4, FirstSibling
  <2>3. PICK v : v = Enter(w, rows, i)
    OBVIOUS
  <2>4. WalkStep(w, rows) = v
    BY <2>1, <2>3, <1>2, <1>4 DEF WalkStep
  <2>5. i \in Cats /\ i \notin Walked(w) /\ i \in Siblings(rows, w.at) \ Walked(w)
    BY <1>2, <1>3, <2>2
  <2>6. Entered(w, v, i)
    BY <1>1, <2>3, <2>5, EnterEnters
  <2>7. v \in Walks /\ v.next = w.next + 1
    BY <2>6 DEF Entered
  <2>8. WalkInv(v, rows)
    BY <1>1, <2>5, <2>6, <2>7, EnterKeepsRows, EnterKeepsPath, EnterKeepsNumbers, EnterKeepsChildren, EnterKeepsLaminar,
       EnterKeepsSorts DEF WalkInv
  <2> QED
    BY <2>4, <2>7, <2>8
<1>5. CASE left = {} /\ w.at # NoCat
  <2>1. PICK i \in Cats : i = w.at
    BY <1>1, <1>5, WalkFields
  <2>2. PICK v : v = Leave(w)
    OBVIOUS
  <2>3. WalkStep(w, rows) = v
    BY <2>2, <1>2, <1>5 DEF WalkStep
  <2>4. Leaves(w, v, i)
    BY <1>1, <1>5, <2>1, <2>2, LeaveLeaves
  <2>5. i \in Opened(w) /\ Siblings(rows, i) \subseteq Walked(w)
    BY <1>2, <1>5, <2>1 DEF WalkInv, PathIsOpen
  <2>6. v \in Walks /\ v.next = w.next + 1
    BY <2>4 DEF Leaves
  <2>7. WalkInv(v, rows)
    BY <1>1, <2>4, <2>5, <2>6, LeaveKeepsRows, LeaveKeepsPath, LeaveKeepsNumbers, LeaveKeepsChildren, LeaveKeepsLaminar,
       LeaveKeepsSorts DEF WalkInv
  <2> QED
    BY <2>3, <2>6, <2>7
<1>6. CASE left = {} /\ w.at = NoCat
  <2>1. WalkStep(w, rows) = w
    BY <1>2, <1>6 DEF WalkStep
  <2> QED
    BY <2>1, <1>2, <1>6 DEF Finished
<1> QED
  BY <1>4, <1>5, <1>6

WalkFold == INSTANCE SequenceFolds WITH op <- WalkStep

(* After twice as many steps as there can be categories nothing is left.   *)
LEMMA WalkEnds ==
  ASSUME NEW rows \in [Cats -> CatRow]
  PROVE  \E w \in Walks : RebuildBounds(rows) = w.out /\ WalkInv(w, rows) /\ Finished(w, rows)
<1>1. PICK N : N = 2 * MaxCats
  OBVIOUS
<1>2. N \in Nat
  BY <1>1, CatBounds
<1>3. PICK seq : seq = [k \in 1..N |-> rows]
  OBVIOUS
<1>4. seq \in Seq({rows}) /\ Len(seq) = N /\ \A k \in 1..N : seq[k] = rows
  BY <1>2, <1>3
<1> DEFINE held == [k \in 0..N |-> {w \in Walks : WalkInv(w, rows) /\ (w.next = k + 1 \/ Finished(w, rows))}]
<1>5. WalkStart \in held[0]
  <2>1. 0 \in 0..N
    BY <1>2
  <2>2. WalkStart \in Walks
    BY WalkStarts DEF WalkInv
  <2> QED
    BY <2>1, <2>2, WalkStarts
<1>6. ASSUME NEW n \in 1..N, NEW w \in held[n - 1] PROVE WalkStep(w, seq[n]) \in held[n]
  <2>1. n - 1 \in 0..N /\ n \in 0..N /\ seq[n] = rows /\ (n - 1) + 1 = n
    BY <1>2, <1>4
  <2>2. w \in Walks /\ WalkInv(w, rows) /\ (w.next = n \/ Finished(w, rows))
    BY <2>1
  <2>3. PICK v : v = WalkStep(w, rows)
    OBVIOUS
  <2>4. WalkInv(v, rows) /\ v \in Walks
    BY <2>2, <2>3, StepWalks DEF WalkInv
  <2>5. v.next = n + 1 \/ Finished(v, rows)
    <3>1. CASE Finished(w, rows)
      <4>1. WalkStep(w, rows) = w
        BY <3>1 DEF Finished, WalkStep
      <4> QED
        BY <3>1, <4>1, <2>3
    <3>2. CASE ~Finished(w, rows)
      BY <3>2, <2>2, <2>3, StepWalks
    <3> QED
      BY <3>1, <3>2
  <2> QED
    BY <2>1, <2>3, <2>4, <2>5
<1>7. WalkFold!FoldOf(WalkStart, seq) \in held[N]
  <2> HIDE DEF held
  <2> QED
    BY <1>4, <1>5, <1>6, WalkFold!FoldRule
<1>8. FoldLeft(WalkStep, WalkStart, seq) = WalkFold!FoldOf(WalkStart, seq)
  BY DEF WalkFold!FoldOf, WalkFold!FoldLeft, FoldLeft, WalkFold!MapThenFoldSet, MapThenFoldSet, WalkFold!Max, Max
<1>9. PICK w : w = WalkFold!FoldOf(WalkStart, seq)
  OBVIOUS
<1>10. RebuildBounds(rows) = w.out
  BY <1>1, <1>3, <1>8, <1>9 DEF RebuildBounds
<1>11. w \in Walks /\ WalkInv(w, rows) /\ (w.next = N + 1 \/ Finished(w, rows))
  BY <1>2, <1>7, <1>9
<1>12. CASE w.next = N + 1
  <2>1. Walked(w) \in SUBSET Cats /\ Left(w) \in SUBSET Walked(w) /\ Left(w) \in SUBSET Cats
    BY <1>11, WalkFields
  <2>2. Cardinality(Walked(w)) + Cardinality(Left(w)) = 2 * MaxCats
    BY <1>1, <1>2, <1>11, <1>12 DEF WalkInv, Numbered
  <2>3. /\ Cardinality(Walked(w)) \in Nat /\ Cardinality(Walked(w)) <= MaxCats
        /\ Cardinality(Left(w)) \in Nat /\ Cardinality(Left(w)) <= MaxCats
    BY <2>1, CatsFinite
  <2>4. Cardinality(Left(w)) = MaxCats
    BY <2>2, <2>3, CatBounds
  <2>5. Left(w) = Cats
    BY <2>1, <2>4, CatsFinite
  <2>6. Opened(w) = {} /\ Walked(w) = Cats
    BY <2>1, <2>5 DEF Opened, Left
  <2>7. w.at = NoCat
    BY <1>11, <2>6 DEF WalkInv, PathIsOpen
  <2>8. Finished(w, rows)
    BY <2>6, <2>7 DEF Finished, Siblings
  <2> QED
    BY <1>10, <1>11, <2>8
<1> QED
  BY <1>10, <1>11, <1>12

(* What the walk writes.  It adds no row and moves none.                   *)
LEMMA RebuildWrites ==
  ASSUME NEW rows \in [Cats -> CatRow]
  PROVE  /\ RebuildBounds(rows) \in [Cats -> CatRow]
         /\ AbsentIsBlank(RebuildBounds(rows))
         /\ \A i \in Cats : RebuildBounds(rows)[i].in => rows[i].in /\ RebuildBounds(rows)[i].parent = rows[i].parent
<1>1. PICK w \in Walks : RebuildBounds(rows) = w.out /\ WalkInv(w, rows)
  BY WalkEnds
<1>2. w.out \in [Cats -> CatRow]
  BY WalkFields
<1> QED
  BY <1>1, <1>2 DEF WalkInv, WalksRows, Walked

(* Rows without a cycle are all walked, and what is written is a nested    *)
(* set.                                                                    *)
LEMMA RebuildNests ==
  ASSUME NEW rows, Tidy(rows), Acyclic(rows)
  PROVE  /\ NestedSet(RebuildBounds(rows))
         /\ \A i \in Cats : RebuildBounds(rows)[i].in = rows[i].in
<1>1. rows \in [Cats -> CatRow] /\ ParentsIn(rows)
  BY DEF Tidy
<1>2. PICK w \in Walks : RebuildBounds(rows) = w.out /\ WalkInv(w, rows) /\ Finished(w, rows)
  BY <1>1, WalkEnds
<1>3. PICK o : o = w.out
  OBVIOUS
<1>4. /\ WalksRows(w, rows) /\ PathIsOpen(w) /\ Numbered(w) /\ ChildrenInside(w) /\ Laminar(w) /\ SortsFollow(w)
      /\ w.at = NoCat /\ Siblings(rows, NoCat) \subseteq Walked(w)
  BY <1>2 DEF WalkInv, Finished
<1>5. Opened(w) = {} /\ Left(w) = Walked(w) /\ Walked(w) \in SUBSET Cats
  BY <1>4, WalkFields DEF PathIsOpen
<1>6. {i \in Cats : rows[i].in} \subseteq Walked(w)
  <2> DEFINE unmet == {i \in Cats : rows[i].in} \ Walked(w)
  <2>1. SUFFICES ASSUME unmet # {} PROVE FALSE
    OBVIOUS
  <2>2. PICK i \in unmet : rows[i].parent \notin unmet
    BY <2>1 DEF Acyclic
  <2>3. rows[i].parent # NoCat
    BY <2>2, <1>4 DEF Siblings
  <2>4. rows[i].parent \in Cats /\ rows[rows[i].parent].in
    <3>1. rows[i] \in CatRow
      BY <1>1
    <3>2. rows[i].parent \in 0..MaxCats
      BY <3>1 DEF CatRow
    <3> QED
      BY <3>2, <2>3, <1>1, CatBounds DEF ParentsIn, Cats, NoCat
  <2>5. rows[i].parent \in Left(w)
    BY <2>2, <2>4, <1>5
  <2>6. i \in Siblings(rows, rows[i].parent)
    BY DEF Siblings
  <2> QED
    BY <2>5, <2>6, <1>4 DEF WalksRows
<1>7. \A i \in Cats : o[i].in = rows[i].in
  <2>1. \A i \in Cats : o[i].in \in BOOLEAN /\ rows[i].in \in BOOLEAN
    BY <1>1, <1>3, WalkFields DEF CatRow
  <2> QED
    BY <2>1, <1>3, <1>4, <1>6 DEF WalksRows, Walked
<1>8. \A i \in Cats : o[i].in => i \in Walked(w) /\ i \in Left(w)
  BY <1>3, <1>5 DEF Walked
<1>9. \A i \in Cats : /\ o[i].lft \in Nat /\ o[i].rgt \in Nat /\ o[i].depth \in Nat /\ o[i].sort \in Nat
  BY <1>3, WalkFields
<1>10. \A i \in Cats : o[i].in => o[i].lft < o[i].rgt /\ o[i].rgt # 0
  BY <1>3, <1>4, <1>8 DEF Numbered, Left
<1>11. \A i \in Cats : o[i].in => (o[i].parent = NoCat <=> o[i].depth = 0)
  <2>1. ASSUME NEW i \in Cats, o[i].in PROVE o[i].parent = NoCat <=> o[i].depth = 0
    <3>1. CASE o[i].parent = NoCat
      BY <3>1, <2>1, <1>3, <1>4, <1>8 DEF ChildrenInside
    <3>2. CASE o[i].parent # NoCat
      <4>1. BelowParent(o, i, o[i].parent)
        BY <3>2, <2>1, <1>3, <1>4, <1>8 DEF ChildrenInside
      <4>2. o[i].parent \in Cats
        BY <3>2, <1>3, WalkFields, CatBounds DEF Cats, NoCat
      <4> QED
        BY <3>2, <4>1, <4>2, <1>9 DEF BelowParent
    <3> QED
      BY <3>1, <3>2
  <2> QED
    BY <2>1
<1>12. ASSUME NEW i \in Cats, NEW j \in Cats, o[i].in, o[j].in, i # j
       PROVE  /\ o[i].parent = j <=> o[j].lft < o[i].lft /\ o[i].rgt < o[j].rgt /\ o[i].depth = o[j].depth + 1
              /\ o[i].parent = o[j].parent =>
                   /\ o[i].sort # o[j].sort
                   /\ o[i].rgt < o[j].lft \/ o[j].rgt < o[i].lft
                   /\ o[i].sort < o[j].sort <=> o[i].lft < o[j].lft
  <2>1. i \in Walked(w) /\ j \in Walked(w)
    BY <1>8, <1>12
  <2>2. /\ o[i].lft # o[j].lft
        /\ o[j].lft < o[i].lft => o[j].rgt < o[i].lft \/ Inside(o, i, j)
        /\ o[i].lft < o[j].lft => o[i].rgt < o[j].lft \/ Inside(o, j, i)
    BY <2>1, <1>3, <1>4, <1>12 DEF Laminar
  <2>3. ASSUME o[i].parent = j
        PROVE  o[j].lft < o[i].lft /\ o[i].rgt < o[j].rgt /\ o[i].depth = o[j].depth + 1
    <3>1. BelowParent(o, i, j)
      BY <2>1, <2>3, <1>3, <1>4, CatBounds DEF ChildrenInside
    <3> QED
      BY <3>1, <1>10, <1>12 DEF BelowParent
  <2>4. ASSUME o[j].lft < o[i].lft, o[i].rgt < o[j].rgt, o[i].depth = o[j].depth + 1
        PROVE  o[i].parent = j
    <3>1. Inside(o, i, j)
      BY <2>2, <2>4, <1>9, <1>10, <1>12
    <3> QED
      BY <3>1, <2>4 DEF Inside
  <2>5. ASSUME o[i].parent = o[j].parent
        PROVE  /\ o[i].sort # o[j].sort
               /\ o[i].rgt < o[j].lft \/ o[j].rgt < o[i].lft
               /\ o[i].sort < o[j].sort <=> o[i].lft < o[j].lft
    <3>1. o[i].depth = o[j].depth
      <4>1. CASE o[i].parent = NoCat
        BY <4>1, <2>5, <1>11, <1>12
      <4>2. CASE o[i].parent # NoCat
        <5>1. BelowParent(o, i, o[i].parent) /\ BelowParent(o, j, o[i].parent)
          BY <4>2, <2>1, <2>5, <1>3, <1>4 DEF ChildrenInside
        <5> QED
          BY <5>1 DEF BelowParent
      <4> QED
        BY <4>1, <4>2
    <3>2. ~Inside(o, i, j) /\ ~Inside(o, j, i)
      BY <3>1, <1>9 DEF Inside
    <3>3. o[i].rgt < o[j].lft \/ o[j].rgt < o[i].lft
      BY <2>2, <3>2, <1>9
    <3>4. /\ o[j].lft < o[i].lft => o[j].sort < o[i].sort
          /\ o[i].lft < o[j].lft => o[i].sort < o[j].sort
      BY <2>1, <2>5, <1>3, <1>4, <1>12 DEF SortsFollow
    <3> QED
      BY <3>3, <3>4, <2>2, <1>9
  <2> QED
    BY <2>3, <2>4, <2>5
<1> QED
  BY <1>2, <1>3, <1>7, <1>10, <1>11, <1>12 DEF NestedSet

(* Placing a category numbers siblings and moves none.                     *)
LEMMA BeforeApplied ==
  ASSUME NEW rows \in [Cats -> CatRow], NEW i \in Cats, NEW p, NEW b
  PROVE  /\ ApplyBefore(rows, i, p, b) \in [Cats -> CatRow]
         /\ \A j \in Cats : /\ ApplyBefore(rows, i, p, b)[j].in = rows[j].in
                            /\ ApplyBefore(rows, i, p, b)[j].parent = rows[j].parent
                            /\ ~rows[j].in /\ j # i => ApplyBefore(rows, i, p, b)[j] = rows[j]
<1> DEFINE others == Siblings(rows, p) \ {i}
           after(j) == b # NoCat /\ (j = b \/ Before(rows, b, j))
           place(j) == IF j = i THEN Cardinality({x \in others : ~after(x)})
                       ELSE Cardinality({x \in others : Before(rows, x, j)}) + (IF after(j) THEN 1 ELSE 0)
           row(j) == IF j = i \/ j \in others THEN [rows[j] EXCEPT !.sort = place(j)] ELSE rows[j]
<1>1. others \in SUBSET Cats
  BY DEF Siblings
<1>2. ASSUME NEW j \in Cats PROVE place(j) \in Nat
  <2>1. {x \in others : ~after(x)} \in SUBSET Cats /\ {x \in others : Before(rows, x, j)} \in SUBSET Cats
    BY <1>1
  <2>2. PICK n : n = Cardinality({x \in others : ~after(x)})
    OBVIOUS
  <2>3. PICK m : m = Cardinality({x \in others : Before(rows, x, j)})
    OBVIOUS
  <2>4. n \in Nat
    BY <2>1, <2>2, CatsFinite
  <2>5. m \in Nat
    BY <2>1, <2>3, CatsFinite
  <2>6. place(j) = IF j = i THEN n ELSE m + (IF after(j) THEN 1 ELSE 0)
    BY <2>2, <2>3
  <2> HIDE DEF place, after
  <2> QED
    BY <2>4, <2>5, <2>6
<1>3. ASSUME NEW j \in Cats
      PROVE  /\ row(j) \in CatRow /\ row(j).in = rows[j].in /\ row(j).parent = rows[j].parent
             /\ ~rows[j].in /\ j # i => row(j) = rows[j]
  <2>1. PICK r \in CatRow : r = rows[j]
    OBVIOUS
  <2>2. PICK n \in Nat : n = place(j)
    BY <1>2
  <2>3. PICK s : s = [r EXCEPT !.sort = n]
    OBVIOUS
  <2>4. s \in CatRow /\ s.in = r.in /\ s.parent = r.parent
    BY <2>3 DEF CatRow
  <2>5. row(j) = IF j = i \/ j \in others THEN s ELSE r
    <3> HIDE DEF place, others
    <3> QED
      BY <2>1, <2>2, <2>3
  <2>6. ~rows[j].in /\ j # i => j \notin others
    BY DEF Siblings
  <2> HIDE DEF row, others
  <2> QED
    BY <2>1, <2>4, <2>5, <2>6
<1>4. PICK a : a = [j \in Cats |-> row(j)]
  OBVIOUS
<1>5. ApplyBefore(rows, i, p, b) = a
  BY <1>4 DEF ApplyBefore
<1>6. a \in [Cats -> CatRow] /\ \A j \in Cats : a[j] = row(j)
  <2> HIDE DEF row
  <2> QED
    BY <1>3, <1>4
<1> HIDE DEF row
<1> QED
  BY <1>3, <1>5, <1>6

-----------------------------------------------------------------------------
(* The invariant: the rows are tidy, and who creates a category has an id  *)
(* of its own.                                                             *)

CatCallFits(q, rows) ==
  /\ q.op \in {"create", "delete", "move"} \/ q.pc = "read" => q.id \in Cats
  /\ q.op = "create" => ~rows[q.id].in
  /\ q.op = "move" => q.parent # q.id

CreatesApart ==
  \A c, d \in CatCalls : c # d /\ ccall[c].op = "create" /\ ccall[d].op = "create" => ccall[c].id # ccall[d].id

CatInv ==
  /\ CatTypeOK /\ Tidy(cat) /\ CreatesApart
  /\ \A c \in CatCalls : CatCallFits(ccall[c], cat)

LEMMA RowFields ==
  ASSUME NEW r \in CatRow
  PROVE  r.in \in BOOLEAN /\ r.parent \in 0..MaxCats /\ (r.parent # NoCat => r.parent \in Cats)
BY CatBounds DEF CatRow, Cats, NoCat

WithNew(rows, i, p) == [rows EXCEPT ![i] = NewCategory(p)]

LEMMA NewCategoryFits ==
  ASSUME NEW p \in 0..MaxCats
  PROVE  NewCategory(p) \in CatRow /\ NewCategory(p).in /\ NewCategory(p).parent = p
<1>1. PICK r : r = NoCatRow
  OBVIOUS
<1>2. r = [in |-> FALSE, parent |-> 0, lft |-> 0, rgt |-> 0, depth |-> 0, sort |-> 0]
  BY <1>1 DEF NoCatRow
<1>3. PICK n : n = [r EXCEPT !.in = TRUE, !.parent = p]
  OBVIOUS
<1>4. n = [in |-> TRUE, parent |-> p, lft |-> 0, rgt |-> 0, depth |-> 0, sort |-> 0]
  BY <1>2, <1>3
<1>5. NewCategory(p) = n
  BY <1>1, <1>3 DEF NewCategory
<1> QED
  BY <1>4, <1>5 DEF CatRow

LEMMA BlankRow == NoCatRow \in CatRow /\ ~NoCatRow.in /\ NoCatRow.parent = NoCat
BY CatBounds DEF NoCatRow, CatRow, NoCat

(* Another parent for a row.                                               *)
WithParent(rows, i, p) == [rows EXCEPT ![i].parent = p]

LEMMA Reparented ==
  ASSUME NEW rows \in [Cats -> CatRow], NEW i \in Cats, NEW p \in 0..MaxCats
  PROVE  /\ WithParent(rows, i, p) \in [Cats -> CatRow] /\ (WithParent(rows, i, p)[i].in <=> rows[i].in)
         /\ WithParent(rows, i, p)[i].parent = p /\ \A j \in Cats \ {i} : WithParent(rows, i, p)[j] = rows[j]
<1>1. PICK r \in CatRow : r = rows[i]
  OBVIOUS
<1>2. PICK n : n = [r EXCEPT !.parent = p]
  OBVIOUS
<1>3. n \in CatRow /\ n.in = r.in /\ n.parent = p
  BY <1>2 DEF CatRow
<1>4. PICK new : new = [rows EXCEPT ![i] = n]
  OBVIOUS
<1>5. new = [rows EXCEPT ![i].parent = p]
  BY <1>1, <1>2, <1>4
<1>6. new \in [Cats -> CatRow] /\ new[i] = n /\ \A j \in Cats \ {i} : new[j] = rows[j]
  BY <1>3, <1>4
<1> QED
  BY <1>1, <1>3, <1>5, <1>6 DEF WithParent

LEMMA ReparentedTidy ==
  ASSUME NEW rows, Tidy(rows), NEW i \in Cats, rows[i].in, NEW p \in 0..MaxCats, p # NoCat => rows[p].in
  PROVE  Tidy(WithParent(rows, i, p))
<1>1. rows \in [Cats -> CatRow] /\ ParentsIn(rows) /\ AbsentIsBlank(rows)
  BY DEF Tidy
<1>2. PICK new : new = WithParent(rows, i, p)
  OBVIOUS
<1>3. /\ new \in [Cats -> CatRow] /\ (new[i].in <=> rows[i].in) /\ new[i].parent = p
      /\ \A j \in Cats \ {i} : new[j] = rows[j]
  BY <1>1, <1>2, Reparented
<1>4. \A j \in Cats : (new[j].in <=> rows[j].in)
  BY <1>3
<1>5. p # NoCat => p \in Cats
  BY CatBounds DEF Cats, NoCat
<1>6. ParentsIn(new)
  <2>1. ASSUME NEW j \in Cats, new[j].in, new[j].parent # NoCat PROVE new[new[j].parent].in
    <3>1. CASE j = i
      BY <3>1, <2>1, <1>3, <1>4, <1>5
    <3>2. CASE j # i
      <4>1. rows[j].parent \in Cats /\ rows[rows[j].parent].in
        BY <3>2, <2>1, <1>1, <1>3, RowFields DEF ParentsIn
      <4> QED
        BY <4>1, <3>2, <1>3, <1>4
    <3> QED
      BY <3>1, <3>2
  <2> QED
    BY <2>1 DEF ParentsIn
<1>7. AbsentIsBlank(new)
  BY <1>1, <1>3 DEF AbsentIsBlank
<1> QED
  BY <1>2, <1>3, <1>6, <1>7 DEF Tidy

(* A category moved below one that is not its descendant closes no cycle.  *)
LEMMA ReparentedAcyclic ==
  ASSUME NEW rows \in [Cats -> CatRow], Acyclic(rows), NEW i \in Cats, NEW p \in 0..MaxCats, p # i, ~IsDescendant(rows, i, p)
  PROVE  Acyclic(WithParent(rows, i, p))
<1>1. PICK new : new = WithParent(rows, i, p)
  OBVIOUS
<1>2. /\ new \in [Cats -> CatRow] /\ new[i].parent = p
      /\ \A j \in Cats \ {i} : new[j] = rows[j]
  BY <1>1, Reparented
<1>3. ASSUME NEW S \in (SUBSET Cats) \ {{}}, \A x \in S : new[x].parent \in S PROVE FALSE
  <2>1. i \in S
    <3>1. SUFFICES ASSUME i \notin S PROVE FALSE
      OBVIOUS
    <3>2. \A x \in S : rows[x].parent \in S
      BY <3>1, <1>2, <1>3
    <3> QED
      BY <3>2 DEF Acyclic
  <2>2. p \in S /\ p \in Cats /\ p # NoCat
    BY <2>1, <1>2, <1>3, CatBounds
  <2>3. i \notin Ancestors(rows, p)
    BY <2>2 DEF IsDescendant
  <2>4. PICK T \in SUBSET Cats : (\A x \in T \cup {p} : rows[x].parent \in T \cup {NoCat}) /\ i \notin T
    BY <2>3 DEF Ancestors
  <2>5. PICK U : U = S \cap (T \cup {p})
    OBVIOUS
  <2>6. U \in (SUBSET Cats) \ {{}}
    BY <2>2, <2>5
  <2>7. ASSUME NEW x \in U PROVE rows[x].parent \in U
    <3>1. x \in S /\ x \in T \cup {p} /\ x # i
      BY <2>4, <2>5
    <3>2. rows[x].parent \in S
      BY <3>1, <1>2, <1>3
    <3>3. rows[x].parent \in T
      BY <3>1, <3>2, <2>4, CatBounds
    <3> QED
      BY <3>2, <3>3, <2>5
  <2> QED
    BY <2>6, <2>7 DEF Acyclic
<1> QED
  BY <1>1, <1>3 DEF Acyclic

(* A row without its children's references.                                *)
LEMMA RemovedFits ==
  ASSUME NEW rows, Tidy(rows), NEW i \in Cats
  PROVE  /\ Tidy(Removed(rows, i))
         /\ Acyclic(rows) => Acyclic(Removed(rows, i))
<1>1. rows \in [Cats -> CatRow] /\ ParentsIn(rows) /\ AbsentIsBlank(rows)
  BY DEF Tidy
<1>2. PICK new : new = Removed(rows, i)
  OBVIOUS
<1>3. NoCat \in 0..MaxCats
  BY CatBounds DEF NoCat
<1>4. ASSUME NEW j \in Cats
      PROVE  /\ new[j] \in CatRow
             /\ j = i => new[j] = NoCatRow
             /\ j # i => new[j].in = rows[j].in /\ (~rows[j].in => new[j] = rows[j] \/ rows[j].parent = i)
             /\ j # i => new[j].parent = IF rows[j].parent = i THEN NoCat ELSE rows[j].parent
  <2>1. PICK r \in CatRow : r = rows[j]
    BY <1>1
  <2>2. PICK n : n = [r EXCEPT !.parent = NoCat]
    OBVIOUS
  <2>3. n \in CatRow /\ n.in = r.in /\ n.parent = NoCat
    BY <2>2, <1>3 DEF CatRow
  <2>4. new[j] = IF j = i THEN NoCatRow ELSE IF r.parent = i THEN n ELSE r
    BY <1>2, <2>1, <2>2 DEF Removed
  <2> QED
    BY <2>1, <2>3, <2>4, BlankRow
<1>5. new \in [Cats -> CatRow]
  <2>1. new = [j \in Cats |-> new[j]]
    BY <1>2 DEF Removed
  <2> QED
    BY <2>1, <1>4
<1>6. ParentsIn(new)
  <2>1. ASSUME NEW j \in Cats, new[j].in, new[j].parent # NoCat PROVE new[new[j].parent].in
    <3>1. j # i /\ rows[j].in /\ rows[j].parent # i /\ new[j].parent = rows[j].parent
      BY <2>1, <1>4, BlankRow
    <3>2. rows[j].parent \in Cats /\ rows[rows[j].parent].in
      BY <3>1, <2>1, <1>1, RowFields DEF ParentsIn
    <3> QED
      BY <3>1, <3>2, <1>4
  <2> QED
    BY <2>1 DEF ParentsIn
<1>7. AbsentIsBlank(new)
  <2>1. ASSUME NEW j \in Cats, ~new[j].in PROVE new[j] = NoCatRow
    <3>1. CASE j = i
      BY <3>1, <1>4
    <3>2. CASE j # i
      <4>1. ~rows[j].in /\ rows[j] = NoCatRow
        BY <3>2, <2>1, <1>1, <1>4 DEF AbsentIsBlank
      <4>2. rows[j].parent # i
        BY <4>1, BlankRow, CatBounds
      <4> QED
        BY <3>2, <4>1, <4>2, <1>4
    <3> QED
      BY <3>1, <3>2
  <2> QED
    BY <2>1 DEF AbsentIsBlank
<1>8. ASSUME Acyclic(rows) PROVE Acyclic(new)
  <2>1. ASSUME NEW S \in (SUBSET Cats) \ {{}}, \A x \in S : new[x].parent \in S PROVE FALSE
    <3>1. \A x \in S : x # i /\ new[x].parent # NoCat
      BY <2>1, <1>4, BlankRow, CatBounds
    <3>2. \A x \in S : rows[x].parent \in S
      BY <3>1, <2>1, <1>4
    <3> QED
      BY <3>2, <1>8 DEF Acyclic
  <2> QED
    BY <2>1 DEF Acyclic
<1> QED
  BY <1>2, <1>5, <1>6, <1>7, <1>8 DEF Tidy

(* A new category under an existing one, or under none.                    *)
LEMMA AddedFits ==
  ASSUME NEW rows, Tidy(rows), NEW i \in Cats, ~rows[i].in, NEW p \in 0..MaxCats, p # NoCat => rows[p].in
  PROVE  /\ Tidy(WithNew(rows, i, p))
         /\ Acyclic(rows) => Acyclic(WithNew(rows, i, p))
<1>1. rows \in [Cats -> CatRow] /\ ParentsIn(rows) /\ AbsentIsBlank(rows)
  BY DEF Tidy
<1>2. PICK new : new = WithNew(rows, i, p)
  OBVIOUS
<1>3. /\ new \in [Cats -> CatRow] /\ new[i] = NewCategory(p) /\ \A j \in Cats \ {i} : new[j] = rows[j]
  BY <1>1, <1>2, NewCategoryFits DEF WithNew
<1>4. new[i].in /\ new[i].parent = p /\ p # i /\ (p # NoCat => p \in Cats)
  <2>1. p # NoCat => p \in Cats
    BY CatBounds DEF Cats, NoCat
  <2> QED
    BY <2>1, <1>3, NewCategoryFits, CatBounds
<1>5. \A j \in Cats : rows[j].parent # i
  <2>1. ASSUME NEW j \in Cats, rows[j].parent = i PROVE FALSE
    <3>1. CASE rows[j].in
      BY <3>1, <2>1, <1>1, CatBounds DEF ParentsIn
    <3>2. CASE ~rows[j].in
      BY <3>2, <2>1, <1>1, BlankRow, CatBounds DEF AbsentIsBlank
    <3> QED
      BY <3>1, <3>2
  <2> QED
    BY <2>1
<1>6. ParentsIn(new)
  <2>1. ASSUME NEW j \in Cats, new[j].in, new[j].parent # NoCat PROVE new[new[j].parent].in
    <3>1. CASE j = i
      BY <3>1, <2>1, <1>3, <1>4
    <3>2. CASE j # i
      <4>1. rows[j].parent \in Cats /\ rows[rows[j].parent].in /\ new[j] = rows[j]
        BY <3>2, <2>1, <1>1, <1>3, RowFields DEF ParentsIn
      <4> QED
        BY <4>1, <1>3, <1>4
    <3> QED
      BY <3>1, <3>2
  <2> QED
    BY <2>1 DEF ParentsIn
<1>7. AbsentIsBlank(new)
  BY <1>1, <1>3, <1>4 DEF AbsentIsBlank
<1>8. ASSUME Acyclic(rows) PROVE Acyclic(new)
  <2>1. ASSUME NEW S \in (SUBSET Cats) \ {{}}, \A x \in S : new[x].parent \in S PROVE FALSE
    <3>1. PICK T : T = S \ {i}
      OBVIOUS
    <3>2. \A x \in T : rows[x].parent \in T
      BY <3>1, <2>1, <1>3, <1>5
    <3>3. T # {} /\ T \in SUBSET Cats
      <4>1. CASE i \in S
        BY <4>1, <3>1, <2>1, <1>4
      <4>2. CASE i \notin S
        BY <4>2, <3>1, <2>1
      <4> QED
        BY <4>1, <4>2
    <3> QED
      BY <3>2, <3>3, <1>8 DEF Acyclic
  <2> QED
    BY <2>1 DEF Acyclic
<1> QED
  BY <1>2, <1>3, <1>6, <1>7, <1>8 DEF Tidy

(* What is written where the plan has the same rows.                       *)
LEMMA ReplacedIs ==
  ASSUME NEW base, Tidy(base), NEW plan \in [Cats -> CatRow]
  PROVE  /\ Tidy(Replaced(base, plan))
         /\ \A i \in Cats : Replaced(base, plan)[i].in = base[i].in
         /\ \A i \in Cats : /\ base[i].in /\ plan[i].in
                            /\ plan[i].parent # NoCat => base[plan[i].parent].in
                            => Replaced(base, plan)[i] = plan[i]
<1>1. base \in [Cats -> CatRow] /\ ParentsIn(base) /\ AbsentIsBlank(base)
  BY DEF Tidy
<1>2. PICK new : new = Replaced(base, plan)
  OBVIOUS
<1>3. ASSUME NEW i \in Cats
      PROVE  /\ new[i] \in CatRow /\ new[i].in = base[i].in
             /\ ~base[i].in => new[i] = base[i]
             /\ new[i].parent # NoCat /\ base[i].in => base[new[i].parent].in
             /\ base[i].in /\ plan[i].in /\ (plan[i].parent # NoCat => base[plan[i].parent].in) => new[i] = plan[i]
  <2>1. PICK r \in CatRow : r = plan[i]
    OBVIOUS
  <2>2. PICK p : p = IF r.parent # NoCat /\ ~base[r.parent].in THEN NoCat ELSE r.parent
    OBVIOUS
  <2>3. p \in 0..MaxCats /\ (p # NoCat => base[p].in)
    BY <2>2, RowFields, CatBounds DEF NoCat
  <2>4. PICK n : n = [r EXCEPT !.parent = p]
    OBVIOUS
  <2>5. n \in CatRow /\ n.in = r.in /\ n.parent = p /\ (p = r.parent => n = r)
    BY <2>3, <2>4 DEF CatRow
  <2>6. n = [plan[i] EXCEPT !.parent = IF @ # NoCat /\ ~base[@].in THEN NoCat ELSE @]
    BY <2>1, <2>2, <2>4
  <2>7. new[i] = IF base[i].in /\ plan[i].in THEN n ELSE base[i]
    BY <1>2, <2>6 DEF Replaced
  <2>8. base[i].in \in BOOLEAN /\ plan[i].in \in BOOLEAN /\ base[i] \in CatRow
    BY <1>1, <2>1, RowFields
  <2>9. base[i].in /\ base[i].parent # NoCat => base[base[i].parent].in
    BY <1>1 DEF ParentsIn
  <2> QED
    BY <2>1, <2>2, <2>3, <2>5, <2>7, <2>8, <2>9
<1>4. new \in [Cats -> CatRow]
  <2>1. new = [i \in Cats |-> new[i]]
    BY <1>2 DEF Replaced
  <2> QED
    BY <2>1, <1>3
<1>5. ParentsIn(new)
  <2>1. ASSUME NEW i \in Cats, new[i].in, new[i].parent # NoCat PROVE new[new[i].parent].in
    <3>1. base[new[i].parent].in
      BY <2>1, <1>3
    <3>2. new[i].parent \in Cats
      BY <2>1, <1>3, RowFields
    <3> QED
      BY <3>1, <3>2, <1>3
  <2> QED
    BY <2>1 DEF ParentsIn
<1>6. AbsentIsBlank(new)
  BY <1>1, <1>3 DEF AbsentIsBlank
<1> QED
  BY <1>2, <1>3, <1>4, <1>5, <1>6 DEF Tidy

(* A nested set speaks of the rows there are.                              *)
LEMMA SameRowsNest ==
  ASSUME NEW a, NEW b, NestedSet(a), \A i \in Cats : b[i].in = a[i].in, \A i \in Cats : a[i].in => b[i] = a[i]
  PROVE  NestedSet(b)
BY DEF NestedSet

(* A rebuild of tidy rows without a cycle is written as it is.             *)
LEMMA WrittenNests ==
  ASSUME NEW base, Tidy(base), Acyclic(base), NEW rows, Tidy(rows),
         \A i \in Cats : rows[i].in = base[i].in /\ rows[i].parent = base[i].parent
  PROVE  NestedSet(Replaced(base, RebuildBounds(rows)))
<1>1. Acyclic(rows)
  BY DEF Acyclic
<1>2. rows \in [Cats -> CatRow]
  BY DEF Tidy
<1>3. PICK plan : plan = RebuildBounds(rows)
  OBVIOUS
<1>4. NestedSet(plan) /\ \A i \in Cats : plan[i].in = rows[i].in
  BY <1>1, <1>3, RebuildNests
<1>5. plan \in [Cats -> CatRow] /\ \A i \in Cats : plan[i].in => plan[i].parent = rows[i].parent
  BY <1>2, <1>3, RebuildWrites
<1>6. PICK new : new = Replaced(base, plan)
  OBVIOUS
<1>7. \A i \in Cats : new[i].in = plan[i].in
  BY <1>4, <1>5, <1>6, ReplacedIs
<1>8. ASSUME NEW i \in Cats, plan[i].in PROVE new[i] = plan[i]
  <2>1. base[i].in /\ plan[i].parent = base[i].parent
    BY <1>4, <1>5, <1>8
  <2>2. plan[i].parent # NoCat => base[plan[i].parent].in
    BY <2>1 DEF Tidy, ParentsIn
  <2> QED
    BY <2>1, <2>2, <1>5, <1>6, <1>8, ReplacedIs
<1> QED
  BY <1>3, <1>4, <1>6, <1>7, <1>8, SameRowsNest

(* The rows after the transaction's own statement, and the rows it         *)
(* rebuilds.                                                               *)
LEMMA BeforeAppliedTidy ==
  ASSUME NEW rows, Tidy(rows), NEW i \in Cats, rows[i].in, NEW p, NEW b
  PROVE  /\ Tidy(ApplyBefore(rows, i, p, b))
         /\ \A j \in Cats : /\ ApplyBefore(rows, i, p, b)[j].in = rows[j].in
                            /\ ApplyBefore(rows, i, p, b)[j].parent = rows[j].parent
<1>1. rows \in [Cats -> CatRow] /\ ParentsIn(rows) /\ AbsentIsBlank(rows)
  BY DEF Tidy
<1>2. PICK a : a = ApplyBefore(rows, i, p, b)
  OBVIOUS
<1>3. rows \in [Cats -> CatRow]
  BY <1>1
<1>4. /\ a \in [Cats -> CatRow]
      /\ \A j \in Cats : /\ a[j].in = rows[j].in /\ a[j].parent = rows[j].parent
                         /\ ~rows[j].in /\ j # i => a[j] = rows[j]
  BY <1>2, <1>3, BeforeApplied
<1>5. ParentsIn(a)
  <2>1. ASSUME NEW j \in Cats, a[j].in, a[j].parent # NoCat PROVE a[a[j].parent].in
    <3>1. rows[j].parent \in Cats /\ rows[rows[j].parent].in
      BY <2>1, <1>1, <1>4, RowFields DEF ParentsIn
    <3> QED
      BY <3>1, <1>4
  <2> QED
    BY <2>1 DEF ParentsIn
<1>6. AbsentIsBlank(a)
  BY <1>1, <1>4 DEF AbsentIsBlank
<1> QED
  BY <1>2, <1>4, <1>5, <1>6 DEF Tidy

(* Whatever the list was, what is planned are rows.                        *)
LEMMA PlansAreRows ==
  ASSUME CatInv, NEW c \in CatCalls, NEW plan \in Planned(c)
  PROVE  plan \in [Cats -> CatRow]
<1>1. PICK q \in CatCall : q = ccall[c]
  BY DEF CatInv, CatTypeOK
<1>2. q.list \in [Cats -> CatRow] /\ q.id \in 0..MaxCats /\ q.parent \in 0..MaxCats
  BY DEF CatCall
<1>3. PICK list \in [Cats -> CatRow] : list = q.list
  BY <1>2
<1>4. q.op \in {"create", "move"} => q.id \in Cats
  BY <1>1 DEF CatInv, CatCallFits
<1>5. CASE q.op = "create"
  <2>1. PICK rows : rows = [list EXCEPT ![q.id] = NewCategory(q.parent)]
    OBVIOUS
  <2>2. rows \in [Cats -> CatRow]
    BY <2>1, <1>2, NewCategoryFits
  <2>3. plan = RebuildBounds(ApplyBefore(rows, q.id, q.parent, q.before))
    BY <2>1, <1>1, <1>3, <1>5 DEF Planned
  <2>4. ApplyBefore(rows, q.id, q.parent, q.before) \in [Cats -> CatRow]
    BY <2>2, <1>4, <1>5, BeforeApplied
  <2> QED
    BY <2>3, <2>4, RebuildWrites
<1>6. CASE q.op = "move"
  <2>1. PICK rows : rows = WithParent(list, q.id, q.parent)
    OBVIOUS
  <2>2. rows \in [Cats -> CatRow]
    BY <2>1, <1>2, <1>4, <1>6, Reparented
  <2>3. plan = RebuildBounds(ApplyBefore(rows, q.id, q.parent, q.before))
    BY <2>1, <1>1, <1>3, <1>6 DEF Planned, WithParent
  <2>4. ApplyBefore(rows, q.id, q.parent, q.before) \in [Cats -> CatRow]
    BY <2>2, <1>4, <1>6, BeforeApplied
  <2> QED
    BY <2>3, <2>4, RebuildWrites
<1>7. CASE q.op \notin {"create", "move"}
  <2>1. plan = RebuildBounds(list)
    BY <1>1, <1>3, <1>7 DEF Planned
  <2> QED
    BY <2>1, RebuildWrites
<1> QED
  BY <1>5, <1>6, <1>7

LEMMA ChangedIsTidy ==
  ASSUME CatInv, NEW c \in CatCalls, Planned(c) # {}
  PROVE  Tidy(Changed(c))
<1>1. PICK q \in CatCall : q = ccall[c]
  BY DEF CatInv, CatTypeOK
<1>2. q.id \in 0..MaxCats /\ q.parent \in 0..MaxCats /\ Tidy(cat)
  BY DEF CatCall, CatInv
<1>3. CatCallFits(q, cat)
  BY <1>1 DEF CatInv
<1>4. CASE q.op = "create"
  <2>1. Changed(c) = WithNew(cat, q.id, q.parent)
    BY <1>1, <1>4 DEF Changed, WithNew
  <2>2. q.parent # NoCat => cat[q.parent].in
    BY <1>1, <1>4 DEF Planned
  <2>3. q.id \in Cats /\ ~cat[q.id].in
    BY <1>3, <1>4 DEF CatCallFits
  <2> QED
    BY <2>1, <2>2, <2>3, <1>2, AddedFits
<1>5. CASE q.op = "move"
  <2>1. Changed(c) = WithParent(cat, q.id, q.parent)
    BY <1>1, <1>5 DEF Changed, WithParent
  <2>2. cat[q.id].in /\ (q.parent # NoCat => cat[q.parent].in)
    BY <1>1, <1>5 DEF Planned
  <2>3. q.id \in Cats
    BY <1>3, <1>5 DEF CatCallFits
  <2> QED
    BY <2>1, <2>2, <2>3, <1>2, ReparentedTidy
<1>6. CASE q.op = "delete"
  <2>1. Changed(c) = Removed(cat, q.id)
    BY <1>1, <1>6 DEF Changed
  <2>2. q.id \in Cats
    BY <1>3, <1>6 DEF CatCallFits
  <2> QED
    BY <2>1, <2>2, <1>2, RemovedFits
<1>7. CASE q.op \notin {"create", "move", "delete"}
  BY <1>1, <1>2, <1>7 DEF Changed
<1> QED
  BY <1>4, <1>5, <1>6, <1>7

(* With a list that is still current the tree that is written is nested.   *)
LEMMA CommitHeals ==
  ASSUME CatInv, NEW c \in CatCalls, CommitTree(c), Current(c), Acyclic(cat)
  PROVE  NestedSet(cat')
<1>1. PICK q \in CatCall : q = ccall[c]
  BY DEF CatInv, CatTypeOK
<1>2. q.id \in 0..MaxCats /\ q.parent \in 0..MaxCats /\ Tidy(cat) /\ cat \in [Cats -> CatRow]
  BY DEF CatCall, CatInv, Tidy
<1>3. CatCallFits(q, cat)
  BY <1>1 DEF CatInv
<1>4. PICK plan \in Planned(c) : cat' = Replaced(Changed(c), plan)
  BY DEF CommitTree
<1>5. PICK base : base = Changed(c)
  OBVIOUS
<1>6. Tidy(base)
  BY <1>4, <1>5, ChangedIsTidy
<1>7. q.list = IF q.op = "delete" THEN Removed(cat, q.id) ELSE cat
  BY <1>1 DEF Current
<1>8. ASSUME NEW rows, Tidy(rows), \A i \in Cats : rows[i].in = base[i].in /\ rows[i].parent = base[i].parent,
             Acyclic(base), plan = RebuildBounds(rows)
      PROVE  NestedSet(cat')
  BY <1>4, <1>5, <1>6, <1>8, WrittenNests
<1>9. CASE q.op = "create"
  <2>1. base = WithNew(cat, q.id, q.parent)
    BY <1>1, <1>5, <1>9 DEF Changed, WithNew
  <2>2. q.parent # NoCat => cat[q.parent].in
    BY <1>1, <1>4, <1>9 DEF Planned
  <2>3. q.id \in Cats /\ ~cat[q.id].in
    BY <1>3, <1>9 DEF CatCallFits
  <2>4. Acyclic(base)
    BY <2>1, <2>2, <2>3, <1>2, AddedFits
  <2>5. plan = RebuildBounds(ApplyBefore(base, q.id, q.parent, q.before))
    BY <2>1, <1>1, <1>4, <1>7, <1>9 DEF Planned, WithNew
  <2>6. base[q.id].in
    BY <2>1, <2>3, <1>2, NewCategoryFits DEF WithNew
  <2>7. PICK rows : rows = ApplyBefore(base, q.id, q.parent, q.before)
    OBVIOUS
  <2>8. Tidy(rows) /\ \A i \in Cats : rows[i].in = base[i].in /\ rows[i].parent = base[i].parent
    BY <2>3, <2>6, <2>7, <1>6, BeforeAppliedTidy
  <2> QED
    BY <2>4, <2>5, <2>7, <2>8, <1>8
<1>10. CASE q.op = "move"
  <2>1. base = WithParent(cat, q.id, q.parent)
    BY <1>1, <1>5, <1>10 DEF Changed, WithParent
  <2>2. cat[q.id].in /\ ~IsDescendant(cat, q.id, q.parent)
    BY <1>1, <1>4, <1>7, <1>10 DEF Planned
  <2>3. q.id \in Cats /\ q.parent # q.id
    BY <1>3, <1>10 DEF CatCallFits
  <2>4. Acyclic(base)
    BY <2>1, <2>2, <2>3, <1>2, ReparentedAcyclic
  <2>5. plan = RebuildBounds(ApplyBefore(base, q.id, q.parent, q.before))
    BY <2>1, <1>1, <1>4, <1>7, <1>10 DEF Planned, WithParent
  <2>6. base[q.id].in
    BY <2>1, <2>2, <2>3, <1>2, Reparented
  <2>7. PICK rows : rows = ApplyBefore(base, q.id, q.parent, q.before)
    OBVIOUS
  <2>8. Tidy(rows) /\ \A i \in Cats : rows[i].in = base[i].in /\ rows[i].parent = base[i].parent
    BY <2>3, <2>6, <2>7, <1>6, BeforeAppliedTidy
  <2> QED
    BY <2>4, <2>5, <2>7, <2>8, <1>8
<1>11. CASE q.op = "delete"
  <2>1. base = Removed(cat, q.id) /\ q.list = base
    BY <1>1, <1>5, <1>7, <1>11 DEF Changed
  <2>2. q.id \in Cats
    BY <1>3, <1>11 DEF CatCallFits
  <2>3. Acyclic(base)
    BY <2>1, <2>2, <1>2, RemovedFits
  <2>4. plan = RebuildBounds(base)
    BY <2>1, <1>1, <1>4, <1>11 DEF Planned
  <2> QED
    BY <2>3, <2>4, <1>6, <1>8
<1>12. CASE q.op \notin {"create", "move", "delete"}
  <2>1. base = cat /\ q.list = base
    BY <1>1, <1>5, <1>7, <1>12 DEF Changed
  <2>2. plan = RebuildBounds(base)
    BY <2>1, <1>1, <1>4, <1>12 DEF Planned
  <2> QED
    BY <2>1, <2>2, <1>6, <1>8
<1> QED
  BY <1>9, <1>10, <1>11, <1>12

-----------------------------------------------------------------------------
(* The invariant holds of the first state and is kept by every step.       *)
LEMMA FirstRow ==
  ASSUME NEW b \in BOOLEAN, NEW p \in 0..MaxCats
  PROVE  /\ RowUnder(b, p) \in CatRow /\ RowUnder(b, p).in = b /\ RowUnder(b, p).parent = p
         /\ ~b /\ p = NoCat => RowUnder(b, p) = NoCatRow
<1>1. PICK r : r = NoCatRow
  OBVIOUS
<1>2. r = [in |-> FALSE, parent |-> 0, lft |-> 0, rgt |-> 0, depth |-> 0, sort |-> 0]
  BY <1>1 DEF NoCatRow
<1>3. PICK n : n = [r EXCEPT !.in = b, !.parent = p]
  OBVIOUS
<1>4. n = [in |-> b, parent |-> p, lft |-> 0, rgt |-> 0, depth |-> 0, sort |-> 0]
  BY <1>2, <1>3
<1>5. n \in CatRow /\ n.in = b /\ n.parent = p
  BY <1>4 DEF CatRow
<1>6. ~b /\ p = NoCat => n = r
  BY <1>2, <1>4 DEF NoCat
<1>7. RowUnder(b, p) = n
  BY <1>1, <1>3 DEF RowUnder
<1> QED
  BY <1>1, <1>5, <1>6, <1>7

LEMMA NoCallTyped == NoCatCall \in CatCall /\ NoCatCall.pc = "idle" /\ NoCatCall.op = "none" /\ NoCatCall.id = 0 /\ NoCatCall.parent = 0
<1>1. PICK list : list = [i \in Cats |-> NoCatRow]
  OBVIOUS
<1>2. list \in [Cats -> CatRow]
  BY <1>1, BlankRow
<1>3. NoCatCall = [pc |-> "idle", op |-> "none", id |-> 0, parent |-> 0, before |-> 0, list |-> list]
  BY <1>1 DEF NoCatCall
<1> QED
  BY <1>2, <1>3, CatBounds DEF CatCall

LEMMA CatInitHolds == CatInit => CatInv
<1> SUFFICES ASSUME CatInit PROVE CatInv
  OBVIOUS
<1>1. PICK present \in SUBSET Cats, parent \in [Cats -> 0..MaxCats] :
        /\ \A i \in Cats : parent[i] # NoCat => {i, parent[i]} \subseteq present
        /\ Acyclic(RowsUnder(present, parent)) /\ cat = RebuildBounds(RowsUnder(present, parent))
  BY DEF CatInit
<1>2. PICK rows : rows = RowsUnder(present, parent)
  OBVIOUS
<1>3. /\ \A i \in Cats : parent[i] # NoCat => i \in present /\ parent[i] \in present
      /\ Acyclic(rows) /\ cat = RebuildBounds(rows)
  BY <1>1, <1>2
<1>4. ASSUME NEW i \in Cats
      PROVE  /\ rows[i] \in CatRow /\ rows[i].in = (i \in present) /\ rows[i].parent = parent[i]
             /\ ~(i \in present) /\ parent[i] = NoCat => rows[i] = NoCatRow
  <2>1. PICK b : b = (i \in present)
    OBVIOUS
  <2>2. b \in BOOLEAN /\ parent[i] \in 0..MaxCats
    BY <2>1
  <2>3. rows[i] = RowUnder(b, parent[i])
    BY <1>2, <2>1 DEF RowsUnder
  <2>4. /\ rows[i] \in CatRow /\ rows[i].in = b /\ rows[i].parent = parent[i]
        /\ ~b /\ parent[i] = NoCat => rows[i] = NoCatRow
    BY <2>2, <2>3, FirstRow
  <2> QED
    BY <2>1, <2>4
<1>5. rows \in [Cats -> CatRow]
  <2>1. DOMAIN rows = Cats /\ rows = [i \in Cats |-> rows[i]]
    BY <1>2 DEF RowsUnder
  <2> QED
    BY <2>1, <1>4
<1>6. ParentsIn(rows)
  <2>1. ASSUME NEW i \in Cats, rows[i].parent # NoCat PROVE rows[rows[i].parent].in
    <3>1. parent[i] \in present /\ rows[i].parent = parent[i]
      BY <2>1, <1>3, <1>4
    <3> QED
      BY <3>1, <1>4
  <2> QED
    BY <2>1 DEF ParentsIn
<1>7. AbsentIsBlank(rows)
  BY <1>3, <1>4 DEF AbsentIsBlank
<1>8. Tidy(rows)
  BY <1>5, <1>6, <1>7 DEF Tidy
<1>9. cat \in [Cats -> CatRow] /\ AbsentIsBlank(cat) /\ \A i \in Cats : cat[i].in => cat[i].parent = rows[i].parent
  BY <1>3, <1>5, RebuildWrites
<1>10. \A i \in Cats : cat[i].in = rows[i].in
  BY <1>3, <1>8, RebuildNests
<1>11. ParentsIn(cat)
  <2>1. ASSUME NEW i \in Cats, cat[i].in, cat[i].parent # NoCat PROVE cat[cat[i].parent].in
    <3>1. cat[i].parent = rows[i].parent /\ rows[i].in /\ rows[i].parent \in Cats
      BY <2>1, <1>5, <1>9, <1>10, RowFields
    <3> QED
      BY <3>1, <2>1, <1>6, <1>10 DEF ParentsIn
  <2> QED
    BY <2>1 DEF ParentsIn
<1>12. Tidy(cat)
  BY <1>9, <1>11 DEF Tidy
<1>13. /\ filed = {} /\ ccall = [c \in CatCalls |-> NoCatCall] /\ catOps = 0
  BY DEF CatInit
<1>14. CatTypeOK
  BY <1>9, <1>13, NoCallTyped, CatBounds DEF CatTypeOK
<1>15. \A c \in CatCalls : ccall[c].op = "none" /\ ccall[c].pc = "idle"
  BY <1>13, NoCallTyped
<1> QED
  BY <1>12, <1>14, <1>15 DEF CatInv, CreatesApart, CatCallFits

(* A step of one request: the others keep theirs, and what the request     *)
(* becomes fits the rows.                                                  *)
LEMMA CallStep ==
  ASSUME CatInv, NEW c \in CatCalls, NEW q \in CatCall, ccall' = [ccall EXCEPT ![c] = q],
         Tidy(cat'), CatCallFits(q, cat'),
         filed' \subseteq Cats, catOps' \in 0..MaxCatOps,
         \A d \in CatCalls \ {c} : /\ ccall[d].op = "create" => ~cat'[ccall[d].id].in
                                   /\ ccall[d].op = "create" /\ q.op = "create" => ccall[d].id # q.id
  PROVE  CatInv'
<1>1. ccall \in [CatCalls -> CatCall]
  BY DEF CatInv, CatTypeOK
<1>2. ccall' \in [CatCalls -> CatCall] /\ ccall'[c] = q /\ \A d \in CatCalls \ {c} : ccall'[d] = ccall[d]
  BY <1>1
<1>3. CatTypeOK'
  BY <1>2 DEF CatTypeOK, Tidy
<1>4. CreatesApart'
  <2>1. SUFFICES ASSUME NEW a \in CatCalls, NEW b \in CatCalls, a # b, ccall'[a].op = "create", ccall'[b].op = "create"
                 PROVE  ccall'[a].id # ccall'[b].id
    BY DEF CreatesApart
  <2>2. CASE a = c
    <3>1. b \in CatCalls \ {c} /\ ccall'[b] = ccall[b] /\ ccall'[a] = q
      BY <1>2, <2>1, <2>2
    <3> QED
      BY <3>1, <2>1
  <2>3. CASE b = c
    <3>1. a \in CatCalls \ {c} /\ ccall'[a] = ccall[a] /\ ccall'[b] = q
      BY <1>2, <2>1, <2>3
    <3> QED
      BY <3>1, <2>1
  <2>4. CASE a # c /\ b # c
    BY <1>2, <2>1, <2>4 DEF CatInv, CreatesApart
  <2> QED
    BY <2>2, <2>3, <2>4
<1>5. ASSUME NEW d \in CatCalls PROVE CatCallFits(ccall'[d], cat')
  <2>1. CASE d = c
    BY <1>2, <2>1
  <2>2. CASE d # c
    <3>1. ccall'[d] = ccall[d] /\ CatCallFits(ccall[d], cat)
      BY <1>2, <2>2 DEF CatInv
    <3>2. ccall[d].op = "create" => ~cat'[ccall[d].id].in
      BY <2>2
    <3> QED
      BY <3>1, <3>2 DEF CatCallFits
  <2> QED
    BY <2>1, <2>2
<1>6. \A d \in CatCalls : CatCallFits(ccall[d], cat)'
  BY <1>5
<1>7. Tidy(cat)'
  OBVIOUS
<1> QED
  BY <1>3, <1>4, <1>6, <1>7 DEF CatInv

(* A request that ends while the other creators' ids stay free.            *)
LEMMA CallEnds ==
  ASSUME CatInv, NEW c \in CatCalls, ccall' = [ccall EXCEPT ![c] = NoCatCall], Tidy(cat'),
         filed' \subseteq Cats, catOps' \in 0..MaxCatOps,
         \A d \in CatCalls \ {c} : ccall[d].op = "create" => ~cat'[ccall[d].id].in
  PROVE  CatInv'
<1>1. PICK q : q = NoCatCall
  OBVIOUS
<1>2. q \in CatCall /\ q.op = "none" /\ q.pc = "idle" /\ CatCallFits(q, cat')
  BY <1>1, NoCallTyped DEF CatCallFits
<1> QED
  BY <1>1, <1>2, CallStep

(* A new request.                                                          *)
LEMMA StartKeeps ==
  ASSUME CatInv, NEW c \in CatCalls, NEW op \in {"create", "delete", "move", "rebuild"},
         NEW i \in 0..MaxCats, NEW p \in 0..MaxCats, NEW b \in 0..MaxCats,
         StartCat(c, op, i, p, b), UNCHANGED <<cat, filed>>,
         op # "rebuild" => i \in Cats, op = "move" => p # i,
         op = "create" => ~cat[i].in /\ \A d \in CatCalls : ccall[d].id # i
  PROVE  CatInv'
<1>1. PICK n : n = NoCatCall
  OBVIOUS
<1>2. PICK list : list = [j \in Cats |-> NoCatRow]
  OBVIOUS
<1>3. n = [pc |-> "idle", op |-> "none", id |-> 0, parent |-> 0, before |-> 0, list |-> list]
  BY <1>1, <1>2 DEF NoCatCall
<1>4. PICK q : q = [n EXCEPT !.pc = "checked", !.op = op, !.id = i, !.parent = p, !.before = b]
  OBVIOUS
<1>5. q = [pc |-> "checked", op |-> op, id |-> i, parent |-> p, before |-> b, list |-> list]
  BY <1>3, <1>4
<1>6. list \in [Cats -> CatRow]
  BY <1>2, BlankRow
<1>7. q \in CatCall /\ q.pc = "checked" /\ q.op = op /\ q.id = i /\ q.parent = p
  BY <1>5, <1>6 DEF CatCall
<1>8. /\ ccall' = [ccall EXCEPT ![c] = q] /\ catOps' = catOps + 1 /\ catOps < MaxCatOps
      /\ cat' = cat /\ filed' = filed
  BY <1>1, <1>4 DEF StartCat
<1>9. catOps' \in 0..MaxCatOps
  BY <1>8, CatBounds, CategoriesAssumption DEF CatInv, CatTypeOK
<1>10. filed' \subseteq Cats /\ Tidy(cat')
  BY <1>8 DEF CatInv, CatTypeOK
<1>11. CatCallFits(q, cat')
  BY <1>7, <1>8 DEF CatCallFits
<1>12. ASSUME NEW d \in CatCalls \ {c}
       PROVE  /\ ccall[d].op = "create" => ~cat'[ccall[d].id].in
              /\ ccall[d].op = "create" /\ q.op = "create" => ccall[d].id # q.id
  BY <1>7, <1>8 DEF CatInv, CatCallFits
<1> QED
  BY <1>7, <1>8, <1>9, <1>10, <1>11, <1>12, CallStep

(* Create, Move, Delete and RebuildAll, up to the transaction.             *)
LEMMA StartsKeep ==
  ASSUME CatInv, NEW c \in CatCalls,
         CreateCategory(c) \/ MoveCategory(c) \/ DeleteCategory(c) \/ RebuildAll(c)
  PROVE  CatInv'
<1>1. 0 \in 0..MaxCats /\ \A i \in Cats : i \in 0..MaxCats
  BY CatBounds DEF Cats
<1>2. CASE CreateCategory(c)
  <2>1. PICK i \in Cats, p \in 0..MaxCats, b \in 0..MaxCats :
          ~cat[i].in /\ (\A d \in CatCalls : ccall[d].id # i) /\ StartCat(c, "create", i, p, b)
    BY <1>2 DEF CreateCategory
  <2>2. UNCHANGED <<cat, filed>>
    BY <1>2 DEF CreateCategory
  <2> QED
    BY <2>1, <2>2, <1>1, StartKeeps
<1>3. CASE MoveCategory(c)
  <2>1. PICK i \in Cats, p \in 0..MaxCats, b \in 0..MaxCats : p # i /\ StartCat(c, "move", i, p, b)
    BY <1>3 DEF MoveCategory
  <2>2. UNCHANGED <<cat, filed>>
    BY <1>3 DEF MoveCategory
  <2> QED
    BY <2>1, <2>2, <1>1, StartKeeps
<1>4. CASE DeleteCategory(c)
  <2>1. PICK i \in Cats : StartCat(c, "delete", i, 0, 0)
    BY <1>4 DEF DeleteCategory
  <2>2. UNCHANGED <<cat, filed>>
    BY <1>4 DEF DeleteCategory
  <2> QED
    BY <2>1, <2>2, <1>1, StartKeeps
<1>5. CASE RebuildAll(c)
  BY <1>1, <1>5, StartKeeps DEF RebuildAll
<1> QED
  BY <1>2, <1>3, <1>4, <1>5

(* The list that the transaction reads.                                    *)
LEMMA ListKeeps ==
  ASSUME CatInv, NEW c \in CatCalls, ListCategories(c)
  PROVE  CatInv'
<1>1. PICK q \in CatCall : q = ccall[c]
  BY DEF CatInv, CatTypeOK
<1>2. PICK list : list = IF q.op = "delete" THEN Removed(cat, q.id) ELSE cat
  OBVIOUS
<1>3. Tidy(cat) /\ CatCallFits(q, cat)
  BY <1>1 DEF CatInv
<1>4. list \in [Cats -> CatRow]
  <2>1. CASE q.op = "delete"
    BY <2>1, <1>2, <1>3, RemovedFits DEF CatCallFits, Tidy
  <2>2. CASE q.op # "delete"
    BY <2>2, <1>2, <1>3 DEF Tidy
  <2> QED
    BY <2>1, <2>2
<1>5. PICK n : n = [q EXCEPT !.pc = "listed", !.list = list]
  OBVIOUS
<1>6. n \in CatCall /\ n.pc = "listed" /\ n.op = q.op /\ n.id = q.id /\ n.parent = q.parent
  BY <1>4, <1>5 DEF CatCall
<1>7. /\ ccall' = [ccall EXCEPT ![c].pc = "listed",
                     ![c].list = IF ccall[c].op = "delete" THEN Removed(cat, ccall[c].id) ELSE cat]
      /\ cat' = cat /\ filed' = filed /\ catOps' = catOps
  BY DEF ListCategories
<1>8. ccall' = [ccall EXCEPT ![c].pc = "listed", ![c].list = list]
  BY <1>1, <1>2, <1>7
<1>9. ccall \in [CatCalls -> CatCall]
  BY DEF CatInv, CatTypeOK
<1>10. ccall' = [ccall EXCEPT ![c] = n]
  BY <1>1, <1>5, <1>8, <1>9
<1>11. Tidy(cat') /\ CatCallFits(n, cat')
  BY <1>3, <1>6, <1>7 DEF CatCallFits
<1>12. filed' \subseteq Cats /\ catOps' \in 0..MaxCatOps
  BY <1>7 DEF CatInv, CatTypeOK
<1>13. ASSUME NEW d \in CatCalls \ {c}
       PROVE  /\ ccall[d].op = "create" => ~cat'[ccall[d].id].in
              /\ ccall[d].op = "create" /\ n.op = "create" => ccall[d].id # n.id
  <2>1. ccall[d].op = "create" => ~cat'[ccall[d].id].in
    BY <1>7 DEF CatInv, CatCallFits
  <2>2. ccall[d].op = "create" /\ ccall[c].op = "create" => ccall[d].id # ccall[c].id
    BY <1>13 DEF CatInv, CreatesApart
  <2> QED
    BY <2>1, <2>2, <1>1, <1>6
<1> QED
  BY <1>6, <1>10, <1>11, <1>12, <1>13, CallStep

(* The transaction that writes the tree: only a create adds a row, and no  *)
(* other request creates under its id.                                     *)
LEMMA CommitKeeps ==
  ASSUME CatInv, NEW c \in CatCalls, CommitTree(c)
  PROVE  CatInv'
<1>1. PICK q \in CatCall : q = ccall[c]
  BY DEF CatInv, CatTypeOK
<1>2. q.id \in 0..MaxCats /\ q.parent \in 0..MaxCats /\ Tidy(cat) /\ cat \in [Cats -> CatRow]
  BY DEF CatCall, CatInv, Tidy
<1>3. CatCallFits(q, cat)
  BY <1>1 DEF CatInv
<1>4. PICK plan \in Planned(c) : cat' = Replaced(Changed(c), plan)
  BY DEF CommitTree
<1>5. PICK base : base = Changed(c)
  OBVIOUS
<1>6. Tidy(base)
  BY <1>4, <1>5, ChangedIsTidy
<1>7. plan \in [Cats -> CatRow]
  BY <1>4, PlansAreRows
<1>8. Tidy(cat') /\ \A i \in Cats : cat'[i].in = base[i].in
  BY <1>4, <1>5, <1>6, <1>7, ReplacedIs
<1>9. ASSUME NEW d \in CatCalls \ {c}, ccall[d].op = "create" PROVE ~cat'[ccall[d].id].in
  <2>1. PICK x : x = ccall[d].id
    OBVIOUS
  <2>2. x \in Cats /\ ~cat[x].in
    BY <1>9, <2>1 DEF CatInv, CatCallFits
  <2>3. CASE q.op = "create"
    <3>1. x # q.id
      BY <1>1, <1>9, <2>1, <2>3 DEF CatInv, CreatesApart
    <3>2. base = WithNew(cat, q.id, q.parent)
      BY <1>1, <1>5, <2>3 DEF Changed, WithNew
    <3>3. base[x] = cat[x]
      BY <3>1, <3>2, <2>2, <1>2 DEF WithNew
    <3> QED
      BY <3>3, <2>1, <2>2, <1>8
  <2>4. CASE q.op = "move"
    <3>1. base = WithParent(cat, q.id, q.parent) /\ q.id \in Cats
      BY <1>1, <1>3, <1>5, <2>4 DEF Changed, WithParent, CatCallFits
    <3>2. /\ base[q.id].in <=> cat[q.id].in
          /\ \A j \in Cats \ {q.id} : base[j] = cat[j]
      BY <3>1, <1>2, Reparented
    <3>3. base[x].in <=> cat[x].in
      BY <3>2, <2>2
    <3> QED
      BY <3>3, <2>1, <2>2, <1>8
  <2>5. CASE q.op = "delete"
    <3>1. base = Removed(cat, q.id)
      BY <1>1, <1>5, <2>5 DEF Changed
    <3>2. cat[x] = NoCatRow
      BY <2>2, <1>2 DEF Tidy, AbsentIsBlank
    <3>3. base[x].in => cat[x].in
      <4>1. base[x] = IF x = q.id THEN NoCatRow
                      ELSE IF cat[x].parent = q.id THEN [cat[x] EXCEPT !.parent = NoCat] ELSE cat[x]
        BY <3>1, <2>2 DEF Removed
      <4>2. PICK r \in CatRow : r = cat[x]
        BY <2>2, <1>2
      <4>3. [r EXCEPT !.parent = NoCat].in <=> r.in
        BY DEF CatRow
      <4>4. [cat[x] EXCEPT !.parent = NoCat].in <=> cat[x].in
        BY <4>2, <4>3
      <4> QED
        BY <4>1, <4>4, <3>2
    <3> QED
      BY <3>3, <2>1, <2>2, <1>8
  <2>6. CASE q.op \notin {"create", "move", "delete"}
    <3>1. base = cat
      BY <1>1, <1>5, <2>6 DEF Changed
    <3> QED
      BY <3>1, <2>1, <2>2, <1>8
  <2> QED
    BY <2>3, <2>4, <2>5, <2>6
<1>10. ccall' = [ccall EXCEPT ![c] = NoCatCall] /\ catOps' = catOps
  BY DEF CommitTree
<1>11. filed' \subseteq Cats /\ catOps' \in 0..MaxCatOps
  <2>1. filed' \subseteq filed
    BY DEF CommitTree
  <2> QED
    BY <2>1, <1>10 DEF CatInv, CatTypeOK
<1> QED
  BY <1>8, <1>9, <1>10, <1>11, CallEnds

(* Update, read and written back.                                          *)
LEMMA ReadKeeps ==
  ASSUME CatInv, NEW c \in CatCalls, ReadForUpdate(c)
  PROVE  CatInv'
<1>1. PICK i \in Cats : ccall' = [ccall EXCEPT ![c] = [NoCatCall EXCEPT !.pc = "read", !.op = "update", !.id = i, !.parent = cat[i].parent]]
  BY DEF ReadForUpdate
<1>2. cat' = cat /\ filed' = filed /\ catOps' = catOps + 1 /\ catOps < MaxCatOps
  BY DEF ReadForUpdate
<1>3. PICK n : n = NoCatCall
  OBVIOUS
<1>4. PICK list : list = [j \in Cats |-> NoCatRow]
  OBVIOUS
<1>5. n = [pc |-> "idle", op |-> "none", id |-> 0, parent |-> 0, before |-> 0, list |-> list]
  BY <1>3, <1>4 DEF NoCatCall
<1>6. PICK q : q = [n EXCEPT !.pc = "read", !.op = "update", !.id = i, !.parent = cat[i].parent]
  OBVIOUS
<1>7. q = [pc |-> "read", op |-> "update", id |-> i, parent |-> cat[i].parent, before |-> 0, list |-> list]
  BY <1>5, <1>6
<1>8. list \in [Cats -> CatRow]
  BY <1>4, BlankRow
<1>9. cat[i].parent \in 0..MaxCats /\ i \in 0..MaxCats /\ 0 \in 0..MaxCats
  BY CatBounds, RowFields DEF CatInv, CatTypeOK, Cats
<1>10. q \in CatCall /\ q.op = "update" /\ q.id = i
  BY <1>7, <1>8, <1>9 DEF CatCall
<1>11. ccall' = [ccall EXCEPT ![c] = q]
  BY <1>1, <1>3, <1>6
<1>12. filed' \subseteq Cats /\ Tidy(cat') /\ catOps' \in 0..MaxCatOps
  BY <1>2, CatBounds DEF CatInv, CatTypeOK
<1>13. CatCallFits(q, cat')
  BY <1>10 DEF CatCallFits
<1>14. ASSUME NEW d \in CatCalls \ {c}
       PROVE  /\ ccall[d].op = "create" => ~cat'[ccall[d].id].in
              /\ ccall[d].op = "create" /\ q.op = "create" => ccall[d].id # q.id
  BY <1>2, <1>10 DEF CatInv, CatCallFits
<1> QED
  BY <1>10, <1>11, <1>12, <1>13, <1>14, CallStep

(* Only a category in the tree is read, but it may be gone when Update     *)
(* writes.                                                                 *)
LEMMA UpdateKeeps ==
  ASSUME CatInv, NEW c \in CatCalls, UpdateCategory(c)
  PROVE  CatInv'
<1>1. PICK i, p : i = ccall[c].id /\ p = ccall[c].parent
  OBVIOUS
<1>2. i \in Cats /\ p \in 0..MaxCats /\ Tidy(cat) /\ cat \in [Cats -> CatRow]
  BY <1>1 DEF CatInv, CatTypeOK, CatCall, CatCallFits, Tidy, UpdateCategory
<1>3. cat' = IF cat[i].in /\ (p # NoCat => cat[p].in) THEN [cat EXCEPT ![i].parent = p] ELSE cat
  BY <1>1 DEF UpdateCategory
<1>4. cat' = IF cat[i].in /\ (p # NoCat => cat[p].in) THEN WithParent(cat, i, p) ELSE cat
  BY <1>3 DEF WithParent
<1>5. Tidy(cat')
  BY <1>2, <1>4, ReparentedTidy
<1>6. \A j \in Cats : cat'[j].in <=> cat[j].in
  <2>1. CASE cat[i].in /\ (p # NoCat => cat[p].in)
    <3>1. /\ cat' = WithParent(cat, i, p)
          /\ cat'[i].in <=> cat[i].in
          /\ \A j \in Cats \ {i} : cat'[j] = cat[j]
      BY <2>1, <1>2, <1>4, Reparented
    <3> QED
      BY <3>1
  <2>2. CASE ~(cat[i].in /\ (p # NoCat => cat[p].in))
    BY <2>2, <1>4
  <2> QED
    BY <2>1, <2>2
<1>7. /\ ccall' = [ccall EXCEPT ![c] = NoCatCall] /\ filed' = filed /\ catOps' = catOps
  BY DEF UpdateCategory
<1>8. filed' \subseteq Cats /\ catOps' \in 0..MaxCatOps
  BY <1>7 DEF CatInv, CatTypeOK
<1>9. \A d \in CatCalls \ {c} : ccall[d].op = "create" => ~cat'[ccall[d].id].in
  BY <1>6 DEF CatInv, CatCallFits
<1> QED
  BY <1>5, <1>7, <1>8, <1>9, CallEnds

LEMMA FailKeeps ==
  ASSUME CatInv, NEW c \in CatCalls, CatCallFails(c)
  PROVE  CatInv'
<1>1. /\ ccall' = [ccall EXCEPT ![c] = NoCatCall] /\ cat' = cat /\ filed' = filed /\ catOps' = catOps
  BY DEF CatCallFails
<1>2. Tidy(cat') /\ filed' \subseteq Cats /\ catOps' \in 0..MaxCatOps
  BY <1>1 DEF CatInv, CatTypeOK
<1>3. \A d \in CatCalls \ {c} : ccall[d].op = "create" => ~cat'[ccall[d].id].in
  BY <1>1 DEF CatInv, CatCallFits
<1> QED
  BY <1>1, <1>2, <1>3, CallEnds

LEMMA CatNextHolds == CatInv /\ [CatNext]_catVars => CatInv'
<1> SUFFICES ASSUME CatInv, [CatNext]_catVars PROVE CatInv'
  OBVIOUS
<1>1. CASE UNCHANGED catVars
  BY <1>1 DEF catVars, CatInv, CatTypeOK, CreatesApart
<1>2. ASSUME NEW c \in CatCalls,
             \/ CreateCategory(c) \/ MoveCategory(c) \/ DeleteCategory(c) \/ RebuildAll(c)
             \/ ListCategories(c) \/ CommitTree(c) \/ ReadForUpdate(c) \/ UpdateCategory(c) \/ CatCallFails(c)
      PROVE  CatInv'
  BY <1>2, StartsKeep, ListKeeps, CommitKeeps, ReadKeeps, UpdateKeeps, FailKeeps
<1>3. ASSUME NEW i \in Cats, FilePost(i) PROVE CatInv'
  <2>1. cat' = cat /\ ccall' = ccall /\ filed' \subseteq Cats /\ catOps' \in 0..MaxCatOps
    BY <1>3, CatBounds DEF FilePost, CatInv, CatTypeOK
  <2> QED
    BY <2>1 DEF CatInv, CatTypeOK, CreatesApart
<1> QED
  BY <1>1, <1>2, <1>3 DEF CatNext

(* The category tree keeps its types, and every change of the tree made    *)
(* from a list that is still current writes proper nested-set bounds,      *)
(* whatever the bounds were before (Create, Move, Delete, RebuildAll over  *)
(* rebuildBounds, applyBefore and isDescendant).                           *)
THEOREM CategoriesHeal == CatSpec => CategoriesCorrect
<1>1. CatInv => CatTypeOK
  BY DEF CatInv
<1>2. CatInv /\ [CatNext]_catVars
      => [\A c \in CatCalls : CommitTree(c) /\ Current(c) /\ Acyclic(cat) => NestedSet(cat')]_catVars
  BY CommitHeals
<1> QED
  BY <1>1, <1>2, CatInitHolds, CatNextHolds, PTL DEF CatSpec, CategoriesCorrect, RebuildHeals
=============================================================================
