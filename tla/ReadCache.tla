----------------------------- MODULE ReadCache ------------------------------
(***************************************************************************)
(* The read cache of the public endpoints: readcache.Through over the      *)
(* Redis adapter (core/readcache/readcache.go,                             *)
(* adapters/outbound/cache/redis.go).  One family and one key of it: the   *)
(* families share nothing, and the keys of a family share its generation.  *)
(*                                                                         *)
(* A value is the number of the database version it was loaded from.  A    *)
(* command to Redis is one step; the two commands of Invalidate travel in  *)
(* one pipeline and are one step.                                          *)
(***************************************************************************)
EXTENDS Naturals

CONSTANTS Readers,      \* requests that read through the cache
          Writers,      \* requests that write and then invalidate
          MaxVersion,   \* bound: versions of the data
          MaxGen        \* bound: generation numbers

ASSUME CacheAssumption == MaxVersion \in Nat \ {0} /\ MaxGen \in Nat

VARIABLES version,   \* the version committed in the database
          gen,       \* the family's generation key, 0: missing
          used,      \* the newest generation number handed out: the clock
          entry,     \* entry[g]: the value stored under generation g, 0: none
          reader,    \* the reads under way
          writer,    \* the version each writer committed and not invalidated
          floor,     \* history: newest version whose write was invalidated
          floorOf    \* history: the floor when generation g began

vars == <<version, gen, used, entry, reader, writer, floor, floorOf>>

Gens == 1..MaxGen
Versions == 1..MaxVersion

Idle == [pc |-> "idle", g |-> 0, since |-> 0, got |-> 0]

(* g is the generation Get saw, 0 when nothing may be stored (fill = nil). *)
Read == [pc : {"idle", "generation", "seed", "again", "lookup", "load", "fill", "done"},
         g : 0..MaxGen, since : 0..MaxVersion, got : 0..MaxVersion]

TypeOK ==
  /\ version \in Versions
  /\ gen \in 0..MaxGen
  /\ used \in 0..MaxGen
  /\ entry \in [Gens -> 0..MaxVersion]
  /\ reader \in [Readers -> Read]
  /\ writer \in [Writers -> 0..MaxVersion]
  /\ floor \in Versions
  /\ floorOf \in [Gens -> 0..MaxVersion]

Init ==
  /\ version = 1
  /\ gen = 0
  /\ used = 0
  /\ entry = [g \in Gens |-> 0]
  /\ reader = [r \in Readers |-> Idle]
  /\ writer = [w \in Writers |-> 0]
  /\ floor = 1
  /\ floorOf = [g \in Gens |-> 0]

-----------------------------------------------------------------------------
(* seed: the clock in nanoseconds, above every number handed out before,   *)
(* for the n numbers taken from it.                                        *)
Seed(n) == used + n

(* Through: the read begins with the generation lookup of Get.             *)
Through(r) ==
  /\ reader[r].pc = "idle"
  /\ reader' = [reader EXCEPT ![r] = [pc |-> "generation", g |-> 0, since |-> floor, got |-> 0]]
  /\ UNCHANGED <<version, gen, used, entry, writer, floor, floorOf>>

(* generation: GET of the family's key.                                    *)
Generation(r) ==
  /\ reader[r].pc \in {"generation", "again"}
  /\ gen # 0
  /\ reader' = [reader EXCEPT ![r].pc = "lookup", ![r].g = gen]
  /\ UNCHANGED <<version, gen, used, entry, writer, floor, floorOf>>

GenerationMissing(r) ==
  /\ reader[r].pc = "generation"
  /\ gen = 0
  /\ reader' = [reader EXCEPT ![r].pc = "seed"]
  /\ UNCHANGED <<version, gen, used, entry, writer, floor, floorOf>>

(* The family moves to generation g, while the floor is f.                 *)
Begins(g, f) ==
  /\ gen' = g
  /\ used' = IF g > used THEN g ELSE used
  /\ floorOf' = [floorOf EXCEPT ![g] = f]

(* SETNX of a seed, which another request may have done meanwhile.         *)
SeedGeneration(r) ==
  /\ reader[r].pc = "seed"
  /\ reader' = [reader EXCEPT ![r].pc = "again"]
  /\ IF gen = 0 THEN Seed(1) \in Gens /\ Begins(Seed(1), floor) ELSE UNCHANGED <<gen, used, floorOf>>
  /\ UNCHANGED <<version, entry, writer, floor>>

(* GET of the entry: a hit answers the read.                               *)
Hit(r) ==
  /\ reader[r].pc = "lookup"
  /\ entry[reader[r].g] # 0
  /\ reader' = [reader EXCEPT ![r].pc = "done", ![r].got = entry[reader[r].g]]
  /\ UNCHANGED <<version, gen, used, entry, writer, floor, floorOf>>

Miss(r) ==
  /\ reader[r].pc = "lookup"
  /\ entry[reader[r].g] = 0
  /\ reader' = [reader EXCEPT ![r].pc = "load"]
  /\ UNCHANGED <<version, gen, used, entry, writer, floor, floorOf>>

(* The cache fails open: an error of Redis in Get, or a generation key     *)
(* lost again after the seed, is a miss that stores nothing.               *)
FailOpen(r) ==
  /\ reader[r].pc \in {"generation", "seed", "again", "lookup"}
  /\ reader' = [reader EXCEPT ![r].pc = "load", ![r].g = 0]
  /\ UNCHANGED <<version, gen, used, entry, writer, floor, floorOf>>

(* load reads the database.                                                *)
Load(r) ==
  /\ reader[r].pc = "load"
  /\ reader' = [reader EXCEPT ![r].pc = IF reader[r].g = 0 THEN "done" ELSE "fill", ![r].got = version]
  /\ UNCHANGED <<version, gen, used, entry, writer, floor, floorOf>>

(* Mutant of Fill: SET under the generation that is current by now.        *)
FillCurrentGeneration(r) ==
  /\ reader[r].pc = "fill"
  /\ gen # 0
  /\ entry' = [entry EXCEPT ![gen] = reader[r].got]
  /\ reader' = [reader EXCEPT ![r].pc = "done"]
  /\ UNCHANGED <<version, gen, used, writer, floor, floorOf>>

(* fill: SET under the generation Get saw.                                 *)
Fill(r) ==
  /\ reader[r].pc = "fill"
  /\ entry' = [entry EXCEPT ![reader[r].g] = reader[r].got]
  /\ reader' = [reader EXCEPT ![r].pc = "done"]
  /\ UNCHANGED <<version, gen, used, writer, floor, floorOf>>

FillFails(r) ==
  /\ reader[r].pc = "fill"
  /\ reader' = [reader EXCEPT ![r].pc = "done"]
  /\ UNCHANGED <<version, gen, used, entry, writer, floor, floorOf>>

Return(r) ==
  /\ reader[r].pc = "done"
  /\ reader' = [reader EXCEPT ![r] = Idle]
  /\ UNCHANGED <<version, gen, used, entry, writer, floor, floorOf>>

-----------------------------------------------------------------------------
(* A service commits a write and then calls readcache.Invalidate.          *)
Commit(w) ==
  /\ writer[w] = 0
  /\ version < MaxVersion
  /\ version' = version + 1
  /\ writer' = [writer EXCEPT ![w] = version + 1]
  /\ UNCHANGED <<gen, used, entry, reader, floor, floorOf>>

NewFloor(w) == IF writer[w] > floor THEN writer[w] ELSE floor

(* SETNX and INCR of the family's key.                                     *)
NextGeneration == IF gen = 0 THEN Seed(1) + 1 ELSE gen + 1

Invalidate(w) ==
  /\ writer[w] # 0
  /\ NextGeneration \in Gens
  /\ Begins(NextGeneration, NewFloor(w))
  /\ floor' = NewFloor(w)
  /\ writer' = [writer EXCEPT ![w] = 0]
  /\ UNCHANGED <<version, entry, reader>>

(* Redis does not answer, or the process dies after the commit: the        *)
(* entries stay until their TTL.                                           *)
InvalidateFails(w) ==
  /\ writer[w] # 0
  /\ writer' = [writer EXCEPT ![w] = 0]
  /\ UNCHANGED <<version, gen, used, entry, reader, floor, floorOf>>

-----------------------------------------------------------------------------
(* Redis: an entry's TTL ends or it is evicted; the generation key is      *)
(* evicted, or flushed together with the entries.                          *)
Expire(g) ==
  /\ entry[g] # 0
  /\ entry' = [entry EXCEPT ![g] = 0]
  /\ UNCHANGED <<version, gen, used, reader, writer, floor, floorOf>>

LoseGeneration ==
  /\ gen # 0
  /\ gen' = 0
  /\ UNCHANGED <<version, used, entry, reader, writer, floor, floorOf>>

Next ==
  \/ \E r \in Readers :
       \/ Through(r)
       \/ Generation(r)
       \/ GenerationMissing(r)
       \/ SeedGeneration(r)
       \/ Hit(r)
       \/ Miss(r)
       \/ FailOpen(r)
       \/ Load(r)
       \/ Fill(r)
       \/ FillFails(r)
       \/ Return(r)
  \/ \E w \in Writers : Commit(w) \/ Invalidate(w) \/ InvalidateFails(w)
  \/ \E g \in Gens : Expire(g)
  \/ LoseGeneration

Spec == Init /\ [][Next]_vars

-----------------------------------------------------------------------------
(* The read as its caller sees it: begun, and answered once it is done.    *)
ReadOf(r) ==
  [on    |-> reader[r].pc # "idle",
   since |-> reader[r].since,
   got   |-> IF reader[r].pc = "done" THEN reader[r].got ELSE 0]

Fresh == INSTANCE FreshReads WITH read <- [r \in Readers |-> ReadOf(r)]

(* services.md: "a value loaded before a concurrent write is never served  *)
(* after it".  Through, Redis.Get and Invalidate implement FreshReads,     *)
(* also when Redis fails, evicts or loses the generation key.              *)
ImplementsFreshReads == Fresh!Spec

(* services.md: a missing generation "never reuses a number whose entries  *)
(* are still alive" (Redis.generation, Redis.Invalidate).                  *)
GenerationNotReused == [][gen' \notin {0, gen} => entry[gen'] = 0]_vars
=============================================================================
