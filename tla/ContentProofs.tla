---------------------------- MODULE ContentProofs ----------------------------
(***************************************************************************)
(* Theorems about posts with their revisions and about comments, for any   *)
(* number of posts, texts, comments and concurrent requests.               *)
(***************************************************************************)
EXTENDS Posts, Comments, TLAPS, FiniteSetTheorems, WellFoundedInduction

-----------------------------------------------------------------------------
(* The invariant.  A request that has written the row holds its lock, and  *)
(* the row is still what it read; an equal version means an equal text, so *)
(* that the version is all a write has to check.  A slug written and not   *)
(* committed is reserved by the unique index, a revision number by its     *)
(* unique key.                                                             *)

Wrote(d) == Guarded(d) /\ d.pc \in {"written", "deleting", "attached", "snapped", "revised"}

Locks(d) == Wrote(d) \/ (d.op = "media" /\ d.pc \in {"written", "snapped", "revised"})

(* What is in the record of a request, whatever the tables say.            *)
ChangesFit(d) ==
  /\ d.mem.body \in Bodies
  /\ d.op = "media" => ~Guarded(d)
  /\ ~Guarded(d) => d.op \in {"media", "seo"}
  /\ Guarded(d) => d.mem.version = d.base.version + 1
  /\ CASE d.op = "create"   -> d.base = NoRow /\ d.mem.state = "live"
       [] d.op = "undelete" -> d.base.state = "trashed" /\ d.mem.state = "live" /\ d.mem.status = "draft"
                               /\ d.mem.body = d.base.body
       [] d.op = "delete"   -> d.base.state = "live" /\ Text(d.mem) = [Text(d.base) EXCEPT !.state = "trashed"]
       [] OTHER             -> d.base.state = "live" /\ d.mem.state = "live"

Describes(s, r) == s.status = r.status /\ s.slug = r.slug /\ s.body = r.body

ProgressFits(d) ==
  /\ d.pc = "read" => d.tries < SlugAttempts
  /\ d.pc = "deleting" \/ d.attached => d.op \in {"media", "restore"}
  /\ d.pc \in {"snapped", "revised"} => \E s \in d.snap : d.snap = {s} /\ Describes(s, d.mem)
  /\ d.pc # "revised" => d.rev = {}
  /\ d.pc = "revised" => \E r \in d.rev : d.rev = {r} /\ r.guarded = Guarded(d) /\ Describes(r.snap, d.mem)

BaseKnown(d) ==
  /\ d.base.version <= posts[d.post].version
  /\ d.base.version = posts[d.post].version => Text(d.base) = Text(posts[d.post])

AsRead(d) ==
  /\ Wrote(d) => VersionMatches(d)
  /\ d.op = "media" /\ Locks(d) => posts[d.post].state = "live"
  /\ d.op = "create" => posts[d.post].state = "none"

Reserves(d) == Wrote(d) /\ d.mem.state = "live"

RequestOK(t, d) ==
  /\ ChangesFit(d) /\ ProgressFits(d)
  /\ BaseKnown(d) /\ AsRead(d)
  /\ Locks(d) => rowLock[d.post] = t
  /\ Reserves(d) => d.mem.slug \notin SlugsOfOthers(d.post)
  /\ \A r \in d.rev : r.number = NextNumber(d.post)

Apart(d, e) ==
  /\ d.post = e.post => /\ "create" \notin {d.op, e.op}
                        /\ d.rev = {} \/ e.rev = {}
  /\ d.post # e.post /\ Reserves(d) /\ Reserves(e) => d.mem.slug # e.mem.slug

RequestsOK == \A t \in Txs : Open(t) => RequestOK(t, tx[t])

RequestsApart == \A t, u \in Txs : t # u /\ Open(t) /\ Open(u) => Apart(tx[t], tx[u])

LockHasOwner ==
  \A p \in PostIDs : rowLock[p] # "nobody" =>
     Open(rowLock[p]) /\ tx[rowLock[p]].post = p /\ Locks(tx[rowLock[p]])

RowsOK == \A p \in PostIDs : IF posts[p].state = "none" THEN posts[p] = NoRow ELSE posts[p].body \in Bodies

HasNewest(R) == \E r \in R : \A q \in R : q.number <= r.number

RevsOK == \A p \in PostIDs : IsFiniteSet(revs[p]) /\ (revs[p] # {} => HasNewest(revs[p]))

PostsInv ==
  /\ PostsTypeOK /\ RowsOK /\ RevsOK
  /\ HistoryDescribesPost /\ SlugsUnique
  /\ RequestsOK /\ RequestsApart /\ LockHasOwner

-----------------------------------------------------------------------------
(* Slugs: freeSlug finds a suffix, since the other posts cannot have all.  *)

LEMMA SmallestOfNats ==
  ASSUME NEW S, S \subseteq Nat, S # {}
  PROVE  Min(S) \in S
<1>1. PICK x \in S : \A y \in S : ~ (<<y, x>> \in OpToRel(<, Nat))
  BY NatLessThanWellFounded, WFMin
<1>2. ASSUME NEW y \in S PROVE x <= y
  <2>1. ~(x <= y) => <<y, x>> \in OpToRel(<, Nat)
    BY DEF OpToRel
  <2> QED
    BY <1>1, <2>1
<1> QED
  BY <1>2 DEF Min

LEMMA FreeSlugIsSlug ==
  ASSUME NEW p \in PostIDs, NEW base \in Slug
  PROVE  FreeSlug(p, base) \in Slug
<1> USE PostsAssumption
<1> DEFINE N == Cardinality(PostIDs)
           T == SlugsOfOthers(p)
           Q == {q \in PostIDs \ {p} : posts[q].state = "live"}
           free == {n \in 2..(N + 2) : Append(base, n) \notin T}
<1>1. N \in Nat
  BY FS_CardinalityType
<1>2. IsFiniteSet(Q) /\ Cardinality(Q) <= N /\ Cardinality(Q) \in Nat
  <2>1. Q \subseteq PostIDs
    OBVIOUS
  <2> QED
    BY <2>1, FS_Subset, FS_CardinalityType
<1>3. IsFiniteSet(T) /\ Cardinality(T) <= N /\ Cardinality(T) \in Nat
  <2>1. [q \in Q |-> posts[q].slug] \in Surjection(Q, T)
    BY DEF Surjection, SlugsOfOthers
  <2> QED
    BY <1>1, <1>2, <2>1, FS_Surjection, FS_CardinalityType
<1>4. free # {}
  <2> SUFFICES ASSUME free = {} PROVE FALSE
    OBVIOUS
  <2> DEFINE S == 2..(N + 2)
             g == [n \in S |-> Append(base, n)]
  <2>1. IsFiniteSet(S) /\ Cardinality(S) = N + 1
    <3>1. 2 \in Int /\ N + 2 \in Int /\ ~(2 > N + 2) /\ (N + 2) - 2 + 1 = N + 1
      BY <1>1
    <3> HIDE DEF N
    <3> QED
      BY <3>1, FS_Interval
  <2>2. g \in [S -> T]
    OBVIOUS
  <2>3. PICK x \in S, y \in S : x # y /\ g[x] = g[y]
    <3> HIDE DEF S, g, T, N
    <3> QED
      BY <1>1, <1>3, <2>1, <2>2, FS_PigeonHole
  <2>4. Append(base, x) = Append(base, y) /\ x \in Nat /\ y \in Nat
    BY <1>1, <2>3
  <2>5. Append(base, x)[Len(base) + 1] = x /\ Append(base, y)[Len(base) + 1] = y
    BY <2>4 DEF Slug
  <2> QED
    BY <2>3, <2>4, <2>5
<1>5. Min(free) \in Nat
  <2>1. free \subseteq Nat
    BY <1>1
  <2> HIDE DEF free
  <2> QED
    BY <1>4, <2>1, SmallestOfNats
<1>6. FreeSlug(p, base) = IF base \notin T THEN base ELSE Append(base, Min(free))
  BY DEF FreeSlug
<1> HIDE DEF free, T
<1> QED
  BY <1>5, <1>6 DEF Slug

-----------------------------------------------------------------------------
(* No post exists.                                                         *)
LEMMA PostsInitInv == PostsInit => PostsInv
<1> SUFFICES ASSUME PostsInit PROVE PostsInv
  OBVIOUS
<1> USE PostsAssumption
<1>1. NoRow \in Row
  BY DEF NoRow, Row, Status, Slug
<1>2. PostsTypeOK
  BY <1>1 DEF PostsInit, PostsTypeOK
<1>3. RowsOK /\ RevsOK /\ HistoryDescribesPost
  BY FS_EmptySet DEF PostsInit, RowsOK, RevsOK, HistoryDescribesPost, NoRow
<1>4. SlugsUnique
  BY DEF PostsInit, SlugsUnique, NoRow
<1>5. RequestsOK /\ RequestsApart /\ LockHasOwner
  BY DEF PostsInit, RequestsOK, RequestsApart, LockHasOwner, Open
<1> QED
  BY <1>2, <1>3, <1>4, <1>5 DEF PostsInv

LEMMA OpenIsTyped ==
  /\ \A d \in OpenTx : d # NoTx /\ d.post \in PostIDs
  /\ PostsTypeOK => \A t \in Txs : Open(t) => tx[t] \in OpenTx
BY DEF OpenTx, NoTx, PostsTypeOK, Open

(* A request goes on, or ends without a commit; what is stored stays.      *)
LEMMA RequestMoves ==
  ASSUME PostsInv, NEW t \in Txs, NEW d \in OpenTx \cup {NoTx},
         tx' = [tx EXCEPT ![t] = d],
         UNCHANGED <<posts, media, seo, revs>>, ops' \in 0..MaxOps,
         rowLock' \in [PostIDs -> Txs \cup {"nobody"}],
         \A p \in PostIDs : rowLock'[p] = rowLock[p] \/ rowLock[p] = "nobody" \/ rowLock[p] = t,
         \A p \in PostIDs : rowLock'[p] \in {rowLock[p], "nobody", t},
         \A p \in PostIDs : rowLock'[p] = t => d # NoTx /\ d.post = p /\ Locks(d),
         d # NoTx => RequestOK(t, d)' /\ \A u \in Txs \ {t} : Open(u) => Apart(d, tx[u])
  PROVE  PostsInv'
<1> USE PostsAssumption
<1>1. /\ tx \in [Txs -> OpenTx \cup {NoTx}] /\ tx' \in [Txs -> OpenTx \cup {NoTx}]
      /\ tx'[t] = d /\ \A u \in Txs \ {t} : tx'[u] = tx[u]
      /\ rowLock \in [PostIDs -> Txs \cup {"nobody"}]
  BY DEF PostsInv, PostsTypeOK
<1>2. PostsTypeOK'
  BY <1>1 DEF PostsInv, PostsTypeOK
<1>3. RowsOK' /\ RevsOK' /\ HistoryDescribesPost' /\ SlugsUnique'
  BY DEF PostsInv, RowsOK, RevsOK, HistoryDescribesPost, SlugsUnique
<1>4. RequestsOK'
  <2> SUFFICES ASSUME NEW u \in Txs, Open(u)' PROVE RequestOK(u, tx[u])'
    BY DEF RequestsOK
  <2>1. CASE u = t
    BY <1>1, <2>1 DEF Open
  <2>2. CASE u # t
    <3>1. PICK e : e = tx[u]
      OBVIOUS
    <3>2. tx'[u] = e /\ e \in OpenTx /\ e.post \in PostIDs /\ RequestOK(u, e)
      BY <1>1, <2>2, <3>1, OpenIsTyped DEF PostsInv, RequestsOK, Open
    <3>3. Locks(e) => rowLock'[e.post] = u
      BY <1>1, <2>2, <3>2 DEF RequestOK
    <3>4. RequestOK(u, e)'
      BY <3>2, <3>3 DEF RequestOK, BaseKnown, AsRead, VersionMatches, SlugsOfOthers, NextNumber, Numbers
    <3> QED
      BY <3>2, <3>4
  <2> QED
    BY <2>1, <2>2
<1>5. RequestsApart'
  <2>1. \A u, v \in Txs : u # v /\ Open(u)' /\ Open(v)' => Apart(tx'[u], tx'[v])
    <3>1. \A u, v \in Txs \ {t} : u # v /\ Open(u) /\ Open(v) => Apart(tx[u], tx[v])
      BY DEF PostsInv, RequestsApart
    <3>2. \A e, f : Apart(e, f) => Apart(f, e)
      BY DEF Apart
    <3> QED
      BY <1>1, <3>1, <3>2 DEF Open
  <2> QED
    BY <2>1 DEF RequestsApart, Apart, Reserves, Wrote, Guarded
<1>6. LockHasOwner'
  <2> SUFFICES ASSUME NEW p \in PostIDs, rowLock'[p] # "nobody"
               PROVE  tx'[rowLock'[p]] # NoTx /\ tx'[rowLock'[p]].post = p /\ Locks(tx'[rowLock'[p]])
    BY DEF LockHasOwner, Open, Locks, Wrote, Guarded
  <2>1. CASE rowLock'[p] = t
    BY <1>1, <2>1
  <2>2. CASE rowLock'[p] # t
    <3>1. rowLock'[p] = rowLock[p] /\ rowLock[p] \in Txs \ {t}
      BY <1>1, <2>2
    <3> QED
      BY <1>1, <3>1 DEF PostsInv, LockHasOwner, Open
  <2> QED
    BY <2>1, <2>2
<1> QED
  BY <1>2, <1>3, <1>4, <1>5, <1>6 DEF PostsInv

(* A step of a request that neither locks a row nor takes a number.        *)
LEMMA QuietStep ==
  ASSUME PostsInv, NEW t \in Txs, NEW d \in OpenTx, Open(t),
         tx' = [tx EXCEPT ![t] = d], UNCHANGED <<posts, media, seo, revs, rowLock, ops>>,
         d.op = tx[t].op, d.post = tx[t].post, d.base = tx[t].base, d.rev = {},
         d.mem = tx[t].mem \/ ~Wrote(d), ChangesFit(d), ProgressFits(d),
         Wrote(d) <=> Wrote(tx[t]), Locks(d) <=> Locks(tx[t])
  PROVE  PostsInv'
<1>1. PICK e : e = tx[t]
  OBVIOUS
<1>2. /\ RequestOK(t, e) /\ d # NoTx /\ d \in OpenTx \cup {NoTx} /\ ops' \in 0..MaxOps
      /\ rowLock' \in [PostIDs -> Txs \cup {"nobody"}]
  BY <1>1, OpenIsTyped DEF PostsInv, PostsTypeOK, RequestsOK
<1>3. RequestOK(t, d)'
  <2>1. BaseKnown(d)' /\ AsRead(d)' /\ (Locks(d) => rowLock'[d.post] = t)
    BY <1>1, <1>2 DEF RequestOK, BaseKnown, AsRead, VersionMatches
  <2>2. Reserves(d) => d.mem.slug \notin SlugsOfOthers(d.post)'
    BY <1>1, <1>2 DEF RequestOK, Reserves, SlugsOfOthers
  <2> QED
    BY <2>1, <2>2 DEF RequestOK, ChangesFit, ProgressFits, Locks, Wrote, Guarded, Reserves
<1>4. \A u \in Txs \ {t} : Open(u) => Apart(d, tx[u])
  BY DEF PostsInv, RequestsApart, Apart, Reserves
<1>5. \A p \in PostIDs : rowLock'[p] = t => d.post = p /\ Locks(d)
  BY PostsAssumption DEF PostsInv, LockHasOwner
<1>6. /\ \A p \in PostIDs : rowLock'[p] = rowLock[p] \/ rowLock[p] = "nobody" \/ rowLock[p] = t
      /\ \A p \in PostIDs : rowLock'[p] \in {rowLock[p], "nobody", t}
      /\ \A p \in PostIDs : rowLock'[p] = t => d # NoTx /\ d.post = p /\ Locks(d)
  BY <1>2, <1>5
<1>7. UNCHANGED <<posts, media, seo, revs>>
  OBVIOUS
<1> QED
  BY <1>2, <1>3, <1>4, <1>6, <1>7, RequestMoves

(* A request begins with changes to the row as it is.                      *)
LEMMA BeginKeepsInv ==
  ASSUME PostsInv, NEW t \in Txs, NEW op \in Op, NEW p \in PostIDs, NEW mem \in Row,
         NEW items \in SUBSET Assets, NEW fields \in SUBSET SEOFields,
         Begin(t, op, p, mem, items, fields),
         mem.body \in Bodies,
         mem.version = IF op = "media" \/ (op = "seo" /\ mem = posts[p]) THEN posts[p].version ELSE posts[p].version + 1,
         op # "create" => posts[p].state # "none",
         CASE op = "create"   -> posts[p] = NoRow /\ mem.state = "live" /\ \A u \in Txs : Open(u) => tx[u].post # p
           [] op = "undelete" -> posts[p].state = "trashed" /\ mem.state = "live" /\ mem.status = "draft"
                                 /\ mem.body = posts[p].body
           [] op = "delete"   -> posts[p].state = "live" /\ Text(mem) = [Text(posts[p]) EXCEPT !.state = "trashed"]
           [] OTHER           -> posts[p].state = "live" /\ mem.state = "live"
  PROVE  PostsInv'
<1> USE PostsAssumption
<1>1. PICK d : d = [op |-> op, post |-> p, pc |-> "read", base |-> posts[p], mem |-> mem,
                    items |-> items, del |-> {}, attached |-> FALSE, seo |-> fields,
                    saved |-> FALSE, tries |-> 0, snap |-> {}, rev |-> {}]
  OBVIOUS
<1>2. posts[p] \in Row /\ posts[p].version \in Nat /\ ops \in 0..MaxOps /\ rowLock \in [PostIDs -> Txs \cup {"nobody"}]
  BY DEF PostsInv, PostsTypeOK, Row
<1>3. /\ tx' = [tx EXCEPT ![t] = d] /\ UNCHANGED <<posts, media, seo, revs, rowLock>> /\ ops' \in 0..MaxOps /\ ~Open(t)
  BY <1>1, <1>2 DEF Begin
<1>4. /\ d.op = op /\ d.post = p /\ d.pc = "read" /\ d.base = posts[p] /\ d.mem = mem /\ d.rev = {} /\ d.tries = 0
      /\ d.attached = FALSE
  BY <1>1
<1>5. d \in OpenTx
  <2>1. 0 \in 0..SlugAttempts
    OBVIOUS
  <2> QED
    BY <1>1, <1>2, <2>1 DEF OpenTx
<1>6. ChangesFit(d)
  BY <1>2, <1>4 DEF ChangesFit, Guarded
<1>7. ProgressFits(d)
  BY <1>4 DEF ProgressFits
<1>8. ~Wrote(d) /\ ~Locks(d) /\ ~Reserves(d)
  BY <1>4 DEF Wrote, Locks, Reserves
<1>9. op = "create" => posts[p].state = "none" /\ \A u \in Txs : Open(u) => tx[u].post # p
  BY DEF NoRow
<1>10. RequestOK(t, d)'
  <2>1. BaseKnown(d)' /\ AsRead(d)'
    BY <1>2, <1>3, <1>4, <1>8, <1>9 DEF BaseKnown, AsRead, Wrote, Locks, Guarded
  <2> QED
    BY <1>4, <1>6, <1>7, <1>8, <2>1 DEF RequestOK, ChangesFit, ProgressFits, Locks, Wrote, Guarded, Reserves
<1>11. ASSUME NEW u \in Txs \ {t}, Open(u) PROVE Apart(d, tx[u])
  <2>1. tx[u].op = "create" => posts[tx[u].post].state = "none"
    BY <1>11 DEF PostsInv, RequestsOK, RequestOK, AsRead
  <2> QED
    BY <1>4, <1>8, <1>9, <1>11, <2>1 DEF Apart
<1>12. \A q \in PostIDs : rowLock'[q] # t
  BY <1>3 DEF PostsInv, LockHasOwner
<1>13. /\ \A q \in PostIDs : rowLock'[q] = rowLock[q] \/ rowLock[q] = "nobody" \/ rowLock[q] = t
       /\ \A q \in PostIDs : rowLock'[q] \in {rowLock[q], "nobody", t}
       /\ d \in OpenTx \cup {NoTx} /\ rowLock' \in [PostIDs -> Txs \cup {"nobody"}]
  BY <1>2, <1>3, <1>5
<1> QED
  BY <1>3, <1>10, <1>11, <1>12, <1>13, RequestMoves

(* The requests an editor makes, each with the changes it computes.        *)
LEMMA EditsKeepInv ==
  ASSUME PostsInv, NEW t \in Txs, NEW p \in PostIDs,
         \/ \E b \in Bodies : CreateDraft(t, p, b)
         \/ \E b \in Bodies, s \in EditSlugs : Update(t, p, b, s)
         \/ \E tr \in DOMAIN From : Transition(t, p, tr)
         \/ Delete(t, p)
         \/ Undelete(t, p)
         \/ \E r \in revs[p] : RestoreRevision(t, p, r)
         \/ \E items \in SUBSET Assets : ReplaceMedia(t, p, items)
         \/ \E fields \in SUBSET SEOFields, s \in EditSlugs : UpdateSEO(t, p, fields, s)
  PROVE  PostsInv'
<1> USE PostsAssumption
<1>1. /\ posts[p] \in Row /\ posts[p].version \in Nat /\ posts[p].version + 1 \in Nat /\ revs[p] \subseteq Revision
      /\ seo[p] \subseteq SEOFields /\ posts[p].cover \in Assets \cup {NoAsset} /\ posts[p].slug \in Slug
      /\ posts[p].status \in Status
  BY DEF PostsInv, PostsTypeOK, Row
<1>2. IF posts[p].state = "none" THEN posts[p] = NoRow ELSE posts[p].body \in Bodies
  BY DEF PostsInv, RowsOK
<1>3. PICK v : v = [posts[p] EXCEPT !.version = posts[p].version + 1]
  OBVIOUS
<1>4. /\ Bumped(p) = v /\ v \in Row /\ v.version = posts[p].version + 1 /\ v.state = posts[p].state
      /\ v.status = posts[p].status /\ v.slug = posts[p].slug /\ v.body = posts[p].body /\ v.cover = posts[p].cover
  BY <1>1, <1>3 DEF Bumped, Row
<1>5. EditSlugs \subseteq Slug
  BY DEF EditSlugs, Slug
<1>6. CASE \E b \in Bodies : CreateDraft(t, p, b)
  <2>1. PICK b \in Bodies : CreateDraft(t, p, b)
    BY <1>6
  <2>2. PICK m : m = [NoRow EXCEPT !.state = "live", !.body = b, !.version = 1]
    OBVIOUS
  <2>3. m = [state |-> "live", status |-> "draft", slug |-> <<>>, body |-> b, cover |-> NoAsset, version |-> 1]
    BY <2>2 DEF NoRow
  <2>4. m \in Row /\ m.body \in Bodies /\ m.state = "live" /\ m.version = 1
    BY <2>3 DEF Row, Status, Slug
  <2>5. posts[p].state = "none" /\ (\A u \in Txs : Open(u) => tx[u].post # p) /\ Begin(t, "create", p, m, {}, {})
    BY <2>1, <2>2 DEF CreateDraft
  <2>6. posts[p] = NoRow /\ NoRow.version = 0
    BY <1>2, <2>5 DEF NoRow
  <2> QED
    BY <2>4, <2>5, <2>6, BeginKeepsInv DEF Op
<1>7. CASE \E b \in Bodies, s \in EditSlugs : Update(t, p, b, s)
  <2>1. PICK b \in Bodies, s \in EditSlugs : Update(t, p, b, s)
    BY <1>7
  <2>2. PICK m : m = [v EXCEPT !.body = b, !.slug = s]
    OBVIOUS
  <2>3. m \in Row /\ m.body \in Bodies /\ m.state = posts[p].state /\ m.version = posts[p].version + 1
    BY <1>4, <1>5, <2>2 DEF Row
  <2>4. posts[p].state = "live" /\ Begin(t, "update", p, m, {}, {})
    BY <1>4, <2>1, <2>2 DEF Update
  <2> QED
    BY <2>3, <2>4, BeginKeepsInv DEF Op
<1>8. CASE \E tr \in DOMAIN From : Transition(t, p, tr)
  <2>1. PICK tr \in {"publish", "unpublish", "archive"} : Transition(t, p, tr)
    BY <1>8 DEF From
  <2>2. PICK s \in Status : s = To[tr]
    BY <2>1 DEF To, Status
  <2>3. PICK m : m = [v EXCEPT !.status = s]
    OBVIOUS
  <2>4. m \in Row /\ m.body = posts[p].body /\ m.state = posts[p].state /\ m.version = posts[p].version + 1
    BY <1>4, <2>3 DEF Row
  <2>5. posts[p].state = "live" /\ Begin(t, tr, p, m, {}, {})
    BY <1>4, <2>1, <2>2, <2>3 DEF Transition
  <2> QED
    BY <1>2, <2>4, <2>5, BeginKeepsInv DEF Op
<1>9. CASE Delete(t, p)
  <2>1. PICK m : m = [v EXCEPT !.state = "trashed"]
    OBVIOUS
  <2>2. /\ m \in Row /\ m.body = posts[p].body /\ m.state = "trashed" /\ m.version = posts[p].version + 1
        /\ m.status = posts[p].status /\ m.slug = posts[p].slug
    BY <1>4, <2>1 DEF Row
  <2>3. posts[p].state = "live" /\ Begin(t, "delete", p, m, {}, {})
    BY <1>4, <1>9, <2>1 DEF Delete
  <2>4. Text(m) = [Text(posts[p]) EXCEPT !.state = "trashed"]
    BY <2>2 DEF Text
  <2> QED
    BY <1>2, <2>2, <2>3, <2>4, BeginKeepsInv DEF Op
<1>10. CASE Undelete(t, p)
  <2>1. PICK m : m = [v EXCEPT !.state = "live", !.status = "draft"]
    OBVIOUS
  <2>2. /\ m \in Row /\ m.body = posts[p].body /\ m.state = "live" /\ m.version = posts[p].version + 1
        /\ m.status = "draft"
    BY <1>4, <2>1 DEF Row, Status
  <2>3. posts[p].state = "trashed" /\ Begin(t, "undelete", p, m, {}, {})
    BY <1>4, <1>10, <2>1 DEF Undelete
  <2> QED
    BY <1>2, <2>2, <2>3, BeginKeepsInv DEF Op
<1>11. CASE \E r \in revs[p] : RestoreRevision(t, p, r)
  <2>1. PICK r \in revs[p] : RestoreRevision(t, p, r)
    BY <1>11
  <2>2. PICK s \in Snapshot : s = r.snap
    BY <1>1, <2>1 DEF Revision
  <2>3. /\ s.slug \in Slug /\ s.body \in Bodies /\ s.cover \in Assets \cup {NoAsset} /\ s.media \in SUBSET Assets
        /\ s.seo \in SUBSET SEOFields
    BY <2>2 DEF Snapshot
  <2>4. PICK n \in Slug : n = IF SlugTaken(p, s.slug) THEN v.slug ELSE s.slug
    BY <1>1, <1>4, <2>3
  <2>5. PICK m : m = [v EXCEPT !.slug = n, !.body = s.body, !.cover = s.cover]
    OBVIOUS
  <2>6. m \in Row /\ m.body \in Bodies /\ m.state = posts[p].state /\ m.version = posts[p].version + 1
    BY <1>4, <2>3, <2>4, <2>5 DEF Row
  <2>7. posts[p].state = "live" /\ Begin(t, "restore", p, m, s.media, s.seo)
    BY <1>4, <2>1, <2>2, <2>4, <2>5 DEF RestoreRevision
  <2> QED
    BY <2>3, <2>6, <2>7, BeginKeepsInv DEF Op
<1>12. CASE \E items \in SUBSET Assets : ReplaceMedia(t, p, items)
  <2>1. PICK items \in SUBSET Assets : ReplaceMedia(t, p, items)
    BY <1>12
  <2>2. PICK c \in Assets \cup {NoAsset} : c = IF items = {} THEN NoAsset ELSE CHOOSE a \in items : TRUE
    <3>1. items # {} => (CHOOSE a \in items : TRUE) \in items
      OBVIOUS
    <3> QED
      BY <3>1
  <2>3. PICK m : m = [posts[p] EXCEPT !.cover = c]
    OBVIOUS
  <2>4. m \in Row /\ m.body = posts[p].body /\ m.state = posts[p].state /\ m.version = posts[p].version
    BY <1>1, <2>3 DEF Row
  <2>5. posts[p].state = "live" /\ Begin(t, "media", p, m, items, {})
    BY <2>1, <2>2, <2>3 DEF ReplaceMedia
  <2> QED
    BY <1>2, <2>4, <2>5, BeginKeepsInv DEF Op
<1>13. CASE \E fields \in SUBSET SEOFields, s \in EditSlugs : UpdateSEO(t, p, fields, s)
  <2>1. PICK fields \in SUBSET SEOFields, s \in EditSlugs : UpdateSEO(t, p, fields, s)
    BY <1>13
  <2>2. PICK g \in SUBSET SEOFields : g = seo[p] \cup fields
    BY <1>1
  <2>3. CASE s = posts[p].slug
    <3>1. posts[p].state = "live" /\ Begin(t, "seo", p, posts[p], {}, g)
      BY <2>1, <2>2, <2>3 DEF UpdateSEO
    <3> QED
      BY <1>1, <1>2, <3>1, BeginKeepsInv DEF Op
  <2>4. CASE s # posts[p].slug
    <3>1. PICK m : m = [v EXCEPT !.slug = s]
      OBVIOUS
    <3>2. m \in Row /\ m.body = posts[p].body /\ m.state = posts[p].state /\ m.version = posts[p].version + 1 /\ m.slug = s
      BY <1>4, <1>5, <3>1 DEF Row
    <3>3. posts[p].state = "live" /\ Begin(t, "seo", p, m, {}, g)
      BY <1>4, <2>1, <2>2, <2>4, <3>1 DEF UpdateSEO
    <3> QED
      BY <1>2, <2>4, <3>2, <3>3, BeginKeepsInv DEF Op
  <2> QED
    BY <2>3, <2>4
<1> QED
  BY <1>6, <1>7, <1>8, <1>9, <1>10, <1>11, <1>12, <1>13

LEMMA RequestIsOpen ==
  ASSUME PostsInv, NEW t \in Txs, Open(t)
  PROVE  /\ tx \in [Txs -> OpenTx \cup {NoTx}] /\ tx[t] \in OpenTx /\ tx[t].post \in PostIDs
         /\ RequestOK(t, tx[t]) /\ ChangesFit(tx[t]) /\ ProgressFits(tx[t])
BY OpenIsTyped DEF PostsInv, PostsTypeOK, RequestsOK, RequestOK

(* withFreeSlug.                                                           *)
LEMMA SlugStepsKeepInv ==
  ASSUME PostsInv, NEW t \in Txs, PickSlug(t) \/ RetrySlug(t)
  PROVE  PostsInv'
<1> USE PostsAssumption
<1>1. PICK e : e = tx[t]
  OBVIOUS
<1>2. Open(t) /\ UNCHANGED <<posts, media, seo, revs, rowLock, ops>>
  BY DEF PickSlug, RetrySlug
<1>3. tx \in [Txs -> OpenTx \cup {NoTx}] /\ e \in OpenTx /\ e.post \in PostIDs /\ ChangesFit(e) /\ ProgressFits(e)
  BY <1>1, <1>2, RequestIsOpen
<1>4. CASE PickSlug(t)
  <2>1. e.pc = "read" /\ e.op \in {"create", "undelete"} /\ e.tries < SlugAttempts /\ e.rev = {} /\ e.tries \in Nat
    BY <1>1, <1>3, <1>4 DEF PickSlug, ProgressFits, OpenTx
  <2>2. PICK s \in Slug : s = FreeSlug(e.post, e.base.slug)
    BY <1>3, FreeSlugIsSlug DEF OpenTx, Row
  <2>3. PICK m : m = [e.mem EXCEPT !.slug = s]
    OBVIOUS
  <2>4. e.mem \in Row /\ m \in Row
    BY <1>3, <2>2, <2>3 DEF OpenTx, Row
  <2>5. m.version = e.mem.version /\ m.body = e.mem.body /\ m.state = e.mem.state /\ m.status = e.mem.status
    BY <2>3, <2>4 DEF Row
  <2>6. PICK d : d = [e EXCEPT !.pc = "chosen", !.mem = m, !.tries = e.tries + 1]
    OBVIOUS
  <2>7. d \in OpenTx
    <3>1. e.tries + 1 \in 0..SlugAttempts
      BY <2>1
    <3> QED
      BY <1>3, <2>4, <2>6, <3>1 DEF OpenTx
  <2>8. tx' = [tx EXCEPT ![t] = d]
    BY <1>1, <1>3, <1>4, <2>2, <2>3, <2>6 DEF PickSlug, OpenTx, Row
  <2>9. /\ d.op = e.op /\ d.post = e.post /\ d.base = e.base /\ d.rev = {} /\ d.mem = m /\ d.pc = "chosen"
        /\ d.attached = e.attached
    BY <1>3, <2>1, <2>6 DEF OpenTx
  <2>10. ~Wrote(d) /\ ~Wrote(e) /\ ~Locks(d) /\ ~Locks(e)
    BY <2>1, <2>9 DEF Wrote, Locks
  <2>11. ChangesFit(d) /\ ProgressFits(d)
    BY <1>3, <2>1, <2>5, <2>9 DEF ChangesFit, ProgressFits, Guarded
  <2> QED
    BY <1>1, <1>2, <2>7, <2>8, <2>9, <2>10, <2>11, QuietStep
<1>5. CASE RetrySlug(t)
  <2>1. e.pc = "chosen" /\ e.tries < SlugAttempts /\ e.rev = {}
    BY <1>1, <1>3, <1>5 DEF RetrySlug, ProgressFits
  <2>2. PICK d : d = [e EXCEPT !.pc = "read"]
    OBVIOUS
  <2>3. d \in OpenTx /\ tx' = [tx EXCEPT ![t] = d]
    BY <1>1, <1>3, <1>5, <2>2 DEF RetrySlug, OpenTx
  <2>4. /\ d.op = e.op /\ d.post = e.post /\ d.base = e.base /\ d.rev = {} /\ d.mem = e.mem /\ d.pc = "read"
        /\ d.attached = e.attached /\ d.tries = e.tries
    BY <1>3, <2>1, <2>2 DEF OpenTx
  <2>5. ~Wrote(d) /\ ~Wrote(e) /\ ~Locks(d) /\ ~Locks(e)
    BY <2>1, <2>4 DEF Wrote, Locks
  <2>6. ChangesFit(d) /\ ProgressFits(d)
    BY <1>3, <2>1, <2>4 DEF ChangesFit, ProgressFits, Guarded
  <2> QED
    BY <1>1, <1>2, <2>3, <2>4, <2>5, <2>6, QuietStep
<1> QED
  BY <1>4, <1>5

(* ReplaceAll and storeSEO.                                                *)
LEMMA StoresKeepInv ==
  ASSUME PostsInv, NEW t \in Txs, DeleteMedia(t) \/ AttachMedia(t) \/ SaveSEO(t)
  PROVE  PostsInv'
<1> USE PostsAssumption
<1>1. PICK e : e = tx[t]
  OBVIOUS
<1>2. Open(t) /\ UNCHANGED <<posts, media, seo, revs, rowLock, ops>>
  BY DEF DeleteMedia, AttachMedia, SaveSEO
<1>3. tx \in [Txs -> OpenTx \cup {NoTx}] /\ e \in OpenTx /\ e.post \in PostIDs /\ ChangesFit(e) /\ ProgressFits(e)
  BY <1>1, <1>2, RequestIsOpen
<1>4. CASE DeleteMedia(t)
  <2>1. (e.op = "media" /\ e.pc = "read") \/ (e.op = "restore" /\ e.pc = "written")
    BY <1>1, <1>4 DEF DeleteMedia
  <2>2. PICK d : d = [e EXCEPT !.pc = "deleting", !.del = media[e.post]]
    OBVIOUS
  <2>3. media[e.post] \in SUBSET Assets
    BY <1>3 DEF PostsInv, PostsTypeOK
  <2>4. d \in OpenTx /\ tx' = [tx EXCEPT ![t] = d]
    BY <1>1, <1>3, <1>4, <2>2, <2>3 DEF DeleteMedia, OpenTx
  <2>5. /\ d.op = e.op /\ d.post = e.post /\ d.base = e.base /\ d.rev = e.rev /\ d.mem = e.mem /\ d.pc = "deleting"
        /\ d.attached = e.attached
    BY <1>3, <2>2 DEF OpenTx
  <2>6. (Wrote(d) <=> Wrote(e)) /\ (Locks(d) <=> Locks(e))
    BY <1>3, <2>1, <2>5 DEF Wrote, Locks, Guarded, ChangesFit
  <2>7. ChangesFit(d) /\ ProgressFits(d) /\ d.rev = {}
    BY <1>3, <2>1, <2>5 DEF ChangesFit, ProgressFits, Guarded
  <2> QED
    BY <1>1, <1>2, <2>4, <2>5, <2>6, <2>7, QuietStep
<1>5. CASE AttachMedia(t)
  <2>1. e.pc = "deleting"
    BY <1>1, <1>5 DEF AttachMedia
  <2>2. PICK h \in BOOLEAN : h = (e.op = "restore")
    OBVIOUS
  <2>3. PICK d : d = [e EXCEPT !.pc = "attached", !.attached = TRUE, !.saved = h]
    OBVIOUS
  <2>4. d \in OpenTx
    BY <1>3, <2>3 DEF OpenTx
  <2>5. tx' = [tx EXCEPT ![t] = d]
    BY <1>1, <1>3, <1>5, <2>2, <2>3 DEF AttachMedia, OpenTx
  <2>6. /\ d.op = e.op /\ d.post = e.post /\ d.base = e.base /\ d.rev = e.rev /\ d.mem = e.mem /\ d.pc = "attached"
    BY <1>3, <2>3 DEF OpenTx
  <2>7. (Wrote(d) <=> Wrote(e)) /\ (Locks(d) <=> Locks(e))
    BY <1>3, <2>1, <2>6 DEF Wrote, Locks, Guarded, ChangesFit
  <2>8. ChangesFit(d) /\ ProgressFits(d) /\ d.rev = {}
    BY <1>3, <2>1, <2>6 DEF ChangesFit, ProgressFits, Guarded
  <2> QED
    BY <1>1, <1>2, <2>4, <2>5, <2>6, <2>7, <2>8, QuietStep
<1>6. CASE SaveSEO(t)
  <2>1. e.op = "seo" /\ e.pc = (IF Guarded(e) THEN "written" ELSE "read")
    BY <1>1, <1>6 DEF SaveSEO
  <2>2. PICK d : d = [e EXCEPT !.pc = "written", !.saved = TRUE]
    OBVIOUS
  <2>3. d \in OpenTx /\ tx' = [tx EXCEPT ![t] = d]
    BY <1>1, <1>3, <1>6, <2>2 DEF SaveSEO, OpenTx
  <2>4. /\ d.op = e.op /\ d.post = e.post /\ d.base = e.base /\ d.rev = e.rev /\ d.mem = e.mem /\ d.pc = "written"
        /\ d.attached = e.attached
    BY <1>3, <2>2 DEF OpenTx
  <2>5. (Wrote(d) <=> Wrote(e)) /\ (Locks(d) <=> Locks(e))
    BY <2>1, <2>4 DEF Wrote, Locks, Guarded
  <2>6. ChangesFit(d) /\ ProgressFits(d) /\ d.rev = {}
    BY <1>3, <2>1, <2>4 DEF ChangesFit, ProgressFits, Guarded
  <2> QED
    BY <1>1, <1>2, <2>3, <2>4, <2>5, <2>6, QuietStep
<1> QED
  BY <1>4, <1>5, <1>6

(* snapshot: what it records is the post in memory.                        *)
LEMMA SnapshotKeepsInv ==
  ASSUME PostsInv, NEW t \in Txs, TakeSnapshot(t)
  PROVE  PostsInv'
<1> USE PostsAssumption
<1>1. PICK e : e = tx[t]
  OBVIOUS
<1>2. Open(t) /\ UNCHANGED <<posts, media, seo, revs, rowLock, ops>> /\ StoresDone(e)
  BY <1>1 DEF TakeSnapshot
<1>3. tx \in [Txs -> OpenTx \cup {NoTx}] /\ e \in OpenTx /\ e.post \in PostIDs /\ ChangesFit(e) /\ ProgressFits(e)
  BY <1>1, <1>2, RequestIsOpen
<1>4. PICK m : m = (media[e.post] \ e.del) \cup (IF e.attached THEN e.items ELSE {})
  OBVIOUS
<1>5. PICK s : s = IF e.saved THEN e.seo ELSE seo[e.post]
  OBVIOUS
<1>6. PICK n : n = SnapshotOf(e, m, s)
  OBVIOUS
<1>7. m \in SUBSET Assets /\ s \in SUBSET SEOFields
  <2>1. media[e.post] \in SUBSET Assets /\ seo[e.post] \in SUBSET SEOFields
    BY <1>3 DEF PostsInv, PostsTypeOK
  <2>2. e.items \in SUBSET Assets /\ e.seo \in SUBSET SEOFields
    BY <1>3 DEF OpenTx
  <2> QED
    BY <1>4, <1>5, <2>1, <2>2
<1>8. n \in Snapshot /\ Describes(n, e.mem)
  <2>1. e.mem \in Row /\ e.mem.body \in Bodies
    BY <1>3 DEF OpenTx, ChangesFit
  <2> QED
    BY <1>6, <1>7, <2>1 DEF Snapshot, SnapshotOf, Row, Describes
<1>9. PICK d : d = [e EXCEPT !.pc = "snapped", !.snap = {n}]
  OBVIOUS
<1>10. d \in OpenTx
  BY <1>3, <1>8, <1>9 DEF OpenTx
<1>11. tx' = [tx EXCEPT ![t] = d]
  BY <1>1, <1>3, <1>4, <1>5, <1>6, <1>9 DEF TakeSnapshot, OpenTx
<1>12. /\ d.op = e.op /\ d.post = e.post /\ d.base = e.base /\ d.rev = e.rev /\ d.mem = e.mem /\ d.pc = "snapped"
       /\ d.attached = e.attached /\ d.snap = {n}
  BY <1>3, <1>9 DEF OpenTx
<1>13. IF e.op = "restore" THEN e.pc = "attached" ELSE e.pc = "written"
  BY <1>2 DEF StoresDone
<1>14. (Wrote(d) <=> Wrote(e)) /\ (Locks(d) <=> Locks(e))
  BY <1>12, <1>13 DEF Wrote, Locks, Guarded
<1>15. ChangesFit(d) /\ ProgressFits(d) /\ d.rev = {}
  BY <1>3, <1>8, <1>12, <1>13 DEF ChangesFit, ProgressFits, Guarded
<1> QED
  BY <1>1, <1>2, <1>10, <1>11, <1>12, <1>14, <1>15, QuietStep

(* Latest's number: the revisions of a post have a newest one.             *)
LEMMA NewestNumber ==
  ASSUME RevsOK, PostsTypeOK, NEW p \in PostIDs
  PROVE  /\ NextNumber(p) \in Nat \ {0}
         /\ \A r \in revs[p] : r.number \in Nat /\ r.number < NextNumber(p)
         /\ revs[p] # {} => \E r \in revs[p] : Max(Numbers(p)) = r.number /\ \A q \in revs[p] : q.number <= r.number
<1>1. revs[p] \subseteq Revision
  BY DEF PostsTypeOK
<1>2. \A r \in revs[p] : r.number \in Nat \ {0}
  BY <1>1 DEF Revision
<1>3. CASE revs[p] = {}
  BY <1>3 DEF NextNumber
<1>4. CASE revs[p] # {}
  <2>1. PICK r \in revs[p] : \A q \in revs[p] : q.number <= r.number
    BY <1>4 DEF RevsOK, HasNewest
  <2>2. r.number \in Numbers(p) /\ \A n \in Numbers(p) : n \in Nat /\ n <= r.number
    BY <1>2, <2>1 DEF Numbers
  <2>3. Max(Numbers(p)) = r.number
    <3>1. PICK S : S = Numbers(p)
      OBVIOUS
    <3>2. Max(S) \in S /\ \A n \in S : Max(S) >= n
      BY <2>2, <3>1 DEF Max
    <3>3. Max(S) \in Nat /\ Max(S) <= r.number /\ Max(S) >= r.number /\ r.number \in Nat
      BY <2>2, <3>1, <3>2
    <3> QED
      BY <3>1, <3>3
  <2>4. NextNumber(p) = r.number + 1
    BY <1>4, <2>3 DEF NextNumber
  <2> QED
    BY <1>2, <2>1, <2>3, <2>4
<1> QED
  BY <1>3, <1>4

(* The INSERT of a revision: no other open request holds a number of the   *)
(* post, since each holds the next one.                                    *)
LEMMA AppendKeepsInv ==
  ASSUME PostsInv, NEW t \in Txs, AppendRevision(t)
  PROVE  PostsInv'
<1> USE PostsAssumption
<1>1. PICK e : e = tx[t]
  OBVIOUS
<1>2. Open(t) /\ UNCHANGED <<posts, media, seo, revs, rowLock, ops>> /\ e.pc = "snapped"
  BY <1>1 DEF AppendRevision
<1>3. /\ tx \in [Txs -> OpenTx \cup {NoTx}] /\ e \in OpenTx /\ e.post \in PostIDs /\ ChangesFit(e) /\ ProgressFits(e)
      /\ RequestOK(t, e)
  BY <1>1, <1>2, RequestIsOpen
<1>4. PICK s \in e.snap : e.snap = {s} /\ Describes(s, e.mem)
  BY <1>2, <1>3 DEF ProgressFits
<1>5. PICK n : n = NextNumber(e.post)
  OBVIOUS
<1>6. n \in Nat \ {0}
  BY <1>3, <1>5, NewestNumber DEF PostsInv
<1>7. PICK h \in BOOLEAN : h = Guarded(e)
  BY DEF Guarded
<1>8. PICK r : r = [number |-> n, op |-> e.op, guarded |-> h, snap |-> s]
  OBVIOUS
<1>9. r \in Revision /\ r.number = n /\ r.guarded = h /\ r.snap = s
  BY <1>3, <1>4, <1>6, <1>7, <1>8 DEF Revision, OpenTx
<1>10. PICK d : d = [e EXCEPT !.pc = "revised", !.rev = {r}]
  OBVIOUS
<1>11. d \in OpenTx
  BY <1>3, <1>9, <1>10 DEF OpenTx
<1>12. tx' = [tx EXCEPT ![t] = d]
  <2>1. {[number |-> n, op |-> e.op, guarded |-> Guarded(e), snap |-> x] : x \in e.snap} = {r}
    BY <1>4, <1>7, <1>8
  <2>2. tx' = [tx EXCEPT ![t].pc = "revised",
                         ![t].rev = {[number |-> n, op |-> e.op, guarded |-> Guarded(e), snap |-> x] : x \in e.snap}]
    BY <1>1, <1>5, Zenon DEF AppendRevision
  <2>3. tx' = [tx EXCEPT ![t].pc = "revised", ![t].rev = {r}]
    BY <2>1, <2>2, Zenon
  <2> QED
    BY <1>1, <1>3, <1>10, <2>3 DEF OpenTx
<1>13. /\ d.op = e.op /\ d.post = e.post /\ d.base = e.base /\ d.mem = e.mem /\ d.pc = "revised"
       /\ d.attached = e.attached /\ d.snap = {s} /\ d.rev = {r}
  BY <1>3, <1>4, <1>10 DEF OpenTx
<1>14. (Wrote(d) <=> Wrote(e)) /\ (Locks(d) <=> Locks(e)) /\ (Guarded(d) <=> Guarded(e))
  BY <1>2, <1>13 DEF Wrote, Locks, Guarded
<1>15. ChangesFit(d)
  BY <1>3, <1>13 DEF ChangesFit, Guarded
<1>16. ProgressFits(d)
  <2>1. r.guarded = Guarded(d)
    BY <1>7, <1>9, <1>13 DEF Guarded
  <2> QED
    BY <1>2, <1>3, <1>4, <1>9, <1>13, <2>1 DEF ProgressFits
<1>17. RequestOK(t, d)'
  <2>1. BaseKnown(d)' /\ AsRead(d)'
    BY <1>2, <1>3, <1>13, <1>14 DEF RequestOK, BaseKnown, AsRead, VersionMatches, Wrote, Locks, Guarded
  <2>2. Locks(d)' => rowLock'[d.post] = t
    BY <1>2, <1>3, <1>13, <1>14 DEF RequestOK, Wrote, Locks, Guarded
  <2>3. Reserves(d)' => d.mem.slug \notin SlugsOfOthers(d.post)'
    BY <1>2, <1>3, <1>13, <1>14 DEF RequestOK, Reserves, SlugsOfOthers, Wrote, Guarded
  <2>4. NextNumber(d.post)' = n
    BY <1>2, <1>5, <1>13 DEF NextNumber, Numbers
  <2>5. ChangesFit(d)' /\ ProgressFits(d)'
    BY <1>15, <1>16 DEF ChangesFit, ProgressFits, Guarded
  <2> QED
    BY <1>9, <1>13, <2>1, <2>2, <2>3, <2>4, <2>5 DEF RequestOK
<1>18. ASSUME NEW u \in Txs \ {t}, Open(u) PROVE Apart(d, tx[u])
  <2>1. Apart(e, tx[u]) /\ RequestOK(u, tx[u])
    BY <1>1, <1>2, <1>18 DEF PostsInv, RequestsApart, RequestsOK
  <2>2. ASSUME tx[u].post = e.post PROVE tx[u].rev = {}
    <3>1. \A q \in tx[u].rev : q.number = n
      BY <1>5, <2>1, <2>2 DEF RequestOK
    <3>2. \A q \in tx[u].rev : q.number # n
      BY <1>1, <1>5, <1>18, <2>2 DEF AppendRevision, Others
    <3> QED
      BY <3>1, <3>2
  <2> QED
    BY <1>13, <1>14, <2>1, <2>2 DEF Apart, Reserves
<1>19. \A p \in PostIDs : rowLock'[p] = t => d # NoTx /\ d.post = p /\ Locks(d)
  BY <1>1, <1>2, <1>11, <1>13, <1>14, OpenIsTyped DEF PostsInv, LockHasOwner
<1>20. /\ \A p \in PostIDs : rowLock'[p] = rowLock[p] \/ rowLock[p] = "nobody" \/ rowLock[p] = t
       /\ \A p \in PostIDs : rowLock'[p] \in {rowLock[p], "nobody", t}
       /\ d \in OpenTx \cup {NoTx} /\ rowLock' \in [PostIDs -> Txs \cup {"nobody"}] /\ ops' \in 0..MaxOps
       /\ UNCHANGED <<posts, media, seo, revs>>
  BY <1>2, <1>11 DEF PostsInv, PostsTypeOK
<1> QED
  BY <1>12, <1>17, <1>18, <1>19, <1>20, RequestMoves

(* A request locks the row of its post: WritePost with the version it      *)
(* read, SetCoverImage without.                                            *)
LEMMA LockKeepsInv ==
  ASSUME PostsInv, NEW t \in Txs, WritePost(t) \/ SetCoverImage(t)
  PROVE  PostsInv'
<1> USE PostsAssumption
<1>1. PICK e : e = tx[t]
  OBVIOUS
<1>2. /\ Open(t) /\ UNCHANGED <<posts, media, seo, revs, ops>> /\ rowLock[e.post] = "nobody"
      /\ rowLock' = [rowLock EXCEPT ![e.post] = t]
  BY <1>1 DEF WritePost, SetCoverImage
<1>3. /\ tx \in [Txs -> OpenTx \cup {NoTx}] /\ e \in OpenTx /\ e.post \in PostIDs /\ ChangesFit(e) /\ ProgressFits(e)
      /\ RequestOK(t, e) /\ rowLock \in [PostIDs -> Txs \cup {"nobody"}]
  BY <1>1, <1>2, RequestIsOpen DEF PostsInv, PostsTypeOK
<1>4. PICK d : d = [e EXCEPT !.pc = "written"]
  OBVIOUS
<1>5. d \in OpenTx
  BY <1>3, <1>4 DEF OpenTx
<1>6. tx' = [tx EXCEPT ![t] = d]
  BY <1>1, <1>3, <1>4 DEF WritePost, SetCoverImage, OpenTx
<1>7. /\ d.op = e.op /\ d.post = e.post /\ d.base = e.base /\ d.mem = e.mem /\ d.pc = "written"
      /\ d.attached = e.attached /\ d.rev = e.rev
  BY <1>3, <1>4 DEF OpenTx
<1>8. e.rev = {}
  BY <1>1, <1>3 DEF WritePost, SetCoverImage, ProgressFits
<1>9. ChangesFit(d) /\ ProgressFits(d) /\ (Guarded(d) <=> Guarded(e))
  BY <1>3, <1>7, <1>8 DEF ChangesFit, ProgressFits, Guarded
<1>10. /\ Locks(d)
       /\ Wrote(d) => VersionMatches(d)
       /\ d.op = "media" => posts[d.post].state = "live"
       /\ Reserves(d) => ~SlugTaken(d.post, d.mem.slug) /\ ~PendingElsewhere(t, d.mem.slug)
  <2>1. CASE WritePost(t)
    <3>1. /\ e.op # "media" /\ Guarded(e) /\ VersionMatches(e)
          /\ e.mem.state = "live" => ~SlugTaken(e.post, e.mem.slug) /\ ~PendingElsewhere(t, e.mem.slug)
      BY <1>1, <2>1 DEF WritePost
    <3>2. VersionMatches(d)
      BY <1>7, <3>1 DEF VersionMatches
    <3> QED
      BY <1>7, <1>9, <3>1, <3>2 DEF Locks, Wrote, Reserves
  <2>2. CASE SetCoverImage(t)
    <3>1. e.op = "media" /\ posts[e.post].state = "live" /\ ~Guarded(d)
      BY <1>1, <1>3, <1>9, <2>2 DEF SetCoverImage, CoverRow, ChangesFit
    <3> QED
      BY <1>7, <3>1 DEF Locks, Wrote, Reserves
  <2> QED
    BY <2>1, <2>2
<1>11. RequestOK(t, d)'
  <2>1. BaseKnown(d)'
    BY <1>2, <1>3, <1>7 DEF RequestOK, BaseKnown
  <2>2. AsRead(d)'
    <3>1. AsRead(e)
      BY <1>3 DEF RequestOK
    <3> QED
      BY <1>2, <1>7, <1>10, <3>1 DEF AsRead, VersionMatches, Wrote, Guarded
  <2>3. rowLock'[d.post] = t
    BY <1>2, <1>3, <1>7
  <2>4. Reserves(d)' => d.mem.slug \notin SlugsOfOthers(d.post)'
    BY <1>2, <1>10 DEF Reserves, SlugsOfOthers, SlugTaken, Wrote, Guarded
  <2>5. ChangesFit(d)' /\ ProgressFits(d)'
    BY <1>9 DEF ChangesFit, ProgressFits, Guarded
  <2> QED
    BY <1>7, <1>8, <2>1, <2>2, <2>3, <2>4, <2>5 DEF RequestOK
<1>12. ASSUME NEW u \in Txs \ {t}, Open(u) PROVE Apart(d, tx[u])
  <2>1. Apart(e, tx[u]) /\ RequestOK(u, tx[u])
    BY <1>1, <1>2, <1>12 DEF PostsInv, RequestsApart, RequestsOK
  <2>2. ASSUME tx[u].post # d.post, Reserves(d), Reserves(tx[u]) PROVE d.mem.slug # tx[u].mem.slug
    <3>1. rowLock[tx[u].post] = u /\ tx[u].mem.state = "live"
      BY <2>1, <2>2 DEF RequestOK, Reserves, Locks
    <3> QED
      BY <1>1, <1>7, <1>10, <1>12, <2>2, <3>1 DEF PendingElsewhere
  <2> QED
    BY <1>7, <1>8, <2>1, <2>2 DEF Apart
<1>13. \A p \in PostIDs : rowLock'[p] = t => d # NoTx /\ d.post = p /\ Locks(d)
  <2> SUFFICES ASSUME NEW p \in PostIDs, rowLock'[p] = t PROVE p = d.post
    BY <1>5, <1>10, OpenIsTyped
  <2>1. CASE p # e.post
    BY <1>1, <1>2, <1>3, <2>1 DEF PostsInv, LockHasOwner
  <2> QED
    BY <1>7, <2>1
<1>14. /\ \A p \in PostIDs : rowLock'[p] = rowLock[p] \/ rowLock[p] = "nobody" \/ rowLock[p] = t
       /\ \A p \in PostIDs : rowLock'[p] \in {rowLock[p], "nobody", t}
       /\ d \in OpenTx \cup {NoTx} /\ rowLock' \in [PostIDs -> Txs \cup {"nobody"}] /\ ops' \in 0..MaxOps
       /\ UNCHANGED <<posts, media, seo, revs>>
  BY <1>2, <1>3, <1>5 DEF PostsInv, PostsTypeOK
<1> QED
  BY <1>6, <1>11, <1>12, <1>13, <1>14, RequestMoves

(* A rollback lets go of the row.                                          *)
LEMMA AbortKeepsInv ==
  ASSUME PostsInv, NEW t \in Txs, Abort(t)
  PROVE  PostsInv'
<1> USE PostsAssumption
<1>1. tx' = [tx EXCEPT ![t] = NoTx] /\ UNCHANGED <<posts, media, seo, revs>> /\ ops' \in 0..MaxOps
  BY DEF Abort, PostsInv, PostsTypeOK
<1>2. /\ rowLock' \in [PostIDs -> Txs \cup {"nobody"}]
      /\ \A p \in PostIDs : rowLock'[p] = rowLock[p] \/ rowLock[p] = "nobody" \/ rowLock[p] = t
      /\ \A p \in PostIDs : rowLock'[p] \in {rowLock[p], "nobody", t}
      /\ \A p \in PostIDs : rowLock'[p] # t
  BY DEF Abort, PostsInv, PostsTypeOK
<1>3. NoTx \in OpenTx \cup {NoTx}
  OBVIOUS
<1> QED
  BY <1>1, <1>2, <1>3, RequestMoves

-----------------------------------------------------------------------------
(* A commit.  A write guarded by the version replaces exactly the row the  *)
(* request read; any other leaves the text as it is.                       *)
Replaces(e, row, new) ==
  /\ row \in Row /\ new \in Row
  /\ IF new.state = "none" THEN new = NoRow ELSE new.body \in Bodies
  /\ Guarded(e) => /\ Text(e.base) = Text(row)
                   /\ Text(new) = Text(e.mem)
                   /\ new.version = row.version + 1
  /\ ~Guarded(e) => Text(new) = Text(row) /\ new.version = row.version
  /\ row.state = "trashed" => e.op = "undelete" \/ (new = row /\ e.attached = FALSE)

LEMMA CommitRow ==
  ASSUME PostsInv, NEW t \in Txs, Open(t), tx[t].pc = "revised"
  PROVE  Replaces(tx[t], posts[tx[t].post], Committed(tx[t]))
<1> USE PostsAssumption
<1>e. PICK e : e = tx[t]
  OBVIOUS
<1>r. PICK row : row = posts[e.post]
  OBVIOUS
<1>n. PICK new : new = Committed(e)
  OBVIOUS
<1> SUFFICES Replaces(e, row, new)
  BY <1>e, <1>r, <1>n
<1>1. /\ e \in OpenTx /\ e.post \in PostIDs /\ ChangesFit(e) /\ ProgressFits(e) /\ RequestOK(t, e) /\ e.pc = "revised"
  BY <1>e, RequestIsOpen
<1>2. /\ row \in Row /\ e.mem \in Row /\ e.base \in Row /\ row.version \in Nat
      /\ IF row.state = "none" THEN row = NoRow ELSE row.body \in Bodies
  BY <1>1, <1>r DEF PostsInv, PostsTypeOK, RowsOK, OpenTx, Row
<1>3. BaseKnown(e) /\ AsRead(e)
  BY <1>1 DEF RequestOK
<1>4. Guarded(e) => Wrote(e)
  BY <1>1 DEF Wrote
<1>5. e.op = "media" => row.state = "live" /\ ~Guarded(e)
  BY <1>1, <1>3, <1>r DEF AsRead, Locks, ChangesFit
<1>6. ASSUME Guarded(e) PROVE Text(e.base) = Text(row) /\ e.base.version = row.version /\ e.base.state = row.state
  <2>1. VersionMatches(e)
    BY <1>3, <1>4, <1>6 DEF AsRead
  <2>2. CASE e.op = "create"
    <3>1. e.base = NoRow /\ row.state = "none"
      BY <1>1, <1>3, <1>r, <2>2 DEF ChangesFit, AsRead
    <3> QED
      BY <1>2, <3>1
  <2>3. CASE e.op # "create"
    BY <1>3, <1>r, <2>1, <2>3 DEF VersionMatches, BaseKnown
  <2> QED
    BY <2>2, <2>3
<1>7. ~Guarded(e) => row.state # "none"
  <2>1. ~Guarded(e) => e.base.state = "live"
    BY <1>1 DEF ChangesFit
  <2>2. row = NoRow /\ e.base.version <= row.version => e.base.version = row.version
    BY <1>2 DEF NoRow, Row
  <2>3. Text(e.base) = Text(row) => e.base.state = row.state
    BY DEF Text
  <2> QED
    BY <1>2, <1>3, <1>r, <2>1, <2>2, <2>3 DEF BaseKnown
<1>8. Guarded(e) => e.mem.version = row.version + 1
  BY <1>1, <1>6 DEF ChangesFit
<1>9. e.mem.body \in Bodies /\ e.mem.state \in {"live", "trashed"}
  <2>1. e.op = "delete" => e.mem.state = "trashed"
    BY <1>1 DEF ChangesFit, Text
  <2> QED
    BY <1>1, <2>1 DEF ChangesFit
<1>10. CASE e.op = "media"
  <2>1. new = [row EXCEPT !.cover = e.mem.cover]
    BY <1>r, <1>n, <1>10 DEF Committed
  <2>2. /\ new \in Row /\ new.state = row.state /\ new.status = row.status /\ new.slug = row.slug
        /\ new.body = row.body /\ new.version = row.version
    BY <1>2, <2>1 DEF Row
  <2> QED
    BY <1>2, <1>5, <1>10, <2>2 DEF Replaces, Text
<1>11. CASE e.op = "delete"
  <2>1. new = [row EXCEPT !.state = "trashed", !.version = e.mem.version]
    BY <1>r, <1>n, <1>11 DEF Committed
  <2>2. /\ new \in Row /\ new.state = "trashed" /\ new.status = row.status /\ new.slug = row.slug
        /\ new.body = row.body /\ new.version = e.mem.version
    BY <1>2, <2>1 DEF Row
  <2>3. Guarded(e) /\ e.base.state = "live" /\ Text(e.mem) = [Text(e.base) EXCEPT !.state = "trashed"]
    BY <1>1, <1>11 DEF ChangesFit
  <2>4. /\ e.mem.state = "trashed" /\ e.mem.status = row.status /\ e.mem.slug = row.slug /\ e.mem.body = row.body
    BY <1>6, <2>3 DEF Text
  <2> QED
    BY <1>2, <1>6, <1>8, <1>9, <2>2, <2>3, <2>4 DEF Replaces, Text
<1>12. CASE e.op = "undelete"
  <2>1. new = [row EXCEPT !.state = "live", !.slug = e.mem.slug, !.status = "draft", !.version = e.mem.version]
    BY <1>r, <1>n, <1>12 DEF Committed
  <2>2. /\ new \in Row /\ new.state = "live" /\ new.status = "draft" /\ new.slug = e.mem.slug
        /\ new.body = row.body /\ new.version = e.mem.version
    BY <1>2, <2>1 DEF Row, Status
  <2>3. Guarded(e) /\ e.mem.state = "live" /\ e.mem.status = "draft" /\ e.mem.body = e.base.body
    BY <1>1, <1>12 DEF ChangesFit
  <2>4. row.body = e.mem.body
    BY <1>6, <2>3 DEF Text
  <2> QED
    BY <1>2, <1>6, <1>8, <1>9, <1>12, <2>2, <2>3, <2>4 DEF Replaces, Text
<1>13. CASE e.op \notin {"media", "delete", "undelete"}
  <2>1. new = IF Guarded(e) THEN e.mem ELSE row
    BY <1>r, <1>n, <1>13 DEF Committed
  <2>2. Guarded(e) => row.state # "trashed"
    <3>1. e.base.state \in {"none", "live"}
      BY <1>1, <1>13 DEF ChangesFit, NoRow
    <3> QED
      BY <1>6, <3>1
  <2>3. ~Guarded(e) => e.attached = FALSE
    <3>1. ~Guarded(e) => e.op = "seo"
      BY <1>1, <1>13 DEF ChangesFit
    <3>2. e.attached \in BOOLEAN
      BY <1>1 DEF OpenTx
    <3> QED
      BY <1>1, <3>1, <3>2 DEF ProgressFits
  <2>4. CASE Guarded(e)
    BY <1>2, <1>6, <1>8, <1>9, <2>1, <2>2, <2>4 DEF Replaces
  <2>5. CASE ~Guarded(e)
    BY <1>2, <1>7, <2>1, <2>3, <2>5 DEF Replaces
  <2> QED
    BY <2>4, <2>5
<1> QED
  BY <1>10, <1>11, <1>12, <1>13

(* What a commit stores: the row of the post, and one revision with the    *)
(* next number, of the post as the request left it.                        *)
LEMMA CommitStores ==
  ASSUME PostsInv, NEW t \in Txs, CommitPost(t)
  PROVE  \E e \in OpenTx, new \in Row, r \in Revision :
           /\ e = tx[t] /\ e.post \in PostIDs /\ e.pc = "revised" /\ RequestOK(t, e) /\ new = Committed(e)
           /\ e.rev = {r} /\ r.number = NextNumber(e.post) /\ r.guarded = Guarded(e) /\ Describes(r.snap, e.mem)
           /\ posts' = [posts EXCEPT ![e.post] = new]
           /\ revs' = [revs EXCEPT ![e.post] = revs[e.post] \cup {r}]
           /\ rowLock' = [rowLock EXCEPT ![e.post] = IF rowLock[e.post] = t THEN "nobody" ELSE rowLock[e.post]]
           /\ media' \in [PostIDs -> SUBSET Assets] /\ seo' \in [PostIDs -> SUBSET SEOFields]
           /\ \A p \in PostIDs : p # e.post \/ e.attached = FALSE => media'[p] = media[p]
           /\ tx' = [tx EXCEPT ![t] = NoTx] /\ ops' = ops
<1>1. PICK e : e = tx[t]
  OBVIOUS
<1>2. PICK new : new = Committed(e)
  OBVIOUS
<1>3. Open(t) /\ e.pc = "revised"
  BY <1>1 DEF CommitPost
<1>4. e \in OpenTx /\ e.post \in PostIDs /\ RequestOK(t, e) /\ ProgressFits(e)
  BY <1>1, <1>3, RequestIsOpen
<1>5. new \in Row
  BY <1>1, <1>2, <1>3, CommitRow DEF Replaces
<1>6. PICK r \in e.rev : e.rev = {r} /\ r.guarded = Guarded(e) /\ Describes(r.snap, e.mem)
  BY <1>3, <1>4 DEF ProgressFits
<1>7. r \in Revision /\ r.number = NextNumber(e.post)
  BY <1>4, <1>6 DEF OpenTx, RequestOK
<1>8. /\ posts' = [posts EXCEPT ![e.post] = new]
      /\ revs' = [revs EXCEPT ![e.post] = revs[e.post] \cup {r}]
      /\ rowLock' = [rowLock EXCEPT ![e.post] = IF rowLock[e.post] = t THEN "nobody" ELSE rowLock[e.post]]
      /\ tx' = [tx EXCEPT ![t] = NoTx] /\ ops' = ops
  BY <1>1, <1>2, <1>6 DEF CommitPost
<1>9. PICK m : m = IF e.attached THEN (media[e.post] \ e.del) \cup e.items ELSE media[e.post]
  OBVIOUS
<1>10. PICK s : s = IF e.saved THEN e.seo ELSE seo[e.post]
  OBVIOUS
<1>11. media \in [PostIDs -> SUBSET Assets] /\ seo \in [PostIDs -> SUBSET SEOFields]
  BY DEF PostsInv, PostsTypeOK
<1>12. m \in SUBSET Assets /\ s \in SUBSET SEOFields
  <2>1. e.items \in SUBSET Assets /\ e.seo \in SUBSET SEOFields
    BY <1>4 DEF OpenTx
  <2> QED
    BY <1>4, <1>9, <1>10, <1>11, <2>1
<1>13. media' = [media EXCEPT ![e.post] = m] /\ seo' = [seo EXCEPT ![e.post] = s]
  BY <1>1, <1>9, <1>10 DEF CommitPost
<1>14. /\ media' \in [PostIDs -> SUBSET Assets] /\ seo' \in [PostIDs -> SUBSET SEOFields]
       /\ \A p \in PostIDs : p # e.post \/ e.attached = FALSE => media'[p] = media[p]
  BY <1>4, <1>9, <1>11, <1>12, <1>13
<1> QED
  BY <1>1, <1>2, <1>3, <1>4, <1>5, <1>6, <1>7, <1>8, <1>14, Zenon

LEMMA CommitKeepsInv ==
  ASSUME PostsInv, NEW t \in Txs, CommitPost(t)
  PROVE  PostsInv'
<1> USE PostsAssumption
<1>1. PICK e \in OpenTx, new \in Row, r \in Revision :
         /\ e = tx[t] /\ e.post \in PostIDs /\ e.pc = "revised" /\ RequestOK(t, e) /\ new = Committed(e)
         /\ e.rev = {r} /\ r.number = NextNumber(e.post) /\ r.guarded = Guarded(e) /\ Describes(r.snap, e.mem)
         /\ posts' = [posts EXCEPT ![e.post] = new]
         /\ revs' = [revs EXCEPT ![e.post] = revs[e.post] \cup {r}]
         /\ rowLock' = [rowLock EXCEPT ![e.post] = IF rowLock[e.post] = t THEN "nobody" ELSE rowLock[e.post]]
         /\ media' \in [PostIDs -> SUBSET Assets] /\ seo' \in [PostIDs -> SUBSET SEOFields]
         /\ \A p \in PostIDs : p # e.post \/ e.attached = FALSE => media'[p] = media[p]
         /\ tx' = [tx EXCEPT ![t] = NoTx] /\ ops' = ops
  BY CommitStores, Zenon
<1>2. PICK p \in PostIDs : p = e.post
  BY <1>1
<1>3. PICK row : row = posts[p]
  OBVIOUS
<1>4. Open(t)
  BY DEF CommitPost
<1>5. /\ row \in Row /\ new \in Row
      /\ IF new.state = "none" THEN new = NoRow ELSE new.body \in Bodies
      /\ Guarded(e) => /\ Text(e.base) = Text(row)
                       /\ Text(new) = Text(e.mem)
                       /\ new.version = row.version + 1
      /\ ~Guarded(e) => Text(new) = Text(row) /\ new.version = row.version
  <2>1. tx[t].pc = "revised" /\ e = tx[t] /\ row = posts[e.post] /\ new = Committed(e)
    BY <1>1, <1>2, <1>3
  <2>2. Replaces(e, row, new)
    BY <1>4, <2>1, CommitRow
  <2> QED
    BY <2>2 DEF Replaces
<1>6. /\ Guarded(e) => /\ new.state = e.mem.state /\ new.status = e.mem.status
                       /\ new.slug = e.mem.slug /\ new.body = e.mem.body
      /\ ~Guarded(e) => /\ new.state = row.state /\ new.status = row.status
                        /\ new.slug = row.slug /\ new.body = row.body
      /\ row.version \in Nat
  BY <1>5 DEF Text, Row
<1>7. /\ posts \in [PostIDs -> Row] /\ posts'[p] = new /\ \A q \in PostIDs \ {p} : posts'[q] = posts[q]
      /\ revs \in [PostIDs -> SUBSET Revision]
      /\ revs'[p] = revs[p] \cup {r} /\ \A q \in PostIDs \ {p} : revs'[q] = revs[q]
      /\ rowLock \in [PostIDs -> Txs \cup {"nobody"}]
      /\ \A q \in PostIDs : rowLock'[q] = rowLock[q] \/ (rowLock[q] = t /\ rowLock'[q] = "nobody")
      /\ rowLock'[p] # t
      /\ tx \in [Txs -> OpenTx \cup {NoTx}] /\ tx'[t] = NoTx /\ \A u \in Txs \ {t} : tx'[u] = tx[u]
  BY <1>1, <1>2 DEF PostsInv, PostsTypeOK
<1>8. \A q \in revs[p] : q.number \in Nat /\ q.number < r.number
  BY <1>1, <1>2, NewestNumber DEF PostsInv
<1>9. Guarded(e) => Wrote(e)
  BY <1>1 DEF Wrote
<1>10. PostsTypeOK'
  <2>1. rowLock' \in [PostIDs -> Txs \cup {"nobody"}]
    BY <1>1, <1>7
  <2> QED
    BY <1>1, <1>7, <2>1 DEF PostsInv, PostsTypeOK
<1>11. RowsOK'
  <2>1. \A q \in PostIDs : IF posts'[q].state = "none" THEN posts'[q] = NoRow ELSE posts'[q].body \in Bodies
    BY <1>5, <1>7 DEF PostsInv, RowsOK
  <2> QED
    BY <2>1 DEF RowsOK
<1>12. RevsOK'
  <2> SUFFICES ASSUME NEW q \in PostIDs PROVE IsFiniteSet(revs'[q]) /\ (revs'[q] # {} => HasNewest(revs'[q]))
    BY DEF RevsOK, HasNewest
  <2>1. CASE q # p
    BY <1>7, <2>1 DEF PostsInv, RevsOK
  <2>2. CASE q = p
    <3>1. IsFiniteSet(revs[p])
      BY DEF PostsInv, RevsOK
    <3>2. \A x \in revs'[p] : x.number <= r.number
      BY <1>1, <1>7, <1>8 DEF Revision
    <3>3. IsFiniteSet(revs[p] \cup {r})
      BY <3>1, FS_AddElement
    <3>4. revs'[p] = revs[p] \cup {r} /\ r \in revs'[p]
      BY <1>7
    <3> QED
      BY <2>2, <3>2, <3>3, <3>4 DEF HasNewest
  <2> QED
    BY <2>1, <2>2
<1>13. HistoryDescribesPost'
  <2> SUFFICES ASSUME NEW q \in PostIDs, NEW x \in revs'[q], x.guarded,
                      \A y \in revs'[q] : y.guarded => y.number <= x.number
               PROVE  x.snap.status = posts'[q].status /\ x.snap.slug = posts'[q].slug /\ x.snap.body = posts'[q].body
    BY DEF HistoryDescribesPost
  <2>1. CASE q # p
    BY <1>7, <2>1 DEF PostsInv, HistoryDescribesPost
  <2>2. CASE q = p /\ Guarded(e)
    <3>1. r.guarded /\ r \in revs'[p] /\ r.number \in Nat
      BY <1>1, <1>7, <2>2 DEF Revision
    <3>2. r.number <= x.number
      BY <2>2, <3>1
    <3>3. x \notin revs[p]
      BY <1>8, <3>1, <3>2
    <3>4. x = r
      BY <1>7, <2>2, <3>3
    <3> QED
      BY <1>1, <1>6, <1>7, <2>2, <3>4 DEF Describes
  <2>3. CASE q = p /\ ~Guarded(e)
    <3>1. x \in revs[p]
      BY <1>1, <1>7, <2>3
    <3>2. \A y \in revs[p] : y.guarded => y.number <= x.number
      BY <1>7, <2>3
    <3>3. x.snap.status = row.status /\ x.snap.slug = row.slug /\ x.snap.body = row.body
      BY <1>3, <3>1, <3>2 DEF PostsInv, HistoryDescribesPost
    <3> QED
      BY <1>6, <1>7, <2>3, <3>3
  <2> QED
    BY <2>1, <2>2, <2>3
<1>14. \A q \in PostIDs \ {p} : (new.state = "live" /\ posts[q].state = "live") => new.slug # posts[q].slug
  <2>1. CASE Guarded(e)
    <3>1. new.state = "live" => e.mem.slug \notin SlugsOfOthers(p)
      BY <1>1, <1>2, <1>6, <1>9, <2>1 DEF RequestOK, Reserves
    <3> QED
      BY <1>6, <2>1, <3>1 DEF SlugsOfOthers
  <2>2. CASE ~Guarded(e)
    BY <1>3, <1>6, <2>2 DEF PostsInv, SlugsUnique
  <2> QED
    BY <2>1, <2>2
<1>15. SlugsUnique'
  <2> SUFFICES ASSUME NEW a \in PostIDs, NEW b \in PostIDs, a # b, posts'[a].state = "live", posts'[b].state = "live"
               PROVE  posts'[a].slug # posts'[b].slug
    BY DEF SlugsUnique
  <2> QED
    BY <1>7, <1>14 DEF PostsInv, SlugsUnique
<1>16. RequestsOK'
  <2> SUFFICES ASSUME NEW u \in Txs, tx'[u] # NoTx PROVE RequestOK(u, tx[u])'
    BY DEF RequestsOK, Open
  <2>1. PICK f : f = tx[u]
    OBVIOUS
  <2>2. u # t /\ tx'[u] = f /\ f # NoTx /\ f \in OpenTx /\ f.post \in PostIDs /\ RequestOK(u, f) /\ Apart(e, f)
    BY <1>1, <1>4, <1>7, <2>1, OpenIsTyped DEF PostsInv, RequestsOK, RequestsApart, Open
  <2>3. BaseKnown(f) /\ AsRead(f) /\ ChangesFit(f) /\ ProgressFits(f)
    BY <2>2 DEF RequestOK
  <2>4. Locks(f) => rowLock'[f.post] = u
    BY <1>7, <2>2 DEF RequestOK
  <2>5. f.post = p => f.rev = {} /\ f.op # "create"
    BY <1>1, <1>2, <2>2 DEF Apart
  <2>6. f.post = p /\ Wrote(f) => ~Guarded(e)
    BY <1>1, <1>2, <1>9, <2>2 DEF RequestOK, Locks
  <2>7. BaseKnown(f)'
    <3>1. f.base \in Row /\ f.base.version \in Nat
      BY <2>2 DEF OpenTx, Row
    <3> QED
      BY <1>3, <1>5, <1>6, <1>7, <2>2, <2>3, <3>1 DEF BaseKnown
  <2>8. AsRead(f)'
    <3>1. CASE f.post # p
      BY <1>7, <2>2, <2>3, <3>1 DEF AsRead, VersionMatches, Wrote, Locks, Guarded
    <3>2. CASE f.post = p
      <4>1. Wrote(f) => VersionMatches(f)'
        BY <1>3, <1>5, <1>6, <1>7, <2>3, <2>6, <3>2 DEF AsRead, VersionMatches
      <4>2. f.op = "media" /\ Locks(f) => posts'[p].state = "live"
        <5>1. f.op = "media" /\ Locks(f) => row.state = "live" /\ rowLock[p] = u
          BY <1>3, <2>2, <2>3, <3>2 DEF AsRead, RequestOK
        <5>2. Guarded(e) => rowLock[p] = t
          BY <1>1, <1>2, <1>9 DEF RequestOK, Locks
        <5> QED
          BY <1>6, <1>7, <2>2, <5>1, <5>2
      <4> QED
        BY <2>5, <3>2, <4>1, <4>2 DEF AsRead, Wrote, Locks, Guarded
    <3> QED
      BY <3>1, <3>2
  <2>9. Reserves(f) => f.mem.slug \notin SlugsOfOthers(f.post)'
    <3> SUFFICES ASSUME Reserves(f), NEW q \in PostIDs \ {f.post}, posts'[q].state = "live"
                 PROVE  f.mem.slug # posts'[q].slug
      BY DEF SlugsOfOthers
    <3>1. posts[q].state = "live" => f.mem.slug # posts[q].slug
      BY <2>2 DEF RequestOK, SlugsOfOthers
    <3>2. CASE q = p /\ Guarded(e)
      BY <1>1, <1>2, <1>6, <1>7, <1>9, <2>2, <3>2 DEF Apart, Reserves
    <3>3. CASE q = p /\ ~Guarded(e)
      BY <1>3, <1>6, <1>7, <3>1, <3>3
    <3> QED
      BY <1>7, <3>1, <3>2, <3>3
  <2>10. \A x \in f.rev : x.number = NextNumber(f.post)'
    <3>1. f.post # p => NextNumber(f.post)' = NextNumber(f.post)
      BY <1>7, <2>2 DEF NextNumber, Numbers
    <3> QED
      BY <2>2, <2>5, <3>1 DEF RequestOK
  <2>11. RequestOK(u, f)'
    BY <2>3, <2>4, <2>7, <2>8, <2>9, <2>10 DEF RequestOK, ChangesFit, ProgressFits, Locks, Wrote, Guarded, Reserves
  <2> QED
    BY <2>2, <2>11
<1>17. RequestsApart'
  <2>1. \A u, v \in Txs : (u # v /\ tx'[u] # NoTx /\ tx'[v] # NoTx) => Apart(tx'[u], tx'[v])
    BY <1>7 DEF PostsInv, RequestsApart, Open
  <2> QED
    BY <2>1 DEF RequestsApart, Apart, Reserves, Wrote, Guarded, Open
<1>18. LockHasOwner'
  <2> SUFFICES ASSUME NEW q \in PostIDs, rowLock'[q] # "nobody"
               PROVE  tx'[rowLock'[q]] # NoTx /\ tx'[rowLock'[q]].post = q /\ Locks(tx'[rowLock'[q]])
    BY DEF LockHasOwner, Open, Locks, Wrote, Guarded
  <2>1. rowLock'[q] = rowLock[q] /\ Open(rowLock[q]) /\ tx[rowLock[q]].post = q /\ Locks(tx[rowLock[q]])
    BY <1>7 DEF PostsInv, LockHasOwner
  <2>2. rowLock[q] \in Txs \ {t}
    BY <1>1, <1>2, <1>7, <2>1
  <2> QED
    BY <1>7, <2>1, <2>2 DEF Open
<1> QED
  BY <1>10, <1>11, <1>12, <1>13, <1>15, <1>16, <1>17, <1>18 DEF PostsInv

-----------------------------------------------------------------------------
(* Prune: with a revision it keeps every newer one, so the newest stays.   *)
LEMMA PruneKeepsNewer ==
  ASSUME PostsInv, Prune, NEW p \in PostIDs
  PROVE  /\ revs'[p] \subseteq revs[p]
         /\ \A r \in revs'[p], q \in revs[p] : r.number <= q.number => q \in revs'[p]
         /\ \A r \in revs[p] : (\A q \in revs[p] : q.number <= r.number) => r \in revs'[p]
<1> USE PostsAssumption
<1> DEFINE Newer(r) == {x \in revs[p] : x.number > r.number}
<1>1. IsFiniteSet(revs[p]) /\ \A r \in revs[p] : r.number \in Nat
  BY DEF PostsInv, RevsOK, PostsTypeOK, Revision
<1>2. revs'[p] = {r \in revs[p] : Cardinality(Newer(r)) < Keep}
  BY DEF Prune
<1>3. ASSUME NEW r \in revs[p] PROVE IsFiniteSet(Newer(r)) /\ Cardinality(Newer(r)) \in Nat
  <2>1. Newer(r) \subseteq revs[p]
    OBVIOUS
  <2> QED
    BY <1>1, <2>1, FS_Subset, FS_CardinalityType
<1>4. ASSUME NEW r \in revs'[p], NEW q \in revs[p], r.number <= q.number PROVE q \in revs'[p]
  <2>1. r \in revs[p] /\ Cardinality(Newer(r)) < Keep
    BY <1>2
  <2>2. Newer(q) \subseteq Newer(r)
    BY <1>1, <1>4, <2>1
  <2>3. Cardinality(Newer(q)) <= Cardinality(Newer(r)) /\ Cardinality(Newer(q)) \in Nat /\ Cardinality(Newer(r)) \in Nat
    <3>1. IsFiniteSet(Newer(r)) /\ Cardinality(Newer(q)) \in Nat /\ Cardinality(Newer(r)) \in Nat
      BY <1>3, <2>1
    <3> HIDE DEF Newer
    <3> QED
      BY <2>2, <3>1, FS_Subset
  <2>4. Cardinality(Newer(q)) < Keep
    <3> HIDE DEF Newer
    <3> QED
      BY <2>1, <2>3
  <2> QED
    BY <1>2, <2>4
<1>5. ASSUME NEW r \in revs[p], \A q \in revs[p] : q.number <= r.number PROVE r \in revs'[p]
  <2>1. Newer(r) = {}
    BY <1>1, <1>5
  <2>2. Cardinality(Newer(r)) = 0
    BY <2>1, FS_EmptySet
  <2> QED
    BY <1>2, <2>2
<1> QED
  BY <1>2, <1>4, <1>5

LEMMA MaxOfNewest ==
  ASSUME NEW R, NEW r \in R, \A q \in R : q.number \in Nat /\ q.number <= r.number
  PROVE  Max({q.number : q \in R}) = r.number
<1>1. PICK S : S = {q.number : q \in R}
  OBVIOUS
<1>2. r.number \in S /\ \A n \in S : n \in Nat /\ n <= r.number
  BY <1>1
<1>3. Max(S) \in S /\ \A n \in S : Max(S) >= n
  BY <1>2 DEF Max
<1>4. Max(S) <= r.number /\ Max(S) >= r.number /\ Max(S) \in Nat /\ r.number \in Nat
  BY <1>2, <1>3
<1> QED
  BY <1>1, <1>4

LEMMA PruneKeepsInv ==
  ASSUME PostsInv, Prune
  PROVE  PostsInv'
<1> USE PostsAssumption
<1>1. UNCHANGED <<posts, media, seo, rowLock, tx, ops>>
  BY DEF Prune
<1>2. \A p \in PostIDs : revs[p] \subseteq Revision /\ \A r \in revs[p] : r.number \in Nat
  BY DEF PostsInv, PostsTypeOK, Revision
<1>3. PostsTypeOK'
  <2>1. revs' \in [PostIDs -> SUBSET Revision]
    BY <1>2 DEF Prune
  <2> QED
    BY <1>1, <2>1 DEF PostsInv, PostsTypeOK
<1>4. RowsOK' /\ SlugsUnique' /\ RequestsApart' /\ LockHasOwner'
  BY <1>1 DEF PostsInv, RowsOK, SlugsUnique, RequestsApart, LockHasOwner, Apart, Reserves, Wrote, Locks, Guarded, Open
<1>5. ASSUME NEW p \in PostIDs
      PROVE  IsFiniteSet(revs'[p]) /\ (revs'[p] # {} => HasNewest(revs'[p])) /\ NextNumber(p)' = NextNumber(p)
  <2>1. /\ revs'[p] \subseteq revs[p]
        /\ \A r \in revs[p] : (\A q \in revs[p] : q.number <= r.number) => r \in revs'[p]
    BY PruneKeepsNewer
  <2>2. IsFiniteSet(revs'[p])
    BY <2>1, FS_Subset DEF PostsInv, RevsOK
  <2>3. CASE revs[p] = {}
    BY <2>1, <2>2, <2>3 DEF NextNumber
  <2>4. CASE revs[p] # {}
    <3>1. PICK r \in revs[p] : \A q \in revs[p] : q.number <= r.number
      BY <2>4 DEF PostsInv, RevsOK, HasNewest
    <3>2. r \in revs'[p] /\ \A q \in revs'[p] : q.number \in Nat /\ q.number <= r.number
      BY <1>2, <2>1, <3>1
    <3>3. Max({q.number : q \in revs'[p]}) = r.number
      BY <3>2, MaxOfNewest
    <3>4. Max({q.number : q \in revs[p]}) = r.number
      BY <1>2, <3>1, MaxOfNewest
    <3> QED
      BY <2>2, <2>4, <3>2, <3>3, <3>4 DEF HasNewest, NextNumber, Numbers
  <2> QED
    BY <2>3, <2>4
<1>6. RevsOK'
  <2>1. \A p \in PostIDs : IsFiniteSet(revs'[p]) /\ (revs'[p] # {} => HasNewest(revs'[p]))
    BY <1>5
  <2> QED
    BY <2>1 DEF RevsOK, HasNewest
<1>7. HistoryDescribesPost'
  <2> SUFFICES ASSUME NEW p \in PostIDs, NEW r \in revs'[p], r.guarded,
                      \A q \in revs'[p] : q.guarded => q.number <= r.number
               PROVE  r.snap.status = posts'[p].status /\ r.snap.slug = posts'[p].slug /\ r.snap.body = posts'[p].body
    BY DEF HistoryDescribesPost
  <2>1. /\ r \in revs[p]
        /\ \A q \in revs[p] : r.number <= q.number => q \in revs'[p]
    BY PruneKeepsNewer
  <2>2. \A q \in revs[p] : q.guarded => q.number <= r.number
    BY <1>2, <2>1
  <2> QED
    BY <1>1, <2>1, <2>2 DEF PostsInv, HistoryDescribesPost
<1>8. RequestsOK'
  <2> SUFFICES ASSUME NEW u \in Txs, Open(u) PROVE RequestOK(u, tx[u])'
    BY <1>1 DEF RequestsOK, Open
  <2>1. PICK f : f = tx[u] /\ f.post \in PostIDs /\ RequestOK(u, f)
    BY RequestIsOpen
  <2>2. NextNumber(f.post)' = NextNumber(f.post)
    BY <1>5, <2>1
  <2>3. RequestOK(u, f)'
    BY <1>1, <2>1, <2>2 DEF RequestOK, BaseKnown, AsRead, VersionMatches, SlugsOfOthers, Reserves, Wrote, Locks, Guarded,
                            ChangesFit, ProgressFits
  <2> QED
    BY <1>1, <2>1, <2>3
<1> QED
  BY <1>3, <1>4, <1>6, <1>7, <1>8 DEF PostsInv

-----------------------------------------------------------------------------
(* Every step keeps the invariant.                                         *)
LEMMA PostsNextInv == PostsInv /\ [PostsNext]_postVars => PostsInv'
<1> SUFFICES ASSUME PostsInv, [PostsNext]_postVars PROVE PostsInv'
  OBVIOUS
<1>1. CASE UNCHANGED postVars
  <2>1. UNCHANGED <<posts, media, seo, revs, rowLock, tx, ops>>
    BY <1>1 DEF postVars
  <2>2. PostsTypeOK' /\ RowsOK' /\ RevsOK' /\ HistoryDescribesPost' /\ SlugsUnique'
    BY <2>1 DEF PostsInv, PostsTypeOK, RowsOK, RevsOK, HistoryDescribesPost, SlugsUnique
  <2>3. RequestsApart' /\ LockHasOwner'
    BY <2>1 DEF PostsInv, RequestsApart, LockHasOwner, Apart, Reserves, Wrote, Locks, Guarded, Open
  <2>4. RequestsOK'
    <3> SUFFICES ASSUME NEW u \in Txs, Open(u) PROVE RequestOK(u, tx[u])'
      BY <2>1 DEF RequestsOK, Open
    <3>1. PICK f : f = tx[u] /\ RequestOK(u, f)
      BY RequestIsOpen
    <3>2. NextNumber(f.post)' = NextNumber(f.post)
      BY <2>1 DEF NextNumber, Numbers
    <3>3. RequestOK(u, f)'
      BY <2>1, <3>1, <3>2 DEF RequestOK, BaseKnown, AsRead, VersionMatches, SlugsOfOthers, Reserves, Wrote, Locks,
                              Guarded, ChangesFit, ProgressFits
    <3> QED
      BY <2>1, <3>1, <3>3
  <2> QED
    BY <2>2, <2>3, <2>4 DEF PostsInv
<1>2. ASSUME NEW t \in Txs, NEW p \in PostIDs,
             \/ \E b \in Bodies : CreateDraft(t, p, b)
             \/ \E b \in Bodies, s \in EditSlugs : Update(t, p, b, s)
             \/ \E tr \in DOMAIN From : Transition(t, p, tr)
             \/ Delete(t, p)
             \/ Undelete(t, p)
             \/ \E r \in revs[p] : RestoreRevision(t, p, r)
             \/ \E items \in SUBSET Assets : ReplaceMedia(t, p, items)
             \/ \E fields \in SUBSET SEOFields, s \in EditSlugs : UpdateSEO(t, p, fields, s)
      PROVE  PostsInv'
  BY <1>2, EditsKeepInv
<1>3. ASSUME NEW t \in Txs, PickSlug(t) \/ RetrySlug(t) PROVE PostsInv'
  BY <1>3, SlugStepsKeepInv
<1>4. ASSUME NEW t \in Txs, WritePost(t) \/ SetCoverImage(t) PROVE PostsInv'
  BY <1>4, LockKeepsInv
<1>5. ASSUME NEW t \in Txs, DeleteMedia(t) \/ AttachMedia(t) \/ SaveSEO(t) PROVE PostsInv'
  BY <1>5, StoresKeepInv
<1>6. ASSUME NEW t \in Txs, TakeSnapshot(t) PROVE PostsInv'
  BY <1>6, SnapshotKeepsInv
<1>7. ASSUME NEW t \in Txs, AppendRevision(t) PROVE PostsInv'
  BY <1>7, AppendKeepsInv
<1>8. ASSUME NEW t \in Txs, CommitPost(t) PROVE PostsInv'
  BY <1>8, CommitKeepsInv
<1>9. ASSUME NEW t \in Txs, Abort(t) PROVE PostsInv'
  BY <1>9, AbortKeepsInv
<1>10. CASE Prune
  BY <1>10, PruneKeepsInv
<1> QED
  BY <1>1, <1>2, <1>3, <1>4, <1>5, <1>6, <1>7, <1>8, <1>9, <1>10, Zenon DEF PostsNext

LEMMA PostsAlwaysInv == PostsSpec => []PostsInv
BY PostsInitInv, PostsNextInv, PTL DEF PostsSpec

(* Whatever requests interleave, the newest revision of a guarded write    *)
(* describes the post, and no two live posts share a slug (revise,         *)
(* posts_slug_live_key).                                                   *)
THEOREM PostsAreSound == PostsSpec => []PostsInvariant
<1>1. PostsInv => PostsInvariant
  BY DEF PostsInv, PostsInvariant
<1> QED
  BY <1>1, PostsAlwaysInv, PTL

(* Only a commit changes the posts, only a commit or a prune the history.  *)
LEMMA QuietSteps ==
  ASSUME [PostsNext]_postVars
  PROVE  \/ UNCHANGED <<posts, media, revs>>
         \/ \E t \in Txs : CommitPost(t)
         \/ Prune
<1>1. ASSUME NEW t, NEW op, NEW p, NEW mem, NEW items, NEW fields, Begin(t, op, p, mem, items, fields)
      PROVE  UNCHANGED <<posts, media, revs>>
  BY <1>1 DEF Begin
<1>2. ASSUME NEW t \in Txs, NEW p \in PostIDs,
             \/ \E b \in Bodies : CreateDraft(t, p, b)
             \/ \E b \in Bodies, s \in EditSlugs : Update(t, p, b, s)
             \/ \E tr \in DOMAIN From : Transition(t, p, tr)
             \/ Delete(t, p)
             \/ Undelete(t, p)
             \/ \E r \in revs[p] : RestoreRevision(t, p, r)
             \/ \E items \in SUBSET Assets : ReplaceMedia(t, p, items)
             \/ \E fields \in SUBSET SEOFields, s \in EditSlugs : UpdateSEO(t, p, fields, s)
      PROVE  UNCHANGED <<posts, media, revs>>
  BY <1>1, <1>2, Zenon DEF CreateDraft, Update, Transition, Delete, Undelete, RestoreRevision, ReplaceMedia, UpdateSEO
<1>3. ASSUME NEW t \in Txs, \/ PickSlug(t) \/ RetrySlug(t) \/ WritePost(t) \/ SetCoverImage(t) \/ DeleteMedia(t)
                            \/ AttachMedia(t) \/ SaveSEO(t) \/ TakeSnapshot(t) \/ AppendRevision(t) \/ Abort(t)
      PROVE  UNCHANGED <<posts, media, revs>>
  BY <1>3 DEF PickSlug, RetrySlug, WritePost, SetCoverImage, DeleteMedia, AttachMedia, SaveSEO, TakeSnapshot,
              AppendRevision, Abort
<1>4. UNCHANGED postVars => UNCHANGED <<posts, media, revs>>
  BY DEF postVars
<1> QED
  BY <1>2, <1>3, <1>4, Zenon DEF PostsNext

(* What a commit does to the other posts, and to its own.                  *)
LEMMA CommitEffect ==
  ASSUME PostsInv, NEW t \in Txs, CommitPost(t), NEW p \in PostIDs
  PROVE  /\ Open(t) /\ tx'[t] = NoTx
         /\ p # tx[t].post => posts'[p] = posts[p] /\ media'[p] = media[p] /\ revs'[p] = revs[p]
         /\ p = tx[t].post => /\ Replaces(tx[t], posts[p], posts'[p])
                              /\ tx[t].attached = FALSE => media'[p] = media[p]
                              /\ \E r \in Revision : r.number = NextNumber(p) /\ revs'[p] = revs[p] \cup {r}
<1>1. PICK e \in OpenTx, new \in Row, r \in Revision :
         /\ e = tx[t] /\ e.post \in PostIDs /\ e.pc = "revised" /\ RequestOK(t, e) /\ new = Committed(e)
         /\ e.rev = {r} /\ r.number = NextNumber(e.post) /\ r.guarded = Guarded(e) /\ Describes(r.snap, e.mem)
         /\ posts' = [posts EXCEPT ![e.post] = new]
         /\ revs' = [revs EXCEPT ![e.post] = revs[e.post] \cup {r}]
         /\ rowLock' = [rowLock EXCEPT ![e.post] = IF rowLock[e.post] = t THEN "nobody" ELSE rowLock[e.post]]
         /\ media' \in [PostIDs -> SUBSET Assets] /\ seo' \in [PostIDs -> SUBSET SEOFields]
         /\ \A q \in PostIDs : q # e.post \/ e.attached = FALSE => media'[q] = media[q]
         /\ tx' = [tx EXCEPT ![t] = NoTx] /\ ops' = ops
  BY CommitStores, Zenon
<1>2. Open(t)
  BY DEF CommitPost
<1>3. Replaces(tx[t], posts[tx[t].post], Committed(tx[t]))
  BY <1>1, <1>2, CommitRow
<1>4. posts \in [PostIDs -> Row] /\ revs \in [PostIDs -> SUBSET Revision] /\ tx \in [Txs -> OpenTx \cup {NoTx}]
  BY DEF PostsInv, PostsTypeOK
<1>5. tx'[t] = NoTx
  BY <1>1, <1>4
<1>6. p # tx[t].post => posts'[p] = posts[p] /\ media'[p] = media[p] /\ revs'[p] = revs[p]
  BY <1>1, <1>4
<1>7. ASSUME p = tx[t].post
      PROVE  /\ posts'[p] = Committed(tx[t]) /\ (tx[t].attached = FALSE => media'[p] = media[p])
             /\ r.number = NextNumber(p) /\ revs'[p] = revs[p] \cup {r}
  BY <1>1, <1>4, <1>7
<1> QED
  BY <1>2, <1>3, <1>5, <1>6, <1>7

LEMMA NoUpdateIsLost ==
  ASSUME PostsInv, [PostsNext]_postVars, NEW p \in PostIDs, Text(posts'[p]) # Text(posts[p])
  PROVE  \E t \in Txs : /\ Open(t) /\ tx'[t] = NoTx
                        /\ tx[t].post = p
                        /\ Text(tx[t].base) = Text(posts[p])
                        /\ posts'[p].version = posts[p].version + 1
<1>1. PICK t \in Txs : CommitPost(t)
  BY QuietSteps DEF Prune
<1>2. tx[t].post = p
  BY <1>1, CommitEffect
<1>3. Open(t) /\ tx'[t] = NoTx /\ Replaces(tx[t], posts[p], posts'[p])
  BY <1>1, <1>2, CommitEffect
<1> QED
  BY <1>2, <1>3 DEF Replaces

(* Optimistic locking loses no update: what changes a post's text was      *)
(* computed from exactly the row it replaces, and takes the next version   *)
(* (PostRepository.Update).                                                *)
THEOREM NothingIsOverwritten == PostsSpec => NoLostUpdate
<1>1. PostsInv /\ [PostsNext]_postVars =>
        [\A p \in PostIDs : Text(posts'[p]) # Text(posts[p]) =>
           \E t \in Txs : /\ Open(t) /\ tx'[t] = NoTx
                          /\ tx[t].post = p
                          /\ Text(tx[t].base) = Text(posts[p])
                          /\ posts'[p].version = posts[p].version + 1]_postVars
  BY NoUpdateIsLost
<1> QED
  BY <1>1, PostsAlwaysInv, PTL DEF PostsSpec, NoLostUpdate

LEMMA TrashStep ==
  ASSUME PostsInv, [PostsNext]_postVars, NEW p \in PostIDs, posts[p].state = "trashed"
  PROVE  \/ posts'[p] = posts[p] /\ media'[p] = media[p]
         \/ \E t \in Txs : Open(t) /\ tx[t].op = "undelete" /\ tx[t].post = p /\ tx'[t] = NoTx
<1>1. CASE \E t \in Txs : CommitPost(t)
  <2>1. PICK t \in Txs : CommitPost(t)
    BY <1>1
  <2>2. CASE p # tx[t].post
    BY <2>1, <2>2, CommitEffect
  <2>3. CASE p = tx[t].post
    <3>1. Open(t) /\ tx'[t] = NoTx /\ Replaces(tx[t], posts[p], posts'[p]) /\ (tx[t].attached = FALSE => media'[p] = media[p])
      BY <2>1, <2>3, CommitEffect
    <3> QED
      BY <2>3, <3>1 DEF Replaces
  <2> QED
    BY <2>2, <2>3
<1>2. CASE ~ \E t \in Txs : CommitPost(t)
  BY <1>2, QuietSteps DEF Prune
<1> QED
  BY <1>1, <1>2

LEMMA HistoryStep ==
  ASSUME PostsInv, [PostsNext]_postVars, NEW p \in PostIDs, revs'[p] # revs[p],
         NEW old, old = Numbers(p), NEW new, new = {r.number : r \in revs'[p]}
  PROVE  \/ /\ revs[p] \subseteq revs'[p]
            /\ Cardinality(revs'[p]) = Cardinality(revs[p]) + 1
            /\ new = old \cup {IF old = {} THEN 1 ELSE Max(old) + 1}
         \/ /\ revs'[p] \subseteq revs[p]
            /\ Max(old) \in new
            /\ \A n \in new, m \in old \ new : m < n
<1>1. IsFiniteSet(revs[p]) /\ \A r \in revs[p] : r.number \in Nat
  BY DEF PostsInv, RevsOK, PostsTypeOK, Revision
<1>2. CASE \E t \in Txs : CommitPost(t)
  <2>1. PICK t \in Txs : CommitPost(t)
    BY <1>2
  <2>2. p = tx[t].post
    BY <2>1, CommitEffect
  <2>3. PICK r \in Revision : r.number = NextNumber(p) /\ revs'[p] = revs[p] \cup {r}
    BY <2>1, <2>2, CommitEffect
  <2>4. r \notin revs[p]
    BY <2>3
  <2>5. Cardinality(revs'[p]) = Cardinality(revs[p]) + 1
    BY <1>1, <2>3, <2>4, FS_AddElement
  <2>6. NextNumber(p) = IF old = {} THEN 1 ELSE Max(old) + 1
    BY DEF NextNumber, Numbers
  <2>7. new = old \cup {NextNumber(p)}
    BY <2>3 DEF Numbers
  <2> QED
    BY <2>3, <2>5, <2>6, <2>7
<1>3. CASE Prune
  <2>1. /\ revs'[p] \subseteq revs[p]
        /\ \A r \in revs'[p], q \in revs[p] : r.number <= q.number => q \in revs'[p]
        /\ \A r \in revs[p] : (\A q \in revs[p] : q.number <= r.number) => r \in revs'[p]
    BY <1>3, PruneKeepsNewer
  <2>2. PICK r \in revs[p] : Max(old) = r.number /\ \A q \in revs[p] : q.number <= r.number
    BY <2>1, NewestNumber DEF PostsInv
  <2>3. Max(old) \in new
    BY <2>1, <2>2
  <2>4. ASSUME NEW n \in new, NEW m \in old \ new PROVE m < n
    <3>1. PICK x \in revs'[p] : x.number = n
      OBVIOUS
    <3>2. PICK y \in revs[p] : y.number = m
      BY DEF Numbers
    <3>3. y \notin revs'[p] /\ x \in revs[p]
      BY <2>1, <3>1, <3>2
    <3> QED
      BY <1>1, <2>1, <3>1, <3>2, <3>3
  <2> QED
    BY <2>1, <2>3, <2>4
<1> QED
  BY <1>2, <1>3, QuietSteps

(* The history of a post grows by one revision with the next number or     *)
(* loses its oldest, and nothing under way changes a post in the trash     *)
(* (revise, Prune, Delete, Restore).                                       *)
THEOREM HistoryIsAppendOnly == PostsSpec => PostSteps
<1>1. PostsInv /\ [PostsNext]_postVars =>
        [\A p \in PostIDs : posts[p].state = "trashed" =>
           \/ posts'[p] = posts[p] /\ media'[p] = media[p]
           \/ \E t \in Txs : Open(t) /\ tx[t].op = "undelete" /\ tx[t].post = p /\ tx'[t] = NoTx]_postVars
  BY TrashStep
<1>2. PostsInv /\ [PostsNext]_postVars =>
        [\A p \in PostIDs :
           LET old == Numbers(p)
               new == {r.number : r \in revs'[p]}
           IN  revs'[p] # revs[p] =>
                 \/ /\ revs[p] \subseteq revs'[p]
                    /\ Cardinality(revs'[p]) = Cardinality(revs[p]) + 1
                    /\ new = old \cup {IF old = {} THEN 1 ELSE Max(old) + 1}
                 \/ /\ revs'[p] \subseteq revs[p]
                    /\ Max(old) \in new
                    /\ \A n \in new, m \in old \ new : m < n]_postVars
  BY HistoryStep
<1> QED
  BY <1>1, <1>2, PostsAlwaysInv, PTL DEF PostsSpec, PostSteps, HistoryGrowsByOne, TrashedIsFrozen

-----------------------------------------------------------------------------
(* Comments.  The votes need that no two open toggles change the same      *)
(* vote, and that a moderated row is still as the batch saw it when it is  *)
(* written.  Visibility needs that what a request read was vouched for,    *)
(* since an edit writes back the status it read.  That replies survive     *)
(* needs that who looked for replies keeps new ones out.                   *)

InLog(c) == \E i \in DOMAIN log : \E e \in log[i] : e.id = c /\ e.to = "approved"

(* Somebody answers for c being visible; member as in the row.             *)
Vouched(c, member) == (member = TRUE /\ ~RequireApproval) \/ InLog(c)

SoleComment(d) == d.op # "moderate" => \E c \in CommentIDs : d.ids = {c} /\ d.todo = {c} /\ d.wrote = {}

ReadsFit(d) ==
  /\ \A c \in d.ids : d.read[c].status = "approved" => Vouched(c, d.read[c].member)
  /\ d.op # "create" => \A c \in d.ids : comment[c].st # "none" /\ (Stored(c) => d.read[c].member = comment[c].member)
  /\ d.op = "create" => \A c \in d.ids : /\ comment[c].st = "none"
                                         /\ d.read[c].st = "stored" /\ d.read[c].votes = 0
                                         /\ d.pc = "inserted" => {d.read[c].parent} \ {NoParent} = d.refs

SameRow(new, row) ==
  new.st = row.st /\ new.votes = row.votes /\ new.parent = row.parent /\ new.member = row.member

BatchFits(d) ==
  /\ d.op = "moderate" => d.action # "hard_delete"
  /\ d.wrote \subseteq d.ids /\ d.todo \subseteq d.ids
  /\ d.op = "moderate" /\ d.stale = FALSE => d.wrote = d.ids \ d.todo
  /\ \A c \in d.wrote : /\ Stored(c) /\ comment[c].status = d.read[c].status
                        /\ SameRow(d.rows[c], comment[c]) /\ d.rows[c].status = Decision(d.action)

VoteFits(d) ==
  d.op = "upvote" =>
    /\ \E u \in Users : d.users = {u}
    /\ \A c \in d.ids : /\ d.change = "added" => d.users \cap vote[c] = {}
                        /\ d.change = "removed" => d.users \subseteq vote[c]

DeleteFits(d) ==
  d.op = "hard_delete" /\ d.pc \in {"locked", "checked"} =>
    /\ d.excl = d.ids
    /\ d.pc = "checked" /\ d.replies = FALSE => \A c \in d.ids : Replies(c) = {}

RequestFits(d) == SoleComment(d) /\ ReadsFit(d) /\ BatchFits(d) /\ VoteFits(d) /\ DeleteFits(d)

Clear(d, e) ==
  /\ d.wrote \cap e.wrote = {}
  /\ d.excl \cap e.refs = {} /\ e.excl \cap d.refs = {}
  /\ "create" \in {d.op, e.op} => d.ids \cap e.ids = {}
  /\ d.op = "upvote" /\ e.op = "upvote" /\ d.change # "none" /\ e.change # "none" /\ d.ids \cap e.ids # {} =>
       d.users # e.users

RequestsFit == \A t \in CommentTxs : UnderWay(t) => RequestFits(ctx[t])

RequestsClear == \A t, u \in CommentTxs : t # u /\ UnderWay(t) /\ UnderWay(u) => Clear(ctx[t], ctx[u])

NoVotesLeft == \A c \in CommentIDs : ~Stored(c) => vote[c] = {}

CommentsInv ==
  /\ CommentsTypeOK /\ UpvotesCounted /\ VisibleWasApproved /\ NoVotesLeft
  /\ RequestsFit /\ RequestsClear

LEMMA CommentsInitInv == CommentsInit => CommentsInv
<1> SUFFICES ASSUME CommentsInit PROVE CommentsInv
  OBVIOUS
<1> USE CommentsAssumption
<1>1. CommentsTypeOK
  <2>1. NoComment \in CommentRow
    BY DEF NoComment, CommentRow, CommentStatus
  <2>2. <<>> \in Seq(SUBSET Entry) /\ 0 \in 0..MaxCommentOps
    OBVIOUS
  <2> QED
    BY <2>1, <2>2 DEF CommentsInit, CommentsTypeOK
<1>2. UpvotesCounted
  BY FS_EmptySet DEF CommentsInit, UpvotesCounted, NoComment
<1>3. VisibleWasApproved /\ NoVotesLeft
  BY DEF CommentsInit, VisibleWasApproved, NoVotesLeft, Stored, NoComment
<1>4. RequestsFit /\ RequestsClear
  BY DEF CommentsInit, RequestsFit, RequestsClear, UnderWay
<1> QED
  BY <1>1, <1>2, <1>3, <1>4 DEF CommentsInv

LEMMA UnderWayIsTyped ==
  /\ \A d \in OpenRequest : d # NoRequest
  /\ CommentsTypeOK => \A t \in CommentTxs : UnderWay(t) => ctx[t] \in OpenRequest
BY DEF OpenRequest, NoRequest, CommentsTypeOK, UnderWay

LEMMA ClearIsSymmetric == ASSUME NEW d, NEW e, Clear(d, e) PROVE Clear(e, d)
BY DEF Clear

(* A request begins, goes on or ends; the tables stay.                     *)
LEMMA CommentRequestMoves ==
  ASSUME CommentsInv, NEW t \in CommentTxs, NEW d \in OpenRequest \cup {NoRequest},
         ctx' = [ctx EXCEPT ![t] = d], UNCHANGED <<comment, flag, vote, policy, log>>,
         commentOps' \in 0..MaxCommentOps,
         d # NoRequest => RequestFits(d) /\ \A u \in CommentTxs \ {t} : UnderWay(u) => Clear(d, ctx[u])
  PROVE  CommentsInv'
<1>1. /\ ctx \in [CommentTxs -> OpenRequest \cup {NoRequest}] /\ ctx' \in [CommentTxs -> OpenRequest \cup {NoRequest}]
      /\ ctx'[t] = d /\ \A u \in CommentTxs \ {t} : ctx'[u] = ctx[u]
  BY DEF CommentsInv, CommentsTypeOK
<1>2. CommentsTypeOK'
  BY <1>1 DEF CommentsInv, CommentsTypeOK
<1>3. UpvotesCounted' /\ VisibleWasApproved' /\ NoVotesLeft'
  BY DEF CommentsInv, UpvotesCounted, VisibleWasApproved, NoVotesLeft, Stored
<1>4. RequestsFit'
  <2> SUFFICES ASSUME NEW u \in CommentTxs, ctx'[u] # NoRequest PROVE RequestFits(ctx[u])'
    BY DEF RequestsFit, UnderWay
  <2>1. PICK e : e = ctx'[u]
    OBVIOUS
  <2>2. RequestFits(e)
    BY <1>1, <2>1 DEF CommentsInv, RequestsFit, UnderWay
  <2>3. RequestFits(e)'
    <3>0. comment' = comment /\ vote' = vote /\ log' = log
      OBVIOUS
    <3>1. SoleComment(e)'
      BY <2>2 DEF RequestFits, SoleComment
    <3>2. ReadsFit(e)'
      BY <2>2, <3>0 DEF RequestFits, ReadsFit, Vouched, InLog, Stored
    <3>3. BatchFits(e)'
      BY <2>2, <3>0 DEF RequestFits, BatchFits, Stored, SameRow
    <3>4. VoteFits(e)'
      BY <2>2, <3>0 DEF RequestFits, VoteFits
    <3>5. DeleteFits(e)'
      BY <2>2, <3>0 DEF RequestFits, DeleteFits, Replies, Stored
    <3> QED
      BY <3>1, <3>2, <3>3, <3>4, <3>5 DEF RequestFits
  <2> QED
    BY <2>1, <2>3
<1>5. RequestsClear'
  <2>1. \A u, v \in CommentTxs : (u # v /\ ctx'[u] # NoRequest /\ ctx'[v] # NoRequest) => Clear(ctx'[u], ctx'[v])
    BY <1>1, ClearIsSymmetric DEF CommentsInv, RequestsClear, UnderWay
  <2> QED
    BY <2>1 DEF RequestsClear, UnderWay, Clear
<1> QED
  BY <1>2, <1>3, <1>4, <1>5 DEF CommentsInv

LEMMA RequestIsTyped ==
  ASSUME CommentsTypeOK, NEW op \in CommentOp, NEW S \in SUBSET CommentIDs, NEW a \in Action, NEW us \in SUBSET Users
  PROVE  Request(op, S, a, us) \in OpenRequest
<1>1. NoComment \in CommentRow /\ \A c \in CommentIDs : comment[c] \in CommentRow
  BY CommentsAssumption DEF CommentsTypeOK, NoComment, CommentRow, CommentStatus
<1>2. PICK f : f = [c \in CommentIDs |-> IF c \in S THEN comment[c] ELSE NoComment]
  OBVIOUS
<1>3. f \in [CommentIDs -> CommentRow] /\ [c \in CommentIDs |-> NoComment] \in [CommentIDs -> CommentRow]
  BY <1>1, <1>2
<1>4. Request(op, S, a, us).read = f
  BY <1>2 DEF Request
<1> QED
  BY <1>2, <1>3 DEF Request, OpenRequest

(* A request about stored comments begins.                                 *)
LEMMA RequestBeginsInv ==
  ASSUME CommentsInv, NEW t \in CommentTxs, NEW op \in CommentOp \ {"create"}, NEW S \in SUBSET CommentIDs,
         NEW a \in Action, NEW us \in SUBSET Users,
         \A c \in S : Stored(c),
         op # "moderate" => \E c \in CommentIDs : S = {c},
         op = "moderate" => a # "hard_delete",
         op = "upvote" => \E u \in Users : us = {u},
         BeginRequest(t, Request(op, S, a, us))
  PROVE  CommentsInv'
<1>1. PICK d : d = Request(op, S, a, us)
  OBVIOUS
<1>2. d \in OpenRequest
  BY <1>1, RequestIsTyped DEF CommentsInv
<1>3. /\ d.op = op /\ d.pc = "read" /\ d.action = a /\ d.users = us /\ d.ids = S /\ d.todo = S
      /\ d.wrote = {} /\ d.refs = {} /\ d.excl = {} /\ d.change = "none"
      /\ \A c \in S : d.read[c] = comment[c]
  BY <1>1 DEF Request
<1>4. SoleComment(d)
  BY <1>3 DEF SoleComment
<1>5. ReadsFit(d)
  <2>1. \A c \in S : comment[c].status = "approved" => Vouched(c, comment[c].member)
    <3> SUFFICES ASSUME NEW c \in S, comment[c].status = "approved" PROVE Vouched(c, comment[c].member)
      OBVIOUS
    <3>1. comment[c].member \in BOOLEAN
      BY DEF CommentsInv, CommentsTypeOK, CommentRow
    <3> QED
      BY <3>1 DEF CommentsInv, VisibleWasApproved, Vouched, InLog
  <2>2. \A c \in S : comment[c].st # "none"
    BY DEF Stored
  <2> QED
    BY <1>3, <2>1, <2>2 DEF ReadsFit
<1>6. BatchFits(d) /\ DeleteFits(d)
  BY <1>3 DEF BatchFits, DeleteFits
<1>7. VoteFits(d)
  BY <1>3 DEF VoteFits
<1>8. \A u \in CommentTxs \ {t} : UnderWay(u) => Clear(d, ctx[u])
  <2> SUFFICES ASSUME NEW u \in CommentTxs, UnderWay(u) PROVE Clear(d, ctx[u])
    OBVIOUS
  <2>1. ctx[u].op = "create" => S \cap ctx[u].ids = {}
    BY DEF CommentsInv, RequestsFit, RequestFits, ReadsFit, Stored
  <2> QED
    BY <1>3, <2>1 DEF Clear
<1>9. /\ ctx' = [ctx EXCEPT ![t] = d] /\ UNCHANGED <<comment, flag, vote, policy, log>>
      /\ commentOps' \in 0..MaxCommentOps
  BY <1>1, CommentsAssumption DEF BeginRequest, CommentsInv, CommentsTypeOK
<1>10. RequestFits(d)
  BY <1>4, <1>5, <1>6, <1>7 DEF RequestFits
<1> QED
  BY <1>2, <1>8, <1>9, <1>10, CommentRequestMoves

LEMMA CreateInv ==
  ASSUME CommentsInv, NEW t \in CommentTxs, NEW c \in CommentIDs, NEW p \in CommentIDs \cup {NoParent},
         NEW g \in BOOLEAN, NEW h \in BOOLEAN, Create(t, c, p, g, h)
  PROVE  CommentsInv'
<1> USE CommentsAssumption
<1>1. PICK n : n = NewComment(p, g, h)
  OBVIOUS
<1>2. /\ n \in CommentRow
      /\ n.st = "stored" /\ n.votes = 0 /\ n.member = ~g
      /\ n.status = "approved" => g = FALSE /\ ~RequireApproval
  <2>1. (IF p = NoParent THEN 0 ELSE comment[p].depth + 1) \in 0..MaxDepth
    BY DEF Create, ReplyAllowed, CommentsInv, CommentsTypeOK, CommentRow
  <2>2. InitialStatus(g, h) \in CommentStatus /\ (InitialStatus(g, h) = "approved" => g = FALSE /\ ~RequireApproval)
    BY DEF InitialStatus, CommentStatus
  <2>3. n \in CommentRow
    BY <1>1, <2>1, <2>2 DEF NewComment, NoComment, CommentRow
  <2>4. n.st = "stored" /\ n.votes = 0 /\ n.member = ~g /\ n.status = InitialStatus(g, h)
    BY <1>1 DEF NewComment, NoComment
  <2> QED
    BY <2>2, <2>3, <2>4
<1>3. PICK r : r = Request("create", {c}, "approve", {})
  OBVIOUS
<1>4. r \in OpenRequest
  BY <1>3, RequestIsTyped DEF CommentsInv, CommentOp, Action
<1>5. PICK d : d = [r EXCEPT !.read[c] = n]
  OBVIOUS
<1>6. d \in OpenRequest
  BY <1>2, <1>4, <1>5 DEF OpenRequest
<1>7. /\ d.op = "create" /\ d.pc = "read" /\ d.action = "approve" /\ d.ids = {c} /\ d.todo = {c}
      /\ d.wrote = {} /\ d.refs = {} /\ d.excl = {} /\ d.change = "none"
  BY <1>3, <1>5 DEF Request
<1>8. d.read[c] = n
  <2>1. r.read \in [CommentIDs -> CommentRow]
    BY <1>4 DEF OpenRequest
  <2>2. d.read = [r.read EXCEPT ![c] = n]
    BY <1>4, <1>5 DEF OpenRequest
  <2> QED
    BY <2>1, <2>2
<1>9. Unused(c) /\ comment[c].st = "none"
  BY DEF Create, Unused
<1>10. RequestFits(d)
  <2>1. SoleComment(d) /\ BatchFits(d) /\ VoteFits(d) /\ DeleteFits(d)
    BY <1>7 DEF SoleComment, BatchFits, VoteFits, DeleteFits
  <2>2. n.status = "approved" => Vouched(c, n.member)
    BY <1>2 DEF Vouched
  <2>3. ReadsFit(d)
    BY <1>2, <1>7, <1>8, <1>9, <2>2 DEF ReadsFit
  <2> QED
    BY <2>1, <2>3 DEF RequestFits
<1>11. \A u \in CommentTxs \ {t} : UnderWay(u) => Clear(d, ctx[u])
  BY <1>7, <1>9 DEF Clear, Unused
<1>12. /\ ctx' = [ctx EXCEPT ![t] = d] /\ UNCHANGED <<comment, flag, vote, policy, log>>
       /\ commentOps' \in 0..MaxCommentOps
  BY <1>1, <1>3, <1>5 DEF Create, BeginRequest, CommentsInv, CommentsTypeOK
<1> QED
  BY <1>6, <1>10, <1>11, <1>12, CommentRequestMoves

LEMMA RequestBeginsKeeps ==
  ASSUME CommentsInv, NEW t \in CommentTxs, RequestBegins(t)
  PROVE  CommentsInv'
<1>1. ASSUME NEW c \in CommentIDs, NEW p \in CommentIDs \cup {NoParent}, NEW g \in BOOLEAN, NEW h \in BOOLEAN,
             Create(t, c, p, g, h)
      PROVE  CommentsInv'
  BY <1>1, CreateInv
<1>2. ASSUME NEW c \in CommentIDs, UpdateComment(t, c) PROVE CommentsInv'
  <2>1. Stored(c) /\ BeginRequest(t, Request("edit", {c}, "approve", {}))
    BY <1>2 DEF UpdateComment
  <2>2. "edit" \in CommentOp \ {"create"} /\ {c} \in SUBSET CommentIDs /\ "approve" \in Action /\ {} \in SUBSET Users
    BY DEF CommentOp, Action
  <2> QED
    BY <2>1, <2>2, RequestBeginsInv
<1>3. ASSUME NEW c \in CommentIDs, DeleteComment(t, c) PROVE CommentsInv'
  <2>1. Stored(c) /\ BeginRequest(t, Request("delete", {c}, "approve", {}))
    BY <1>3 DEF DeleteComment
  <2>2. "delete" \in CommentOp \ {"create"} /\ {c} \in SUBSET CommentIDs /\ "approve" \in Action /\ {} \in SUBSET Users
    BY DEF CommentOp, Action
  <2> QED
    BY <2>1, <2>2, RequestBeginsInv
<1>4. ASSUME NEW c \in CommentIDs, HardDelete(t, c) PROVE CommentsInv'
  <2>1. Stored(c) /\ BeginRequest(t, Request("hard_delete", {c}, "hard_delete", {}))
    BY <1>4 DEF HardDelete
  <2>2. "hard_delete" \in CommentOp \ {"create"} /\ {c} \in SUBSET CommentIDs /\ "hard_delete" \in Action /\ {} \in SUBSET Users
    BY DEF CommentOp, Action
  <2> QED
    BY <2>1, <2>2, RequestBeginsInv
<1>5. ASSUME NEW c \in CommentIDs, NEW u \in Users, Flag(t, c, u) PROVE CommentsInv'
  <2>1. Stored(c) /\ BeginRequest(t, Request("flag", {c}, "approve", {u}))
    BY <1>5 DEF Flag
  <2>2. "flag" \in CommentOp \ {"create"} /\ {c} \in SUBSET CommentIDs /\ "approve" \in Action /\ {u} \in SUBSET Users
    BY DEF CommentOp, Action
  <2> QED
    BY <2>1, <2>2, RequestBeginsInv
<1>6. ASSUME NEW c \in CommentIDs, NEW u \in Users, ToggleUpvote(t, c, u) PROVE CommentsInv'
  <2>1. Stored(c) /\ BeginRequest(t, Request("upvote", {c}, "approve", {u}))
    BY <1>6 DEF ToggleUpvote
  <2>2. "upvote" \in CommentOp \ {"create"} /\ {c} \in SUBSET CommentIDs /\ "approve" \in Action /\ {u} \in SUBSET Users
    BY DEF CommentOp, Action
  <2> QED
    BY <2>1, <2>2, RequestBeginsInv
<1>7. ASSUME NEW S \in SUBSET CommentIDs, NEW a \in Action \ {"hard_delete"}, Moderate(t, S, a) PROVE CommentsInv'
  <2>1. (\A c \in S : Stored(c)) /\ BeginRequest(t, Request("moderate", S, a, {}))
    BY <1>7 DEF Moderate, Decidable, Stored
  <2>2. "moderate" \in CommentOp \ {"create"} /\ S \in SUBSET CommentIDs /\ a \in Action /\ {} \in SUBSET Users
    BY DEF CommentOp, Action
  <2> QED
    BY <2>1, <2>2, RequestBeginsInv
<1> QED
  BY <1>1, <1>2, <1>3, <1>4, <1>5, <1>6, <1>7 DEF RequestBegins

(* What is known of a request that takes a step.                           *)
LEMMA RequestIsKnown ==
  ASSUME CommentsInv, NEW t \in CommentTxs, UnderWay(t)
  PROVE  /\ ctx[t] \in OpenRequest /\ RequestFits(ctx[t])
         /\ \A u \in CommentTxs \ {t} : UnderWay(u) => ctx[u] \in OpenRequest /\ RequestFits(ctx[u]) /\ Clear(ctx[t], ctx[u])
         /\ commentOps \in 0..MaxCommentOps
BY UnderWayIsTyped DEF CommentsInv, RequestsFit, RequestsClear, CommentsTypeOK

LEMMA AbortRequestInv ==
  ASSUME CommentsInv, NEW t \in CommentTxs, AbortRequest(t)
  PROVE  CommentsInv'
BY CommentRequestMoves DEF AbortRequest, Ends, CommentsInv, CommentsTypeOK

LEMMA ChangePolicyInv ==
  ASSUME CommentsInv, NEW q \in Policies, ChangePolicy(q)
  PROVE  CommentsInv'
<1>1. comment' = comment /\ flag' = flag /\ vote' = vote /\ log' = log /\ ctx' = ctx
  BY DEF ChangePolicy
<1>2. CommentsTypeOK'
  BY CommentsAssumption DEF ChangePolicy, CommentsInv, CommentsTypeOK
<1>3. UpvotesCounted' /\ VisibleWasApproved' /\ NoVotesLeft'
  BY <1>1 DEF CommentsInv, UpvotesCounted, VisibleWasApproved, NoVotesLeft, Stored
<1>4. RequestsFit'
  <2> SUFFICES ASSUME NEW t \in CommentTxs, UnderWay(t) PROVE RequestFits(ctx[t])'
    BY <1>1 DEF RequestsFit, UnderWay
  <2>1. RequestFits(ctx[t])
    BY DEF CommentsInv, RequestsFit
  <2> QED
    BY <1>1, <2>1 DEF RequestFits, SoleComment, ReadsFit, BatchFits, VoteFits, DeleteFits, Vouched, InLog, Stored,
                      Replies, SameRow
<1>5. RequestsClear'
  BY <1>1 DEF CommentsInv, RequestsClear, UnderWay, Clear
<1> QED
  BY <1>2, <1>3, <1>4, <1>5 DEF CommentsInv

LEMMA InsertCommentInv ==
  ASSUME CommentsInv, NEW t \in CommentTxs, NEW c \in CommentIDs, InsertComment(t, c)
  PROVE  CommentsInv'
<1>1. UnderWay(t) /\ ctx[t].op = "create" /\ ctx[t].pc = "read" /\ c \in ctx[t].todo
  BY DEF InsertComment, At
<1>2. PICK b : b = ctx[t]
  OBVIOUS
<1>3. PICK P : P = {b.read[c].parent} \ {NoParent}
  OBVIOUS
<1>4. PICK d : d = [b EXCEPT !.pc = "inserted", !.refs = P]
  OBVIOUS
<1>5. b \in OpenRequest /\ RequestFits(b) /\ \A u \in CommentTxs \ {t} : UnderWay(u) => Clear(b, ctx[u])
  BY <1>1, <1>2, RequestIsKnown
<1>6. b.ids = {c}
  BY <1>1, <1>2, <1>5 DEF RequestFits, SoleComment
<1>7. P \subseteq CommentIDs
  BY <1>3, <1>5 DEF OpenRequest, CommentRow
<1>8. d \in OpenRequest /\ d.pc = "inserted" /\ d.refs = P
  BY <1>4, <1>5, <1>7 DEF OpenRequest
<1>9. /\ d.op = b.op /\ d.action = b.action /\ d.ids = b.ids /\ d.todo = b.todo /\ d.users = b.users
      /\ d.wrote = b.wrote /\ d.excl = b.excl /\ d.change = b.change /\ d.read = b.read /\ d.rows = b.rows
      /\ d.stale = b.stale
  BY <1>1, <1>2, <1>4, <1>5 DEF OpenRequest
<1>10. RequestFits(d)
  <2>1. SoleComment(d) /\ BatchFits(d) /\ VoteFits(d) /\ DeleteFits(d)
    BY <1>1, <1>2, <1>5, <1>9 DEF RequestFits, SoleComment, BatchFits, VoteFits, DeleteFits
  <2>2. ReadsFit(d)
    BY <1>1, <1>2, <1>3, <1>5, <1>6, <1>8, <1>9 DEF RequestFits, ReadsFit
  <2> QED
    BY <2>1, <2>2 DEF RequestFits
<1>11. \A u \in CommentTxs \ {t} : UnderWay(u) => Clear(d, ctx[u])
  <2>1. \A u \in CommentTxs \ {t} : UnderWay(u) => P \cap ctx[u].excl = {}
    BY <1>2, <1>3 DEF InsertComment, CanRefer, OtherRequests
  <2> QED
    BY <1>5, <1>8, <1>9, <2>1 DEF Clear
<1>12. ctx' = [ctx EXCEPT ![t] = d] /\ UNCHANGED <<comment, flag, vote, policy, log>> /\ commentOps' \in 0..MaxCommentOps
  BY <1>2, <1>3, <1>4 DEF InsertComment, Moves, CommentsInv, CommentsTypeOK
<1> QED
  BY <1>8, <1>10, <1>11, <1>12, CommentRequestMoves

(* A request other than a new comment takes or adds a lock, or prepares a  *)
(* flag or vote.                                                           *)
SameWork(d, b) ==
  /\ d.op = b.op /\ d.action = b.action /\ d.users = b.users /\ d.ids = b.ids /\ d.read = b.read
  /\ d.todo = b.todo /\ d.wrote = b.wrote /\ d.rows = b.rows /\ d.stale = b.stale

LEMMA RequestMovesOn ==
  ASSUME CommentsInv, NEW t \in CommentTxs, UnderWay(t), ctx[t].op # "create",
         NEW d \in OpenRequest, SameWork(d, ctx[t]), VoteFits(d), DeleteFits(d),
         \A u \in CommentTxs \ {t} : UnderWay(u) =>
           /\ d.excl \cap ctx[u].refs = {} /\ ctx[u].excl \cap d.refs = {}
           /\ (d.op = "upvote" /\ ctx[u].op = "upvote" /\ d.change # "none" /\ ctx[u].change # "none" /\ d.ids \cap ctx[u].ids # {}) =>
                d.users # ctx[u].users,
         Moves(t, d), UNCHANGED <<comment, flag, vote, policy, log, commentOps>>
  PROVE  CommentsInv'
<1>1. /\ ctx[t] \in OpenRequest /\ RequestFits(ctx[t])
      /\ \A u \in CommentTxs \ {t} : UnderWay(u) => Clear(ctx[t], ctx[u])
      /\ commentOps \in 0..MaxCommentOps
  BY RequestIsKnown
<1>2. RequestFits(d)
  <2>1. SoleComment(d)
    BY <1>1 DEF RequestFits, SoleComment, SameWork
  <2>2. ReadsFit(d)
    BY <1>1 DEF RequestFits, ReadsFit, SameWork
  <2>3. BatchFits(d)
    BY <1>1 DEF RequestFits, BatchFits, SameWork
  <2> QED
    BY <2>1, <2>2, <2>3 DEF RequestFits
<1>3. \A u \in CommentTxs \ {t} : UnderWay(u) => Clear(d, ctx[u])
  <2> SUFFICES ASSUME NEW u \in CommentTxs \ {t}, UnderWay(u) PROVE Clear(d, ctx[u])
    OBVIOUS
  <2>1. Clear(ctx[t], ctx[u])
    BY <1>1
  <2> QED
    BY <2>1 DEF Clear, SameWork
<1>4. ctx' = [ctx EXCEPT ![t] = d] /\ UNCHANGED <<comment, flag, vote, policy, log>> /\ commentOps' \in 0..MaxCommentOps
  BY <1>1 DEF Moves
<1> QED
  BY <1>2, <1>3, <1>4, CommentRequestMoves

(* A request about one comment, taking a step.                             *)
LEMMA RequestIsSole ==
  ASSUME CommentsInv, NEW t \in CommentTxs, UnderWay(t), ctx[t].op # "moderate", NEW c \in ctx[t].todo
  PROVE  ctx[t].ids = {c} /\ ctx[t].todo = {c} /\ ctx[t].wrote = {}
BY RequestIsKnown DEF RequestFits, SoleComment

(* Nobody else has an uncommitted vote on the same row.                    *)
LEMMA NotContended ==
  ASSUME NEW t \in CommentTxs, NEW c, ~Contended(t, c), ctx[t].ids = {c},
         NEW u \in CommentTxs \ {t}, UnderWay(u), ctx[u].op = ctx[t].op, ctx[u].change # "none",
         ctx[t].ids \cap ctx[u].ids # {}
  PROVE  ctx[t].users # ctx[u].users
BY DEF Contended, OtherRequests

LEMMA InsertFlagInv ==
  ASSUME CommentsInv, NEW t \in CommentTxs, NEW c \in CommentIDs, InsertFlag(t, c)
  PROVE  CommentsInv'
<1>1. UnderWay(t) /\ ctx[t].op = "flag" /\ c \in ctx[t].todo /\ UNCHANGED <<comment, flag, vote, policy, log, commentOps>>
  BY DEF InsertFlag, At
<1>2. CASE Ends(t)
  BY <1>1, <1>2, CommentRequestMoves DEF Ends, CommentsInv, CommentsTypeOK
<1>3. CASE ~Ends(t)
  <2>1. PICK d : d = [ctx[t] EXCEPT !.pc = "inserted", !.refs = {c}, !.change = "added"]
    OBVIOUS
  <2>2. ctx[t] \in OpenRequest
    BY <1>1, RequestIsKnown
  <2>3. d \in OpenRequest /\ d.refs = {c} /\ d.excl = ctx[t].excl /\ d.op = ctx[t].op /\ SameWork(d, ctx[t])
    BY <2>1, <2>2 DEF OpenRequest, SameWork
  <2>4. Moves(t, d)
    BY <1>3, <2>1 DEF InsertFlag
  <2>5. VoteFits(d) /\ DeleteFits(d)
    BY <1>1, <2>3 DEF VoteFits, DeleteFits
  <2>6. \A u \in CommentTxs \ {t} : UnderWay(u) => d.excl \cap ctx[u].refs = {} /\ ctx[u].excl \cap d.refs = {}
    BY <1>1, <2>3, RequestIsKnown DEF Clear, InsertFlag, CanRefer, OtherRequests
  <2> QED
    BY <1>1, <2>3, <2>4, <2>5, <2>6, RequestMovesOn
<1> QED
  BY <1>2, <1>3

LEMMA DeleteVoteInv ==
  ASSUME CommentsInv, NEW t \in CommentTxs, NEW c \in CommentIDs, DeleteVote(t, c)
  PROVE  CommentsInv'
<1>1. UnderWay(t) /\ ctx[t].op = "upvote" /\ c \in ctx[t].todo /\ UNCHANGED <<comment, flag, vote, policy, log, commentOps>>
  BY DEF DeleteVote, At
<1>2. /\ ctx[t] \in OpenRequest /\ RequestFits(ctx[t]) /\ ctx[t].ids = {c}
      /\ \A u \in CommentTxs \ {t} : UnderWay(u) => Clear(ctx[t], ctx[u])
  BY <1>1, RequestIsKnown, RequestIsSole
<1>3. CASE ctx[t].users \subseteq vote[c]
  <2>1. PICK d : d = [ctx[t] EXCEPT !.pc = "inserted", !.change = "removed"]
    OBVIOUS
  <2>2. /\ d \in OpenRequest /\ d.refs = ctx[t].refs /\ d.excl = ctx[t].excl /\ d.change = "removed"
        /\ d.op = ctx[t].op /\ d.ids = ctx[t].ids /\ d.users = ctx[t].users /\ SameWork(d, ctx[t])
    BY <1>2, <2>1 DEF OpenRequest, SameWork
  <2>3. Moves(t, d) /\ ~Contended(t, c)
    BY <1>3, <2>1 DEF DeleteVote
  <2>4. VoteFits(d) /\ DeleteFits(d)
    BY <1>1, <1>2, <1>3, <2>2 DEF RequestFits, VoteFits, DeleteFits
  <2>5. \A u \in CommentTxs \ {t} : UnderWay(u) =>
          /\ d.excl \cap ctx[u].refs = {} /\ ctx[u].excl \cap d.refs = {}
          /\ (d.op = "upvote" /\ ctx[u].op = "upvote" /\ d.change # "none" /\ ctx[u].change # "none" /\ d.ids \cap ctx[u].ids # {}) =>
                d.users # ctx[u].users
    BY <1>1, <1>2, <2>2, <2>3, NotContended DEF Clear
  <2> QED
    BY <1>1, <2>2, <2>3, <2>4, <2>5, RequestMovesOn
<1>4. CASE ~(ctx[t].users \subseteq vote[c])
  <2>1. PICK d : d = [ctx[t] EXCEPT !.pc = "insert"]
    OBVIOUS
  <2>2. /\ d \in OpenRequest /\ d.refs = ctx[t].refs /\ d.excl = ctx[t].excl /\ d.change = ctx[t].change
        /\ d.op = ctx[t].op /\ d.ids = ctx[t].ids /\ d.users = ctx[t].users /\ SameWork(d, ctx[t])
    BY <1>2, <2>1 DEF OpenRequest, SameWork
  <2>3. Moves(t, d)
    BY <1>4, <2>1 DEF DeleteVote
  <2>4. VoteFits(d) /\ DeleteFits(d)
    BY <1>1, <1>2, <2>2 DEF RequestFits, VoteFits, DeleteFits
  <2>5. \A u \in CommentTxs \ {t} : UnderWay(u) =>
          /\ d.excl \cap ctx[u].refs = {} /\ ctx[u].excl \cap d.refs = {}
          /\ (d.op = "upvote" /\ ctx[u].op = "upvote" /\ d.change # "none" /\ ctx[u].change # "none" /\ d.ids \cap ctx[u].ids # {}) =>
                d.users # ctx[u].users
    BY <1>1, <1>2, <2>2 DEF Clear
  <2> QED
    BY <1>1, <2>2, <2>3, <2>4, <2>5, RequestMovesOn
<1> QED
  BY <1>3, <1>4

LEMMA InsertVoteInv ==
  ASSUME CommentsInv, NEW t \in CommentTxs, NEW c \in CommentIDs, InsertVote(t, c)
  PROVE  CommentsInv'
<1>1. UnderWay(t) /\ ctx[t].op = "upvote" /\ c \in ctx[t].todo /\ UNCHANGED <<comment, flag, vote, policy, log, commentOps>>
  BY DEF InsertVote, At
<1>2. /\ ctx[t] \in OpenRequest /\ RequestFits(ctx[t]) /\ ctx[t].ids = {c}
      /\ \A u \in CommentTxs \ {t} : UnderWay(u) => Clear(ctx[t], ctx[u])
  BY <1>1, RequestIsKnown, RequestIsSole
<1>3. PICK ch : ch = IF ctx[t].users \subseteq vote[c] THEN "none" ELSE "added"
  OBVIOUS
<1>4. PICK d : d = [ctx[t] EXCEPT !.pc = "inserted", !.refs = {c}, !.change = ch]
  OBVIOUS
<1>5. /\ d \in OpenRequest /\ d.refs = {c} /\ d.excl = ctx[t].excl /\ d.change = ch
      /\ d.op = ctx[t].op /\ d.ids = ctx[t].ids /\ d.users = ctx[t].users /\ SameWork(d, ctx[t])
  BY <1>2, <1>3, <1>4 DEF OpenRequest, SameWork
<1>6. Moves(t, d) /\ ~Contended(t, c) /\ CanRefer(t, c)
  BY <1>3, <1>4 DEF InsertVote
<1>7. VoteFits(d)
  <2>1. PICK u \in Users : ctx[t].users = {u}
    BY <1>1, <1>2 DEF RequestFits, VoteFits
  <2>2. ch = "added" => {u} \cap vote[c] = {}
    BY <1>3, <2>1
  <2>3. ch # "removed"
    BY <1>3
  <2> QED
    BY <1>2, <1>5, <2>1, <2>2, <2>3 DEF VoteFits
<1>8. DeleteFits(d)
  BY <1>1, <1>5 DEF DeleteFits
<1>9. \A u \in CommentTxs \ {t} : UnderWay(u) =>
          /\ d.excl \cap ctx[u].refs = {} /\ ctx[u].excl \cap d.refs = {}
          /\ (d.op = "upvote" /\ ctx[u].op = "upvote" /\ d.change # "none" /\ ctx[u].change # "none" /\ d.ids \cap ctx[u].ids # {}) =>
                d.users # ctx[u].users
  BY <1>1, <1>2, <1>5, <1>6, NotContended DEF Clear, CanRefer, OtherRequests
<1> QED
  BY <1>1, <1>5, <1>6, <1>7, <1>8, <1>9, RequestMovesOn

LEMMA LockForDeleteInv ==
  ASSUME CommentsInv, NEW t \in CommentTxs, NEW c \in CommentIDs, LockForDelete(t, c)
  PROVE  CommentsInv'
<1>1. /\ UnderWay(t) /\ ctx[t].op = "hard_delete" /\ c \in ctx[t].todo
      /\ UNCHANGED <<comment, flag, vote, policy, log, commentOps>> /\ CanLock(t, c)
  BY DEF LockForDelete, At
<1>2. /\ ctx[t] \in OpenRequest /\ RequestFits(ctx[t]) /\ ctx[t].ids = {c}
      /\ \A u \in CommentTxs \ {t} : UnderWay(u) => Clear(ctx[t], ctx[u])
  BY <1>1, RequestIsKnown, RequestIsSole
<1>3. PICK d : d = [ctx[t] EXCEPT !.pc = "locked", !.excl = {c}]
  OBVIOUS
<1>4. /\ d \in OpenRequest /\ d.refs = ctx[t].refs /\ d.excl = {c} /\ d.pc = "locked"
      /\ d.op = ctx[t].op /\ d.ids = ctx[t].ids /\ SameWork(d, ctx[t])
  BY <1>2, <1>3 DEF OpenRequest, SameWork
<1>5. Moves(t, d)
  BY <1>3 DEF LockForDelete
<1>6. VoteFits(d) /\ DeleteFits(d)
  BY <1>1, <1>2, <1>4 DEF VoteFits, DeleteFits
<1>7. \A u \in CommentTxs \ {t} : UnderWay(u) => d.excl \cap ctx[u].refs = {} /\ ctx[u].excl \cap d.refs = {}
  BY <1>1, <1>2, <1>4 DEF Clear, CanLock, OtherRequests
<1> QED
  BY <1>1, <1>4, <1>5, <1>6, <1>7, RequestMovesOn

LEMMA CheckRepliesInv ==
  ASSUME CommentsInv, NEW t \in CommentTxs, NEW c \in CommentIDs, CheckReplies(t, c)
  PROVE  CommentsInv'
<1>1. /\ UnderWay(t) /\ ctx[t].op = "hard_delete" /\ ctx[t].pc = "locked" /\ c \in ctx[t].todo
      /\ UNCHANGED <<comment, flag, vote, policy, log, commentOps>>
  BY DEF CheckReplies, At
<1>2. /\ ctx[t] \in OpenRequest /\ RequestFits(ctx[t]) /\ ctx[t].ids = {c}
      /\ \A u \in CommentTxs \ {t} : UnderWay(u) => Clear(ctx[t], ctx[u])
  BY <1>1, RequestIsKnown, RequestIsSole
<1>3. PICK r \in BOOLEAN : r = (Replies(c) # {})
  OBVIOUS
<1>4. PICK d : d = [ctx[t] EXCEPT !.pc = "checked", !.replies = r]
  OBVIOUS
<1>5. /\ d \in OpenRequest /\ d.refs = ctx[t].refs /\ d.excl = ctx[t].excl /\ d.pc = "checked"
      /\ d.op = ctx[t].op /\ d.ids = ctx[t].ids /\ SameWork(d, ctx[t])
  BY <1>2, <1>4 DEF OpenRequest, SameWork
<1>6. d.replies = r
  BY <1>2, <1>4 DEF OpenRequest
<1>7. Moves(t, d)
  BY <1>3, <1>4 DEF CheckReplies
<1>8. VoteFits(d)
  BY <1>1, <1>5 DEF VoteFits
<1>9. DeleteFits(d)
  <2>1. d.excl = d.ids
    BY <1>1, <1>2, <1>5 DEF RequestFits, DeleteFits
  <2>2. r = FALSE => Replies(c) = {}
    BY <1>3
  <2> QED
    BY <1>2, <1>5, <1>6, <2>1, <2>2 DEF DeleteFits
<1>10. \A u \in CommentTxs \ {t} : UnderWay(u) => d.excl \cap ctx[u].refs = {} /\ ctx[u].excl \cap d.refs = {}
  BY <1>1, <1>2, <1>5 DEF Clear
<1> QED
  BY <1>1, <1>5, <1>7, <1>8, <1>9, <1>10, RequestMovesOn

LEMMA DecisionIsTyped == ASSUME NEW a \in Action \ {"hard_delete"} PROVE Decision(a) \in {"approved", "rejected", "spam"}
BY DEF Action, Decision

LEMMA ApplyModerationInv ==
  ASSUME CommentsInv, NEW t \in CommentTxs, NEW c \in CommentIDs, ApplyModeration(t, c)
  PROVE  CommentsInv'
<1>1. /\ UnderWay(t) /\ ctx[t].op = "moderate" /\ ctx[t].pc = "read" /\ c \in ctx[t].todo
      /\ UNCHANGED <<comment, flag, vote, policy, log, commentOps>> /\ CanWrite(t, c)
  BY DEF ApplyModeration, At
<1>2. PICK b : b = ctx[t]
  OBVIOUS
<1>3. /\ b \in OpenRequest /\ RequestFits(b) /\ commentOps \in 0..MaxCommentOps
      /\ \A u \in CommentTxs \ {t} : UnderWay(u) => Clear(b, ctx[u])
  BY <1>1, <1>2, RequestIsKnown
<1>4. PICK h \in BOOLEAN : h = StillAsRead(t, c)
  BY DEF StillAsRead
<1>5. PICK n : n = Decided(t, c)
  OBVIOUS
<1>6. /\ n \in CommentRow /\ SameRow(n, comment[c]) /\ n.status = Decision(b.action)
  <2>1. b.action \in Action \ {"hard_delete"} /\ comment[c] \in CommentRow /\ b.read[c] \in CommentRow
    BY <1>1, <1>2, <1>3 DEF OpenRequest, RequestFits, BatchFits, CommentsInv, CommentsTypeOK
  <2>2. Decision(b.action) \in CommentStatus
    BY <2>1, DecisionIsTyped DEF CommentStatus
  <2>3. DecidedFlags(b.read[c], b.action) \in Nat
    BY <2>1 DEF DecidedFlags, CommentRow
  <2>4. n = [comment[c] EXCEPT !.status = Decision(b.action), !.flags = DecidedFlags(b.read[c], b.action)]
    BY <1>2, <1>5 DEF Decided
  <2> QED
    BY <2>1, <2>2, <2>3, <2>4 DEF CommentRow, SameRow
<1>7. PICK W : W = IF h THEN b.wrote \cup {c} ELSE b.wrote
  OBVIOUS
<1>8. PICK R : R = [b.rows EXCEPT ![c] = IF h THEN n ELSE b.rows[c]]
  OBVIOUS
<1>9. PICK s \in BOOLEAN : s = (b.stale \/ ~h)
  OBVIOUS
<1>10. PICK d : d = [b EXCEPT !.todo = b.todo \ {c}, !.stale = s, !.wrote = W, !.rows = R]
  OBVIOUS
<1>11. /\ W \in SUBSET CommentIDs /\ R \in [CommentIDs -> CommentRow]
       /\ R[c] = (IF h THEN n ELSE b.rows[c]) /\ \A e \in CommentIDs \ {c} : R[e] = b.rows[e]
  <2>1. b.wrote \in SUBSET CommentIDs /\ b.rows \in [CommentIDs -> CommentRow]
    BY <1>3 DEF OpenRequest
  <2> QED
    BY <1>6, <1>7, <1>8, <2>1
<1>12. /\ d \in OpenRequest /\ d.op = b.op /\ d.pc = b.pc /\ d.action = b.action /\ d.users = b.users
       /\ d.ids = b.ids /\ d.read = b.read /\ d.refs = b.refs /\ d.excl = b.excl /\ d.change = b.change
       /\ d.todo = b.todo \ {c} /\ d.wrote = W /\ d.rows = R
  BY <1>3, <1>10, <1>11 DEF OpenRequest
<1>13. d.stale = s
  BY <1>3, <1>10 DEF OpenRequest
<1>14. BatchFits(d)
  <2>1. b.op = "moderate" /\ BatchFits(b) /\ c \in b.todo
    BY <1>1, <1>2, <1>3 DEF RequestFits
  <2>2. d.action # "hard_delete" /\ d.wrote \subseteq d.ids /\ d.todo \subseteq d.ids
    BY <1>7, <1>12, <2>1 DEF BatchFits
  <2>3. s = FALSE => b.stale = FALSE /\ h = TRUE
    <3>1. b.stale \in BOOLEAN
      BY <1>3 DEF OpenRequest
    <3> QED
      BY <1>9, <3>1
  <2>4. s = FALSE => d.wrote = d.ids \ d.todo
    BY <1>7, <1>12, <2>1, <2>3 DEF BatchFits
  <2>5. h = TRUE => Stored(c) /\ comment[c].status = b.read[c].status
    BY <1>2, <1>4 DEF StillAsRead
  <2>6. ASSUME NEW e \in W
        PROVE  /\ Stored(e) /\ comment[e].status = d.read[e].status
               /\ SameRow(d.rows[e], comment[e]) /\ d.rows[e].status = Decision(d.action)
    <3>1. CASE e = c /\ h = TRUE
      BY <1>6, <1>11, <1>12, <2>5, <3>1
    <3>2. CASE e # c \/ h = FALSE
      <4>1. e \in b.wrote /\ e \in CommentIDs
        BY <1>7, <1>11, <2>6, <3>2
      <4>2. R[e] = b.rows[e]
        BY <1>11, <3>2, <4>1
      <4> QED
        BY <1>12, <2>1, <4>1, <4>2 DEF BatchFits
    <3> QED
      BY <3>1, <3>2
  <2> QED
    BY <1>12, <1>13, <2>2, <2>4, <2>6 DEF BatchFits
<1>15. SoleComment(d) /\ VoteFits(d) /\ DeleteFits(d)
  BY <1>1, <1>2, <1>12 DEF SoleComment, VoteFits, DeleteFits
<1>16. ReadsFit(d)
  BY <1>1, <1>2, <1>3, <1>12 DEF RequestFits, ReadsFit
<1>17. RequestFits(d)
  BY <1>14, <1>15, <1>16 DEF RequestFits
<1>18. \A u \in CommentTxs \ {t} : UnderWay(u) => Clear(d, ctx[u])
  <2> SUFFICES ASSUME NEW u \in CommentTxs \ {t}, UnderWay(u) PROVE Clear(d, ctx[u])
    OBVIOUS
  <2>1. Clear(b, ctx[u])
    BY <1>3
  <2>2. W \cap ctx[u].wrote = {}
    <3>1. c \notin ctx[u].wrote
      BY <1>1 DEF CanWrite, OtherRequests
    <3>2. b.wrote \cap ctx[u].wrote = {}
      BY <2>1 DEF Clear
    <3> QED
      BY <1>7, <3>1, <3>2
  <2> QED
    BY <1>12, <2>1, <2>2 DEF Clear
<1>19. Moves(t, d)
  <2>1. Moves(t, [b EXCEPT !.todo = @ \ {c}, !.stale = @ \/ ~h, !.wrote = IF h THEN @ \cup {c} ELSE @,
                           !.rows[c] = IF h THEN n ELSE @])
    BY <1>2, <1>4, <1>5 DEF ApplyModeration
  <2> QED
    BY <1>3, <1>7, <1>8, <1>9, <1>10, <2>1 DEF OpenRequest
<1> QED
  BY <1>1, <1>3, <1>12, <1>17, <1>18, <1>19, CommentRequestMoves DEF Moves

(* How a commit may change a row: comments appear only by being posted,    *)
(* and who posted one, and under what, never changes.                      *)
RowGoesOn(c) ==
  comment[c].st # "none" =>
    /\ comment'[c].st # "none"
    /\ comment'[c].st = "stored" =>
         comment[c].st = "stored" /\ comment'[c].member = comment[c].member /\ comment'[c].parent = comment[c].parent

(* What a commit may not do to another open request e.                     *)
Undisturbed(e) ==
  /\ \A c \in e.wrote : comment'[c] = comment[c]
  /\ e.op = "create" => \A c \in e.ids : comment'[c] = comment[c]
  /\ e.op = "upvote" => \A c \in e.ids : /\ e.change = "added" => e.users \cap vote'[c] = {}
                                         /\ e.change = "removed" => e.users \subseteq vote'[c]
  /\ \A c \in e.excl : Replies(c)' \subseteq Replies(c)

LogGrows == \A c \in CommentIDs : InLog(c) => InLog(c)'

LEMMA UndisturbedFits ==
  ASSUME CommentsInv, NEW e \in OpenRequest, RequestFits(e), Undisturbed(e), LogGrows,
         \A c \in CommentIDs : RowGoesOn(c)
  PROVE  RequestFits(e)'
<1>0. e.ids \subseteq CommentIDs /\ e.wrote \subseteq CommentIDs
  BY DEF OpenRequest
<1>1. SoleComment(e)'
  BY DEF RequestFits, SoleComment
<1>2. ReadsFit(e)'
  <2>1. \A c \in e.ids : e.read[c].status = "approved" => (e.read[c].member = TRUE /\ ~RequireApproval) \/ InLog(c)'
    BY <1>0 DEF RequestFits, ReadsFit, Vouched, LogGrows
  <2>2. ASSUME e.op # "create", NEW c \in e.ids
        PROVE  comment'[c].st # "none" /\ (comment'[c].st = "stored" => e.read[c].member = comment'[c].member)
    BY <1>0, <2>2 DEF RequestFits, ReadsFit, RowGoesOn, Stored
  <2>3. ASSUME e.op = "create", NEW c \in e.ids
        PROVE  comment'[c] = comment[c]
    BY <2>3 DEF Undisturbed
  <2>4. ASSUME e.op = "create", NEW c \in e.ids
        PROVE  /\ comment'[c].st = "none" /\ e.read[c].st = "stored" /\ e.read[c].votes = 0
               /\ e.pc = "inserted" => {e.read[c].parent} \ {NoParent} = e.refs
    BY <2>3, <2>4 DEF RequestFits, ReadsFit
  <2> QED
    BY <2>1, <2>2, <2>4 DEF ReadsFit, Vouched, Stored
<1>3. BatchFits(e)'
  <2>1. \A c \in e.wrote : comment'[c] = comment[c]
    BY DEF Undisturbed
  <2> QED
    BY <2>1 DEF RequestFits, BatchFits, Stored, SameRow
<1>4. VoteFits(e)'
  BY DEF RequestFits, VoteFits, Undisturbed
<1>5. DeleteFits(e)'
  <2>1. \A c \in e.excl : Replies(c)' \subseteq Replies(c)
    BY DEF Undisturbed
  <2>2. DeleteFits(e)
    BY DEF RequestFits
  <2>3. \A c \in e.excl : Replies(c) = {} => Replies(c)' = {}
    BY <2>1
  <2>4. ASSUME e.op = "hard_delete", e.pc \in {"locked", "checked"}
        PROVE  e.excl = e.ids /\ (e.pc = "checked" /\ e.replies = FALSE => \A c \in e.ids : Replies(c)' = {})
    BY <2>2, <2>3, <2>4 DEF DeleteFits
  <2> QED
    BY <2>4 DEF DeleteFits
<1> QED
  BY <1>1, <1>2, <1>3, <1>4, <1>5 DEF RequestFits

(* A request commits and ends.                                             *)
LEMMA CommentRequestCommits ==
  ASSUME CommentsInv, NEW t \in CommentTxs, Ends(t), policy' = policy, commentOps' = commentOps,
         comment' \in [CommentIDs -> CommentRow], flag' \in [CommentIDs -> SUBSET Users],
         vote' \in [CommentIDs -> SUBSET Users], log' \in Seq(SUBSET Entry),
         UpvotesCounted', VisibleWasApproved', NoVotesLeft', LogGrows,
         \A c \in CommentIDs : RowGoesOn(c),
         \A u \in CommentTxs \ {t} : UnderWay(u) => Undisturbed(ctx[u])
  PROVE  CommentsInv'
<1>1. /\ ctx \in [CommentTxs -> OpenRequest \cup {NoRequest}] /\ ctx' \in [CommentTxs -> OpenRequest \cup {NoRequest}]
      /\ ctx'[t] = NoRequest /\ \A u \in CommentTxs \ {t} : ctx'[u] = ctx[u]
  BY DEF CommentsInv, CommentsTypeOK, Ends
<1>2. CommentsTypeOK'
  BY <1>1 DEF CommentsInv, CommentsTypeOK
<1>3. RequestsFit'
  <2> SUFFICES ASSUME NEW u \in CommentTxs, ctx'[u] # NoRequest PROVE RequestFits(ctx[u])'
    BY DEF RequestsFit, UnderWay
  <2>1. PICK e : e = ctx'[u]
    OBVIOUS
  <2>2. u # t /\ e = ctx[u] /\ UnderWay(u) /\ e \in OpenRequest
    BY <1>1, <2>1 DEF UnderWay
  <2>3. RequestFits(e) /\ Undisturbed(e)
    BY <2>2 DEF CommentsInv, RequestsFit
  <2>4. RequestFits(e)'
    BY <2>2, <2>3, UndisturbedFits
  <2> QED
    BY <2>1, <2>4
<1>4. RequestsClear'
  <2>1. \A u, v \in CommentTxs : (u # v /\ ctx'[u] # NoRequest /\ ctx'[v] # NoRequest) => Clear(ctx'[u], ctx'[v])
    BY <1>1 DEF CommentsInv, RequestsClear, UnderWay
  <2> QED
    BY <2>1 DEF RequestsClear, UnderWay, Clear
<1> QED
  BY <1>2, <1>3, <1>4 DEF CommentsInv

(* Votes of other requests are still there, or still not.                  *)
VotesStand(e) ==
  e.op = "upvote" => \A c \in e.ids : /\ e.change = "added" => e.users \cap vote'[c] = {}
                                      /\ e.change = "removed" => e.users \subseteq vote'[c]

(* One row is rewritten by a request that may write it.                    *)
LEMMA OneRowChanges ==
  ASSUME CommentsInv, NEW t \in CommentTxs, NEW c \in CommentIDs, CanWrite(t, c), comment[c].st # "none",
         NEW n \in CommentRow, n.st = comment[c].st, n.member = comment[c].member, n.parent = comment[c].parent,
         comment' = [comment EXCEPT ![c] = n],
         \A u \in CommentTxs \ {t} : UnderWay(u) => VotesStand(ctx[u])
  PROVE  /\ comment' \in [CommentIDs -> CommentRow]
         /\ comment'[c] = n /\ \A x \in CommentIDs \ {c} : comment'[x] = comment[x]
         /\ \A x \in CommentIDs : RowGoesOn(x)
         /\ \A u \in CommentTxs \ {t} : UnderWay(u) => Undisturbed(ctx[u])
<1>1. /\ comment \in [CommentIDs -> CommentRow] /\ comment' \in [CommentIDs -> CommentRow]
      /\ comment'[c] = n /\ \A x \in CommentIDs \ {c} : comment'[x] = comment[x]
  BY DEF CommentsInv, CommentsTypeOK
<1>2. \A x \in CommentIDs : RowGoesOn(x)
  BY <1>1 DEF RowGoesOn
<1>3. ASSUME NEW u \in CommentTxs \ {t}, UnderWay(u) PROVE Undisturbed(ctx[u])
  <2>1. ctx[u] \in OpenRequest /\ RequestFits(ctx[u])
    BY <1>3, RequestIsKnown
  <2>2. \A x \in ctx[u].wrote : comment'[x] = comment[x]
    BY <1>1, <1>3, <2>1 DEF CanWrite, OtherRequests, OpenRequest
  <2>3. ctx[u].op = "create" => \A x \in ctx[u].ids : comment'[x] = comment[x]
    BY <1>1, <2>1 DEF RequestFits, ReadsFit, OpenRequest
  <2>4. \A x \in CommentIDs : Replies(x)' = Replies(x)
    BY <1>1 DEF Replies, Stored
  <2>5. \A x \in ctx[u].excl : Replies(x)' \subseteq Replies(x)
    BY <2>1, <2>4 DEF OpenRequest
  <2> QED
    BY <1>3, <2>2, <2>3, <2>5 DEF Undisturbed, VotesStand
<1> QED
  BY <1>1, <1>2, <1>3

LEMMA SameVotesStand ==
  ASSUME CommentsInv, vote' = vote, NEW u \in CommentTxs, UnderWay(u)
  PROVE  VotesStand(ctx[u])
BY RequestIsKnown DEF RequestFits, VoteFits, VotesStand

LEMMA UpdateRowInv ==
  ASSUME CommentsInv, NEW t \in CommentTxs, NEW c \in CommentIDs, UpdateRow(t, c)
  PROVE  CommentsInv'
<1>1. /\ UnderWay(t) /\ ctx[t].op \in {"edit", "delete"} /\ c \in ctx[t].todo /\ CanWrite(t, c) /\ Ends(t)
      /\ flag' = flag /\ vote' = vote /\ policy' = policy /\ log' = log /\ commentOps' = commentOps
  BY DEF UpdateRow, At
<1>2. ctx[t] \in OpenRequest /\ RequestFits(ctx[t]) /\ ctx[t].ids = {c}
  BY <1>1, RequestIsKnown, RequestIsSole
<1>3. CASE ~Stored(c)
  BY <1>1, <1>3, CommentRequestMoves DEF UpdateRow, Ends, CommentsInv, CommentsTypeOK
<1>4. CASE Stored(c)
  <2>1. PICK s : s = Saved(ctx[t].op, ctx[t].read[c])
    OBVIOUS
  <2>2. /\ s.text \in {"first", "edited", "empty"} /\ s.status \in CommentStatus
        /\ s.status = "approved" => Vouched(c, ctx[t].read[c].member)
    <3>1. ctx[t].read[c] \in CommentRow
      BY <1>2 DEF OpenRequest
    <3>2. ctx[t].read[c].status = "approved" => Vouched(c, ctx[t].read[c].member)
      BY <1>2 DEF RequestFits, ReadsFit
    <3> QED
      BY <2>1, <3>1, <3>2 DEF Saved, CommentRow, CommentStatus
  <2>3. PICK n : n = [comment[c] EXCEPT !.text = s.text, !.status = s.status]
    OBVIOUS
  <2>4. comment[c] \in CommentRow /\ comment \in [CommentIDs -> CommentRow]
    BY DEF CommentsInv, CommentsTypeOK
  <2>5. /\ n \in CommentRow /\ n.st = comment[c].st /\ n.member = comment[c].member /\ n.parent = comment[c].parent
        /\ n.votes = comment[c].votes /\ n.status = s.status
    BY <2>2, <2>3, <2>4 DEF CommentRow
  <2>6. comment' = [comment EXCEPT ![c] = n]
    <3>1. comment' = [comment EXCEPT ![c].text = s.text, ![c].status = s.status]
      BY <1>4, <2>1 DEF UpdateRow
    <3> QED
      BY <2>3, <2>4, <3>1 DEF CommentRow
  <2>7. comment[c].st # "none"
    BY <1>4 DEF Stored
  <2>8. \A u \in CommentTxs \ {t} : UnderWay(u) => VotesStand(ctx[u])
    BY <1>1, SameVotesStand
  <2>9. /\ comment' \in [CommentIDs -> CommentRow]
        /\ comment'[c] = n /\ \A x \in CommentIDs \ {c} : comment'[x] = comment[x]
        /\ \A x \in CommentIDs : RowGoesOn(x)
        /\ \A u \in CommentTxs \ {t} : UnderWay(u) => Undisturbed(ctx[u])
    BY <1>1, <2>5, <2>6, <2>7, <2>8, OneRowChanges
  <2>10. UpvotesCounted' /\ NoVotesLeft' /\ LogGrows
    BY <1>1, <2>5, <2>9 DEF CommentsInv, UpvotesCounted, NoVotesLeft, Stored, LogGrows, InLog
  <2>11. VisibleWasApproved'
    <3>1. ctx[t].read[c].member = comment[c].member
      BY <1>1, <1>2, <1>4 DEF RequestFits, ReadsFit
    <3>2. n.status = "approved" => (n.member = TRUE /\ ~RequireApproval) \/ InLog(c)
      BY <2>2, <2>5, <3>1 DEF Vouched
    <3> QED
      BY <1>1, <2>9, <3>2 DEF CommentsInv, VisibleWasApproved, Stored, InLog
  <2> QED
    BY <1>1, <2>9, <2>10, <2>11, CommentRequestCommits DEF CommentsInv, CommentsTypeOK
<1> QED
  BY <1>3, <1>4

LEMMA CountFlagInv ==
  ASSUME CommentsInv, NEW t \in CommentTxs, NEW c \in CommentIDs, CountFlag(t, c)
  PROVE  CommentsInv'
<1>1. /\ UnderWay(t) /\ ctx[t].op = "flag" /\ c \in ctx[t].todo /\ CanWrite(t, c) /\ Ends(t)
      /\ vote' = vote /\ policy' = policy /\ log' = log /\ commentOps' = commentOps
  BY DEF CountFlag, At
<1>2. ctx[t] \in OpenRequest /\ RequestFits(ctx[t]) /\ ctx[t].ids = {c}
  BY <1>1, RequestIsKnown, RequestIsSole
<1>3. PICK s : s = IF comment[c].status = "approved" /\ comment[c].flags + 1 >= FlagThreshold THEN "flagged" ELSE comment[c].status
  OBVIOUS
<1>4. PICK n : n = [comment[c] EXCEPT !.flags = comment[c].flags + 1, !.status = s]
  OBVIOUS
<1>5. comment[c] \in CommentRow /\ comment \in [CommentIDs -> CommentRow] /\ flag \in [CommentIDs -> SUBSET Users]
  BY DEF CommentsInv, CommentsTypeOK
<1>6. s \in CommentStatus /\ (s = "approved" => comment[c].status = "approved")
  BY <1>3, <1>5 DEF CommentRow, CommentStatus
<1>7. /\ n \in CommentRow /\ n.st = comment[c].st /\ n.member = comment[c].member /\ n.parent = comment[c].parent
      /\ n.votes = comment[c].votes /\ n.status = s
  <2>1. PICK k : k = comment[c].flags + 1
    OBVIOUS
  <2>2. k \in Nat
    BY <1>5, <2>1 DEF CommentRow
  <2>3. n = [comment[c] EXCEPT !.flags = k, !.status = s]
    BY <1>4, <2>1
  <2> QED
    BY <1>5, <1>6, <2>2, <2>3 DEF CommentRow
<1>8. comment' = [comment EXCEPT ![c] = n]
  BY <1>3, <1>4, <1>5 DEF CountFlag, CommentRow
<1>9. comment[c].st # "none"
  BY <1>1, <1>2 DEF RequestFits, ReadsFit
<1>10. \A u \in CommentTxs \ {t} : UnderWay(u) => VotesStand(ctx[u])
  BY <1>1, SameVotesStand
<1>11. /\ comment' \in [CommentIDs -> CommentRow]
       /\ comment'[c] = n /\ \A x \in CommentIDs \ {c} : comment'[x] = comment[x]
       /\ \A x \in CommentIDs : RowGoesOn(x)
       /\ \A u \in CommentTxs \ {t} : UnderWay(u) => Undisturbed(ctx[u])
  BY <1>1, <1>7, <1>8, <1>9, <1>10, OneRowChanges
<1>12. UpvotesCounted' /\ NoVotesLeft' /\ LogGrows
  BY <1>1, <1>7, <1>11 DEF CommentsInv, UpvotesCounted, NoVotesLeft, Stored, LogGrows, InLog
<1>13. VisibleWasApproved'
  BY <1>1, <1>6, <1>7, <1>11 DEF CommentsInv, VisibleWasApproved, Stored
<1>14. flag' \in [CommentIDs -> SUBSET Users]
  <2>1. ctx[t].users \in SUBSET Users
    BY <1>2 DEF OpenRequest
  <2> QED
    BY <1>5, <2>1 DEF CountFlag
<1> QED
  BY <1>1, <1>11, <1>12, <1>13, <1>14, CommentRequestCommits DEF CommentsInv, CommentsTypeOK

(* Adding or taking away one vote moves the count by one.                  *)
LEMMA VoteCountMoves ==
  ASSUME NEW V, IsFiniteSet(V), NEW v
  PROVE  /\ VoteCount(Cardinality(V), "none") = Cardinality(V)
         /\ v \notin V => VoteCount(Cardinality(V), "added") = Cardinality(V \cup {v})
         /\ v \in V => VoteCount(Cardinality(V), "removed") = Cardinality(V \ {v})
         /\ Cardinality(V) \in Nat /\ Cardinality(V \cup {v}) \in Nat /\ Cardinality(V \ {v}) \in Nat
<1>1. Cardinality(V) \in Nat /\ IsFiniteSet(V \cup {v}) /\ IsFiniteSet(V \ {v})
  BY FS_CardinalityType, FS_AddElement, FS_RemoveElement
<1>2. Cardinality(V \cup {v}) \in Nat /\ Cardinality(V \ {v}) \in Nat
  BY <1>1, FS_CardinalityType
<1>3. v \notin V => Cardinality(V \cup {v}) = Cardinality(V) + 1
  BY FS_AddElement
<1>4. v \in V => Cardinality(V \ {v}) = Cardinality(V) - 1
  BY FS_RemoveElement
<1> QED
  BY <1>1, <1>2, <1>3, <1>4 DEF VoteCount

LEMMA CountVoteInv ==
  ASSUME CommentsInv, NEW t \in CommentTxs, NEW c \in CommentIDs, CountVote(t, c)
  PROVE  CommentsInv'
<1>1. /\ UnderWay(t) /\ ctx[t].op = "upvote" /\ c \in ctx[t].todo /\ CanWrite(t, c) /\ Stored(c) /\ Ends(t)
      /\ flag' = flag /\ policy' = policy /\ log' = log /\ commentOps' = commentOps
  BY DEF CountVote, At
<1>2. ctx[t] \in OpenRequest /\ RequestFits(ctx[t]) /\ ctx[t].ids = {c}
  BY <1>1, RequestIsKnown, RequestIsSole
<1>3. comment[c] \in CommentRow /\ comment \in [CommentIDs -> CommentRow] /\ vote \in [CommentIDs -> SUBSET Users]
  BY DEF CommentsInv, CommentsTypeOK
<1>4. PICK v \in Users : ctx[t].users = {v}
  BY <1>1, <1>2 DEF RequestFits, VoteFits
<1>5. PICK ch \in {"none", "added", "removed"} : ch = ctx[t].change
  BY <1>2 DEF OpenRequest
<1>6. PICK V : V = CASE ch = "added" -> vote[c] \cup {v} [] ch = "removed" -> vote[c] \ {v} [] OTHER -> vote[c]
  OBVIOUS
<1>7. V \in SUBSET Users
  BY <1>3, <1>6
<1>8. vote' = [vote EXCEPT ![c] = V]
  BY <1>4, <1>5, <1>6 DEF CountVote
<1>9. vote' \in [CommentIDs -> SUBSET Users] /\ vote'[c] = V /\ \A x \in CommentIDs \ {c} : vote'[x] = vote[x]
  BY <1>3, <1>7, <1>8
<1>10. PICK k : k = VoteCount(comment[c].votes, ch)
  OBVIOUS
<1>11. k \in Nat /\ k = Cardinality(V)
  <2>1. IsFiniteSet(vote[c])
    BY <1>3, CommentsAssumption, FS_Subset
  <2>2. (ch = "added" => v \notin vote[c]) /\ (ch = "removed" => v \in vote[c])
    BY <1>1, <1>2, <1>4, <1>5 DEF RequestFits, VoteFits
  <2>3. comment[c].votes = Cardinality(vote[c])
    BY DEF CommentsInv, UpvotesCounted
  <2>4. CASE ch = "none"
    <3>1. V = vote[c]
      BY <1>6, <2>4
    <3> QED
      BY <1>10, <2>1, <2>3, <2>4, <3>1, VoteCountMoves
  <2>5. CASE ch = "added"
    <3>1. V = vote[c] \cup {v}
      BY <1>6, <2>5
    <3> QED
      BY <1>10, <2>1, <2>2, <2>3, <2>5, <3>1, VoteCountMoves
  <2>6. CASE ch = "removed"
    <3>1. V = vote[c] \ {v}
      BY <1>6, <2>6
    <3>2. VoteCount(Cardinality(vote[c]), "removed") = Cardinality(vote[c] \ {v}) /\ Cardinality(vote[c] \ {v}) \in Nat
      BY <2>1, <2>2, <2>6, VoteCountMoves
    <3> QED
      BY <1>10, <2>3, <2>6, <3>1, <3>2
  <2> QED
    BY <1>5, <2>4, <2>5, <2>6
<1>12. PICK n : n = [comment[c] EXCEPT !.votes = k]
  OBVIOUS
<1>13. /\ n \in CommentRow /\ n.st = comment[c].st /\ n.member = comment[c].member /\ n.parent = comment[c].parent
       /\ n.votes = k /\ n.status = comment[c].status
  BY <1>3, <1>11, <1>12 DEF CommentRow
<1>14. comment' = [comment EXCEPT ![c] = n]
  BY <1>3, <1>5, <1>10, <1>12 DEF CountVote, CommentRow
<1>15. comment[c].st # "none"
  BY <1>1 DEF Stored
<1>16. ASSUME NEW u \in CommentTxs \ {t}, UnderWay(u) PROVE VotesStand(ctx[u])
  <2> SUFFICES ASSUME ctx[u].op = "upvote", NEW x \in ctx[u].ids
               PROVE  /\ ctx[u].change = "added" => ctx[u].users \cap vote'[x] = {}
                      /\ ctx[u].change = "removed" => ctx[u].users \subseteq vote'[x]
    BY DEF VotesStand
  <2>1. ctx[u] \in OpenRequest /\ VoteFits(ctx[u]) /\ Clear(ctx[t], ctx[u]) /\ x \in CommentIDs
    BY <1>1, <1>16, RequestIsKnown DEF RequestFits, OpenRequest
  <2>2. PICK w \in Users : ctx[u].users = {w}
    BY <2>1 DEF VoteFits
  <2>3. /\ ctx[u].change = "added" => {w} \cap vote[x] = {}
        /\ ctx[u].change = "removed" => {w} \subseteq vote[x]
    BY <2>1, <2>2 DEF VoteFits
  <2>4. CASE x # c
    BY <1>9, <2>1, <2>2, <2>3, <2>4
  <2>5. CASE x = c
    <3>1. ch # "none" /\ ctx[u].change # "none" => w # v
      BY <1>1, <1>2, <1>4, <1>5, <2>1, <2>2, <2>5 DEF Clear
    <3>2. ch = "none" => V = vote[c]
      BY <1>6
    <3>3. ch = "added" => V = vote[c] \cup {v}
      BY <1>6
    <3>4. ch = "removed" => V = vote[c] \ {v}
      BY <1>6
    <3> QED
      BY <1>5, <1>9, <2>2, <2>3, <2>5, <3>1, <3>2, <3>3, <3>4
  <2> QED
    BY <2>4, <2>5
<1>17. /\ comment' \in [CommentIDs -> CommentRow]
       /\ comment'[c] = n /\ \A x \in CommentIDs \ {c} : comment'[x] = comment[x]
       /\ \A x \in CommentIDs : RowGoesOn(x)
       /\ \A u \in CommentTxs \ {t} : UnderWay(u) => Undisturbed(ctx[u])
  BY <1>1, <1>13, <1>14, <1>15, <1>16, OneRowChanges
<1>18. UpvotesCounted'
  BY <1>9, <1>11, <1>13, <1>17 DEF CommentsInv, UpvotesCounted
<1>19. NoVotesLeft' /\ LogGrows
  BY <1>1, <1>9, <1>13, <1>17 DEF CommentsInv, NoVotesLeft, Stored, LogGrows, InLog
<1>20. VisibleWasApproved'
  BY <1>1, <1>13, <1>17 DEF CommentsInv, VisibleWasApproved, Stored
<1> QED
  BY <1>1, <1>9, <1>17, <1>18, <1>19, <1>20, CommentRequestCommits DEF CommentsInv, CommentsTypeOK

LEMMA LogAppends ==
  ASSUME CommentsInv, NEW E \in SUBSET Entry, log' = Append(log, E)
  PROVE  /\ log' \in Seq(SUBSET Entry) /\ LogGrows /\ Len(log') \in DOMAIN log' /\ log'[Len(log')] = E
         /\ log' # log
<1>1. /\ log \in Seq(SUBSET Entry) /\ log' \in Seq(SUBSET Entry) /\ Len(log') = Len(log) + 1 /\ Len(log) \in Nat
      /\ DOMAIN log = 1..Len(log) /\ DOMAIN log' = 1..(Len(log) + 1)
      /\ log'[Len(log) + 1] = E /\ \A i \in DOMAIN log : log'[i] = log[i]
  BY DEF CommentsInv, CommentsTypeOK
<1>2. \A i \in DOMAIN log : i \in DOMAIN log'
  BY <1>1
<1>3. LogGrows
  BY <1>1, <1>2 DEF LogGrows, InLog
<1>4. ASSUME log' = log PROVE FALSE
  <2>1. Len(log') = Len(log)
    BY <1>4
  <2> QED
    BY <1>1, <2>1
<1>5. Len(log') \in DOMAIN log' /\ log'[Len(log')] = E
  <2>1. Len(log) + 1 \in 1..(Len(log) + 1)
    BY <1>1
  <2> QED
    BY <1>1, <2>1
<1> QED
  BY <1>1, <1>3, <1>4, <1>5

LEMMA StoreInv ==
  ASSUME CommentsInv, NEW t \in CommentTxs, NEW c \in CommentIDs, Store(t, c)
  PROVE  CommentsInv'
<1>1. /\ UnderWay(t) /\ ctx[t].op = "create" /\ ctx[t].pc = "inserted" /\ c \in ctx[t].todo /\ Ends(t)
      /\ flag' = flag /\ vote' = vote /\ policy' = policy /\ log' = log /\ commentOps' = commentOps
  BY DEF Store, At
<1>2. ctx[t] \in OpenRequest /\ RequestFits(ctx[t]) /\ ctx[t].ids = {c}
  BY <1>1, RequestIsKnown, RequestIsSole
<1>3. PICK n : n = ctx[t].read[c]
  OBVIOUS
<1>4. /\ n \in CommentRow /\ comment[c].st = "none" /\ n.st = "stored" /\ n.votes = 0 /\ {n.parent} \ {NoParent} = ctx[t].refs
      /\ n.status = "approved" => Vouched(c, n.member)
  BY <1>1, <1>2, <1>3 DEF RequestFits, ReadsFit, OpenRequest
<1>5. comment \in [CommentIDs -> CommentRow] /\ comment' = [comment EXCEPT ![c] = n]
  BY <1>3 DEF Store, CommentsInv, CommentsTypeOK
<1>6. comment' \in [CommentIDs -> CommentRow] /\ comment'[c] = n /\ \A x \in CommentIDs \ {c} : comment'[x] = comment[x]
  BY <1>4, <1>5
<1>7. \A x \in CommentIDs : RowGoesOn(x)
  BY <1>4, <1>6 DEF RowGoesOn
<1>8. ASSUME NEW u \in CommentTxs \ {t}, UnderWay(u) PROVE Undisturbed(ctx[u])
  <2>1. ctx[u] \in OpenRequest /\ RequestFits(ctx[u]) /\ Clear(ctx[t], ctx[u])
    BY <1>1, <1>8, RequestIsKnown
  <2>2. \A x \in ctx[u].wrote : comment'[x] = comment[x]
    BY <1>4, <1>6, <2>1 DEF RequestFits, BatchFits, Stored, OpenRequest
  <2>3. \A x \in ctx[u].ids : comment'[x] = comment[x]
    BY <1>1, <1>2, <1>6, <2>1 DEF Clear, OpenRequest
  <2>4. ASSUME NEW x \in ctx[u].excl PROVE Replies(x)' \subseteq Replies(x)
    <3>1. x \in CommentIDs /\ x # n.parent
      BY <1>4, <2>1, CommentsAssumption DEF Clear, OpenRequest
    <3> QED
      BY <1>6, <3>1 DEF Replies, Stored
  <2>5. VotesStand(ctx[u])
    BY <1>1, <1>8, SameVotesStand
  <2> QED
    BY <2>2, <2>3, <2>4, <2>5 DEF Undisturbed, VotesStand
<1>9. UpvotesCounted' /\ NoVotesLeft' /\ LogGrows
  <2>1. vote[c] = {}
    BY <1>4 DEF CommentsInv, NoVotesLeft, Stored
  <2> QED
    BY <1>1, <1>4, <1>6, <2>1, FS_EmptySet DEF CommentsInv, UpvotesCounted, NoVotesLeft, Stored, LogGrows, InLog
<1>10. VisibleWasApproved'
  <2>1. n.status = "approved" => (n.member = TRUE /\ ~RequireApproval) \/ InLog(c)
    BY <1>4 DEF Vouched
  <2> QED
    BY <1>1, <1>6, <2>1 DEF CommentsInv, VisibleWasApproved, Stored, InLog
<1> QED
  BY <1>1, <1>6, <1>7, <1>8, <1>9, <1>10, CommentRequestCommits DEF CommentsInv, CommentsTypeOK

LEMMA ScrubRowInv ==
  ASSUME CommentsInv, NEW t \in CommentTxs, NEW c \in CommentIDs, ScrubRow(t, c)
  PROVE  CommentsInv'
<1>1. /\ UnderWay(t) /\ ctx[t].op = "hard_delete" /\ c \in ctx[t].todo /\ CanWrite(t, c) /\ Ends(t)
      /\ policy' = policy /\ log' = HardDeleted(t, c) /\ commentOps' = commentOps
      /\ \A u \in OtherRequests(t) : ctx[u].change = "removed" => c \notin ctx[u].ids
      /\ flag' = [flag EXCEPT ![c] = {}] /\ vote' = [vote EXCEPT ![c] = {}]
  BY DEF ScrubRow, At
<1>2. ctx[t] \in OpenRequest /\ RequestFits(ctx[t]) /\ ctx[t].ids = {c}
  BY <1>1, RequestIsKnown, RequestIsSole
<1>3. /\ comment[c] \in CommentRow /\ comment \in [CommentIDs -> CommentRow]
      /\ vote \in [CommentIDs -> SUBSET Users] /\ flag \in [CommentIDs -> SUBSET Users]
  BY DEF CommentsInv, CommentsTypeOK
<1>4. /\ vote' \in [CommentIDs -> SUBSET Users] /\ flag' \in [CommentIDs -> SUBSET Users]
      /\ vote'[c] = {} /\ \A x \in CommentIDs \ {c} : vote'[x] = vote[x]
  BY <1>1, <1>3
<1>5. PICK n : n = [comment[c] EXCEPT !.status = "deleted", !.text = "empty", !.owned = FALSE, !.flags = 0, !.votes = 0]
  OBVIOUS
<1>6. /\ n \in CommentRow /\ n.st = comment[c].st /\ n.member = comment[c].member /\ n.parent = comment[c].parent
      /\ n.votes = 0 /\ n.status = "deleted"
  BY <1>3, <1>5 DEF CommentRow, CommentStatus
<1>7. comment' = [comment EXCEPT ![c] = n]
  BY <1>5 DEF ScrubRow
<1>8. comment[c].st # "none"
  BY <1>1, <1>2 DEF RequestFits, ReadsFit
<1>9. ASSUME NEW u \in CommentTxs \ {t}, UnderWay(u) PROVE VotesStand(ctx[u])
  <2>1. ctx[u] \in OpenRequest /\ VoteFits(ctx[u]) /\ (ctx[u].change = "removed" => c \notin ctx[u].ids)
    BY <1>1, <1>9, RequestIsKnown DEF RequestFits, OtherRequests
  <2> QED
    BY <1>4, <2>1 DEF VotesStand, VoteFits, OpenRequest
<1>10. /\ comment' \in [CommentIDs -> CommentRow]
       /\ comment'[c] = n /\ \A x \in CommentIDs \ {c} : comment'[x] = comment[x]
       /\ \A x \in CommentIDs : RowGoesOn(x)
       /\ \A u \in CommentTxs \ {t} : UnderWay(u) => Undisturbed(ctx[u])
  BY <1>1, <1>6, <1>7, <1>8, <1>9, OneRowChanges
<1>11. UpvotesCounted' /\ NoVotesLeft'
  BY <1>4, <1>6, <1>10, FS_EmptySet DEF CommentsInv, UpvotesCounted, NoVotesLeft, Stored
<1>12. PICK E : E = {[id |-> c, action |-> "hard_delete", from |-> ctx[t].read[c].status, to |-> "deleted"]}
  OBVIOUS
<1>13. E \in SUBSET Entry
  BY <1>2, <1>12 DEF OpenRequest, CommentRow, Entry, Action, CommentStatus
<1>14. log' \in Seq(SUBSET Entry) /\ LogGrows
  BY <1>1, <1>12, <1>13, LogAppends DEF HardDeleted
<1>15. VisibleWasApproved'
  <2>1. \A x \in CommentIDs \ {c} : (Stored(x) /\ comment[x].status = "approved") => (comment[x].member /\ ~RequireApproval) \/ InLog(x)'
    BY <1>14 DEF CommentsInv, VisibleWasApproved, LogGrows, InLog
  <2> QED
    BY <1>6, <1>10, <2>1 DEF VisibleWasApproved, Stored, InLog
<1> QED
  BY <1>1, <1>4, <1>10, <1>11, <1>14, <1>15, CommentRequestCommits DEF CommentsInv, CommentsTypeOK

(* A comment without replies is deleted alone.                             *)
LEMMA SubtreeIsSole ==
  ASSUME NEW c \in CommentIDs, Replies(c) = {}
  PROVE  Subtree(c) = {c}
<1>1. {c} \in SUBSET CommentIDs /\ c \in {c} /\ \A e \in {c} : Replies(e) \subseteq {c}
  OBVIOUS
<1>2. \A d \in Subtree(c) : d \in {c}
  BY <1>1 DEF Subtree
<1>3. c \in Subtree(c)
  BY DEF Subtree
<1> QED
  BY <1>2, <1>3

LEMMA DeletedAlone ==
  ASSUME CommentsInv, NEW t \in CommentTxs, NEW c \in CommentIDs, RemoveRow(t, c)
  PROVE  Subtree(c) = {c}
<1>1. UnderWay(t) /\ ctx[t].op = "hard_delete" /\ ctx[t].pc = "checked" /\ c \in ctx[t].todo /\ ~ctx[t].replies
  BY DEF RemoveRow, At
<1>2. ctx[t] \in OpenRequest /\ RequestFits(ctx[t]) /\ ctx[t].ids = {c}
  BY <1>1, RequestIsKnown, RequestIsSole
<1>3. ctx[t].replies = FALSE
  BY <1>1, <1>2 DEF OpenRequest
<1>4. Replies(c) = {}
  BY <1>1, <1>2, <1>3 DEF RequestFits, DeleteFits
<1> QED
  BY <1>4, SubtreeIsSole

LEMMA RemoveRowInv ==
  ASSUME CommentsInv, NEW t \in CommentTxs, NEW c \in CommentIDs, RemoveRow(t, c)
  PROVE  CommentsInv'
<1>1. Subtree(c) = {c}
  BY DeletedAlone
<1>2. PICK n : n = [NoComment EXCEPT !.st = "removed"]
  OBVIOUS
<1>3. n \in CommentRow /\ n.st = "removed" /\ n.votes = 0
  <2>1. NoComment \in CommentRow /\ NoComment.votes = 0
    BY CommentsAssumption DEF NoComment, CommentRow, CommentStatus
  <2> QED
    BY <1>2, <2>1 DEF CommentRow
<1>4. /\ UnderWay(t) /\ ctx[t].op = "hard_delete" /\ c \in ctx[t].todo /\ CanLock(t, c) /\ Ends(t)
      /\ policy' = policy /\ log' = HardDeleted(t, c) /\ commentOps' = commentOps
      /\ \A u \in OtherRequests(t) : ctx[u].change = "removed" => c \notin ctx[u].ids
      /\ comment' = [d \in CommentIDs |-> IF d \in {c} THEN n ELSE comment[d]]
      /\ flag' = [d \in CommentIDs |-> IF d \in {c} THEN {} ELSE flag[d]]
      /\ vote' = [d \in CommentIDs |-> IF d \in {c} THEN {} ELSE vote[d]]
  BY <1>1, <1>2 DEF RemoveRow, At
<1>5. ctx[t] \in OpenRequest /\ RequestFits(ctx[t]) /\ ctx[t].ids = {c}
  BY <1>4, RequestIsKnown, RequestIsSole
<1>6. /\ comment \in [CommentIDs -> CommentRow] /\ vote \in [CommentIDs -> SUBSET Users]
      /\ flag \in [CommentIDs -> SUBSET Users]
  BY DEF CommentsInv, CommentsTypeOK
<1>7. /\ comment' \in [CommentIDs -> CommentRow] /\ comment'[c] = n /\ \A x \in CommentIDs \ {c} : comment'[x] = comment[x]
  BY <1>3, <1>4, <1>6
<1>8. /\ vote' \in [CommentIDs -> SUBSET Users] /\ flag' \in [CommentIDs -> SUBSET Users]
      /\ vote'[c] = {} /\ \A x \in CommentIDs \ {c} : vote'[x] = vote[x]
  BY <1>4, <1>6
<1>9. comment[c].st # "none"
  BY <1>4, <1>5 DEF RequestFits, ReadsFit
<1>10. \A x \in CommentIDs : RowGoesOn(x)
  BY <1>3, <1>7 DEF RowGoesOn
<1>11. ASSUME NEW u \in CommentTxs \ {t}, UnderWay(u) PROVE Undisturbed(ctx[u])
  <2>1. ctx[u] \in OpenRequest /\ RequestFits(ctx[u]) /\ (ctx[u].change = "removed" => c \notin ctx[u].ids)
    BY <1>4, <1>11, RequestIsKnown DEF OtherRequests
  <2>2. \A x \in ctx[u].wrote : comment'[x] = comment[x]
    BY <1>4, <1>7, <1>11, <2>1 DEF CanLock, OtherRequests, OpenRequest
  <2>3. ctx[u].op = "create" => \A x \in ctx[u].ids : comment'[x] = comment[x]
    BY <1>7, <1>9, <2>1 DEF RequestFits, ReadsFit, OpenRequest
  <2>4. \A x \in CommentIDs : Replies(x)' \subseteq Replies(x)
    BY <1>3, <1>7 DEF Replies, Stored
  <2>5. \A x \in ctx[u].excl : Replies(x)' \subseteq Replies(x)
    BY <2>1, <2>4 DEF OpenRequest
  <2>6. VotesStand(ctx[u])
    BY <1>8, <2>1 DEF VotesStand, RequestFits, VoteFits, OpenRequest
  <2> QED
    BY <2>2, <2>3, <2>5, <2>6 DEF Undisturbed, VotesStand
<1>12. UpvotesCounted' /\ NoVotesLeft'
  BY <1>3, <1>7, <1>8, FS_EmptySet DEF CommentsInv, UpvotesCounted, NoVotesLeft, Stored
<1>13. PICK E : E = {[id |-> c, action |-> "hard_delete", from |-> ctx[t].read[c].status, to |-> "deleted"]}
  OBVIOUS
<1>14. E \in SUBSET Entry
  BY <1>5, <1>13 DEF OpenRequest, CommentRow, Entry, Action, CommentStatus
<1>15. log' \in Seq(SUBSET Entry) /\ LogGrows
  BY <1>4, <1>13, <1>14, LogAppends DEF HardDeleted
<1>16. VisibleWasApproved'
  <2>1. \A x \in CommentIDs \ {c} : (Stored(x) /\ comment[x].status = "approved") => (comment[x].member /\ ~RequireApproval) \/ InLog(x)'
    BY <1>15 DEF CommentsInv, VisibleWasApproved, LogGrows, InLog
  <2> QED
    BY <1>3, <1>7, <2>1 DEF VisibleWasApproved, Stored, InLog
<1> QED
  BY <1>4, <1>7, <1>8, <1>10, <1>11, <1>12, <1>15, <1>16, CommentRequestCommits DEF CommentsInv, CommentsTypeOK

(* What a batch that goes through stores and logs.                         *)
LEMMA BatchIsWhole ==
  ASSUME CommentsInv, NEW t \in CommentTxs, CommitModeration(t), ~ctx[t].stale
  PROVE  /\ ctx[t] \in OpenRequest /\ RequestFits(ctx[t]) /\ ctx[t].ids = ctx[t].wrote
         /\ ctx[t].action \in Action \ {"hard_delete"} /\ Entries(t, ctx[t].ids) \in SUBSET Entry
         /\ comment' \in [CommentIDs -> CommentRow]
         /\ \A c \in ctx[t].ids : /\ comment'[c] = ctx[t].rows[c] /\ Stored(c)
                                  /\ comment[c].status = ctx[t].read[c].status
                                  /\ SameRow(comment'[c], comment[c]) /\ comment'[c].status = Decision(ctx[t].action)
         /\ \A c \in CommentIDs \ ctx[t].ids : comment'[c] = comment[c]
         /\ log' = Append(log, Entries(t, ctx[t].ids))
<1>1. /\ UnderWay(t) /\ ctx[t].op = "moderate" /\ ctx[t].todo = {} /\ log' = Append(log, Entries(t, ctx[t].ids))
      /\ comment' = [c \in CommentIDs |-> IF c \in ctx[t].wrote THEN ctx[t].rows[c] ELSE comment[c]]
  BY DEF CommitModeration, At
<1>2. ctx[t] \in OpenRequest /\ RequestFits(ctx[t])
  BY <1>1, RequestIsKnown
<1>3. ctx[t].stale = FALSE
  BY <1>2 DEF OpenRequest
<1>4. ctx[t].ids = ctx[t].wrote /\ ctx[t].ids \subseteq CommentIDs
  BY <1>1, <1>2, <1>3 DEF RequestFits, BatchFits, OpenRequest
<1>5. ctx[t].action \in Action \ {"hard_delete"}
  BY <1>1, <1>2 DEF RequestFits, BatchFits, OpenRequest
<1>6. comment \in [CommentIDs -> CommentRow] /\ ctx[t].rows \in [CommentIDs -> CommentRow] /\ ctx[t].read \in [CommentIDs -> CommentRow]
  BY <1>2 DEF CommentsInv, CommentsTypeOK, OpenRequest
<1>7. comment' \in [CommentIDs -> CommentRow]
  BY <1>1, <1>6
<1>8. /\ \A c \in ctx[t].ids : comment'[c] = ctx[t].rows[c]
      /\ \A c \in CommentIDs \ ctx[t].ids : comment'[c] = comment[c]
  BY <1>1, <1>4
<1>9. \A c \in ctx[t].ids : /\ Stored(c) /\ comment[c].status = ctx[t].read[c].status
                            /\ SameRow(ctx[t].rows[c], comment[c]) /\ ctx[t].rows[c].status = Decision(ctx[t].action)
  BY <1>2, <1>4 DEF RequestFits, BatchFits
<1>10. Entries(t, ctx[t].ids) \in SUBSET Entry
  <2>1. Decision(ctx[t].action) \in CommentStatus
    BY <1>5, DecisionIsTyped DEF CommentStatus
  <2>2. \A c \in ctx[t].ids : ctx[t].read[c].status \in CommentStatus
    BY <1>4, <1>6 DEF CommentRow
  <2> QED
    BY <1>4, <1>5, <2>1, <2>2 DEF Entries, Entry
<1> QED
  BY <1>1, <1>2, <1>4, <1>5, <1>7, <1>8, <1>9, <1>10

LEMMA CommitModerationInv ==
  ASSUME CommentsInv, NEW t \in CommentTxs, CommitModeration(t)
  PROVE  CommentsInv'
<1>1. /\ UnderWay(t) /\ ctx[t].op = "moderate" /\ Ends(t)
      /\ flag' = flag /\ vote' = vote /\ policy' = policy /\ commentOps' = commentOps
  BY DEF CommitModeration, At
<1>2. CASE ctx[t].stale
  BY <1>1, <1>2, CommentRequestMoves DEF CommitModeration, Ends, CommentsInv, CommentsTypeOK
<1>3. CASE ~ctx[t].stale
  <2>1. PICK S : S = ctx[t].ids
    OBVIOUS
  <2>2. /\ S \subseteq CommentIDs /\ RequestFits(ctx[t]) /\ S = ctx[t].wrote /\ comment' \in [CommentIDs -> CommentRow]
        /\ Entries(t, S) \in SUBSET Entry /\ log' = Append(log, Entries(t, S))
        /\ \A c \in S : /\ Stored(c) /\ comment[c].status = ctx[t].read[c].status
                        /\ SameRow(comment'[c], comment[c]) /\ comment'[c].status = Decision(ctx[t].action)
        /\ \A c \in CommentIDs \ S : comment'[c] = comment[c]
    BY <1>3, <2>1, BatchIsWhole DEF OpenRequest
  <2>3. \A c \in CommentIDs : SameRow(comment'[c], comment[c])
    BY <2>2 DEF SameRow
  <2>4. \A x \in CommentIDs : RowGoesOn(x)
    BY <2>3 DEF RowGoesOn, SameRow
  <2>5. ASSUME NEW u \in CommentTxs \ {t}, UnderWay(u) PROVE Undisturbed(ctx[u])
    <3>1. ctx[u] \in OpenRequest /\ RequestFits(ctx[u]) /\ Clear(ctx[t], ctx[u])
      BY <1>1, <2>5, RequestIsKnown
    <3>2. \A x \in ctx[u].wrote : comment'[x] = comment[x]
      BY <2>2, <3>1 DEF Clear, OpenRequest
    <3>3. ctx[u].op = "create" => \A x \in ctx[u].ids : comment'[x] = comment[x]
      BY <2>1, <2>2, <3>1 DEF Clear, OpenRequest
    <3>4. \A x \in CommentIDs : Replies(x)' = Replies(x)
      BY <2>3 DEF SameRow, Replies, Stored
    <3>5. \A x \in ctx[u].excl : Replies(x)' \subseteq Replies(x)
      BY <3>1, <3>4 DEF OpenRequest
    <3>6. VotesStand(ctx[u])
      BY <1>1, <2>5, SameVotesStand
    <3> QED
      BY <3>2, <3>3, <3>5, <3>6 DEF Undisturbed, VotesStand
  <2>6. UpvotesCounted' /\ NoVotesLeft'
    BY <1>1, <2>3 DEF CommentsInv, UpvotesCounted, NoVotesLeft, Stored, SameRow
  <2>7. log' \in Seq(SUBSET Entry) /\ LogGrows /\ Len(log') \in DOMAIN log' /\ log'[Len(log')] = Entries(t, S)
    BY <2>2, LogAppends
  <2>8. VisibleWasApproved'
    <3> SUFFICES ASSUME NEW c \in CommentIDs, comment'[c].st = "stored", comment'[c].status = "approved",
                        ~(comment'[c].member /\ ~RequireApproval)
                 PROVE  InLog(c)'
      BY DEF VisibleWasApproved, Stored, InLog
    <3>1. CASE c \in S
      <4>1. PICK e : e = [id |-> c, action |-> ctx[t].action, from |-> ctx[t].read[c].status, to |-> Decision(ctx[t].action)]
        OBVIOUS
      <4>2. e \in log'[Len(log')] /\ e.id = c /\ e.to = "approved"
        BY <2>2, <2>7, <3>1, <4>1 DEF Entries
      <4> QED
        BY <2>7, <4>2 DEF InLog
    <3>2. CASE c \notin S
      <4>1. comment'[c] = comment[c]
        BY <2>2, <3>2
      <4>2. InLog(c)
        BY <4>1 DEF CommentsInv, VisibleWasApproved, Stored, InLog
      <4> QED
        BY <2>7, <4>2 DEF LogGrows
    <3> QED
      BY <3>1, <3>2
  <2> QED
    BY <1>1, <2>2, <2>4, <2>5, <2>6, <2>7, <2>8, CommentRequestCommits DEF CommentsInv, CommentsTypeOK
<1> QED
  BY <1>2, <1>3

LEMMA CommentWriteInv ==
  ASSUME CommentsInv, NEW t \in CommentTxs, NEW c \in CommentIDs, Writes(t, c)
  PROVE  CommentsInv'
BY UpdateRowInv, InsertCommentInv, StoreInv, InsertFlagInv, CountFlagInv, DeleteVoteInv, InsertVoteInv, CountVoteInv,
   ApplyModerationInv, LockForDeleteInv, CheckRepliesInv, RemoveRowInv, ScrubRowInv DEF Writes

LEMMA CommentsNextInv == CommentsInv /\ [CommentsNext]_commentVars => CommentsInv'
<1> SUFFICES ASSUME CommentsInv, [CommentsNext]_commentVars PROVE CommentsInv'
  OBVIOUS
<1>1. ASSUME NEW t \in CommentTxs, RequestBegins(t) PROVE CommentsInv'
  BY <1>1, RequestBeginsKeeps
<1>2. ASSUME NEW t \in CommentTxs, CommitModeration(t) PROVE CommentsInv'
  BY <1>2, CommitModerationInv
<1>3. ASSUME NEW t \in CommentTxs, AbortRequest(t) PROVE CommentsInv'
  BY <1>3, AbortRequestInv
<1>4. ASSUME NEW t \in CommentTxs, NEW c \in CommentIDs, Writes(t, c) PROVE CommentsInv'
  BY <1>4, CommentWriteInv
<1>5. ASSUME NEW q \in Policies, ChangePolicy(q) PROVE CommentsInv'
  BY <1>5, ChangePolicyInv
<1>6. CASE UNCHANGED commentVars
  BY <1>6 DEF commentVars, CommentsInv, CommentsTypeOK, UpvotesCounted, VisibleWasApproved, NoVotesLeft, RequestsFit,
              RequestsClear, RequestFits, SoleComment, ReadsFit, BatchFits, VoteFits, DeleteFits, Vouched, InLog,
              Stored, Replies, SameRow, UnderWay, Clear
<1> QED
  BY <1>1, <1>2, <1>3, <1>4, <1>5, <1>6 DEF CommentsNext

LEMMA CommentsKeepInv == CommentsSpec => []CommentsInv
<1>1. CommentsInit => CommentsInv
  BY CommentsInitInv
<1>2. CommentsInv /\ [CommentsNext]_commentVars => CommentsInv'
  BY CommentsNextInv
<1> QED
  BY <1>1, <1>2, PTL DEF CommentsSpec

(* However requests overlap, abort or are refused, every upvote_count is   *)
(* the number of votes, and no comment is visible that needed an approval  *)
(* and got none (ToggleUpvote, Create, Update, decide).                    *)
THEOREM CommentsAreSound == CommentsSpec => []CommentsInvariant
<1>1. CommentsInv => CommentsInvariant
  BY DEF CommentsInv, CommentsInvariant
<1> QED
  BY <1>1, CommentsKeepInv, PTL

(* What one step may do to a stored comment: only RemoveRow removes it,    *)
(* and then no other.                                                      *)
RemovesNoReply ==
  \A c \in CommentIDs : (Stored(c) /\ comment'[c].st = "removed") =>
    \E t \in CommentTxs : UnderWay(t) /\ ctx[t].op = "hard_delete" /\ c \in ctx[t].todo /\ ctx'[t] = NoRequest

LogsTheTruth ==
  log' # log =>
    \A e \in log'[Len(log')] :
      /\ comment'[e.id].status = e.to \/ comment'[e.id].st = "removed"
      /\ e.action # "hard_delete" => comment[e.id].status = e.from

LEMMA SameRowsRemoveNothing ==
  ASSUME \A c \in CommentIDs : comment[c].st = "stored" => comment'[c].st = comment[c].st
  PROVE  RemovesNoReply
BY DEF RemovesNoReply, Stored

LEMMA CommentWriteIsSafe ==
  ASSUME CommentsInv, NEW t \in CommentTxs, NEW c \in CommentIDs, Writes(t, c)
  PROVE  RemovesNoReply /\ LogsTheTruth
<1>1. comment \in [CommentIDs -> CommentRow] /\ ctx \in [CommentTxs -> OpenRequest \cup {NoRequest}]
  BY DEF CommentsInv, CommentsTypeOK
<1>2. CASE \/ InsertComment(t, c) \/ InsertFlag(t, c) \/ DeleteVote(t, c) \/ InsertVote(t, c) \/ ApplyModeration(t, c)
           \/ LockForDelete(t, c) \/ CheckReplies(t, c)
  <2>1. comment' = comment /\ log' = log
    BY <1>2 DEF InsertComment, InsertFlag, DeleteVote, InsertVote, ApplyModeration, LockForDelete, CheckReplies
  <2> QED
    BY <2>1, SameRowsRemoveNothing DEF LogsTheTruth
<1>3. CASE UpdateRow(t, c) \/ CountFlag(t, c) \/ CountVote(t, c)
  <2>1. log' = log
    BY <1>3 DEF UpdateRow, CountFlag, CountVote
  <2>2. \A x \in CommentIDs : comment'[x].st = comment[x].st
    <3>1. CASE UpdateRow(t, c)
      BY <1>1, <3>1 DEF UpdateRow, CommentRow
    <3>2. CASE CountFlag(t, c)
      BY <1>1, <3>2 DEF CountFlag, CommentRow
    <3>3. CASE CountVote(t, c)
      BY <1>1, <3>3 DEF CountVote, CommentRow
    <3> QED
      BY <1>3, <3>1, <3>2, <3>3
  <2> QED
    BY <2>1, <2>2, SameRowsRemoveNothing DEF LogsTheTruth
<1>4. CASE Store(t, c)
  <2>1. log' = log /\ UnderWay(t) /\ ctx[t].op = "create" /\ c \in ctx[t].todo /\ comment' = [comment EXCEPT ![c] = ctx[t].read[c]]
    BY <1>4 DEF Store, At
  <2>2. ctx[t].read[c].st = "stored"
    BY <2>1, RequestIsKnown, RequestIsSole DEF RequestFits, ReadsFit
  <2> QED
    BY <1>1, <2>1, <2>2, SameRowsRemoveNothing DEF LogsTheTruth
<1>5. ASSUME ScrubRow(t, c) \/ RemoveRow(t, c)
      PROVE  /\ ctx'[t] = NoRequest /\ UnderWay(t) /\ ctx[t].op = "hard_delete" /\ c \in ctx[t].todo
             /\ \A x \in CommentIDs \ {c} : comment'[x] = comment[x]
             /\ comment'[c].status = "deleted" \/ comment'[c].st = "removed"
             /\ log' = HardDeleted(t, c)
  <2>1. /\ ctx'[t] = NoRequest /\ UnderWay(t) /\ ctx[t].op = "hard_delete" /\ c \in ctx[t].todo /\ log' = HardDeleted(t, c)
    BY <1>1, <1>5 DEF ScrubRow, RemoveRow, At, Ends
  <2>2. CASE ScrubRow(t, c)
    BY <1>1, <2>1, <2>2 DEF ScrubRow, CommentRow
  <2>3. CASE RemoveRow(t, c)
    <3>1. comment' = [d \in CommentIDs |-> IF d \in {c} THEN [NoComment EXCEPT !.st = "removed"] ELSE comment[d]]
      BY <2>3, DeletedAlone DEF RemoveRow
    <3> QED
      BY <2>1, <3>1 DEF NoComment
  <2> QED
    BY <1>5, <2>2, <2>3
<1>6. CASE ScrubRow(t, c) \/ RemoveRow(t, c)
  <2>1. RemovesNoReply
    <3>1. \A x \in CommentIDs : Stored(x) /\ comment'[x].st = "removed" => x = c
      BY <1>5, <1>6 DEF Stored
    <3> QED
      BY <1>5, <1>6, <3>1 DEF RemovesNoReply
  <2>2. PICK E : E = {[id |-> c, action |-> "hard_delete", from |-> ctx[t].read[c].status, to |-> "deleted"]}
    OBVIOUS
  <2>3. E \in SUBSET Entry
    <3>1. ctx[t] \in OpenRequest
      BY <1>5, <1>6, RequestIsKnown
    <3> QED
      BY <2>2, <3>1 DEF OpenRequest, CommentRow, Entry, Action, CommentStatus
  <2>4. log'[Len(log')] = E
    BY <1>5, <1>6, <2>2, <2>3, LogAppends DEF HardDeleted
  <2>5. \A e \in E : e.id = c /\ e.to = "deleted" /\ e.action = "hard_delete"
    BY <2>2
  <2> QED
    BY <1>5, <1>6, <2>1, <2>4, <2>5 DEF LogsTheTruth
<1> QED
  BY <1>2, <1>3, <1>4, <1>6 DEF Writes

LEMMA CommentStepIsSafe ==
  ASSUME CommentsInv, [CommentsNext]_commentVars
  PROVE  RemovesNoReply /\ LogsTheTruth
<1>1. ASSUME NEW t \in CommentTxs, NEW c \in CommentIDs, Writes(t, c) PROVE RemovesNoReply /\ LogsTheTruth
  BY <1>1, CommentWriteIsSafe
<1>2. ASSUME comment' = comment, log' = log PROVE RemovesNoReply /\ LogsTheTruth
  BY <1>2, SameRowsRemoveNothing DEF LogsTheTruth
<1>3. ASSUME NEW t \in CommentTxs, RequestBegins(t) \/ AbortRequest(t) PROVE RemovesNoReply /\ LogsTheTruth
  BY <1>2, <1>3 DEF RequestBegins, AbortRequest, BeginRequest, Create, UpdateComment, DeleteComment, HardDelete, Flag,
                    ToggleUpvote, Moderate
<1>4. ASSUME NEW q \in Policies, ChangePolicy(q) PROVE RemovesNoReply /\ LogsTheTruth
  BY <1>2, <1>4 DEF ChangePolicy
<1>5. CASE UNCHANGED commentVars
  BY <1>2, <1>5 DEF commentVars
<1>6. ASSUME NEW t \in CommentTxs, CommitModeration(t) PROVE RemovesNoReply /\ LogsTheTruth
  <2>1. CASE ctx[t].stale
    BY <1>2, <1>6, <2>1 DEF CommitModeration
  <2>2. CASE ~ctx[t].stale
    <3>1. PICK S : S = ctx[t].ids
      OBVIOUS
    <3>2. /\ S \subseteq CommentIDs /\ Entries(t, S) \in SUBSET Entry /\ log' = Append(log, Entries(t, S))
          /\ \A c \in S : /\ comment[c].status = ctx[t].read[c].status
                          /\ SameRow(comment'[c], comment[c]) /\ comment'[c].status = Decision(ctx[t].action)
          /\ \A c \in CommentIDs \ S : comment'[c] = comment[c]
      BY <1>6, <2>2, <3>1, BatchIsWhole DEF OpenRequest
    <3>3. RemovesNoReply
      BY <3>2, SameRowsRemoveNothing DEF SameRow
    <3>4. log'[Len(log')] = Entries(t, S)
      BY <3>2, LogAppends
    <3>5. \A e \in Entries(t, S) : /\ e.id \in S /\ e.to = Decision(ctx[t].action) /\ e.from = ctx[t].read[e.id].status
      BY DEF Entries
    <3> QED
      BY <3>2, <3>3, <3>4, <3>5 DEF LogsTheTruth
  <2> QED
    BY <2>1, <2>2
<1> QED
  BY <1>1, <1>3, <1>4, <1>5, <1>6 DEF CommentsNext

(* A hard deletion takes no reply with it, not even one posted at that     *)
(* moment, and the moderation log says what happened to every comment of a *)
(* batch (HardDelete, applyModerations).                                   *)
THEOREM ModerationKeepsReplies == CommentsSpec => ModerationIsSafe
<1>1. CommentsInv /\ [CommentsNext]_commentVars => [RemovesNoReply]_commentVars /\ [LogsTheTruth]_commentVars
  BY CommentStepIsSafe
<1>2. CommentsSpec => [][RemovesNoReply]_commentVars /\ [][LogsTheTruth]_commentVars
  BY <1>1, CommentsKeepInv, PTL DEF CommentsSpec
<1> QED
  BY <1>2, PTL DEF ModerationIsSafe, RepliesSurvive, LogIsTrue, RemovesNoReply, LogsTheTruth
=============================================================================
