------------------------------- MODULE Posts --------------------------------
(***************************************************************************)
(* Posts and their revisions: drafting, editing, publishing, trash,        *)
(* restoring a revision, media and SEO (core/post/service service.go,      *)
(* lifecycle.go, revisions.go, seo.go over post_repository.go,             *)
(* post_revision_repository.go, post_media_repository.go and               *)
(* post_seo_repository.go).                                                *)
(*                                                                         *)
(* A request reads the post outside its transaction and writes it inside,  *)
(* guarded by the version it read.  A step is one READ COMMITTED           *)
(* statement or a read before the transaction; a statement that writes the *)
(* post row locks it until the commit.                                     *)
(*                                                                         *)
(* body stands for title, excerpt, content, comment policy, category and   *)
(* tags, which every write replaces under the row lock.  post_media is     *)
(* modelled by its kind = cover rows.  published_at follows status.  The   *)
(* invalidation after the commit is the subject of ReadCache, the events   *)
(* recorded before it the subject of Outbox.                               *)
(***************************************************************************)
EXTENDS Naturals, FiniteSets, Sequences, FiniteSetsExt

CONSTANTS PostIDs,        \* posts that may be created
          Txs,            \* concurrent requests
          Bodies,         \* texts of a post
          Assets,         \* ready media assets
          SEOFields,      \* SEO fields that may be set
          NoAsset,        \* no cover image
          SlugAttempts,   \* slugAttempts
          Keep,           \* revisions kept by a prune
          MaxOps          \* bound: requests begun

ASSUME PostsAssumption ==
  /\ NoAsset \notin Assets
  /\ "nobody" \notin Txs
  /\ IsFiniteSet(PostIDs)
  /\ {SlugAttempts, Keep} \subseteq Nat \ {0}
  /\ MaxOps \in Nat

VARIABLES posts,     \* committed post rows
          media,     \* committed cover rows of post_media
          seo,       \* committed post_seo: the fields set
          revs,      \* committed post_revisions
          rowLock,   \* the transaction that wrote the post row
          tx,        \* the open requests
          ops        \* requests begun

postVars == <<posts, media, seo, revs, rowLock, tx, ops>>

Status == {"draft", "published", "archived"}

(* A slug is its base followed by the suffixes added to it: <<>> is the    *)
(* base, <<2>> is base-2, <<2, 2>> is base-2-2.  The base is common to all *)
(* posts, so that they collide.                                            *)
Slug == Seq(Nat)

Row == [state : {"none", "live", "trashed"}, status : Status, slug : Slug, body : Bodies \cup {"empty"},
        cover : Assets \cup {NoAsset}, version : Nat]

NoRow == [state |-> "none", status |-> "draft", slug |-> <<>>, body |-> "empty", cover |-> NoAsset, version |-> 0]

Snapshot == [status : Status, slug : Slug, body : Bodies, cover : Assets \cup {NoAsset},
             media : SUBSET Assets, seo : SUBSET SEOFields]

Op == {"create", "update", "publish", "unpublish", "archive", "delete", "undelete", "restore", "media", "seo"}

Revision == [number : Nat \ {0}, op : Op, guarded : BOOLEAN, snap : Snapshot]

(* A request: the row it read, the post in memory with its changes, the    *)
(* cover rows it attaches and those its DELETE saw, the SEO it saves, the  *)
(* slugs it tried, the snapshot taken and the revision inserted.           *)
OpenTx == [op : Op, post : PostIDs,
           pc : {"read", "chosen", "written", "deleting", "attached", "snapped", "revised"},
           base : Row, mem : Row, items : SUBSET Assets, del : SUBSET Assets, attached : BOOLEAN,
           seo : SUBSET SEOFields, saved : BOOLEAN, tries : 0..SlugAttempts,
           snap : SUBSET Snapshot, rev : SUBSET Revision]

NoTx == [pc |-> "idle"]

PostsTypeOK ==
  /\ posts \in [PostIDs -> Row]
  /\ media \in [PostIDs -> SUBSET Assets]
  /\ seo \in [PostIDs -> SUBSET SEOFields]
  /\ revs \in [PostIDs -> SUBSET Revision]
  /\ rowLock \in [PostIDs -> Txs \cup {"nobody"}]
  /\ tx \in [Txs -> OpenTx \cup {NoTx}]
  /\ ops \in 0..MaxOps

PostsInit ==
  /\ posts = [p \in PostIDs |-> NoRow]
  /\ media = [p \in PostIDs |-> {}]
  /\ seo = [p \in PostIDs |-> {}]
  /\ revs = [p \in PostIDs |-> {}]
  /\ rowLock = [p \in PostIDs |-> "nobody"]
  /\ tx = [t \in Txs |-> NoTx]
  /\ ops = 0

Open(t) == tx[t] # NoTx

-----------------------------------------------------------------------------
(* Slugs.                                                                  *)

(* Committed slugs of live posts other than p.                             *)
SlugsOfOthers(p) == {posts[q].slug : q \in {q \in PostIDs \ {p} : posts[q].state = "live"}}

SlugTaken(p, s) == s \in SlugsOfOthers(p)

(* freeSlug: base, or base with the lowest suffix from 2 that no live post *)
(* has.                                                                    *)
FreeSlug(p, base) ==
  IF base \notin SlugsOfOthers(p) THEN base
  ELSE LET free == {n \in 2..(Cardinality(PostIDs) + 2) : Append(base, n) \notin SlugsOfOthers(p)}
       IN  Append(base, Min(free))

(* posts_slug_live_key: another open transaction has written a live post   *)
(* with this slug, so this write waits for it to end.                      *)
PendingElsewhere(t, s) ==
  \E u \in Txs \ {t} :
    /\ Open(u) /\ rowLock[tx[u].post] = u
    /\ tx[u].post # tx[t].post
    /\ tx[u].mem.state = "live" /\ tx[u].mem.slug = s

-----------------------------------------------------------------------------
(* Requests begin by reading; validation errors and early returns leave    *)
(* everything as it is and are stuttering steps.                           *)

Begin(t, op, p, mem, items, fields) ==
  /\ ~Open(t)
  /\ ops < MaxOps
  /\ tx' = [tx EXCEPT ![t] = [op |-> op, post |-> p, pc |-> "read", base |-> posts[p], mem |-> mem,
                              items |-> items, del |-> {}, attached |-> FALSE, seo |-> fields,
                              saved |-> FALSE, tries |-> 0, snap |-> {}, rev |-> {}]]
  /\ ops' = ops + 1
  /\ UNCHANGED <<posts, media, seo, revs, rowLock>>

(* CreateDraft: version 1, a new uuid.                                     *)
CreateDraft(t, p, b) ==
  /\ posts[p].state = "none"
  /\ \A u \in Txs : Open(u) => tx[u].post # p
  /\ Begin(t, "create", p, [NoRow EXCEPT !.state = "live", !.body = b, !.version = 1], {}, {})

Bumped(p) == [posts[p] EXCEPT !.version = @ + 1]

(* Update: updatedSlug checks a new slug before the transaction.           *)
Update(t, p, b, s) ==
  /\ posts[p].state = "live"
  /\ s # posts[p].slug => ~SlugTaken(p, s)
  /\ Begin(t, "update", p, [Bumped(p) EXCEPT !.body = b, !.slug = s], {}, {})

(* The transitions table and Transition.Next.                              *)
From == [publish   |-> {"draft", "archived"},
         unpublish |-> {"published"},
         archive   |-> {"draft", "published"}]
To == [publish |-> "published", unpublish |-> "draft", archive |-> "archived"]

Transition(t, p, tr) ==
  /\ posts[p].state = "live"
  /\ posts[p].status \in From[tr]
  /\ Begin(t, tr, p, [Bumped(p) EXCEPT !.status = To[tr]], {}, {})

Delete(t, p) ==
  /\ posts[p].state = "live"
  /\ Begin(t, "delete", p, [Bumped(p) EXCEPT !.state = "trashed"], {}, {})

(* Restore, from the trash.                                                *)
Undelete(t, p) ==
  /\ posts[p].state = "trashed"
  /\ Begin(t, "undelete", p, [Bumped(p) EXCEPT !.state = "live", !.status = "draft"], {}, {})

(* RestoreRevision: restorable keeps the current slug when another live    *)
(* post has the revision's; status stays.                                  *)
RestoreRevision(t, p, rev) ==
  /\ posts[p].state = "live"
  /\ LET s == rev.snap
     IN  Begin(t, "restore", p,
               [Bumped(p) EXCEPT !.slug = IF SlugTaken(p, s.slug) THEN @ ELSE s.slug,
                                 !.body = s.body, !.cover = s.cover],
               s.media, s.seo)

(* ReplaceMedia: at most one cover; the version stays.                     *)
ReplaceMedia(t, p, items) ==
  /\ posts[p].state = "live"
  /\ Cardinality(items) <= 1
  /\ Begin(t, "media", p, [posts[p] EXCEPT !.cover = IF items = {} THEN NoAsset ELSE CHOOSE a \in items : TRUE],
           items, {})

(* UpdateSEO: the patch sets fields of the SEO read here; only a new slug  *)
(* changes the post row, and then its version.                             *)
UpdateSEO(t, p, fields, s) ==
  /\ posts[p].state = "live"
  /\ ~(fields \subseteq seo[p] /\ s = posts[p].slug)
  /\ s # posts[p].slug => ~SlugTaken(p, s)
  /\ Begin(t, "seo", p, IF s = posts[p].slug THEN posts[p] ELSE [Bumped(p) EXCEPT !.slug = s],
           {}, seo[p] \cup fields)

-----------------------------------------------------------------------------
(* Writes of the post row.                                                 *)

(* The write changes the version and is guarded by the one it read.        *)
Guarded(d) == d.mem.version # d.base.version

(* Mutant of VersionMatches: UPDATE ... WHERE uuid = ? only.               *)
VersionUnchecked(d) == d.op # "create" => posts[d.post].state = d.base.state

(* UPDATE ... WHERE uuid = ? AND version = ?, in the soft-delete scope of  *)
(* the operation; an INSERT has no row to match.                           *)
VersionMatches(d) ==
  d.op # "create" =>
    /\ posts[d.post].version = d.base.version
    /\ posts[d.post].state = d.base.state

(* withFreeSlug: the slug is chosen inside the transaction.                *)
PickSlug(t) ==
  /\ Open(t) /\ tx[t].pc = "read"
  /\ tx[t].op \in {"create", "undelete"}
  /\ tx' = [tx EXCEPT ![t].pc = "chosen",
                      ![t].mem.slug = FreeSlug(tx[t].post, tx[t].base.slug),
                      ![t].tries = @ + 1]
  /\ UNCHANGED <<posts, media, seo, revs, rowLock, ops>>

(* The unique index refuses the slug chosen: another choice, up to         *)
(* slugAttempts.                                                           *)
RetrySlug(t) ==
  /\ Open(t) /\ tx[t].pc = "chosen"
  /\ SlugTaken(tx[t].post, tx[t].mem.slug)
  /\ tx[t].tries < SlugAttempts
  /\ tx' = [tx EXCEPT ![t].pc = "read"]
  /\ UNCHANGED <<posts, media, seo, revs, rowLock, ops>>

(* PostRepository.Create, Update, SoftDelete and Restore.                  *)
WritePost(t) ==
  /\ Open(t)
  /\ tx[t].op # "media" /\ Guarded(tx[t])
  /\ tx[t].pc = (IF tx[t].op \in {"create", "undelete"} THEN "chosen" ELSE "read")
  /\ LET d == tx[t]
     IN  /\ rowLock[d.post] = "nobody"
         /\ VersionMatches(d)
         /\ d.mem.state = "live" => ~SlugTaken(d.post, d.mem.slug) /\ ~PendingElsewhere(t, d.mem.slug)
         /\ rowLock' = [rowLock EXCEPT ![d.post] = t]
  /\ tx' = [tx EXCEPT ![t].pc = "written"]
  /\ UNCHANGED <<posts, media, seo, revs, ops>>

CoverRow(p) == posts[p].state = "live"

(* SetCoverImage: no version guard, and only these columns.                *)
SetCoverImage(t) ==
  /\ Open(t) /\ tx[t].op = "media" /\ tx[t].pc = "attached"
  /\ rowLock[tx[t].post] = "nobody"
  /\ CoverRow(tx[t].post)
  /\ rowLock' = [rowLock EXCEPT ![tx[t].post] = t]
  /\ tx' = [tx EXCEPT ![t].pc = "written"]
  /\ UNCHANGED <<posts, media, seo, revs, ops>>

-----------------------------------------------------------------------------
(* post_media and post_seo.                                                *)

(* ReplaceAll: the DELETE acts on the rows committed when it starts, and   *)
(* waits for transactions that delete the same rows.                       *)
DeleteMedia(t) ==
  /\ Open(t)
  /\ \/ tx[t].op = "media" /\ tx[t].pc = "read"
     \/ tx[t].op = "restore" /\ tx[t].pc = "written"
  /\ tx' = [tx EXCEPT ![t].pc = "deleting", ![t].del = media[tx[t].post]]
  /\ UNCHANGED <<posts, media, seo, revs, rowLock, ops>>

Others(t) == {u \in Txs \ {t} : Open(u) /\ tx[u].post = tx[t].post}

(* The INSERT of the new rows, waiting for and refused by equal rows.  A   *)
(* restore also saves the SEO, whose row it then holds.                    *)
AttachMedia(t) ==
  /\ Open(t) /\ tx[t].pc = "deleting"
  /\ \A u \in Others(t) : tx[u].attached => (tx[u].del \cup tx[u].items) \cap (tx[t].del \cup tx[t].items) = {}
  /\ tx[t].items \cap (media[tx[t].post] \ tx[t].del) = {}
  /\ tx[t].op = "restore" => \A u \in Others(t) : ~tx[u].saved
  /\ tx' = [tx EXCEPT ![t].pc = "attached", ![t].attached = TRUE, ![t].saved = (tx[t].op = "restore")]
  /\ UNCHANGED <<posts, media, seo, revs, rowLock, ops>>

(* storeSEO's upsert, after the rename if there is one.                    *)
SaveSEO(t) ==
  /\ Open(t) /\ tx[t].op = "seo" /\ ~tx[t].saved
  /\ tx[t].pc = (IF Guarded(tx[t]) THEN "written" ELSE "read")
  /\ \A u \in Others(t) : ~tx[u].saved
  /\ tx' = [tx EXCEPT ![t].pc = "written", ![t].saved = TRUE]
  /\ UNCHANGED <<posts, media, seo, revs, rowLock, ops>>

-----------------------------------------------------------------------------
(* revise.                                                                 *)

StoresDone(d) ==
  CASE d.op = "restore" -> d.pc = "attached"
    [] d.op = "seo"     -> d.pc = "written" /\ d.saved
    [] OTHER            -> d.pc = "written"

(* Mutant of SnapshotOf: taken from the post as it was read.               *)
SnapshotOfRead(d, m, s) ==
  [status |-> d.base.status, slug |-> d.base.slug, body |-> d.mem.body, cover |-> d.mem.cover, media |-> m, seo |-> s]

(* SnapshotOf: the post in memory with the media and SEO given.            *)
SnapshotOf(d, m, s) ==
  [status |-> d.mem.status, slug |-> d.mem.slug, body |-> d.mem.body, cover |-> d.mem.cover, media |-> m, seo |-> s]

(* snapshot reads the attachments and the SEO in the transaction.          *)
TakeSnapshot(t) ==
  /\ Open(t) /\ StoresDone(tx[t])
  /\ LET d == tx[t]
         m == (media[d.post] \ d.del) \cup (IF d.attached THEN d.items ELSE {})
         s == IF d.saved THEN d.seo ELSE seo[d.post]
     IN  tx' = [tx EXCEPT ![t].pc = "snapped", ![t].snap = {SnapshotOf(d, m, s)}]
  /\ UNCHANGED <<posts, media, seo, revs, rowLock, ops>>

Numbers(p) == {r.number : r \in revs[p]}

(* Mutant of NextNumber: the revisions are counted.                        *)
NextNumberByCount(p) == Cardinality(revs[p]) + 1

(* Latest's number plus one, or 1.                                         *)
NextNumber(p) == IF revs[p] = {} THEN 1 ELSE Max(Numbers(p)) + 1

(* Latest and the INSERT: unique(post_id, revision_number) makes it wait   *)
(* for an open transaction that inserted the number, and refuses a number  *)
(* that exists (Abort).                                                    *)
AppendRevision(t) ==
  /\ Open(t) /\ tx[t].pc = "snapped"
  /\ LET p == tx[t].post
         n == NextNumber(p)
     IN  /\ n \notin Numbers(p)
         /\ \A u \in Others(t) : \A r \in tx[u].rev : r.number # n
         /\ tx' = [tx EXCEPT ![t].pc = "revised",
                             ![t].rev = {[number |-> n, op |-> tx[t].op, guarded |-> Guarded(tx[t]), snap |-> s] :
                                           s \in tx[t].snap}]
  /\ UNCHANGED <<posts, media, seo, revs, rowLock, ops>>

-----------------------------------------------------------------------------
(* The row a commit leaves: SoftDelete and Restore write their columns,    *)
(* SetCoverImage the cover, Create and Update all of them (the cover that  *)
(* was read included), an SEO change without a rename none.                *)
Committed(d) ==
  LET row == posts[d.post]
  IN  CASE d.op = "media"    -> [row EXCEPT !.cover = d.mem.cover]
        [] d.op = "delete"   -> [row EXCEPT !.state = "trashed", !.version = d.mem.version]
        [] d.op = "undelete" -> [row EXCEPT !.state = "live", !.slug = d.mem.slug, !.status = "draft",
                                            !.version = d.mem.version]
        [] OTHER             -> IF Guarded(d) THEN d.mem ELSE row

CommitPost(t) ==
  /\ Open(t) /\ tx[t].pc = "revised"
  /\ LET d == tx[t]
         p == tx[t].post
     IN  /\ posts' = [posts EXCEPT ![p] = Committed(d)]
         /\ media' = [media EXCEPT ![p] = IF d.attached THEN (@ \ d.del) \cup d.items ELSE @]
         /\ seo' = [seo EXCEPT ![p] = IF d.saved THEN d.seo ELSE @]
         /\ revs' = [revs EXCEPT ![p] = @ \cup d.rev]
         /\ rowLock' = [rowLock EXCEPT ![p] = IF @ = t THEN "nobody" ELSE @]
  /\ tx' = [tx EXCEPT ![t] = NoTx]
  /\ UNCHANGED ops

(* ErrStaleVersion, ErrConflict, ErrNotFound, another error, a deadlock or *)
(* a crash: the transaction is rolled back.                                *)
Abort(t) ==
  /\ Open(t)
  /\ tx' = [tx EXCEPT ![t] = NoTx]
  /\ rowLock' = [p \in PostIDs |-> IF rowLock[p] = t THEN "nobody" ELSE rowLock[p]]
  /\ UNCHANGED <<posts, media, seo, revs, ops>>

(* Prune (app revisions prune --keep): the newest Keep revisions stay.     *)
Prune ==
  /\ \E p \in PostIDs : Cardinality(revs[p]) > Keep
  /\ revs' = [p \in PostIDs |-> {r \in revs[p] : Cardinality({q \in revs[p] : q.number > r.number}) < Keep}]
  /\ UNCHANGED <<posts, media, seo, rowLock, tx, ops>>

(* Slugs an editor asks for.                                               *)
EditSlugs == {<<>>, <<2>>}

PostsNext ==
  \/ \E t \in Txs, p \in PostIDs :
       \/ \E b \in Bodies : CreateDraft(t, p, b)
       \/ \E b \in Bodies, s \in EditSlugs : Update(t, p, b, s)
       \/ \E tr \in DOMAIN From : Transition(t, p, tr)
       \/ Delete(t, p)
       \/ Undelete(t, p)
       \/ \E r \in revs[p] : RestoreRevision(t, p, r)
       \/ \E items \in SUBSET Assets : ReplaceMedia(t, p, items)
       \/ \E fields \in SUBSET SEOFields, s \in EditSlugs : UpdateSEO(t, p, fields, s)
  \/ \E t \in Txs :
       \/ PickSlug(t)
       \/ RetrySlug(t)
       \/ WritePost(t)
       \/ SetCoverImage(t)
       \/ DeleteMedia(t)
       \/ AttachMedia(t)
       \/ SaveSEO(t)
       \/ TakeSnapshot(t)
       \/ AppendRevision(t)
       \/ CommitPost(t)
       \/ Abort(t)
  \/ Prune

PostsSpec == PostsInit /\ [][PostsNext]_postVars

-----------------------------------------------------------------------------
(* The columns only version-guarded writes change.                         *)
Text(r) == [state |-> r.state, status |-> r.status, slug |-> r.slug, body |-> r.body]

(* Optimistic locking loses no update (PostRepository.Update): whatever    *)
(* changes a post's text, status, slug or trash state was computed from    *)
(* exactly the row it replaces, and takes the next version.                *)
NoLostUpdate ==
  [][\A p \in PostIDs : Text(posts'[p]) # Text(posts[p]) =>
       \E t \in Txs : /\ Open(t) /\ tx'[t] = NoTx
                      /\ tx[t].post = p
                      /\ Text(tx[t].base) = Text(posts[p])
                      /\ posts'[p].version = posts[p].version + 1]_postVars

(* post_revisions is an append-only history without gaps: a step adds one  *)
(* revision with the next number, or prunes the oldest (revise, Prune).    *)
HistoryGrowsByOne ==
  [][\A p \in PostIDs :
       LET old == Numbers(p)
           new == {r.number : r \in revs'[p]}
       IN  revs'[p] # revs[p] =>
             \/ /\ revs[p] \subseteq revs'[p]
                /\ Cardinality(revs'[p]) = Cardinality(revs[p]) + 1
                /\ new = old \cup {IF old = {} THEN 1 ELSE Max(old) + 1}
             \/ /\ revs'[p] \subseteq revs[p]
                /\ Max(old) \in new
                /\ \A n \in new, m \in old \ new : m < n]_postVars

(* The newest revision of a version-guarded write describes the post as it *)
(* is: nothing else changes what it recorded (revise in the transaction of *)
(* each write).                                                            *)
HistoryDescribesPost ==
  \A p \in PostIDs :
    \A r \in revs[p] :
      (r.guarded /\ \A q \in revs[p] : q.guarded => q.number <= r.number) =>
        /\ r.snap.status = posts[p].status
        /\ r.snap.slug = posts[p].slug
        /\ r.snap.body = posts[p].body

(* Two live posts never have the same slug, whoever writes at once         *)
(* (posts_slug_live_key, withFreeSlug).                                    *)
SlugsUnique ==
  \A p, q \in PostIDs :
    (p # q /\ posts[p].state = "live" /\ posts[q].state = "live") => posts[p].slug # posts[q].slug

(* A post in the trash keeps its row and its attachments until it is       *)
(* restored, whatever was under way when it was deleted.                   *)
TrashedIsFrozen ==
  [][\A p \in PostIDs : posts[p].state = "trashed" =>
       \/ posts'[p] = posts[p] /\ media'[p] = media[p]
       \/ \E t \in Txs : Open(t) /\ tx[t].op = "undelete" /\ tx[t].post = p /\ tx'[t] = NoTx]_postVars

(* The stored posts and their history agree (PostRepository, revise).      *)
PostsInvariant == PostsTypeOK /\ HistoryDescribesPost /\ SlugsUnique

(* What no step of any request may do to history and trash (revise, Prune, *)
(* Delete, Restore).                                                       *)
PostSteps == HistoryGrowsByOne /\ TrashedIsFrozen
=============================================================================
