--------------------------- MODULE PostReferences ---------------------------
(***************************************************************************)
(* What a post points at and how restoring a revision treats it: category, *)
(* tags, attachments, cover and social images, with the SEO fields and the *)
(* meta rendered from them (core/post/domain seo.go and revision.go,       *)
(* core/post/service revisions.go and seo.go, outbound/postseo).           *)
(*                                                                         *)
(* A request reads and checks outside its transaction, and a category, a   *)
(* tag or an image may go away before it commits.  The statements inside   *)
(* the transaction, its locks, slugs and pruning are the subject of Posts: *)
(* here a transaction is one step, since the foreign keys it writes keep   *)
(* the rows it resolved until it ends.                                     *)
(*                                                                         *)
(* text stands for title, slug, excerpt, content, status and comment       *)
(* policy.  seo_title stands for the six SEO texts, canonical for the two  *)
(* URLs.  Attachments are listed in sort order.                            *)
(***************************************************************************)
EXTENDS Naturals, Sequences, FiniteSets, SequencesExt

CONSTANTS Topics,         \* categories
          Labels,         \* tags
          Images,         \* media assets, ready images at first
          Editors,        \* concurrent requests
          MaxEdits        \* bound: requests begun

VARIABLES page,      \* committed post with its tags, attachments and SEO
          history,   \* committed post_revisions, oldest first
          asset,     \* media_assets: ready, trashed (deleted_at) or gone
          present,   \* rows of categories and tags
          unused,    \* rows whose deletion has found no post
          edit,      \* the open requests
          edits      \* requests begun

refVars == <<page, history, asset, present, unused, edit, edits>>

Unset == ""    \* nil or the empty string
SiteImage == "share image"

ASSUME ReferencesAssumption == MaxEdits \in Nat /\ Unset \notin Topics \cup Images /\ SiteImage \notin Images

(* slices.DeleteFunc of what is not wanted: the rest in order.             *)
AppendKept(out, m) == IF m.keep THEN Append(out, m.item) ELSE out

Kept(seq, wanted) ==
  FoldLeft(AppendKept, <<>>, [i \in DOMAIN seq |-> [item |-> seq[i], keep |-> seq[i] \in wanted]])

-----------------------------------------------------------------------------
(* SEO fields (domain/seo.go).                                             *)

SEO == [title : {"", "plain"}, keywords : Seq({"plain", "Plain"}), canonical : {"", "own"}, og : Images \cup {Unset},
        tw : Images \cup {Unset}, noindex : BOOLEAN]

NoSEO == [title |-> "", keywords |-> <<>>, canonical |-> "", og |-> Unset, tw |-> Unset, noindex |-> FALSE]

(* collapseSpace.                                                          *)
CollapseSpace(s) == CASE s = "blank" -> "" [] s = "padded" -> "plain" [] OTHER -> s

ToLower(s) == IF s = "Plain" THEN "plain" ELSE s

(* normaliseKeywords: the first of keywords that differ only in case.      *)
AddKeyword(out, w) ==
  LET k == CollapseSpace(w)
  IN  IF k = "" \/ \E i \in DOMAIN out : ToLower(out[i]) = ToLower(k) THEN out ELSE Append(out, k)

NormaliseKeywords(words) == FoldLeft(AddKeyword, <<>>, words)

FieldPatch(f, v) == CASE f = "keywords" -> NormaliseKeywords(v) [] f = "title" -> CollapseSpace(v) [] OTHER -> v

(* SEO.Apply: a patch is a function of the fields it sets.                 *)
Apply(seo, patch) == [f \in DOMAIN seo |-> IF f \in DOMAIN patch THEN FieldPatch(f, patch[f]) ELSE seo[f]]

(* checkText: too long, with markup or with control characters.            *)
TextFits(s) == s # "markup"

(* checkSEOURL, with a canonical base configured.                          *)
URLFits(u) == u # "foreign"

(* Validate.                                                               *)
ValidSEO(seo) ==
  /\ TextFits(seo.title)
  /\ \A i \in DOMAIN seo.keywords : TextFits(seo.keywords[i])
  /\ URLFits(seo.canonical)

(* changedKeys of the JSON objects, which leave out the fields not set.    *)
ChangedKeys(before, after) == {f \in DOMAIN before : before[f] # after[f]}

SEOFieldChanges(a, b) == ChangedKeys(a, b)

-----------------------------------------------------------------------------
(* Snapshots and their difference (domain/revision.go).                    *)

(* post_media; an attachment is treated like an inline image.              *)
MediaKinds == {"cover", "inline_image"}
MediaItem == [asset : Images, kind : MediaKinds]

PostPage == [text : Nat, category : Topics \cup {Unset}, cover : Images \cup {Unset}, tags : SUBSET Labels,
             media : Seq(MediaItem), seo : SEO, version : Nat]

TagChange(prev, next) == next \ prev # {} \/ prev \ next # {}

(* mediaChange: added, removed or reordered.                               *)
MediaChange(prev, next) ==
  \/ ToSet(next) \ ToSet(prev) # {}
  \/ ToSet(prev) \ ToSet(next) # {}
  \/ prev # next

SEOChange(prev, next) == ChangedKeys(prev, next) # {}

(* orderedFields.                                                          *)
FieldOrder == <<"text", "category", "cover", "tags", "media", "seo">>
PageFields == {"text", "category", "cover", "tags", "media", "seo"}

(* DiffSnapshots: the changed fields in display order.                     *)
DiffSnapshots(prev, next) ==
  LET changed(f) == CASE f = "tags"  -> TagChange(prev.tags, next.tags)
                      [] f = "media" -> MediaChange(prev.media, next.media)
                      [] f = "seo"   -> SEOChange(prev.seo, next.seo)
                      [] OTHER       -> prev[f] # next[f]
  IN  Kept(FieldOrder, {f \in PageFields : changed(f)})

-----------------------------------------------------------------------------
(* What a restore may bring back (service/revisions.go).                   *)

ItemAssets(items) == {items[i].asset : i \in DOMAIN items}

(* snapshotRefs.                                                           *)
SnapshotRefs(snap) ==
  [topics |-> {snap.category} \ {Unset},
   labels |-> snap.tags,
   images |-> (ItemAssets(snap.media) \cup {snap.cover, snap.seo.og, snap.seo.tw}) \ {Unset}]

(* Existing: the references a restore still finds.                         *)
Existing(refs) ==
  [topics |-> refs.topics \cap present,
   labels |-> refs.labels \cap present,
   images |-> {i \in refs.images : asset[i] = "ready"}]

(* Mutant of Skipped: the social images are dropped without being listed.  *)
SkippedWithoutSEO(snap, existing) ==
  [topics |-> SnapshotRefs(snap).topics \ existing.topics,
   labels |-> SnapshotRefs(snap).labels \ existing.labels,
   images |-> ((ItemAssets(snap.media) \cup {snap.cover}) \ {Unset}) \ existing.images]

(* dropMissing and dropMissingSEO: what the result reports as skipped.     *)
Skipped(snap, existing) ==
  [topics |-> SnapshotRefs(snap).topics \ existing.topics,
   labels |-> SnapshotRefs(snap).labels \ existing.labels,
   images |-> SnapshotRefs(snap).images \ existing.images]

KeepIn(r, existing) == IF r \in existing THEN r ELSE Unset

DropMissingSEO(seo, images) == [seo EXCEPT !.og = KeepIn(@, images), !.tw = KeepIn(@, images)]

(* dropMissing and dropMissingSEO: the snapshot without what is missing.   *)
DropMissing(snap, existing) ==
  [snap EXCEPT !.category = KeepIn(@, existing.topics),
               !.tags = @ \cap existing.labels,
               !.media = Kept(@, [asset : existing.images, kind : MediaKinds]),
               !.cover = KeepIn(@, existing.images),
               !.seo = DropMissingSEO(@, existing.images)]

-----------------------------------------------------------------------------
(* Rendered meta (RenderSEO, ImageURL).                                    *)

(* ImageURL: no URL for an asset that is missing or not ready.             *)
ImageURL(i) == IF i \in Images /\ asset[i] = "ready" THEN i ELSE Unset

(* firstNonEmpty, of two values.                                           *)
FirstNonEmpty(value, other) == IF value # Unset THEN value ELSE other

(* RenderSEO: explicit SEO, then the post, then the site.                  *)
RenderSEO(p, ogURL, twURL, coverURL) ==
  LET ogImage == FirstNonEmpty(ogURL, FirstNonEmpty(coverURL, SiteImage))
  IN  [title     |-> FirstNonEmpty(p.seo.title, "title by template"),
       keywords  |-> p.seo.keywords,
       canonical |-> FirstNonEmpty(p.seo.canonical, "permalink"),
       robots    |-> IF p.seo.noindex THEN "noindex" ELSE "index",
       og        |-> ogImage,
       twitter   |-> FirstNonEmpty(twURL, ogImage)]

(* render: the images are resolved each time.                              *)
Render(p) == RenderSEO(p, ImageURL(p.seo.og), ImageURL(p.seo.tw), ImageURL(p.cover))

-----------------------------------------------------------------------------
NoSkips == [topics |-> {}, labels |-> {}, images |-> {}]

HistoryEntry == [op : {"create", "update", "media", "seo", "restore"}, snap : PostPage, fields : Seq(PageFields),
                 from : Nat,
                 skips : [topics : SUBSET Topics, labels : SUBSET Labels, images : SUBSET Images]]

NoEdit == [op |-> "idle"]

(* A request: the post in memory with its changes, the version it read,    *)
(* and for a restore the source and what it skips.                         *)
OpenEdit == [op : {"update", "media", "seo", "restore"}, mem : PostPage, read : Nat, from : Nat,
             skips : [topics : SUBSET Topics, labels : SUBSET Labels, images : SUBSET Images]]

(* CreateDraft without category or tags: the first revision.               *)
Draft == [text |-> 0, category |-> Unset, cover |-> Unset, tags |-> {}, media |-> <<>>, seo |-> NoSEO, version |-> 1]

ReferencesInit ==
  /\ page = Draft
  /\ history = <<[op |-> "create", snap |-> Draft, fields |-> <<>>, from |-> 0, skips |-> NoSkips]>>
  /\ asset = [i \in Images |-> "ready"]
  /\ present = Topics \cup Labels
  /\ unused = {}
  /\ edit = [e \in Editors |-> NoEdit]
  /\ edits = 0

-----------------------------------------------------------------------------
(* Requests read and check; a refusal is a stuttering step.                *)

MayStart(e) == edit[e] = NoEdit /\ edits < MaxEdits

StartEdit(e, op, mem, from, skips) ==
  /\ edit' = [edit EXCEPT ![e] = [op |-> op, mem |-> mem, read |-> page.version, from |-> from, skips |-> skips]]
  /\ edits' = edits + 1
  /\ UNCHANGED <<page, history, asset, present, unused>>

(* Update, of the category and the tags: the tags are resolved here, the   *)
(* category by the write.                                                  *)
EditLinks(e, category, tags) ==
  /\ tags \subseteq present
  /\ StartEdit(e, "update", [page EXCEPT !.text = edits + 1, !.category = category, !.tags = tags], 0, NoSkips)

Covers(items) == {i \in DOMAIN items : items[i].kind = "cover"}

(* ReplaceMedia with normalizeMediaItem: ready assets, no item twice, one  *)
(* cover at most, which becomes the cover of the post.                     *)
EditMedia(e, items) ==
  /\ \A i \in ItemAssets(items) : asset[i] = "ready"
  /\ IsInjective(items)
  /\ \E cover \in ItemAssets(items) \cup {Unset} :
       /\ IF Covers(items) = {} THEN cover = Unset ELSE \A i \in Covers(items) : cover = items[i].asset
       /\ StartEdit(e, "media", [page EXCEPT !.media = items, !.cover = cover], 0, NoSkips)

(* validateSEO: an image is checked when it changes.                       *)
ImagesChecked(current, next) ==
  \A f \in {"og", "tw"} : next[f] \notin {Unset, current[f]} => asset[next[f]] = "ready"

(* UpdateSEO without a slug: a patch that changes nothing returns early.   *)
EditSEO(e, patch) ==
  LET next == Apply(page.seo, patch)
  IN  /\ ValidSEO(next)
      /\ ImagesChecked(page.seo, next)
      /\ SEOFieldChanges(page.seo, next) # {}
      /\ StartEdit(e, "seo", [page EXCEPT !.seo = next], 0, NoSkips)

(* RestoreRevision with restorable: missing references are dropped.        *)
RestoreFrom(e, n) ==
  LET source   == history[n].snap
      existing == Existing(SnapshotRefs(source))
  IN  StartEdit(e, "restore", [DropMissing(source, existing) EXCEPT !.version = page.version], n,
                Skipped(source, existing))

-----------------------------------------------------------------------------
(* Transactions.                                                           *)

Bumps(d) == d.op \in {"update", "restore"}

(* The references a transaction resolves to row ids.                       *)
ResolvedRefs(d) ==
  LET all == SnapshotRefs(d.mem)
  IN  CASE d.op = "update"  -> [all EXCEPT !.images = {d.mem.cover} \ {Unset}]
        [] d.op = "media"   -> [NoSkips EXCEPT !.images = ItemAssets(d.mem.media)]
        [] d.op = "seo"     -> [NoSkips EXCEPT !.images = {d.mem.seo.og, d.mem.seo.tw} \ {Unset}]
        [] d.op = "restore" -> all

(* idByUUID, optionalIDByUUID and ReplacePostTags: an unknown reference    *)
(* fails the transaction; a row in the trash is still a row.               *)
AllResolve(d) ==
  /\ ResolvedRefs(d).topics \cup ResolvedRefs(d).labels \subseteq present
  /\ \A i \in ResolvedRefs(d).images : asset[i] # "gone"

(* The columns and rows each operation writes.                             *)
WrittenPage(d) ==
  CASE d.op = "update"  -> [d.mem EXCEPT !.media = page.media, !.seo = page.seo, !.version = @ + 1]
    [] d.op = "media"   -> [page EXCEPT !.media = d.mem.media, !.cover = d.mem.cover]
    [] d.op = "seo"     -> [page EXCEPT !.seo = d.mem.seo]
    [] d.op = "restore" -> [d.mem EXCEPT !.version = @ + 1]

(* snapshot: the post in memory with the tags, attachments and SEO stored. *)
SnapshotFrom(d, stored) ==
  [stored EXCEPT !.text = d.mem.text, !.category = d.mem.category, !.cover = d.mem.cover]

(* storeUpdate, ReplaceMedia's transaction, commitSEO and storeRestore,    *)
(* each ending in revise.                                                  *)
CommitEdit(e) ==
  /\ edit[e] # NoEdit
  /\ LET d    == edit[e]
         snap == SnapshotFrom(d, WrittenPage(d))
     IN  /\ Bumps(d) => page.version = d.read
         /\ AllResolve(d)
         /\ page' = WrittenPage(d)
         /\ history' = Append(history, [op |-> d.op, snap |-> snap,
                                        fields |-> DiffSnapshots(history[Len(history)].snap, snap),
                                        from |-> d.from, skips |-> d.skips])
  /\ edit' = [edit EXCEPT ![e] = NoEdit]
  /\ UNCHANGED <<asset, present, unused, edits>>

(* ErrStaleVersion, ErrValidation or another error: all is rolled back.    *)
EditFails(e) ==
  /\ edit[e] # NoEdit
  /\ edit' = [edit EXCEPT ![e] = NoEdit]
  /\ UNCHANGED <<page, history, asset, present, unused, edits>>

-----------------------------------------------------------------------------
(* References going away.                                                  *)

(* CountPosts of a category or a tag that is to be deleted.                *)
CountPosts(r) ==
  /\ r \in present \ unused
  /\ r # page.category /\ r \notin page.tags
  /\ unused' = unused \cup {r}
  /\ UNCHANGED <<page, history, asset, present, edit, edits>>

Cleared(v, i) == IF v = i THEN Unset ELSE v

(* Delete of a category or a tag, later than its count: ON DELETE SET NULL *)
(* and ON DELETE CASCADE.                                                  *)
DeleteRow(r) ==
  /\ r \in unused \cap present
  /\ present' = present \ {r}
  /\ page' = [page EXCEPT !.category = Cleared(@, r), !.tags = @ \ {r}]
  /\ UNCHANGED <<history, asset, unused, edit, edits>>

WithoutAsset(p, i) ==
  [p EXCEPT !.media = Kept(@, [asset : Images \ {i}, kind : MediaKinds]), !.cover = Cleared(@, i)]

(* Delete of an asset: ClearEntityReferences and SoftDelete.  The social   *)
(* images are left as they are.                                            *)
TrashAsset(i) ==
  /\ asset[i] = "ready"
  /\ asset' = [asset EXCEPT ![i] = "trashed"]
  /\ page' = WithoutAsset(page, i)
  /\ UNCHANGED <<history, present, unused, edit, edits>>

WithoutSocial(seo, i) == [seo EXCEPT !.og = Cleared(@, i), !.tw = Cleared(@, i)]

(* Purge: the row goes, and with it every reference (post_media CASCADE,   *)
(* cover_image_media_id and post_seo SET NULL).                            *)
PurgeAsset(i) ==
  /\ asset[i] = "trashed"
  /\ asset' = [asset EXCEPT ![i] = "gone"]
  /\ page' = [WithoutAsset(page, i) EXCEPT !.seo = WithoutSocial(@, i)]
  /\ UNCHANGED <<history, present, unused, edit, edits>>

(* Lists of attachments and patches of one field that clients send.        *)
MediaLists == SeqOf(MediaItem, 2)

KeywordLists == {<<>>, <<"blank">>, <<"Plain", "padded", "plain">>, <<"plain", "markup">>}

Patches ==
  [{"title"} -> {"", "padded", "markup"}] \cup [{"canonical"} -> {"", "own", "foreign"}] \cup [{"noindex"} -> BOOLEAN]
    \cup [{"og"} -> Images \cup {Unset}] \cup [{"tw"} -> Images \cup {Unset}]
    \cup [{"keywords"} -> KeywordLists]

ReferencesNext ==
  \/ \E e \in Editors :
       \/ /\ MayStart(e)
          /\ \/ \E c \in Topics \cup {Unset}, t \in SUBSET Labels : EditLinks(e, c, t)
             \/ \E items \in MediaLists : EditMedia(e, items)
             \/ \E patch \in Patches : EditSEO(e, patch)
             \/ \E n \in DOMAIN history : RestoreFrom(e, n)
       \/ CommitEdit(e)
       \/ EditFails(e)
  \/ \E r \in Topics \cup Labels : CountPosts(r) \/ DeleteRow(r)
  \/ \E i \in Images : TrashAsset(i) \/ PurgeAsset(i)

ReferencesSpec == ReferencesInit /\ [][ReferencesNext]_refVars

-----------------------------------------------------------------------------
ReferencesTypeOK ==
  /\ page \in PostPage
  /\ history \in Seq(HistoryEntry) /\ \A n \in DOMAIN history : history[n].from < n
  /\ asset \in [Images -> {"ready", "trashed", "gone"}]
  /\ present \subseteq Topics \cup Labels
  /\ unused \subseteq Topics \cup Labels
  /\ edit \in [Editors -> OpenEdit \cup {NoEdit}]
  /\ edits \in 0..MaxEdits

(* A restore loses nothing silently (RestoreRevision, RestoreSkips): the   *)
(* references of the source are those of the new revision and those it     *)
(* reports as skipped, and everything else is the source's.                *)
RestoreAccounts ==
  \A n \in DOMAIN history : history[n].op = "restore" =>
    LET src == SnapshotRefs(history[history[n].from].snap)
        new == SnapshotRefs(history[n].snap)
        out == history[n].skips
    IN  /\ \A f \in DOMAIN src : src[f] = new[f] \cup out[f] /\ new[f] \cap out[f] = {}
        /\ DropMissing(history[history[n].from].snap, new).media = history[n].snap.media
        /\ history[n].snap.text = history[history[n].from].snap.text

(* A revision lists a field exactly when its snapshot differs from the one *)
(* before (DiffSnapshots), also for what a deletion changed in between.    *)
DiffIsExact ==
  \A n \in DOMAIN history : n > 1 =>
    ToSet(history[n].fields) =
      {f \in PageFields : history[n].snap[f] # history[n - 1].snap[f]}

(* The post never points at a row that is gone, whatever was deleted while *)
(* a request that had checked it was under way.                            *)
NothingDangles ==
  /\ SnapshotRefs(page).topics \cup SnapshotRefs(page).labels \subseteq present
  /\ \A i \in SnapshotRefs(page).images : asset[i] # "gone"

(* The stored SEO passes validation although a restore saves it unchecked, *)
(* and its keywords are distinct (restoreSEO).                             *)
StoredSEOIsValid ==
  /\ ValidSEO(page.seo)
  /\ \A i, j \in DOMAIN page.seo.keywords : i # j => ToLower(page.seo.keywords[i]) # ToLower(page.seo.keywords[j])

(* The cards show an image that can be served, and the site's own only     *)
(* when the post has none (RenderSEO).                                     *)
CardsAreServable ==
  LET meta == Render(page)
  IN  /\ \A i \in {meta.og, meta.twitter} : i = SiteImage \/ asset[i] = "ready"
      /\ meta.twitter = SiteImage => \A i \in {page.seo.og, page.seo.tw, page.cover} \ {Unset} : asset[i] # "ready"

(* The references of a post survive edits, restores and deletions.         *)
ReferencesInvariant ==
  ReferencesTypeOK /\ RestoreAccounts /\ DiffIsExact /\ NothingDangles /\ StoredSEOIsValid /\ CardsAreServable
=============================================================================
