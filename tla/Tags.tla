--------------------------------- MODULE Tags ---------------------------------
(***************************************************************************)
(* Tags and the tags of posts (core/tag over tag_repository.go).  Saving a *)
(* post resolves the tag names it was given one by one, creating what is   *)
(* missing, and later replaces the post's links in its own transaction;    *)
(* administrators rename, merge and delete tags meanwhile.  Names are told *)
(* apart by their slug, which a unique index keeps unique.                 *)
(***************************************************************************)
EXTENDS Naturals, FiniteSets

CONSTANTS TagIDs, TagSlugs, TaggedPosts, TagCalls, NoTag, NoSlug,
          MaxTagOps  \* bound: requests made

ASSUME TagsAssumption == NoTag \notin TagIDs /\ NoSlug \notin TagSlugs /\ MaxTagOps \in Nat

VARIABLES tag,    \* tags: the slug of each, NoSlug when there is no row
          links,  \* post_tags
          tcall, tagOps

tagVars == <<tag, links, tcall, tagOps>>

TagCall == [pc : {"idle", "resolve", "replace", "rename", "merge", "copied", "delete"},
            post : TaggedPosts \cup {NoTag}, want : SUBSET TagSlugs, ids : SUBSET TagIDs,
            a : TagIDs \cup {NoTag}, b : TagIDs \cup {NoTag}, slug : TagSlugs \cup {NoSlug}, copy : SUBSET TaggedPosts]
NoTagCall == [pc |-> "idle", post |-> NoTag, want |-> {}, ids |-> {}, a |-> NoTag, b |-> NoTag, slug |-> NoSlug, copy |-> {}]

TagTypeOK ==
  /\ tag \in [TagIDs -> TagSlugs \cup {NoSlug}]
  /\ links \in [TaggedPosts -> SUBSET TagIDs]
  /\ tcall \in [TagCalls -> TagCall] /\ tagOps \in 0..MaxTagOps

TagInit ==
  /\ tag = [t \in TagIDs |-> NoSlug] /\ links = [p \in TaggedPosts |-> {}]
  /\ tcall = [c \in TagCalls |-> NoTagCall] /\ tagOps = 0

-----------------------------------------------------------------------------
TagExists(t) == tag[t] # NoSlug
SlugTaken(s, except) == \E t \in TagIDs \ {except} : tag[t] = s

(* The service's validated requests.                                       *)
StartTag(c, call) ==
  /\ tcall[c].pc = "idle" /\ tagOps < MaxTagOps /\ tagOps' = tagOps + 1
  /\ tcall' = [tcall EXCEPT ![c] = call]
ReturnTag(c) == tcall' = [tcall EXCEPT ![c] = NoTagCall]
InUse(t) == \E p \in TaggedPosts : t \in links[p]

(* An administrator's Create; the check and the insert are two statements, *)
(* the index decides.                                                      *)
CreateTag(c) ==
  /\ tcall[c].pc = "idle" /\ tagOps < MaxTagOps /\ tagOps' = tagOps + 1
  /\ \E t \in TagIDs, s \in TagSlugs : ~TagExists(t) /\ ~SlugTaken(s, NoTag) /\ tag' = [tag EXCEPT ![t] = s]
  /\ UNCHANGED <<links, tcall>>

(* A post is saved with the names it shall carry.                          *)
SavePost(c) ==
  /\ \E p \in TaggedPosts, w \in SUBSET TagSlugs : StartTag(c, [NoTagCall EXCEPT !.pc = "resolve", !.post = p, !.want = w])
  /\ UNCHANGED <<tag, links>>

(* ResolveOrCreate, one name per step.                                     *)
ResolveOrCreate(c) ==
  /\ tcall[c].pc = "resolve"
  /\ IF tcall[c].want = {} THEN tcall' = [tcall EXCEPT ![c].pc = "replace"] /\ UNCHANGED tag
     ELSE \E s \in tcall[c].want, t \in TagIDs :
            /\ IF SlugTaken(s, NoTag) THEN tag[t] = s /\ UNCHANGED tag
               ELSE ~TagExists(t) /\ tag' = [tag EXCEPT ![t] = s]
            /\ tcall' = [tcall EXCEPT ![c].want = @ \ {s}, ![c].ids = @ \cup {t}]
  /\ UNCHANGED <<links, tagOps>>

(* ReplacePostTags: an id that is gone fails the whole transaction.        *)
KnownOrNot(ids) == TRUE
AllKnown(ids) == \A t \in ids : TagExists(t)
ReplacePostTags(c) ==
  /\ tcall[c].pc = "replace"
  /\ links' = IF AllKnown(tcall[c].ids) THEN [links EXCEPT ![tcall[c].post] = {t \in tcall[c].ids : TagExists(t)}] ELSE links
  /\ ReturnTag(c)
  /\ UNCHANGED <<tag, tagOps>>

(* Update reads the row, checks the slug and writes it.                    *)
RenameTag(c) ==
  /\ \E t \in TagIDs, s \in TagSlugs :
       TagExists(t) /\ ~SlugTaken(s, t) /\ StartTag(c, [NoTagCall EXCEPT !.pc = "rename", !.a = t, !.slug = s])
  /\ UNCHANGED <<tag, links>>
StoreTag(c) ==
  /\ tcall[c].pc = "rename"
  /\ LET q == tcall[c]
     IN tag' = IF TagExists(q.a) /\ ~SlugTaken(q.slug, q.a) THEN [tag EXCEPT ![q.a] = q.slug] ELSE tag
  /\ ReturnTag(c)
  /\ UNCHANGED <<links, tagOps>>

MergeTags(c) ==
  /\ \E s, t \in TagIDs : s # t /\ TagExists(s) /\ TagExists(t) /\ StartTag(c, [NoTagCall EXCEPT !.pc = "merge", !.a = s, !.b = t])
  /\ UNCHANGED <<tag, links>>

(* MergeInto's INSERT ... SELECT sees the links committed so far; its      *)
(* deletes run later in the same transaction.                              *)
CopyLinks(c) ==
  /\ tcall[c].pc = "merge"
  /\ IF TagExists(tcall[c].a) /\ TagExists(tcall[c].b)
     THEN tcall' = [tcall EXCEPT ![c].pc = "copied", ![c].copy = {p \in TaggedPosts : tcall[c].a \in links[p]}]
     ELSE ReturnTag(c)
  /\ UNCHANGED <<tag, links, tagOps>>
CommitMerge(c) ==
  /\ tcall[c].pc = "copied"
  /\ LET q == tcall[c]
     IN IF TagExists(q.a) /\ (q.copy # {} => TagExists(q.b))
        THEN /\ links' = [p \in TaggedPosts |-> (links[p] \ {q.a}) \cup (IF p \in q.copy THEN {q.b} ELSE {})]
             /\ tag' = [tag EXCEPT ![q.a] = NoSlug]
        ELSE UNCHANGED <<tag, links>>
  /\ ReturnTag(c)
  /\ UNCHANGED tagOps

(* Delete counts the posts first; the links of the row go with it.         *)
DeleteTag(c) ==
  /\ \E t \in TagIDs : TagExists(t) /\ ~InUse(t) /\ StartTag(c, [NoTagCall EXCEPT !.pc = "delete", !.a = t])
  /\ UNCHANGED <<tag, links>>
RemoveTag(c) ==
  /\ tcall[c].pc = "delete"
  /\ tag' = [tag EXCEPT ![tcall[c].a] = NoSlug] /\ links' = [p \in TaggedPosts |-> links[p] \ {tcall[c].a}]
  /\ ReturnTag(c)
  /\ UNCHANGED tagOps

TagCallFails(c) == tcall[c].pc # "idle" /\ ReturnTag(c) /\ UNCHANGED <<tag, links, tagOps>>

TagNext ==
  \E c \in TagCalls :
    \/ CreateTag(c) \/ SavePost(c) \/ ResolveOrCreate(c) \/ ReplacePostTags(c) \/ RenameTag(c) \/ StoreTag(c)
    \/ MergeTags(c) \/ CopyLinks(c) \/ CommitMerge(c) \/ DeleteTag(c) \/ RemoveTag(c) \/ TagCallFails(c)

TagSpec == TagInit /\ [][TagNext]_tagVars

-----------------------------------------------------------------------------
(* A save stores all the tags it resolved or none: a tag merged away or    *)
(* deleted between the resolution and the transaction fails the save and   *)
(* never leaves the post with fewer tags than its author asked for.        *)
SaveIsWhole == [][\A c \in TagCalls : ReplacePostTags(c) /\ links' # links => links'[tcall[c].post] = tcall[c].ids]_tagVars

(* Tags and links keep their types, and a save is whole (ResolveOrCreate,  *)
(* ReplacePostTags).                                                       *)
TagsCorrect == []TagTypeOK /\ SaveIsWhole
=============================================================================
