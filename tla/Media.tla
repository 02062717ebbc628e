-------------------------------- MODULE Media --------------------------------
(***************************************************************************)
(* The media library (core/media over media_repository.go and the bucket)  *)
(* and the avatar of one user (core/user/service/profile.go), which is a   *)
(* tagged asset of that library.  A row and its object live in two stores  *)
(* that share no transaction: requests and the cleanup job may stop        *)
(* between any two steps.                                                  *)
(*                                                                         *)
(* A presigned URL is valid, then expired, then lapsed: past the grace of  *)
(* AbandonedGrace (24 h), which outlasts any request, as does the          *)
(* retention of the trash (MEDIA_PURGE_AFTER, days) any URL.               *)
(***************************************************************************)
EXTENDS Naturals, FiniteSets

CONSTANTS Assets,      \* asset ids, one per upload
          MediaCalls,  \* overlapping requests
          NoAsset,     \* no avatar
          MaxMediaOps  \* bound: requests made

ASSUME MediaAssumption == NoAsset \notin Assets /\ MaxMediaOps \in Nat

VARIABLES media,    \* media_assets
          object,   \* the bucket: nothing, an acceptable file or another one
          avatar,   \* users.avatar_id
          mcall,    \* the requests in progress
          sweep,    \* the cleanup job
          mediaOps

mediaVars == <<media, object, avatar, mcall, sweep, mediaOps>>

(* "gone" is a row Purge deleted; trash: live, deleted, deleted long ago.  *)
AssetRow == [status : {"none", "pending", "ready", "gone"}, trash : {"live", "deleted", "old"},
             url : {"none", "valid", "expired", "lapsed"}, avatarTag : BOOLEAN]
NoAssetRow == [status |-> "none", trash |-> "live", url |-> "none", avatarTag |-> FALSE]
MediaCall == [pc : {"idle", "inspect", "complete", "tags", "delete", "put", "create", "set", "clear", "remove"},
              a : Assets \cup {NoAsset}, saw : AssetRow, old : Assets \cup {NoAsset}]
NoMediaCall == [pc |-> "idle", a |-> NoAsset, saw |-> NoAssetRow, old |-> NoAsset]
Sweep == [pass : {"idle", "abandoned", "trashed"}, todo : SUBSET Assets, deleted : Assets \cup {NoAsset}]
NoSweep == [pass |-> "idle", todo |-> {}, deleted |-> NoAsset]

MediaTypeOK ==
  /\ media \in [Assets -> AssetRow]
  /\ object \in [Assets -> {"none", "good", "bad"}]
  /\ avatar \in Assets \cup {NoAsset}
  /\ mcall \in [MediaCalls -> MediaCall]
  /\ sweep \in Sweep
  /\ mediaOps \in 0..MaxMediaOps

MediaInit ==
  /\ media = [a \in Assets |-> NoAssetRow] /\ object = [a \in Assets |-> "none"]
  /\ avatar = NoAsset /\ mcall = [c \in MediaCalls |-> NoMediaCall]
  /\ sweep = NoSweep /\ mediaOps = 0

-----------------------------------------------------------------------------
(* GetByID and every conditional write see live rows only.                 *)
LiveAsset(a) == a # NoAsset /\ media[a].status \in {"pending", "ready"} /\ media[a].trash = "live"

(* What GetReady, Variants and TransformURL serve.                         *)
GetReady(a) == LiveAsset(a) /\ media[a].status = "ready"

(* A new id: uuids are never reused, even by an upload that failed.        *)
NewAsset(a) == media[a].status = "none" /\ object[a] = "none" /\ \A c \in MediaCalls : mcall[c].a # a

(* A request any handler lets through: the id it names may be any id.      *)
MediaRequest(c, pc, a, saw) ==
  /\ mcall[c].pc = "idle" /\ mediaOps < MaxMediaOps /\ mediaOps' = mediaOps + 1
  /\ mcall' = [mcall EXCEPT ![c] = [pc |-> pc, a |-> a, saw |-> saw, old |-> avatar]]

ReturnMedia(c) == mcall' = [mcall EXCEPT ![c] = NoMediaCall]

-----------------------------------------------------------------------------
(* PresignUpload stores the pending row, then signs; when the signing      *)
(* fails the row stays and nobody holds a URL for it.                      *)
PresignUpload(c) ==
  /\ mcall[c].pc = "idle" /\ mediaOps < MaxMediaOps /\ mediaOps' = mediaOps + 1
  /\ \E a \in {a \in Assets : NewAsset(a)} :
       media' = [media EXCEPT ![a] = [NoAssetRow EXCEPT !.status = "pending", !.url = "valid"]]
  /\ UNCHANGED <<object, avatar, mcall, sweep>>

(* The uploader's PUT, whatever the file is, while the URL is valid.       *)
PutPresigned(a) ==
  /\ media[a].url = "valid" /\ media[a].status # "gone"
  /\ \E file \in {"good", "bad"} : object' = [object EXCEPT ![a] = file]
  /\ UNCHANGED <<media, avatar, mcall, sweep, mediaOps>>

CompleteUpload(c) ==
  /\ \E a \in Assets : /\ LiveAsset(a) /\ media[a].status = "pending" /\ media[a].url = "valid"
                       /\ MediaRequest(c, "inspect", a, media[a])
  /\ UNCHANGED <<media, object, avatar, sweep>>

(* inspectObject: head and sniff; a missing or refused file ends the call. *)
InspectObject(c) ==
  /\ mcall[c].pc = "inspect"
  /\ IF object[mcall[c].a] = "good"
     THEN mcall' = [mcall EXCEPT ![c].pc = "complete", ![c].saw.status = "ready"]
     ELSE ReturnMedia(c)
  /\ UNCHANGED <<media, object, avatar, sweep, mediaOps>>

(* Update writes every column from the copy the call read, when still live.*)
SaveAsset(c) ==
  /\ mcall[c].pc \in {"complete", "tags"}
  /\ media' = IF LiveAsset(mcall[c].a)
              THEN [media EXCEPT ![mcall[c].a] = [mcall[c].saw EXCEPT !.url = media[mcall[c].a].url]]
              ELSE media
  /\ ReturnMedia(c)
  /\ UNCHANGED <<object, avatar, sweep, mediaOps>>

UpdateTags(c) ==
  /\ \E a \in Assets, tagged \in BOOLEAN :
       LiveAsset(a) /\ MediaRequest(c, "tags", a, [media[a] EXCEPT !.avatarTag = tagged])
  /\ UNCHANGED <<media, object, avatar, sweep>>

DeleteMedia(c) ==
  /\ \E a \in Assets : LiveAsset(a) /\ MediaRequest(c, "delete", a, media[a])
  /\ UNCHANGED <<media, object, avatar, sweep>>

(* Delete's transaction: references cleared and the row trashed together;  *)
(* a row already trashed rolls both back.                                  *)
Trashed(a) == [media EXCEPT ![a].trash = "deleted"]
ClearedAvatar(a) == IF avatar = a THEN NoAsset ELSE avatar
CommitDelete(c) ==
  /\ mcall[c].pc = "delete"
  /\ IF LiveAsset(mcall[c].a)
     THEN media' = Trashed(mcall[c].a) /\ avatar' = ClearedAvatar(mcall[c].a)
     ELSE UNCHANGED <<media, avatar>>
  /\ ReturnMedia(c)
  /\ UNCHANGED <<object, sweep, mediaOps>>

-----------------------------------------------------------------------------
(* UploadAvatar: read the old avatar, put the object, create the row, set  *)
(* the avatar, remove the old one.                                         *)
UploadAvatar(c) ==
  /\ \E a \in {a \in Assets : NewAsset(a)} : MediaRequest(c, "put", a, NoAssetRow)
  /\ UNCHANGED <<media, object, avatar, sweep>>

PutAvatar(c) ==
  /\ mcall[c].pc = "put"
  /\ object' = [object EXCEPT ![mcall[c].a] = "good"]
  /\ mcall' = [mcall EXCEPT ![c].pc = "create"]
  /\ UNCHANGED <<media, avatar, sweep, mediaOps>>

CreateAvatar(c) ==
  /\ mcall[c].pc = "create"
  /\ media' = [media EXCEPT ![mcall[c].a] = [NoAssetRow EXCEPT !.status = "ready", !.avatarTag = TRUE]]
  /\ mcall' = [mcall EXCEPT ![c].pc = "set"]
  /\ UNCHANGED <<object, avatar, sweep, mediaOps>>

DeleteAvatar(c) ==
  /\ avatar # NoAsset /\ MediaRequest(c, "clear", NoAsset, NoAssetRow)
  /\ UNCHANGED <<media, object, avatar, sweep>>

(* SetAvatar looks the asset up by uuid, trashed or not; a purged one is   *)
(* NULL.                                                                   *)
SetAvatar(c) ==
  /\ mcall[c].pc \in {"set", "clear"}
  /\ avatar' = IF mcall[c].pc = "set" /\ media[mcall[c].a].status # "gone" THEN mcall[c].a ELSE NoAsset
  /\ mcall' = [mcall EXCEPT ![c].pc = "remove"]
  /\ UNCHANGED <<media, object, sweep, mediaOps>>

(* removeOwnedAvatar deletes what was uploaded as an avatar, nothing else. *)
RemoveOwnedAvatar(c) ==
  /\ mcall[c].pc = "remove"
  /\ IF LiveAsset(mcall[c].old) /\ media[mcall[c].old].avatarTag
     THEN mcall' = [mcall EXCEPT ![c] = [NoMediaCall EXCEPT !.pc = "delete", !.a = mcall[c].old]]
     ELSE ReturnMedia(c)
  /\ UNCHANGED <<media, object, avatar, sweep, mediaOps>>

(* Any step of a request may fail or its process die: what is done stays.  *)
MediaCallFails(c) ==
  /\ mcall[c].pc # "idle" /\ ReturnMedia(c)
  /\ UNCHANGED <<media, object, avatar, sweep, mediaOps>>

-----------------------------------------------------------------------------
(* Time: a request lasts less than the grace and less than the retention.  *)
Untouched(a) == \A c \in MediaCalls : a \notin {mcall[c].a, mcall[c].old}
UrlExpires(a) ==
  /\ media[a].url = "valid" /\ media' = [media EXCEPT ![a].url = "expired"]
  /\ UNCHANGED <<object, avatar, mcall, sweep, mediaOps>>
GracePasses(a) ==
  /\ media[a].url = "expired" /\ Untouched(a) /\ media' = [media EXCEPT ![a].url = "lapsed"]
  /\ UNCHANGED <<object, avatar, mcall, sweep, mediaOps>>
RetentionPasses(a) ==
  /\ media[a].trash = "deleted" /\ media[a].url # "valid" /\ Untouched(a)
  /\ media' = [media EXCEPT ![a].trash = "old"]
  /\ UNCHANGED <<object, avatar, mcall, sweep, mediaOps>>

(* PurgeOrphans: the abandoned uploads, then the old trash; per asset the  *)
(* object first, then the row if it still qualifies.                       *)
Abandoned == {a \in Assets : LiveAsset(a) /\ media[a].status # "ready" /\ media[a].url = "lapsed"}
OldTrash == {a \in Assets : media[a].trash = "old" /\ media[a].status # "gone"}

ListOrphans ==
  /\ sweep.todo = {} /\ sweep.deleted = NoAsset
  /\ sweep' = CASE sweep.pass = "idle" -> [NoSweep EXCEPT !.pass = "abandoned", !.todo = Abandoned]
                [] sweep.pass = "abandoned" -> [NoSweep EXCEPT !.pass = "trashed", !.todo = OldTrash]
                [] OTHER -> NoSweep
  /\ UNCHANGED <<media, object, avatar, mcall, mediaOps>>

PurgeObject ==
  /\ sweep.deleted = NoAsset
  /\ \E a \in sweep.todo : /\ object' = [object EXCEPT ![a] = "none"]
                           /\ sweep' = [sweep EXCEPT !.todo = @ \ {a}, !.deleted = a]
  /\ UNCHANGED <<media, avatar, mcall, mediaOps>>

(* DeleteObject failed: purge returns, the row waits for the next run.     *)
PurgeRegardless(a) == [sweep EXCEPT !.todo = @ \ {a}, !.deleted = a]
AfterFailedDelete(a) == [sweep EXCEPT !.todo = @ \ {a}]
DeleteObjectFails ==
  /\ sweep.deleted = NoAsset
  /\ \E a \in sweep.todo : sweep' = AfterFailedDelete(a)
  /\ UNCHANGED <<media, object, avatar, mcall, mediaOps>>

(* The row's references go with it: ON DELETE SET NULL.                    *)
PurgeRow ==
  /\ sweep.deleted # NoAsset /\ sweep' = [sweep EXCEPT !.deleted = NoAsset]
  /\ LET a == sweep.deleted
     IN IF media[a].trash # "live" \/ (media[a].status # "ready" /\ media[a].url \in {"expired", "lapsed"})
        THEN media' = [media EXCEPT ![a].status = "gone"] /\ avatar' = ClearedAvatar(a)
        ELSE UNCHANGED <<media, avatar>>
  /\ UNCHANGED <<object, mcall, mediaOps>>

SweepStops ==
  /\ sweep.pass # "idle" /\ sweep' = NoSweep
  /\ UNCHANGED <<media, object, avatar, mcall, mediaOps>>

MediaNext ==
  \/ \E c \in MediaCalls :
       \/ PresignUpload(c) \/ CompleteUpload(c) \/ InspectObject(c) \/ SaveAsset(c) \/ UpdateTags(c)
       \/ DeleteMedia(c) \/ CommitDelete(c) \/ MediaCallFails(c)
       \/ UploadAvatar(c) \/ PutAvatar(c) \/ CreateAvatar(c) \/ DeleteAvatar(c) \/ SetAvatar(c)
       \/ RemoveOwnedAvatar(c)
  \/ \E a \in Assets : PutPresigned(a) \/ UrlExpires(a) \/ GracePasses(a) \/ RetentionPasses(a)
  \/ ListOrphans \/ PurgeObject \/ DeleteObjectFails \/ PurgeRow \/ SweepStops

MediaSpec == MediaInit /\ [][MediaNext]_mediaVars

-----------------------------------------------------------------------------
(* What the library serves is in the bucket: no interleaving of a late     *)
(* completion, a stale tag update, an avatar change and the cleanup leaves *)
(* a ready asset whose object was deleted.                                 *)
ReadyIsStored == \A a \in Assets : GetReady(a) => object[a] # "none"

(* The comment of PurgeOrphans: an object without a row could never be     *)
(* found again, so a row is only deleted once its object is gone for good. *)
PurgedLeavesNothing == \A a \in Assets : media[a].status = "gone" => object[a] = "none"

(* Rows and objects of the media library agree (CompleteUpload, UpdateTags,*)
(* PurgeOrphans).                                                          *)
MediaInvariant == MediaTypeOK /\ ReadyIsStored /\ PurgedLeavesNothing
=============================================================================
