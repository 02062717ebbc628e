------------------------------ MODULE Comments ------------------------------
(***************************************************************************)
(* Comments on one post: posting, replying, editing, deleting, flags,      *)
(* upvotes, moderation and hard deletion (core/comment/service service.go, *)
(* moderation.go over comment_repository.go and                            *)
(* comment_moderation_repository.go).                                      *)
(*                                                                         *)
(* A request reads the comments it is about, decides, and writes in a      *)
(* transaction of its own.  A step is one READ COMMITTED statement; the    *)
(* last statement and the commit are one step.  Foreign keys matter: a     *)
(* reply, flag or vote inserted and not committed keeps its comment from   *)
(* being locked FOR UPDATE, and waits while it is.                         *)
(*                                                                         *)
(* The edit window may close at any moment, which is a request that does   *)
(* not begin.  deleted_at and the moderator columns follow status.  The    *)
(* events recorded with each change and the notices sent after it are the  *)
(* subject of Outbox.                                                      *)
(***************************************************************************)
EXTENDS Naturals, FiniteSets, Sequences

CONSTANTS CommentIDs,       \* comments that may be posted
          Users,            \* identities that flag and vote
          CommentTxs,              \* concurrent requests
          NoParent,         \* the parent of a root comment
          Policies,         \* comment policies the post may have
          MaxDepth,         \* MaxDepth
          FlagThreshold,    \* Config.FlagThreshold
          RequireApproval,  \* Config.RequireApproval
          GuestEnabled,     \* Config.GuestEnabled
          MaxCommentOps            \* bound: requests begun

ASSUME CommentsAssumption ==
  /\ NoParent \notin CommentIDs
  /\ IsFiniteSet(Users)
  /\ Policies \subseteq {"open", "authenticated", "read_only", "disabled", "unpublished"}
  /\ "open" \in Policies
  /\ MaxDepth \in Nat
  /\ FlagThreshold \in Nat \ {0}
  /\ {RequireApproval, GuestEnabled} \subseteq BOOLEAN
  /\ MaxCommentOps \in Nat

VARIABLES comment,   \* committed comments rows
          flag,      \* committed comment_flags: who flagged
          vote,      \* committed comment_upvotes: who voted
          policy,    \* the post's comment_policy
          log,       \* comment_moderation_log: the entries of each commit
          ctx,        \* the open requests
          commentOps        \* requests begun

commentVars == <<comment, flag, vote, policy, log, ctx, commentOps>>

CommentStatus == {"pending", "approved", "flagged", "spam", "rejected", "deleted"}
Action == {"approve", "reject", "spam", "restore", "hard_delete"}

(* owned: author_id is set.  text: "empty" only after a scrub.  member is  *)
(* history: posted by a signed-in author, which a scrub erases.            *)
CommentRow == [st : {"none", "stored", "removed"}, status : CommentStatus, text : {"first", "edited", "empty"},
        owned : BOOLEAN, member : BOOLEAN, parent : CommentIDs \cup {NoParent}, depth : 0..MaxDepth,
        flags : Nat, votes : Nat]

NoComment == [st |-> "none", status |-> "pending", text |-> "empty", owned |-> FALSE,
          member |-> FALSE, parent |-> NoParent, depth |-> 0, flags |-> 0, votes |-> 0]

Entry == [id : CommentIDs, action : Action, from : CommentStatus, to : CommentStatus]

CommentOp == {"create", "edit", "delete", "flag", "upvote", "moderate", "hard_delete"}

(* A request: the comments ids it is about and their rows as read; those   *)
(* still to write, and those wrote with their new rows, locked until the   *)
(* commit; the comments it references (KEY SHARE) or locked FOR UPDATE;    *)
(* its uncommitted flag or vote; whether a row was no longer as read, or   *)
(* has replies.                                                            *)
OpenRequest == [op : CommentOp, pc : {"read", "insert", "inserted", "locked", "checked"}, action : Action,
           users : SUBSET Users, ids : SUBSET CommentIDs, read : [CommentIDs -> CommentRow],
           todo : SUBSET CommentIDs, wrote : SUBSET CommentIDs, rows : [CommentIDs -> CommentRow],
           refs : SUBSET CommentIDs, excl : SUBSET CommentIDs,
           change : {"none", "added", "removed"}, stale : BOOLEAN, replies : BOOLEAN]

NoRequest == [pc |-> "idle"]

CommentsTypeOK ==
  /\ comment \in [CommentIDs -> CommentRow]
  /\ flag \in [CommentIDs -> SUBSET Users]
  /\ vote \in [CommentIDs -> SUBSET Users]
  /\ policy \in Policies
  /\ log \in Seq(SUBSET Entry)
  /\ ctx \in [CommentTxs -> OpenRequest \cup {NoRequest}]
  /\ commentOps \in 0..MaxCommentOps

CommentsInit ==
  /\ comment = [c \in CommentIDs |-> NoComment]
  /\ flag = [c \in CommentIDs |-> {}]
  /\ vote = [c \in CommentIDs |-> {}]
  /\ policy = "open"
  /\ log = <<>>
  /\ ctx = [t \in CommentTxs |-> NoRequest]
  /\ commentOps = 0

UnderWay(t) == ctx[t] # NoRequest
Stored(c) == comment[c].st = "stored"
Replies(c) == {d \in CommentIDs : Stored(d) /\ comment[d].parent = c}

(* What ON DELETE CASCADE of parent_id removes with c.                     *)
Subtree(c) ==
  {d \in CommentIDs : \A S \in SUBSET CommentIDs :
     (c \in S /\ \A e \in S : Replies(e) \subseteq S) => d \in S}

Scrubbed(r) == r.status = "deleted" /\ r.text = "empty"

-----------------------------------------------------------------------------
(* Row locks.                                                              *)

OtherRequests(t) == {u \in CommentTxs \ {t} : UnderWay(u)}

(* A row written or locked FOR UPDATE by nobody else can be written.       *)
CanWrite(t, c) == \A u \in OtherRequests(t) : c \notin ctx[u].wrote \cup ctx[u].excl

(* A foreign key check waits for FOR UPDATE, not for a plain update.       *)
CanRefer(t, c) == \A u \in OtherRequests(t) : c \notin ctx[u].excl

(* FOR UPDATE and DELETE wait for every other lock.                        *)
CanLock(t, c) ==
  \A u \in OtherRequests(t) : c \notin ctx[u].wrote \cup ctx[u].excl \cup ctx[u].refs

(* Somebody else has changed the flag or vote of (c, users) and not        *)
(* committed: a statement on the same row waits.                           *)
Contended(t, c) ==
  \E u \in OtherRequests(t) :
    /\ ctx[u].op = ctx[t].op /\ ctx[u].change # "none"
    /\ c \in ctx[u].ids /\ ctx[u].users = ctx[t].users

-----------------------------------------------------------------------------
(* What a request decides from what it read.                               *)

(* Policy.Readable and Policy.Writable of a published post.                *)
Readable == policy \notin {"disabled", "unpublished"}
Writable == policy \in {"open", "authenticated"}

(* Create: honeypot hits become spam and guest comments await approval.    *)
InitialStatus(guest, honeypot) ==
  IF honeypot THEN "spam" ELSE IF guest \/ RequireApproval THEN "pending" ELSE "approved"

(* checkGuest and guestIdentity.                                           *)
GuestAllowed == GuestEnabled /\ policy # "authenticated"

(* replyParent: an approved comment with room for one more level.          *)
ReplyAllowed(p) ==
  /\ Stored(p)
  /\ comment[p].status = "approved"
  /\ comment[p].depth + 1 <= MaxDepth

NewComment(p, guest, honeypot) ==
  [NoComment EXCEPT !.st = "stored", !.text = "first", !.owned = ~guest, !.member = ~guest, !.parent = p,
                !.status = InitialStatus(guest, honeypot),
                !.depth = IF p = NoParent THEN 0 ELSE comment[p].depth + 1]

(* The statuses an action leaves, and the one it leads to.                 *)
DecidableFrom(a) ==
  CASE a = "approve" -> {"pending", "flagged", "rejected", "spam"}
    [] a = "reject"  -> {"pending", "flagged", "approved", "spam"}
    [] a = "spam"    -> {"pending", "flagged", "approved", "rejected"}
    [] a = "restore" -> {"deleted"}

Decision(a) ==
  CASE a \in {"approve", "restore"} -> "approved"
    [] a = "reject" -> "rejected"
    [] a = "spam" -> "spam"

(* decide: a scrubbed comment is beyond moderation.                        *)
Decidable(r, a) == r.st = "stored" /\ r.status \in DecidableFrom(a) /\ ~Scrubbed(r)

(* decide: approving a flagged comment starts its flag count again.        *)
DecidedFlags(r, a) == IF r.status = "flagged" /\ a = "approve" THEN 0 ELSE r.flags

-----------------------------------------------------------------------------
(* Requests begin by reading.                                              *)

Request(op, S, a, us) ==
  [op |-> op, pc |-> "read", action |-> a, users |-> us, ids |-> S,
   read |-> [c \in CommentIDs |-> IF c \in S THEN comment[c] ELSE NoComment],
   todo |-> S, wrote |-> {}, rows |-> [c \in CommentIDs |-> NoComment], refs |-> {}, excl |-> {}, change |-> "none",
   stale |-> FALSE, replies |-> FALSE]

BeginRequest(t, r) ==
  /\ ~UnderWay(t)
  /\ commentOps < MaxCommentOps
  /\ commentOps' = commentOps + 1
  /\ ctx' = [ctx EXCEPT ![t] = r]
  /\ UNCHANGED <<comment, flag, vote, policy, log>>

Unused(c) == comment[c].st = "none" /\ \A t \in CommentTxs : UnderWay(t) => c \notin ctx[t].ids

Create(t, c, p, guest, honeypot) ==
  /\ Unused(c)
  /\ Writable
  /\ guest => GuestAllowed
  /\ p # NoParent => ReplyAllowed(p)
  /\ BeginRequest(t, [Request("create", {c}, "approve", {}) EXCEPT
                 !.read[c] = NewComment(p, guest, honeypot)])

(* Update and getOwned: the author edits a comment that is still open.     *)
UpdateComment(t, c) ==
  /\ Stored(c)
  /\ comment[c].owned
  /\ comment[c].status \notin {"deleted", "spam", "rejected"}
  /\ Writable
  /\ BeginRequest(t, Request("edit", {c}, "approve", {}))

DeleteComment(t, c) ==
  /\ Stored(c)
  /\ comment[c].owned
  /\ comment[c].status # "deleted"
  /\ BeginRequest(t, Request("delete", {c}, "approve", {}))

Flag(t, c, u) ==
  /\ Stored(c)
  /\ comment[c].status = "approved"
  /\ Readable
  /\ BeginRequest(t, Request("flag", {c}, "approve", {u}))

ToggleUpvote(t, c, u) ==
  /\ Stored(c)
  /\ comment[c].status = "approved"
  /\ Writable
  /\ BeginRequest(t, Request("upvote", {c}, "approve", {u}))

(* Moderate one comment, or BulkModerate several: every one must allow it. *)
Moderate(t, S, a) ==
  /\ S # {}
  /\ \A c \in S : Decidable(comment[c], a)
  /\ BeginRequest(t, Request("moderate", S, a, {}))

HardDelete(t, c) ==
  /\ Stored(c)
  /\ BeginRequest(t, Request("hard_delete", {c}, "hard_delete", {}))

(* An editor of the post changes its policy, or unpublishes it.            *)
ChangePolicy(q) ==
  /\ q # policy
  /\ commentOps < MaxCommentOps
  /\ commentOps' = commentOps + 1
  /\ policy' = q
  /\ UNCHANGED <<comment, flag, vote, log, ctx>>

At(t, op, pc) == UnderWay(t) /\ ctx[t].op = op /\ ctx[t].pc = pc
Moves(t, r) == ctx' = [ctx EXCEPT ![t] = r]
Ends(t) == ctx' = [ctx EXCEPT ![t] = NoRequest]

-----------------------------------------------------------------------------
(* CommentRepository.Update is one statement that writes the text and the  *)
(* status as the request has them, whatever the row says by now.           *)
Saved(op, r) ==
  [text |-> IF op = "edit" THEN "edited" ELSE r.text,
   status |-> IF op = "delete" THEN "deleted" ELSE r.status]

UpdateRow(t, c) ==
  /\ At(t, "edit", "read") \/ At(t, "delete", "read")
  /\ c \in ctx[t].todo
  /\ CanWrite(t, c)
  /\ LET s == Saved(ctx[t].op, ctx[t].read[c])
     IN  comment' = IF Stored(c) THEN [comment EXCEPT ![c].text = s.text, ![c].status = s.status]
                                 ELSE comment
  /\ Ends(t)
  /\ UNCHANGED <<flag, vote, policy, log, commentOps>>

(* CommentRepository.Create: the insert references the parent row, which   *)
(* must exist.                                                             *)
InsertComment(t, c) ==
  LET p == ctx[t].read[c].parent
      parents == {p} \ {NoParent}
  IN  /\ At(t, "create", "read")
      /\ c \in ctx[t].todo
      /\ \A d \in parents : Stored(d) /\ CanRefer(t, d)
      /\ Moves(t, [ctx[t] EXCEPT !.pc = "inserted", !.refs = parents])
      /\ UNCHANGED <<comment, flag, vote, policy, log, commentOps>>

(* store commits the comment with its event.                               *)
Store(t, c) ==
  /\ At(t, "create", "inserted")
  /\ c \in ctx[t].todo
  /\ comment' = [comment EXCEPT ![c] = ctx[t].read[c]]
  /\ Ends(t)
  /\ UNCHANGED <<flag, vote, policy, log, commentOps>>

(* AddFlag, first statement: ON CONFLICT DO NOTHING.                       *)
InsertFlag(t, c) ==
  /\ At(t, "flag", "read")
  /\ c \in ctx[t].todo
  /\ Stored(c) /\ CanRefer(t, c) /\ ~Contended(t, c)
  /\ IF ctx[t].users \subseteq flag[c]
     THEN Ends(t)
     ELSE Moves(t, [ctx[t] EXCEPT !.pc = "inserted", !.refs = {c}, !.change = "added"])
  /\ UNCHANGED <<comment, flag, vote, policy, log, commentOps>>

(* AddFlag, second statement: count, and escalate at the threshold.        *)
CountFlag(t, c) ==
  /\ At(t, "flag", "inserted")
  /\ c \in ctx[t].todo
  /\ CanWrite(t, c)
  /\ comment' = [comment EXCEPT
       ![c].flags = @ + 1,
       ![c].status = IF @ = "approved" /\ comment[c].flags + 1 >= FlagThreshold THEN "flagged" ELSE @]
  /\ flag' = [flag EXCEPT ![c] = @ \cup ctx[t].users]
  /\ Ends(t)
  /\ UNCHANGED <<vote, policy, log, commentOps>>

(* ToggleUpvote, first statement: remove the vote if it is there.          *)
DeleteVote(t, c) ==
  /\ At(t, "upvote", "read")
  /\ c \in ctx[t].todo
  /\ IF ctx[t].users \subseteq vote[c]
     THEN /\ ~Contended(t, c)
          /\ Moves(t, [ctx[t] EXCEPT !.pc = "inserted", !.change = "removed"])
     ELSE Moves(t, [ctx[t] EXCEPT !.pc = "insert"])
  /\ UNCHANGED <<comment, flag, vote, policy, log, commentOps>>

(* ToggleUpvote, second statement: otherwise add it, unless another        *)
(* request of the voter did so meanwhile.                                  *)
InsertVote(t, c) ==
  /\ At(t, "upvote", "insert")
  /\ c \in ctx[t].todo
  /\ Stored(c) /\ CanRefer(t, c) /\ ~Contended(t, c)
  /\ Moves(t, [ctx[t] EXCEPT !.pc = "inserted", !.refs = {c},
                            !.change = IF ctx[t].users \subseteq vote[c] THEN "none" ELSE "added"])
  /\ UNCHANGED <<comment, flag, vote, policy, log, commentOps>>

(* Mutant of VoteCount: a repeated vote is counted again.                  *)
VoteCountRepeats(n, ch) == IF ch = "removed" THEN n - 1 ELSE n + 1

(* ToggleUpvote: upvote_count moves by the rows inserted or removed.       *)
VoteCount(n, ch) ==
  IF ch = "added" THEN n + 1 ELSE IF ch = "removed" /\ n > 0 THEN n - 1 ELSE n

CountVote(t, c) ==
  /\ At(t, "upvote", "inserted")
  /\ c \in ctx[t].todo
  /\ Stored(c) /\ CanWrite(t, c)
  /\ comment' = [comment EXCEPT ![c].votes = VoteCount(@, ctx[t].change)]
  /\ vote' = [vote EXCEPT ![c] = CASE ctx[t].change = "added"   -> @ \cup ctx[t].users
                                    [] ctx[t].change = "removed" -> @ \ ctx[t].users
                                    [] OTHER -> @]
  /\ Ends(t)
  /\ UNCHANGED <<flag, policy, log, commentOps>>

-----------------------------------------------------------------------------
(* Moderation.                                                             *)

(* ApplyModerations: "only while it is still in its expected status".      *)
StillAsRead(t, c) == Stored(c) /\ comment[c].status = ctx[t].read[c].status

Decided(t, c) ==
  [comment[c] EXCEPT !.status = Decision(ctx[t].action),
                     !.flags = DecidedFlags(ctx[t].read[c], ctx[t].action)]

(* ApplyModerations: one update per comment of the batch.                  *)
ApplyModeration(t, c) ==
  /\ At(t, "moderate", "read")
  /\ c \in ctx[t].todo
  /\ CanWrite(t, c)
  /\ Moves(t, [ctx[t] EXCEPT
       !.todo = @ \ {c},
       !.stale = @ \/ ~StillAsRead(t, c),
       !.wrote = IF StillAsRead(t, c) THEN @ \cup {c} ELSE @,
       !.rows[c] = IF StillAsRead(t, c) THEN Decided(t, c) ELSE @])
  /\ UNCHANGED <<comment, flag, vote, policy, log, commentOps>>

Entries(t, S) ==
  {[id |-> c, action |-> ctx[t].action, from |-> ctx[t].read[c].status, to |-> Decision(ctx[t].action)] : c \in S}

(* applyModerations: a stale comment rolls the whole batch back; otherwise *)
(* all are stored with their log entries.                                  *)
CommitModeration(t) ==
  /\ At(t, "moderate", "read")
  /\ ctx[t].todo = {}
  /\ IF ctx[t].stale
     THEN UNCHANGED <<comment, log>>
     ELSE /\ comment' = [c \in CommentIDs |-> IF c \in ctx[t].wrote THEN ctx[t].rows[c] ELSE comment[c]]
          /\ log' = Append(log, Entries(t, ctx[t].ids))
  /\ Ends(t)
  /\ UNCHANGED <<flag, vote, policy, commentOps>>

(* Mutant of LockForDelete: SELECT without FOR UPDATE.                     *)
ReadForDelete(t, c) ==
  /\ At(t, "hard_delete", "read")
  /\ c \in ctx[t].todo
  /\ Stored(c)
  /\ Moves(t, [ctx[t] EXCEPT !.pc = "locked"])
  /\ UNCHANGED <<comment, flag, vote, policy, log, commentOps>>

(* CommentRepository.HardDelete: SELECT ... FOR UPDATE, then the log entry *)
(* in the same transaction.                                                *)
LockForDelete(t, c) ==
  /\ At(t, "hard_delete", "read")
  /\ c \in ctx[t].todo
  /\ Stored(c) /\ CanLock(t, c)
  /\ Moves(t, [ctx[t] EXCEPT !.pc = "locked", !.excl = {c}])
  /\ UNCHANGED <<comment, flag, vote, policy, log, commentOps>>

CheckReplies(t, c) ==
  /\ At(t, "hard_delete", "locked")
  /\ c \in ctx[t].todo
  /\ Moves(t, [ctx[t] EXCEPT !.pc = "checked", !.replies = Replies(c) # {}])
  /\ UNCHANGED <<comment, flag, vote, policy, log, commentOps>>

HardDeleted(t, c) ==
  Append(log, {[id |-> c, action |-> "hard_delete", from |-> ctx[t].read[c].status, to |-> "deleted"]})

(* The delete cascades to replies, and waits for votes that somebody else  *)
(* is removing.                                                            *)
RemoveRow(t, c) ==
  LET gone == Subtree(c)
  IN  /\ At(t, "hard_delete", "checked")
      /\ c \in ctx[t].todo
      /\ ~ctx[t].replies
      /\ \A d \in gone : CanLock(t, d)
      /\ \A u \in OtherRequests(t) : ctx[u].change = "removed" => ctx[u].ids \cap gone = {}
      /\ comment' = [d \in CommentIDs |-> IF d \in gone THEN [NoComment EXCEPT !.st = "removed"] ELSE comment[d]]
      /\ flag' = [d \in CommentIDs |-> IF d \in gone THEN {} ELSE flag[d]]
      /\ vote' = [d \in CommentIDs |-> IF d \in gone THEN {} ELSE vote[d]]
      /\ log' = HardDeleted(t, c)
      /\ Ends(t)
      /\ UNCHANGED <<policy, commentOps>>

(* A comment with replies is scrubbed into a placeholder.                  *)
ScrubRow(t, c) ==
  /\ At(t, "hard_delete", "checked")
  /\ c \in ctx[t].todo
  /\ ctx[t].replies
  /\ CanWrite(t, c)
  /\ \A u \in OtherRequests(t) : ctx[u].change = "removed" => c \notin ctx[u].ids
  /\ comment' = [comment EXCEPT ![c] = [@ EXCEPT !.status = "deleted", !.text = "empty", !.owned = FALSE,
                                                 !.flags = 0, !.votes = 0]]
  /\ flag' = [flag EXCEPT ![c] = {}]
  /\ vote' = [vote EXCEPT ![c] = {}]
  /\ log' = HardDeleted(t, c)
  /\ Ends(t)
  /\ UNCHANGED <<policy, commentOps>>

(* A request fails, dies, or is the victim of a deadlock.                  *)
AbortRequest(t) ==
  /\ UnderWay(t)
  /\ Ends(t)
  /\ UNCHANGED <<comment, flag, vote, policy, log, commentOps>>

RequestBegins(t) ==
  \/ \E c \in CommentIDs, p \in CommentIDs \cup {NoParent}, g, h \in BOOLEAN : Create(t, c, p, g, h)
  \/ \E c \in CommentIDs : UpdateComment(t, c) \/ DeleteComment(t, c) \/ HardDelete(t, c)
  \/ \E c \in CommentIDs, u \in Users : Flag(t, c, u) \/ ToggleUpvote(t, c, u)
  \/ \E S \in SUBSET CommentIDs, a \in Action \ {"hard_delete"} : Moderate(t, S, a)

Writes(t, c) ==
  \/ UpdateRow(t, c)
  \/ InsertComment(t, c) \/ Store(t, c)
  \/ InsertFlag(t, c) \/ CountFlag(t, c)
  \/ DeleteVote(t, c) \/ InsertVote(t, c) \/ CountVote(t, c)
  \/ ApplyModeration(t, c)
  \/ LockForDelete(t, c) \/ CheckReplies(t, c) \/ RemoveRow(t, c) \/ ScrubRow(t, c)

CommentsNext ==
  \/ \E t \in CommentTxs : RequestBegins(t) \/ CommitModeration(t) \/ AbortRequest(t)
  \/ \E t \in CommentTxs, c \in CommentIDs : Writes(t, c)
  \/ \E q \in Policies : ChangePolicy(q)

CommentsSpec == CommentsInit /\ [][CommentsNext]_commentVars

-----------------------------------------------------------------------------
(* HardDelete: "scrubbed instead ... so its replies survive", also a reply *)
(* that is being posted at that moment.  Only a hard deletion of the       *)
(* comment itself removes it.                                              *)
RepliesSurvive ==
  [][\A c \in CommentIDs : (Stored(c) /\ comment'[c].st = "removed") =>
       \E t \in CommentTxs : UnderWay(t) /\ ctx[t].op = "hard_delete" /\ c \in ctx[t].todo /\ ctx'[t] = NoRequest]_commentVars

(* upvote_count is the number of votes, whatever toggles overlap each      *)
(* other or a deletion (ToggleUpvote, HardDelete).                         *)
UpvotesCounted == \A c \in CommentIDs : comment[c].votes = Cardinality(vote[c])

(* The moderation log tells the truth: what it says of a decision is what  *)
(* happened to the row, for every comment of a batch.                      *)
LogIsTrue ==
  [][log' # log =>
       \A e \in log'[Len(log')] :
         /\ comment'[e.id].status = e.to \/ comment'[e.id].st = "removed"
         /\ e.action # "hard_delete" => comment[e.id].status = e.from]_commentVars

(* Readers see a comment only if its author needed no approval or a        *)
(* moderator approved or restored it (Create, decide, Update).             *)
VisibleWasApproved ==
  \A c \in CommentIDs :
    (Stored(c) /\ comment[c].status = "approved") =>
      \/ comment[c].member /\ ~RequireApproval
      \/ \E i \in DOMAIN log : \E e \in log[i] : e.id = c /\ e.to = "approved"

(* Counters and visibility are right in every state (ToggleUpvote, Create, *)
(* decide).                                                                *)
CommentsInvariant == CommentsTypeOK /\ UpvotesCounted /\ VisibleWasApproved

(* Moderation removes no reply and logs what it did (HardDelete, Moderate, *)
(* BulkModerate).                                                          *)
ModerationIsSafe == RepliesSurvive /\ LogIsTrue
=============================================================================
