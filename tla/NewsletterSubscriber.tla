------------------------ MODULE NewsletterSubscriber ------------------------
(***************************************************************************)
(* One newsletter address: double opt-in, preferences, unsubscribing,      *)
(* provider feedback and erasure (core/newsletter/service service.go,      *)
(* account.go, admin.go, dispatch.go over newsletter_repository.go).       *)
(*                                                                         *)
(* Every operation is a READ COMMITTED transaction that reads the row      *)
(* without locking it and later writes all its columns back, so two of     *)
(* them may overlap.  The steps are its SQL statements: a statement that   *)
(* writes the row, or a confirmation token, locks it until the commit.     *)
(* Postgres ends a deadlock by aborting one transaction (Abort).           *)
(*                                                                         *)
(* After an erasure the address is free; a later subscription is another   *)
(* row, which is another instance of this module.                          *)
(***************************************************************************)
EXTENDS Naturals, FiniteSets

CONSTANTS Lists,             \* newsletter lists
          Txs,               \* concurrent requests
          ConfirmPerWindow,  \* confirmPerWindow
          MaxTokens,         \* bound: confirmation tokens ever issued
          MaxWindow,         \* bound: confirmation windows
          MaxOps             \* bound: requests begun

ASSUME SubscriberAssumption ==
  /\ {ConfirmPerWindow, MaxWindow} \subseteq Nat \ {0}
  /\ {MaxTokens, MaxOps} \subseteq Nat
  /\ "nobody" \notin Txs

VARIABLES sub,       \* the committed subscriber row with its memberships
          token,     \* committed state of each confirmation token
          rowLock,   \* the transaction that wrote the row and has not ended
          tx,        \* the open transactions
          window,    \* the current confirmation window
          audit,     \* newsletter_consent_audit: the events recorded
          ops        \* requests begun

vars == <<sub, token, rowLock, tx, window, audit, ops>>

Status == {"none", "pending_confirm", "active", "unsubscribed", "bounced", "complained", "erased"}
MembershipState == {"none", "pending", "active", "left"}

(* status "none": no row yet.  win is confirm_window_started_at (0: NULL), *)
(* sends is confirm_sends.                                                 *)
Row == [status : Status, m : [Lists -> MembershipState], sends : Nat, win : 0..MaxWindow]

NoRow == [status |-> "none", m |-> [l \in Lists |-> "none"], sends |-> 0, win |-> 0]

Tokens == 1..MaxTokens

Op == {"subscribe", "resend", "account", "join", "confirm", "unsubscribe",
       "choose", "format", "leave", "bounced", "complained", "erase"}

(* A transaction: the row it read, the row it wrote, the tokens it locked  *)
(* by using or deleting them, whether it issues one, the events it audits. *)
OpenTx == [op : Op, pc : {"lookedUp", "begun", "read", "saved", "revoked"}, lists : SUBSET Lists,
           tok : 0..MaxTokens, snap : Row, next : Row, holds : SUBSET Tokens, send : BOOLEAN,
           events : SUBSET ({"opted_in"} \cup Lists)]

NoTx == [pc |-> "idle"]

TypeOK ==
  /\ sub \in Row
  /\ token \in [Tokens -> {"none", "fresh", "expired", "used", "gone"}]
  /\ rowLock \in Txs \cup {"nobody"}
  /\ tx \in [Txs -> OpenTx \cup {NoTx}]
  /\ window \in 1..MaxWindow
  /\ audit \subseteq {"opted_in"} \cup Lists
  /\ ops \in 0..MaxOps

Init ==
  /\ sub = NoRow
  /\ token = [k \in Tokens |-> "none"]
  /\ rowLock = "nobody"
  /\ tx = [t \in Txs |-> NoTx]
  /\ window = 1
  /\ audit = {}
  /\ ops = 0

Open(t) == tx[t] # NoTx

-----------------------------------------------------------------------------
(* What each operation makes of the row s it read.                         *)

PendingLists(s) == {l \in Lists : s.m[l] = "pending"}
ActiveLists(s) == {l \in Lists : s.m[l] = "active"}
Suppressed(s) == s.status \in {"bounced", "complained", "erased"}

(* The memberships of s with the lists ls set to state st.                 *)
SetMembership(s, ls, st) == [l \in Lists |-> IF l \in ls THEN st ELSE s.m[l]]

(* newSubscriber: a request for an unknown address starts from this row.   *)
NewSubscriber == [NoRow EXCEPT !.status = "pending_confirm"]

Loaded(s) == IF s.status = "none" THEN NewSubscriber ELSE s

(* allowConfirm: may a confirmation be sent, and the counters afterwards.  *)
AllowConfirm(s) == s.win # window \/ s.sends < ConfirmPerWindow

CountConfirm(s) ==
  IF s.win # window THEN [s EXCEPT !.win = window, !.sends = 1]
  ELSE IF s.sends < ConfirmPerWindow THEN [s EXCEPT !.sends = @ + 1] ELSE s

(* requestConfirmation: the lists not yet active become pending, and an    *)
(* email counts against the window if a list is pending.                   *)
MarkPending(s, ls) == [s EXCEPT !.m = SetMembership(s, ls \ ActiveLists(s), "pending")]

RequestSends(s, ls) == PendingLists(MarkPending(s, ls)) # {} /\ AllowConfirm(s)

RequestConfirmation(s, ls) ==
  IF PendingLists(MarkPending(s, ls)) # {} THEN CountConfirm(MarkPending(s, ls)) ELSE MarkPending(s, ls)

(* Confirm activates the pending lists and the subscriber.                 *)
ConfirmRow(s) == [s EXCEPT !.m = SetMembership(s, PendingLists(s), "active"), !.status = "active"]

(* joinNow activates the requested lists and the subscriber.               *)
JoinNow(s, ls) == [s EXCEPT !.m = SetMembership(s, ls, "active"), !.status = "active"]

(* unsubscribeAll leaves every list; a suppressed status stays.            *)
UnsubscribeAll(s) ==
  [s EXCEPT !.m = [l \in Lists |-> IF s.m[l] = "none" THEN "none" ELSE "left"],
            !.status = IF @ \in {"active", "pending_confirm"} THEN "unsubscribed" ELSE @]

(* setLists and applyChoices: wanted is the exact set of lists.            *)
ApplyChoices(s, wanted) ==
  [s EXCEPT !.m = [l \in Lists |-> IF l \in wanted THEN "active"
                                   ELSE IF s.m[l] = "none" THEN "none" ELSE "left"],
            !.status = IF wanted # {} THEN "active"
                       ELSE IF @ = "active" THEN "unsubscribed" ELSE @]

(* applyChoices saves nothing unless it has an event to record: a list     *)
(* joined, an active list left, a change of status, or another format.     *)
ChoicesChange(s, wanted) ==
  \/ wanted # ActiveLists(s)
  \/ wanted # {} /\ s.status # "active"
  \/ wanted = {} /\ s.status = "active"

(* HandleFeedback: hard bounces and complaints suppress the address.       *)
Feedback(s, kind) == [s EXCEPT !.status = kind]

(* EraseSubscriber.                                                        *)
Erased(s) == [s EXCEPT !.status = "erased", !.m = [l \in Lists |-> IF s.m[l] = "none" THEN "none" ELSE "left"]]

(* The row an operation writes, and the opt-in events it appends.          *)
Outcome(op, s, ls) ==
  CASE op \in {"subscribe", "resend", "account"} -> RequestConfirmation(Loaded(s), ls)
    [] op = "join"                               -> JoinNow(Loaded(s), ls)
    [] op = "confirm"                            -> ConfirmRow(s)
    [] op = "unsubscribe"                        -> UnsubscribeAll(s)
    [] op \in {"choose", "leave"}                -> ApplyChoices(s, ls)
    [] op = "format"                             -> s
    [] op \in {"bounced", "complained"}          -> Feedback(s, op)
    [] op = "erase"                              -> Erased(s)

(* list_joined for every list that became active, and confirmed,           *)
(* subscribed or resubscribed when the subscriber did.                     *)
OptInEvents(s, w) ==
  (ActiveLists(w) \ ActiveLists(s))
    \cup (IF s.status # "active" /\ w.status = "active" THEN {"opted_in"} ELSE {})

-----------------------------------------------------------------------------
(* Transactions begin by reading the row; which early return applies is    *)
(* decided on what they read.  An operation that returns early changes     *)
(* nothing and is a stuttering step.                                       *)

(* UpdatePreferences, through a preferences link; the format may change    *)
(* with the lists, so that a choice is saved even if the lists stay.       *)
UpdatePreferences(s) == s.status \notin {"none", "erased"}

(* MyUnsubscribe keeps the lists kept; nothing is saved without a change.  *)
MyUnsubscribe(s, kept) ==
  /\ s.status \notin {"none", "erased"}
  /\ kept \subseteq ActiveLists(s)
  /\ ChoicesChange(s, kept)

Proceeds(op, ls) ==
  CASE op = "subscribe" -> ls # {} /\ ~Suppressed(sub)
    [] op = "resend"    -> ls = {} /\ sub.status # "none" /\ ~Suppressed(sub) /\ PendingLists(sub) # {}
    [] op \in {"account", "join"} -> ls # {} /\ sub.status # "erased"
    [] op = "choose"    -> UpdatePreferences(sub)
    [] op = "leave"     -> MyUnsubscribe(sub, ls)
    [] op = "confirm"   -> FALSE
    [] OTHER            -> ls = {} /\ sub.status \notin {"none", "erased"}

(* For "choose", ls is the set of lists chosen, for "leave" the set kept;  *)
(* "format" changes only the format.                                       *)
Begin(t, op, ls) ==
  /\ ~Open(t)
  /\ ops < MaxOps
  /\ Proceeds(op, ls)
  /\ tx' = [tx EXCEPT ![t] = [op |-> op, pc |-> "read", lists |-> ls, tok |-> 0, snap |-> sub,
                              next |-> NoRow, holds |-> {}, send |-> FALSE, events |-> {}]]
  /\ ops' = ops + 1
  /\ UNCHANGED <<sub, token, rowLock, window, audit>>

(* Confirm: lookupToken accepts a fresh token, before the transaction.     *)
LookupToken(t, k) ==
  /\ ~Open(t)
  /\ ops < MaxOps
  /\ token[k] = "fresh"
  /\ tx' = [tx EXCEPT ![t] = [op |-> "confirm", pc |-> "lookedUp", lists |-> {}, tok |-> k, snap |-> NoRow,
                              next |-> NoRow, holds |-> {}, send |-> FALSE, events |-> {}]]
  /\ ops' = ops + 1
  /\ UNCHANGED <<sub, token, rowLock, window, audit>>

(* Tokens locked by another open transaction, which used or deleted them.  *)
LockedByOthers(t) == UNION {tx[u].holds : u \in {v \in Txs \ {t} : Open(v)}}

(* UseToken: only an unused token that still exists; expiry was checked by *)
(* the lookup.                                                             *)
UseToken(t) ==
  /\ Open(t) /\ tx[t].pc = "lookedUp"
  /\ tx[t].tok \notin LockedByOthers(t)
  /\ token[tx[t].tok] \in {"fresh", "expired"}
  /\ tx' = [tx EXCEPT ![t].pc = "begun", ![t].holds = {tx[t].tok}]
  /\ UNCHANGED <<sub, token, rowLock, window, audit, ops>>

(* Confirm reads the row after using the token; an erased one is refused.  *)
ReadForConfirm(t) ==
  /\ Open(t) /\ tx[t].pc = "begun"
  /\ sub.status # "erased"
  /\ tx' = [tx EXCEPT ![t].pc = "read", ![t].snap = sub]
  /\ UNCHANGED <<sub, token, rowLock, window, audit, ops>>

(* suppress revokes the confirmation tokens before it saves the row...     *)
RevokesFirst(op) == op \in {"bounced", "complained"}

(* Mutant of RevokesAfter: erasing keeps the tokens.                       *)
RevokesAfterSending(d) == (d.op = "unsubscribe" \/ d.send) /\ ~RevokesFirst(d.op)

(* ... the other operations that revoke them do so after it.               *)
RevokesAfter(d) == (d.op \in {"unsubscribe", "erase"} \/ d.send) /\ ~RevokesFirst(d.op)

(* UpdateSubscriber writes the columns as computed from the row read, and  *)
(* the memberships only when the operation changed one, all that it knows. *)
(* EraseSubscriber updates what is stored instead.                         *)
Written(d, w) ==
  IF d.op = "erase" THEN Erased(sub)
  ELSE [w EXCEPT !.m = IF w.m = d.snap.m THEN sub.m
                       ELSE [l \in Lists |-> IF w.m[l] = "none" THEN sub.m[l] ELSE w.m[l]]]

(* Mutant of Allowed: without the CHECK on erased rows.                    *)
AllowedUnchecked(d, w) == (d.snap.status = "none") => sub.status = "none"

(* The write succeeds: an insert needs the address to be free, and the     *)
(* CHECK on newsletter_subscribers refuses to give an erased row another   *)
(* status.                                                                 *)
Allowed(d, w) ==
  /\ (d.snap.status = "none") => sub.status = "none"
  /\ (sub.status = "erased") => w.status = "erased"

(* CreateSubscriber, UpdateSubscriber or EraseSubscriber.                  *)
Save(t) ==
  /\ Open(t)
  /\ tx[t].pc = (IF RevokesFirst(tx[t].op) THEN "revoked" ELSE "read")
  /\ rowLock = "nobody"
  /\ LET d == tx[t]
         w == Outcome(d.op, d.snap, d.lists)
     IN  /\ Allowed(d, w)
         /\ tx' = [tx EXCEPT ![t].pc = "saved",
                             ![t].next = Written(d, w),
                             ![t].send = d.op \in {"subscribe", "resend", "account"}
                                           /\ RequestSends(Loaded(d.snap), d.lists),
                             ![t].events = OptInEvents(d.snap, w)]
  /\ rowLock' = t
  /\ UNCHANGED <<sub, token, window, audit, ops>>

(* Committed tokens a DELETE sees.                                         *)
Stored == {k \in Tokens : token[k] \in {"fresh", "expired", "used"}}

(* RevokeTokens deletes the committed tokens, waiting for locked ones.     *)
(* Tokens other open transactions have inserted are not seen.              *)
RevokeTokens(t) ==
  /\ Open(t)
  /\ \/ RevokesFirst(tx[t].op) /\ tx[t].pc = "read"
     \/ RevokesAfter(tx[t]) /\ tx[t].pc = "saved"
  /\ Stored \cap LockedByOthers(t) = {}
  /\ tx' = [tx EXCEPT ![t].pc = "revoked", ![t].holds = Stored]
  /\ UNCHANGED <<sub, token, rowLock, window, audit, ops>>

(* The last statement of the transaction before its commit.                *)
CommitsAt(d) == d.pc = (IF RevokesAfter(d) THEN "revoked" ELSE "saved")

(* The commit publishes the row, the tokens and the audit events.  issue- *)
(* Token adds a fresh token, mailed by sendConfirm after the commit.       *)
Commit(t) ==
  /\ Open(t) /\ rowLock = t
  /\ CommitsAt(tx[t])
  /\ LET d == tx[t]
         left == [k \in Tokens |-> IF k \notin d.holds THEN token[k]
                                   ELSE IF d.op = "confirm" THEN "used" ELSE "gone"]
     IN  /\ sub' = d.next
         /\ IF d.send
            THEN \E k \in Tokens :
                   /\ token[k] = "none" /\ \A j \in 1..(k - 1) : token[j] # "none"
                   /\ token' = [left EXCEPT ![k] = "fresh"]
            ELSE token' = left
         /\ audit' = audit \cup d.events
  /\ rowLock' = "nobody"
  /\ tx' = [tx EXCEPT ![t] = NoTx]
  /\ UNCHANGED <<window, ops>>

(* An error, a conflict, a deadlock victim or a crash: a rollback.         *)
Abort(t) ==
  /\ Open(t)
  /\ tx' = [tx EXCEPT ![t] = NoTx]
  /\ rowLock' = IF rowLock = t THEN "nobody" ELSE rowLock
  /\ UNCHANGED <<sub, token, window, audit, ops>>

(* ConfirmTTL passes for a token; PruneTokens deletes it much later.       *)
TokenExpires(k) ==
  /\ token[k] = "fresh"
  /\ token' = [token EXCEPT ![k] = "expired"]
  /\ UNCHANGED <<sub, rowLock, tx, window, audit, ops>>

PruneTokens ==
  /\ \E k \in Tokens : token[k] = "expired"
  /\ \A k \in Tokens : token[k] = "expired" => \A t \in Txs : Open(t) => k \notin tx[t].holds
  /\ token' = [k \in Tokens |-> IF token[k] = "expired" THEN "gone" ELSE token[k]]
  /\ UNCHANGED <<sub, rowLock, tx, window, audit, ops>>

(* confirmWindow passes.                                                   *)
WindowPasses ==
  /\ window < MaxWindow
  /\ window' = window + 1
  /\ UNCHANGED <<sub, token, rowLock, tx, audit, ops>>

Next ==
  \/ \E t \in Txs, op \in Op, ls \in SUBSET Lists : Begin(t, op, ls)
  \/ \E t \in Txs, k \in Tokens : LookupToken(t, k)
  \/ \E t \in Txs :
       \/ UseToken(t)
       \/ ReadForConfirm(t)
       \/ Save(t)
       \/ RevokeTokens(t)
       \/ Commit(t)
       \/ Abort(t)
  \/ \E k \in Tokens : TokenExpires(k)
  \/ PruneTokens
  \/ WindowPasses

Spec == Init /\ [][Next]_vars

-----------------------------------------------------------------------------
(* Erasure is final: no request that read the row before it, or still      *)
(* holds a link, writes the row again (DeleteSubscriber, EraseUser).       *)
ErasedIsFinal == [][sub.status = "erased" => sub' = sub]_vars

(* An erased row keeps no link and no membership, whatever was under way.  *)
ErasedLeavesNothing ==
  sub.status = "erased" => Stored = {} /\ \A l \in Lists : sub.m[l] \in {"none", "left"}

(* A new confirmation token revokes the previous ones, also when requests  *)
(* overlap: at most one link can be confirmed at any time.                 *)
OneConfirmLink == \A j, k \in Tokens : token[j] = "fresh" /\ token[k] = "fresh" => j = k

(* A link confirms once: past UseToken, a Confirm has the token to itself  *)
(* and nobody has used or revoked it.                                      *)
ConfirmOwnsToken ==
  \A t \in Txs :
    (Open(t) /\ tx[t].op = "confirm" /\ tx[t].pc # "lookedUp") =>
      /\ token[tx[t].tok] \in {"fresh", "expired"}
      /\ tx[t].tok \notin LockedByOthers(t)

(* Once unsubscribeAll committed, no confirmation link sent before it can  *)
(* bring the subscriber back.                                              *)
UnsubscribeRevokes ==
  [][(/\ sub.status # "unsubscribed" /\ sub'.status = "unsubscribed"
      /\ \E t \in Txs : Open(t) /\ tx[t].op = "unsubscribe" /\ tx'[t] = NoTx)
        => \A k \in Tokens : token'[k] # "fresh"]_vars

(* Nobody is mailed without a recorded opt-in of the owner: the consent    *)
(* history holds one for the subscriber and for every active list.         *)
OptInIsAudited ==
  /\ sub.status = "active" => "opted_in" \in audit
  /\ ActiveLists(sub) \subseteq audit

(* account.go: "MyUnsubscribe leaves lists".  A request that leaves a list *)
(* of a subscriber it read as not active never writes it back as active.   *)
(* What it read is what counts: writing back a status another request has  *)
(* changed in between is a lost update, not an opt-in.                     *)
LeavingNeverOptsIn ==
  [][\A t \in Txs :
       (/\ Open(t) /\ tx'[t] = NoTx /\ sub' # sub
        /\ tx[t].op = "leave" /\ tx[t].snap.status # "active")
          => sub'.status # "active"]_vars

(* What no request may do to an erased address or an open link, however    *)
(* old the row it read (DeleteSubscriber, unsubscribeAll).                 *)
SubscriberSteps == ErasedIsFinal /\ UnsubscribeRevokes

(* The row, its tokens and the consent log agree (erase, issueToken,       *)
(* Confirm, consent).                                                      *)
SubscriberInvariant ==
  /\ TypeOK
  /\ ErasedLeavesNothing
  /\ OneConfirmLink
  /\ ConfirmOwnsToken
  /\ OptInIsAudited
=============================================================================
