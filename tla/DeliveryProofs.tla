--------------------------- MODULE DeliveryProofs ----------------------------
(***************************************************************************)
(* Theorems about what must arrive, and arrive once: one newsletter issue, *)
(* for any number of subscribers, workers and editors; the notices of the  *)
(* inbox, for any number of events, users, workers and open streams; and   *)
(* the entries of the audit log, for any number of requests.               *)
(***************************************************************************)
EXTENDS NewsletterIssue, Notifications, AuditTrail, TLAPS, FiniteSetTheorems

-----------------------------------------------------------------------------
(* The invariant.  A run is alone: it holds the issue row and the one      *)
(* request there is, so the issue stays queued with the content the run    *)
(* read.  Before the issue is queued nothing was asked, mailed or edited   *)
(* away.  Who is claimed by a run is locked by it, hence active.           *)

Early == {"none", "draft", "scheduled"}

RunAlone ==
  /\ \A v, w \in Workers : Running(v) /\ Running(w) => v = w
  /\ \A w \in Workers : Running(w) => status = "queued" /\ requests = 1 /\ run[w].body = content

NothingEarly ==
  /\ status # "sending"
  /\ requests <= 1
  /\ status \in Early => requests = 0 /\ mailed = {}

MailedContent ==
  /\ mailed \subseteq {content}
  /\ \A s \in Subs : mails[s] > 0 => mailed # {}

HeldIsActive ==
  \A w \in Workers : Running(w) =>
    /\ run[w].claimed \subseteq run[w].held
    /\ \A s \in run[w].held : sub[s] = "active" /\ s \notin subTx

SentWasMailed ==
  /\ \A s \in Subs : deliv[s].st = "sent" => mails[s] > 0
  /\ \A w \in Workers : Running(w) => \A s \in Subs : run[w].d[s].st = "sent" => mails[s] > 0

CountsAddUp ==
  status = "sent" =>
    /\ counts.sent = Cardinality({s \in Subs : deliv[s].st = "sent"})
    /\ counts.sent + counts.failed = Cardinality({s \in Subs : deliv[s].st # "none"})

IssueInv ==
  /\ IssueTypeOK /\ RunAlone /\ NothingEarly /\ MailedContent /\ HeldIsActive /\ SentWasMailed /\ CountsAddUp

LEMMA IssueInitInv == IssueInit => IssueInv
<1> SUFFICES ASSUME IssueInit PROVE IssueInv
  OBVIOUS
<1> USE IssueAssumption
<1>1. IssueTypeOK
  <2>1. NoRow \in DeliveryRow /\ 0 \in 0..MaxClock /\ 0 \in 0..MaxChanges /\ 0 \in 0..MaxSends
    BY DEF NoRow, DeliveryRow
  <2>2. counts \in [sent : Nat, failed : Nat]
    BY DEF IssueInit
  <2>3. FALSE \in BOOLEAN
    OBVIOUS
  <2> QED
    BY <2>1, <2>2, <2>3 DEF IssueInit, IssueTypeOK
<1>2. RunAlone /\ NothingEarly /\ MailedContent /\ HeldIsActive /\ CountsAddUp
  BY DEF IssueInit, RunAlone, NothingEarly, MailedContent, HeldIsActive, CountsAddUp, Running
<1>3. SentWasMailed
  BY DEF IssueInit, SentWasMailed, Running, NoRow
<1> QED
  BY <1>1, <1>2, <1>3 DEF IssueInv

(* A run in its type.                                                      *)
LEMMA RunIsTyped ==
  ASSUME IssueTypeOK, NEW w \in Workers, Running(w)
  PROVE  run[w] \in OpenRun /\ run \in [Workers -> OpenRun \cup {NoRun}]
BY DEF IssueTypeOK, Running

(* What editors, the release job and the clock do: the issue moves only    *)
(* while no run holds it, and is queued only from a state before that.     *)
LEMMA EditKeepsInv ==
  ASSUME IssueInv,
         UNCHANGED <<subVars, dispatchVars>>,
         IssueTypeOK',
         status' # status \/ content' # content \/ requests' # requests => \A w \in Workers : ~Running(w),
         status' \notin {"none", "sending"} \/ status' = status,
         status' = status \/ status' \in {"queued", "cancelled"} \/ status \in Early,
         status' \in Early \/ status' = status \/ status' = "cancelled" \/ status \in Early,
         status' = status \/ status' # "sent",
         requests' = (IF status' = "queued" /\ status' # status THEN requests + 1 ELSE requests),
         status' = "queued" /\ status' # status => status \in Early,
         content' # content => status \in Early
  PROVE  IssueInv'
<1> USE IssueAssumption
<1>1. requests \in Nat
  BY DEF IssueInv, IssueTypeOK
<1>2. UNCHANGED <<sub, subTx, changes, deliv, run, mails, mailed, recorded, counts>>
  BY DEF subVars, dispatchVars
<1>3. NothingEarly'
  BY <1>1, <1>2 DEF IssueInv, NothingEarly, Early
<1>4. RunAlone'
  BY <1>2 DEF IssueInv, RunAlone, Running
<1>5. MailedContent'
  BY <1>2 DEF IssueInv, MailedContent, NothingEarly
<1>6. HeldIsActive' /\ SentWasMailed'
  BY <1>2 DEF IssueInv, HeldIsActive, SentWasMailed, Running
<1>7. CountsAddUp'
  BY <1>2 DEF IssueInv, CountsAddUp
<1> QED
  BY <1>3, <1>4, <1>5, <1>6, <1>7 DEF IssueInv

LEMMA EditorsKeepInv ==
  ASSUME IssueInv,
         \/ \E to \in IssueStatus : CreateIssue(to)
         \/ \E e \in Editors : ReadIssue(e) \/ RequestFails(e)
         \/ \E e \in Editors, to \in IssueStatus : SaveEdit(e, to) \/ SaveMove(e, to)
         \/ DueIssues \/ ReleaseDue \/ Tick
  PROVE  IssueInv'
<1> USE IssueAssumption
<1>1. /\ IssueTypeOK /\ requests \in Nat /\ status \in IssueStatus \cup {"none"} /\ status # "sending"
      /\ sendAt \in 0..MaxClock /\ now \in 0..MaxClock /\ content \in Contents /\ released \in BOOLEAN
      /\ seen \in [Editors -> Request \cup {NoRequest}]
      /\ status = "none" => \A w \in Workers : ~Running(w)
  BY DEF IssueInv, IssueTypeOK, NothingEarly, RunAlone
<1>2. \A w \in Workers : Running(w) => status = "queued"
  BY DEF IssueInv, RunAlone
<1>3. ASSUME NEW to \in IssueStatus, NEW q, q.sendAt \in 0..MaxClock
      PROVE  PrepareMove(q, to) \subseteq 0..MaxClock
  BY <1>3 DEF PrepareMove
<1>4. CASE \E to \in IssueStatus : CreateIssue(to)
  <2>1. PICK to \in IssueStatus : CreateIssue(to)
    BY <1>4
  <2>2. status = "none" /\ to \in {"draft", "scheduled", "queued", "cancelled"}
    BY <2>1 DEF CreateIssue, CanMove, Transitions
  <2>3. sendAt' \in 0..MaxClock
    <3>1. PICK q : q = [sendAt |-> 0, now |-> now]
      OBVIOUS
    <3>2. q.sendAt \in 0..MaxClock
      BY <3>1
    <3> QED
      BY <1>3, <2>1, <3>1, <3>2 DEF CreateIssue
  <2>4. /\ status' = to /\ requests' = (IF to = "queued" THEN requests + 1 ELSE requests)
        /\ UNCHANGED <<now, content, subVars, released, seen, dispatchVars>>
    BY <2>1 DEF CreateIssue, Queued
  <2>5. IssueTypeOK'
    BY <1>1, <2>3, <2>4 DEF IssueTypeOK, subVars, dispatchVars
  <2> QED
    BY <1>1, <2>2, <2>4, <2>5, EditKeepsInv DEF Early
<1>5. CASE \E e \in Editors : ReadIssue(e) \/ RequestFails(e)
  <2>1. PICK e \in Editors : ReadIssue(e) \/ RequestFails(e)
    BY <1>5
  <2>2. UNCHANGED <<now, status, sendAt, content, requests, subVars, released, dispatchVars>>
    BY <2>1 DEF ReadIssue, RequestFails, issueVars
  <2>3. seen' \in [Editors -> Request \cup {NoRequest}]
    <3>1. CASE ReadIssue(e)
      <4>1. PICK q : q = [status |-> status, sendAt |-> sendAt, content |-> content, now |-> now]
        OBVIOUS
      <4>2. q \in Request /\ seen' = [seen EXCEPT ![e] = q]
        BY <1>1, <3>1, <4>1 DEF ReadIssue, Request
      <4> QED
        BY <1>1, <4>2
    <3>2. CASE RequestFails(e)
      BY <1>1, <3>2 DEF RequestFails
    <3> QED
      BY <2>1, <3>1, <3>2
  <2>4. IssueTypeOK'
    BY <1>1, <2>2, <2>3 DEF IssueTypeOK, subVars, dispatchVars
  <2> QED
    BY <1>1, <2>2, <2>4, EditKeepsInv
<1>6. CASE \E e \in Editors, to \in IssueStatus : SaveEdit(e, to) \/ SaveMove(e, to)
  <2>1. PICK e \in Editors, to \in IssueStatus : SaveEdit(e, to) \/ SaveMove(e, to)
    BY <1>6
  <2>2. PICK q : q = seen[e]
    OBVIOUS
  <2>3. q \in Request /\ q.sendAt \in 0..MaxClock
    BY <1>1, <2>1, <2>2 DEF SaveEdit, SaveMove, Request
  <2>4. /\ status = q.status /\ (\A w \in Workers : ~Running(w)) /\ status' = to
        /\ requests' = (IF to = "queued" THEN requests + 1 ELSE requests)
        /\ seen' = [seen EXCEPT ![e] = NoRequest] /\ UNCHANGED <<now, subVars, released, dispatchVars>>
    BY <2>1, <2>2 DEF SaveEdit, SaveMove, StillAsRead, IssueLocked, Queued
  <2>5. /\ sendAt' \in 0..MaxClock /\ content' \in Contents
        /\ to # status => to \in Transitions[status]
        /\ content' # content \/ to = status => status \in {"draft", "scheduled"}
    <3>1. CASE SaveEdit(e, to)
      <4>1. /\ q.status \in {"draft", "scheduled"} /\ content' \in Contents
            /\ \/ to = q.status /\ sendAt' = q.sendAt
               \/ to \in Transitions[q.status] /\ sendAt' \in PrepareMove(q, to)
        BY <2>2, <3>1 DEF SaveEdit, Editable, CanMove
      <4> QED
        BY <1>3, <2>3, <2>4, <4>1
    <3>2. CASE SaveMove(e, to)
      <4>1. /\ to \in Transitions[q.status] /\ UNCHANGED <<sendAt, content>> /\ q.status \notin {"draft", "scheduled"}
        BY <2>2, <3>2 DEF SaveMove, Editable, CanMove
      <4>2. q.status \in IssueStatus
        BY <2>3 DEF Request
      <4>3. to # q.status
        BY <4>1, <4>2 DEF Transitions, IssueStatus
      <4> QED
        BY <1>1, <2>4, <4>1, <4>3
    <3> QED
      BY <2>1, <3>1, <3>2
  <2>6. status \in IssueStatus
    BY <2>3, <2>4 DEF Request
  <2>7. IssueTypeOK'
    <3>1. requests' \in Nat /\ seen' \in [Editors -> Request \cup {NoRequest}] /\ status' \in IssueStatus
      BY <1>1, <2>4
    <3> QED
      BY <1>1, <2>4, <2>5, <3>1 DEF IssueTypeOK, subVars, dispatchVars
  <2>8. to # status => \/ status \in {"draft", "scheduled"} /\ to \in {"draft", "scheduled", "queued", "cancelled"}
                       \/ status = "queued" /\ to = "cancelled"
    BY <1>1, <2>5, <2>6 DEF Transitions, IssueStatus
  <2>9. to = "queued" => status # "queued"
    BY <2>5
  <2> QED
    BY <2>4, <2>5, <2>7, <2>8, <2>9, EditKeepsInv DEF Early
<1>7. CASE DueIssues
  <2>1. /\ UNCHANGED <<now, status, sendAt, content, requests, subVars, seen, dispatchVars>> /\ released' = TRUE
    BY <1>7 DEF DueIssues, issueVars
  <2>2. IssueTypeOK'
    BY <1>1, <2>1 DEF IssueTypeOK, subVars, dispatchVars
  <2> QED
    BY <1>1, <2>1, <2>2, EditKeepsInv
<1>8. CASE ReleaseDue
  <2>1. /\ UNCHANGED <<now, sendAt, content, subVars, seen, dispatchVars>> /\ released' = FALSE
        /\ status' = (IF status = "scheduled" THEN "queued" ELSE status)
        /\ requests' = (IF status = "scheduled" THEN requests + 1 ELSE requests)
    BY <1>8 DEF ReleaseDue
  <2>2. IssueTypeOK'
    <3>1. status' \in IssueStatus \cup {"none"} /\ requests' \in Nat
      BY <1>1, <2>1 DEF IssueStatus
    <3> QED
      BY <1>1, <2>1, <3>1 DEF IssueTypeOK, subVars, dispatchVars
  <2> QED
    BY <1>1, <1>2, <2>1, <2>2, EditKeepsInv DEF Early
<1>9. CASE Tick
  <2>1. /\ UNCHANGED <<status, sendAt, content, requests, subVars, released, seen, dispatchVars>>
        /\ now' \in 0..MaxClock
    BY <1>1, <1>9 DEF Tick, issueVars
  <2>2. IssueTypeOK'
    BY <1>1, <2>1 DEF IssueTypeOK, subVars, dispatchVars
  <2> QED
    BY <1>1, <2>1, <2>2, EditKeepsInv
<1> QED
  BY <1>4, <1>5, <1>6, <1>7, <1>8, <1>9

(* A subscriber's transaction meets no subscriber a run has locked.        *)
LEMMA SubscribersKeepInv ==
  ASSUME IssueInv, NEW s \in Subs, SubscriberTxBegin(s) \/ SubscriberTxEnd(s)
  PROVE  IssueInv'
<1> USE IssueAssumption
<1>1. UNCHANGED <<now, status, sendAt, content, requests, released, seen, deliv, run, mails, mailed, recorded, counts>>
  BY DEF SubscriberTxBegin, SubscriberTxEnd, issueVars, dispatchVars
<1>2. IssueTypeOK'
  BY <1>1 DEF IssueInv, IssueTypeOK, SubscriberTxBegin, SubscriberTxEnd
<1>3. RunAlone' /\ NothingEarly' /\ MailedContent' /\ SentWasMailed' /\ CountsAddUp'
  BY <1>1 DEF IssueInv, RunAlone, NothingEarly, MailedContent, SentWasMailed, CountsAddUp, Running
<1>4. HeldIsActive'
  <2> SUFFICES ASSUME NEW w \in Workers, Running(w), NEW x \in run[w].held
               PROVE  sub'[x] = "active" /\ x \notin subTx'
    BY <1>1 DEF IssueInv, HeldIsActive, Running
  <2>1. sub[x] = "active" /\ x \notin subTx
    BY DEF IssueInv, HeldIsActive
  <2>2. CASE SubscriberTxBegin(s)
    BY <2>1, <2>2 DEF SubscriberTxBegin, SubLocked
  <2>3. CASE SubscriberTxEnd(s)
    BY <2>1, <2>3 DEF SubscriberTxEnd, IssueInv, IssueTypeOK
  <2> QED
    BY <2>2, <2>3
<1> QED
  BY <1>2, <1>3, <1>4 DEF IssueInv

LEMMA NobodyRuns ==
  ASSUME ~IssueLocked PROVE \A w \in Workers : ~Running(w)
BY DEF IssueLocked

(* A run begins alone, with the content of the queued issue.               *)
LEMMA BeginKeepsInv ==
  ASSUME IssueInv, NEW w \in Workers, Begin(w)
  PROVE  IssueInv'
<1> USE IssueAssumption
<1>1. \A v \in Workers : ~Running(v)
  BY NobodyRuns DEF Begin
<1>2. /\ UNCHANGED <<now, sendAt, content, sub, subTx, changes, seen, released>>
      /\ UNCHANGED <<status, requests, deliv, mails, mailed, recorded, counts>>
  BY DEF Begin, otherVars, subVars
<1>3. status = "queued" /\ requests = 1
  <2>1. {v \in Workers : Running(v)} = {}
    BY <1>1
  <2>2. requests > 0
    BY <2>1, FS_EmptySet DEF Begin
  <2> QED
    BY <2>2 DEF Begin, IssueInv, NothingEarly, IssueTypeOK
<1>4. PICK d : d = [pc |-> "claim", body |-> content, d |-> deliv, claimed |-> {}, tried |-> {}, held |-> {}]
  OBVIOUS
<1>5. d \in OpenRun /\ d.body = content /\ d.d = deliv /\ d.claimed = {} /\ d.held = {}
  BY <1>4 DEF OpenRun, IssueInv, IssueTypeOK
<1>6. run \in [Workers -> OpenRun \cup {NoRun}]
  BY DEF IssueInv, IssueTypeOK
<1>7. run' = [run EXCEPT ![w] = d]
  BY <1>4 DEF Begin
<1>8. run' \in [Workers -> OpenRun \cup {NoRun}] /\ run'[w] = d /\ \A v \in Workers \ {w} : run'[v] = NoRun
  BY <1>1, <1>5, <1>6, <1>7 DEF Running
<1>9. IssueTypeOK'
  BY <1>2, <1>8 DEF IssueInv, IssueTypeOK
<1>10. RunAlone' /\ HeldIsActive'
  BY <1>2, <1>3, <1>5, <1>8 DEF RunAlone, HeldIsActive, Running
<1>11. NothingEarly' /\ MailedContent' /\ CountsAddUp'
  BY <1>2 DEF IssueInv, NothingEarly, MailedContent, CountsAddUp
<1>12. SentWasMailed'
  BY <1>2, <1>5, <1>8 DEF IssueInv, SentWasMailed, Running
<1> QED
  BY <1>9, <1>10, <1>11, <1>12 DEF IssueInv

LEMMA SkipKeepsInv ==
  ASSUME IssueInv, NEW w \in Workers, SkipRun(w)
  PROVE  IssueInv'
<1> USE IssueAssumption
<1>1. \A v \in Workers : ~Running(v)
  BY NobodyRuns DEF SkipRun
<1>2. /\ UNCHANGED <<now, sendAt, content, sub, subTx, changes, seen, released>>
      /\ UNCHANGED <<status, run, deliv, mails, mailed, recorded, counts>> /\ requests' = requests - 1
  BY DEF SkipRun, otherVars, subVars
<1>3. requests \in Nat /\ requests > 0
  <2>1. {v \in Workers : Running(v)} = {}
    BY <1>1
  <2> QED
    BY <2>1, FS_EmptySet DEF SkipRun, IssueInv, IssueTypeOK
<1>4. requests' \in Nat /\ requests' <= requests
  BY <1>2, <1>3
<1>5. IssueTypeOK'
  BY <1>2, <1>4 DEF IssueInv, IssueTypeOK
<1>6. RunAlone' /\ HeldIsActive' /\ SentWasMailed'
  BY <1>1, <1>2 DEF IssueInv, RunAlone, HeldIsActive, SentWasMailed, Running
<1>7. NothingEarly' /\ MailedContent' /\ CountsAddUp'
  BY <1>2, <1>3, <1>4 DEF IssueInv, NothingEarly, MailedContent, CountsAddUp
<1> QED
  BY <1>5, <1>6, <1>7 DEF IssueInv

(* A run goes on: it claims, or it delivers to one subscriber.             *)
LEMMA RunGoesOn ==
  ASSUME IssueInv, NEW w \in Workers, Running(w), NEW d \in OpenRun, run' = [run EXCEPT ![w] = d],
         UNCHANGED <<otherVars, status, requests, deliv, counts>>, recorded' \subseteq Subs,
         d.body = run[w].body, d.claimed \subseteq d.held, \A s \in d.held : sub[s] = "active" /\ s \notin subTx,
         mails' \in [Subs -> 0..MaxSends], \A s \in Subs : mails[s] <= mails'[s],
         mailed' = mailed \/ mailed' = mailed \cup {content},
         mailed' = mailed => mails' = mails \/ mailed # {},
         \A s \in Subs : d.d[s].st = "sent" => mails'[s] > 0
  PROVE  IssueInv'
<1> USE IssueAssumption
<1>1. UNCHANGED <<now, sendAt, content, sub, subTx, changes, seen, released, status, requests, deliv, counts>>
  BY DEF otherVars, subVars
<1>2. run \in [Workers -> OpenRun \cup {NoRun}] /\ mails \in [Subs -> 0..MaxSends] /\ content \in Contents
  BY DEF IssueInv, IssueTypeOK
<1>3. /\ run' \in [Workers -> OpenRun \cup {NoRun}] /\ run'[w] = d /\ \A v \in Workers \ {w} : run'[v] = run[v]
      /\ d # NoRun
  BY <1>2 DEF OpenRun, NoRun
<1>4. IssueTypeOK'
  BY <1>1, <1>2, <1>3 DEF IssueInv, IssueTypeOK
<1>5. status = "queued" /\ \A v \in Workers : Running(v) => v = w
  BY DEF IssueInv, RunAlone
<1>6. RunAlone'
  BY <1>1, <1>3, <1>5 DEF IssueInv, RunAlone, Running
<1>7. NothingEarly' /\ CountsAddUp'
  BY <1>1, <1>5 DEF IssueInv, NothingEarly, CountsAddUp, Early
<1>8. MailedContent'
  BY <1>1, <1>2 DEF IssueInv, MailedContent
<1>9. HeldIsActive'
  BY <1>1, <1>3, <1>5 DEF HeldIsActive, Running
<1>10. SentWasMailed'
  <2>1. \A s \in Subs : mails[s] > 0 => mails'[s] > 0
    BY <1>2
  <2> QED
    BY <1>1, <1>3, <1>5, <2>1 DEF IssueInv, SentWasMailed, Running
<1> QED
  BY <1>4, <1>6, <1>7, <1>8, <1>9, <1>10 DEF IssueInv

LEMMA ClaimKeepsInv ==
  ASSUME IssueInv, NEW w \in Workers, ClaimRecipients(w)
  PROVE  IssueInv'
<1> USE IssueAssumption
<1>1. PICK e : e = run[w]
  OBVIOUS
<1>2. /\ Running(w) /\ UNCHANGED <<otherVars, status, requests, deliv, counts>> /\ UNCHANGED <<mails, mailed, recorded>>
  BY DEF ClaimRecipients
<1>3. e \in OpenRun /\ e.d \in [Subs -> DeliveryRow]
  BY <1>1, <1>2, RunIsTyped DEF IssueInv, OpenRun
<1>4. PICK batch \in SUBSET Candidates(w) :
         run' = [run EXCEPT ![w] = [run[w] EXCEPT !.pc = IF batch = {} THEN "finish" ELSE "deliver",
                                                  !.claimed = batch,
                                                  !.held = @ \cup batch,
                                                  !.d = [s \in Subs |-> IF s \in batch THEN Claimed(@[s]) ELSE @[s]]]]
  BY DEF ClaimRecipients
<1>5. \A s \in batch : s \in Subs /\ sub[s] = "active" /\ s \notin subTx
  BY <1>4 DEF Candidates
<1>6. PICK f : f = [s \in Subs |-> IF s \in batch THEN Claimed(e.d[s]) ELSE e.d[s]]
  OBVIOUS
<1>7. f \in [Subs -> DeliveryRow] /\ \A s \in Subs : f[s].st = "sent" => e.d[s].st = "sent"
  <2>1. ASSUME NEW x \in DeliveryRow PROVE Claimed(x) \in DeliveryRow /\ Claimed(x).st = "sending"
    <3>1. x.attempts \in Nat /\ x.attempts + 1 \in Nat
      BY DEF DeliveryRow
    <3>2. Claimed(x) = [x EXCEPT !.st = "sending", !.attempts = x.attempts + 1]
      BY DEF Claimed
    <3> QED
      BY <3>1, <3>2 DEF DeliveryRow
  <2> QED
    BY <1>3, <1>6, <2>1
<1>8. PICK d : d = [e EXCEPT !.pc = IF batch = {} THEN "finish" ELSE "deliver", !.claimed = batch,
                             !.held = e.held \cup batch, !.d = f]
  OBVIOUS
<1>9. d \in OpenRun /\ run' = [run EXCEPT ![w] = d]
  BY <1>1, <1>3, <1>4, <1>5, <1>6, <1>7, <1>8 DEF OpenRun
<1>10. d.body = e.body /\ d.claimed = batch /\ d.held = e.held \cup batch /\ d.d = f
  BY <1>3, <1>8 DEF OpenRun
<1>11. /\ \A s \in e.held : sub[s] = "active" /\ s \notin subTx
       /\ \A s \in Subs : e.d[s].st = "sent" => mails[s] > 0
       /\ mails \in [Subs -> 0..MaxSends] /\ recorded \subseteq Subs
  BY <1>1, <1>2 DEF IssueInv, HeldIsActive, SentWasMailed, IssueTypeOK
<1>12. /\ \A s \in d.held : sub[s] = "active" /\ s \notin subTx
       /\ d.claimed \subseteq d.held /\ recorded' \subseteq Subs /\ mails' \in [Subs -> 0..MaxSends]
       /\ \A s \in Subs : mails[s] <= mails'[s]
       /\ \A s \in Subs : d.d[s].st = "sent" => mails'[s] > 0
  BY <1>2, <1>5, <1>7, <1>10, <1>11
<1> QED
  BY <1>1, <1>2, <1>9, <1>10, <1>12, RunGoesOn

LEMMA DeliverKeepsInv ==
  ASSUME IssueInv, NEW w \in Workers, NEW s \in Subs, NEW outcome \in {"sent", "lost", "failed", "permanent"},
         Deliver(w, s, outcome)
  PROVE  IssueInv'
<1> USE IssueAssumption
<1>1. PICK e : e = run[w]
  OBVIOUS
<1>2. /\ Running(w) /\ UNCHANGED <<otherVars, status, requests, deliv, counts>> /\ s \in e.claimed
  BY <1>1 DEF Deliver
<1>3. /\ e \in OpenRun /\ e.d \in [Subs -> DeliveryRow] /\ e.d[s] \in DeliveryRow /\ e.body = content
      /\ e.claimed \subseteq Subs /\ e.tried \subseteq Subs
  BY <1>1, <1>2, RunIsTyped DEF IssueInv, OpenRun, RunAlone
<1>4. PICK h \in BOOLEAN : h = (outcome = "permanent")
  OBVIOUS
<1>5. PICK st \in {"sent", "failed"} : st = IF outcome = "sent" THEN "sent" ELSE "failed"
  OBVIOUS
<1>6. PICK x : x = [e.d[s] EXCEPT !.st = st, !.perm = h]
  OBVIOUS
<1>7. x \in DeliveryRow /\ x.st = st
  BY <1>3, <1>5, <1>6 DEF DeliveryRow
<1>8. PICK f : f = [e.d EXCEPT ![s] = x]
  OBVIOUS
<1>9. f \in [Subs -> DeliveryRow] /\ f[s] = x /\ \A y \in Subs \ {s} : f[y] = e.d[y]
  BY <1>3, <1>7, <1>8
<1>10. PICK tr \in SUBSET Subs : tr = IF outcome = "sent" THEN e.tried ELSE e.tried \cup {s}
  BY <1>3
<1>11. PICK c \in {"claim", "deliver"} : c = IF e.claimed = {s} THEN "claim" ELSE "deliver"
  OBVIOUS
<1>12. PICK d : d = [e EXCEPT !.claimed = e.claimed \ {s}, !.pc = c, !.tried = tr, !.d = f]
  OBVIOUS
<1>13. d \in OpenRun
  BY <1>3, <1>9, <1>12 DEF OpenRun
<1>14. run' = [run EXCEPT ![w] = d]
  <2>1. run' = [run EXCEPT ![w] = [run[w] EXCEPT !.claimed = @ \ {s},
                              !.pc = IF run[w].claimed = {s} THEN "claim" ELSE "deliver",
                              !.tried = IF outcome = "sent" THEN @ ELSE @ \cup {s},
                              !.d[s].st = IF outcome = "sent" THEN "sent" ELSE "failed",
                              !.d[s].perm = (outcome = "permanent")]]
    BY DEF Deliver
  <2>2. run' = [run EXCEPT ![w] = [e EXCEPT !.claimed = e.claimed \ {s}, !.pc = c, !.tried = tr,
                                           !.d[s].st = st, !.d[s].perm = h]]
    BY <1>1, <1>3, <1>4, <1>5, <1>10, <1>11, <2>1 DEF OpenRun
  <2>3. [e.d EXCEPT ![s].st = st, ![s].perm = h] = f
    BY <1>3, <1>6, <1>8 DEF DeliveryRow
  <2>4. [e EXCEPT !.claimed = e.claimed \ {s}, !.pc = c, !.tried = tr, !.d[s].st = st, !.d[s].perm = h] = d
    BY <1>3, <1>12, <2>3 DEF OpenRun
  <2> QED
    BY <2>2, <2>4
<1>15. d.body = content /\ d.claimed = e.claimed \ {s} /\ d.held = e.held /\ d.d = f
  BY <1>3, <1>12 DEF OpenRun
<1>16. /\ \A y \in e.held : sub[y] = "active" /\ y \notin subTx
       /\ e.claimed \subseteq e.held
       /\ \A y \in Subs : e.d[y].st = "sent" => mails[y] > 0
       /\ mails \in [Subs -> 0..MaxSends] /\ recorded \subseteq Subs
  BY <1>1, <1>2 DEF IssueInv, HeldIsActive, SentWasMailed, IssueTypeOK
<1>17. /\ mails' \in [Subs -> 0..MaxSends] /\ (\A y \in Subs : mails[y] <= mails'[y]) /\ recorded' \subseteq Subs
       /\ outcome = "sent" => mails'[s] > 0
  BY <1>16 DEF Deliver
<1>18. /\ mailed' = mailed \/ mailed' = mailed \cup {content}
       /\ mailed' = mailed => mails' = mails \/ mailed # {}
  <2>1. CASE outcome \in {"sent", "lost"}
    BY <1>1, <1>3, <2>1 DEF Deliver
  <2>2. CASE outcome \notin {"sent", "lost"}
    BY <1>16, <2>2 DEF Deliver
  <2> QED
    BY <2>1, <2>2
<1>19. \A y \in Subs : d.d[y].st = "sent" => mails'[y] > 0
  BY <1>5, <1>7, <1>9, <1>15, <1>16, <1>17
<1>20. d.claimed \subseteq d.held /\ \A y \in d.held : sub[y] = "active" /\ y \notin subTx
  BY <1>15, <1>16
<1>21. d.body = run[w].body
  BY <1>1, <1>3, <1>15
<1> QED
  BY <1>2, <1>13, <1>14, <1>17, <1>18, <1>19, <1>20, <1>21, RunGoesOn

(* A run ends: with nothing to retry it commits what it did, otherwise     *)
(* nothing of it is stored.                                                *)
LEMMA RunEnds ==
  ASSUME IssueInv, NEW w \in Workers, Running(w), run' = [run EXCEPT ![w] = NoRun],
         UNCHANGED <<otherVars, mails, mailed, recorded>>, requests' \in {requests, requests - 1},
         \/ UNCHANGED <<status, deliv, counts>>
         \/ /\ status' = "sent" /\ deliv' = run[w].d /\ counts' \in [sent : Nat, failed : Nat]
            /\ counts'.sent = Cardinality({s \in Subs : deliv'[s].st = "sent"})
            /\ counts'.sent + counts'.failed = Cardinality({s \in Subs : deliv'[s].st # "none"})
  PROVE  IssueInv'
<1> USE IssueAssumption
<1>1. UNCHANGED <<now, sendAt, content, sub, subTx, changes, seen, released>>
  BY DEF otherVars, subVars
<1>2. /\ run \in [Workers -> OpenRun \cup {NoRun}] /\ run[w] \in OpenRun /\ status = "queued" /\ requests = 1
      /\ \A v \in Workers : Running(v) => v = w
  BY RunIsTyped DEF IssueInv, IssueTypeOK, RunAlone
<1>3. run' \in [Workers -> OpenRun \cup {NoRun}] /\ \A v \in Workers : run'[v] = NoRun
  BY <1>2 DEF Running
<1>4. requests' \in Nat /\ requests' <= 1
  BY <1>2
<1>5. deliv' \in [Subs -> DeliveryRow] /\ status' \in {"queued", "sent"} /\ counts' \in [sent : Nat, failed : Nat]
  BY <1>2 DEF IssueInv, IssueTypeOK, OpenRun
<1>6. IssueTypeOK'
  BY <1>1, <1>3, <1>4, <1>5 DEF IssueInv, IssueTypeOK, IssueStatus
<1>7. RunAlone' /\ HeldIsActive'
  BY <1>3 DEF RunAlone, HeldIsActive, Running
<1>8. NothingEarly' /\ MailedContent'
  BY <1>1, <1>4, <1>5 DEF IssueInv, NothingEarly, MailedContent, Early
<1>9. SentWasMailed'
  BY <1>3 DEF IssueInv, SentWasMailed, Running
<1>10. CountsAddUp'
  BY <1>2 DEF CountsAddUp
<1> QED
  BY <1>6, <1>7, <1>8, <1>9, <1>10 DEF IssueInv

LEMMA FinishKeepsInv ==
  ASSUME IssueInv, NEW w \in Workers, FinishIssue(w)
  PROVE  IssueInv'
<1> USE IssueAssumption
<1>1. PICK d : d = run[w].d
  OBVIOUS
<1>2. /\ Running(w) /\ Retryable(d) = {} /\ status' = "sent" /\ deliv' = d /\ run' = [run EXCEPT ![w] = NoRun]
      /\ requests' = requests - 1 /\ UNCHANGED <<otherVars, mails, mailed, recorded>>
      /\ counts' = [sent |-> Cardinality(SentRows(d)), failed |-> Cardinality(FailedRows(d))]
  BY <1>1 DEF FinishIssue
<1>3. /\ IsFiniteSet(SentRows(d)) /\ IsFiniteSet(FailedRows(d))
      /\ Cardinality(SentRows(d)) \in Nat /\ Cardinality(FailedRows(d)) \in Nat
  <2>1. SentRows(d) \subseteq Subs /\ FailedRows(d) \subseteq Subs
    BY DEF SentRows, FailedRows
  <2> QED
    BY <2>1, FS_Subset, FS_CardinalityType
<1>4. SentRows(d) \cap FailedRows(d) = {} /\ SentRows(d) \cup FailedRows(d) = {s \in Subs : d[s].st # "none"}
  BY <1>2 DEF SentRows, FailedRows
<1>5. Cardinality(SentRows(d)) + Cardinality(FailedRows(d)) = Cardinality({s \in Subs : d[s].st # "none"})
  <2>1. Cardinality(SentRows(d) \cup FailedRows(d))
          = Cardinality(SentRows(d)) + Cardinality(FailedRows(d)) - Cardinality(SentRows(d) \cap FailedRows(d))
    BY <1>3, FS_Union
  <2>2. Cardinality(SentRows(d) \cap FailedRows(d)) = 0
    BY <1>4, FS_EmptySet
  <2>3. Cardinality(SentRows(d) \cup FailedRows(d)) = Cardinality(SentRows(d)) + Cardinality(FailedRows(d))
    BY <1>3, <2>1, <2>2
  <2> QED
    BY <1>4, <2>3, Zenon
<1>6. counts'.sent = Cardinality(SentRows(d)) /\ counts'.failed = Cardinality(FailedRows(d))
      /\ counts' \in [sent : Nat, failed : Nat]
  BY <1>2, <1>3
<1>7. SentRows(d) = {s \in Subs : d[s].st = "sent"}
  BY DEF SentRows
<1>8. /\ counts'.sent = Cardinality({s \in Subs : deliv'[s].st = "sent"})
      /\ counts'.sent + counts'.failed = Cardinality({s \in Subs : deliv'[s].st # "none"})
  BY <1>2, <1>5, <1>6, <1>7
<1> QED
  BY <1>1, <1>2, <1>6, <1>8, RunEnds

LEMMA RollbackKeepsInv ==
  ASSUME IssueInv, NEW w \in Workers, Running(w), Rollback(w)
  PROVE  IssueInv'
BY RunEnds DEF Rollback

LEMMA IssueNextInv == IssueInv /\ [IssueNext]_newsletterVars => IssueInv'
<1> SUFFICES ASSUME IssueInv, [IssueNext]_newsletterVars PROVE IssueInv'
  OBVIOUS
<1>1. CASE UNCHANGED newsletterVars
  BY <1>1 DEF newsletterVars, issueVars, subVars, dispatchVars, IssueInv, IssueTypeOK, RunAlone, NothingEarly,
              MailedContent, HeldIsActive, SentWasMailed, CountsAddUp, Running
<1>2. CASE \/ \E to \in IssueStatus : CreateIssue(to)
           \/ \E e \in Editors : ReadIssue(e) \/ RequestFails(e)
           \/ \E e \in Editors, to \in IssueStatus : SaveEdit(e, to) \/ SaveMove(e, to)
           \/ DueIssues \/ ReleaseDue \/ Tick
  BY <1>2, EditorsKeepInv
<1>3. CASE \E s \in Subs : SubscriberTxBegin(s) \/ SubscriberTxEnd(s)
  BY <1>3, SubscribersKeepInv
<1>4. ASSUME NEW w \in Workers, DispatchStep(w) \/ AbortRun(w) PROVE IssueInv'
  <2>1. CASE Begin(w) \/ SkipRun(w)
    BY <2>1, BeginKeepsInv, SkipKeepsInv
  <2>2. CASE ClaimRecipients(w)
    BY <2>2, ClaimKeepsInv
  <2>3. CASE \E s \in Subs, outcome \in {"sent", "lost", "failed", "permanent"} : Deliver(w, s, outcome)
    BY <2>3, DeliverKeepsInv
  <2>4. CASE FinishIssue(w)
    BY <2>4, FinishKeepsInv
  <2>5. CASE DeliveriesPending(w) \/ AbortRun(w)
    BY <2>5, RollbackKeepsInv DEF DeliveriesPending, AbortRun
  <2> QED
    BY <1>4, <2>1, <2>2, <2>3, <2>4, <2>5 DEF DispatchStep
<1> QED
  BY <1>1, <1>2, <1>3, <1>4 DEF IssueNext

LEMMA IssueAlwaysInv == IssueSpec => []IssueInv
BY IssueInitInv, IssueNextInv, PTL DEF IssueSpec

(* An issue is handed to the worker once, everybody gets the same content, *)
(* and the counts of a sent issue account for its deliveries (ReleaseDue,  *)
(* saveIssue, FinishIssue).                                                *)
THEOREM IssueIsSound == IssueSpec => []IssueInvariant
<1>1. IssueInv => IssueInvariant
  <2> SUFFICES ASSUME IssueInv PROVE IssueInvariant
    OBVIOUS
  <2>1. SentCountsAddUp
    BY DEF IssueInv, SentCountsAddUp, CountsAddUp, SentWasMailed
  <2>2. OneContentMailed
    BY DEF IssueInv, OneContentMailed, MailedContent
  <2> QED
    BY <2>1, <2>2 DEF IssueInv, IssueInvariant, RequestedOnce, NothingEarly
<1> QED
  BY <1>1, IssueAlwaysInv, PTL

(* A delivery is to a subscriber the run holds, of an issue that is still  *)
(* queued.                                                                 *)
LEMMA MailStep ==
  ASSUME IssueInv, [IssueNext]_newsletterVars
  PROVE  \/ UNCHANGED mails
         \/ /\ status = "queued"
            /\ \A s \in Subs : mails'[s] # mails[s] => sub[s] = "active" /\ s \notin subTx
<1>1. CASE UNCHANGED newsletterVars
  BY <1>1 DEF newsletterVars, dispatchVars
<1>2. CASE \/ \E to \in IssueStatus : CreateIssue(to)
           \/ \E e \in Editors : ReadIssue(e) \/ RequestFails(e)
           \/ \E e \in Editors, to \in IssueStatus : SaveEdit(e, to) \/ SaveMove(e, to)
           \/ DueIssues \/ ReleaseDue \/ Tick
           \/ \E s \in Subs : SubscriberTxBegin(s) \/ SubscriberTxEnd(s)
  BY <1>2 DEF CreateIssue, ReadIssue, RequestFails, SaveEdit, SaveMove, DueIssues, ReleaseDue, Tick,
              SubscriberTxBegin, SubscriberTxEnd, dispatchVars
<1>3. ASSUME NEW w \in Workers, DispatchStep(w) \/ AbortRun(w),
             ~ \E s \in Subs, outcome \in {"sent", "lost", "failed", "permanent"} : Deliver(w, s, outcome)
      PROVE  UNCHANGED mails
  BY <1>3 DEF DispatchStep, AbortRun, Begin, SkipRun, ClaimRecipients, FinishIssue, DeliveriesPending, Rollback
<1>4. ASSUME NEW w \in Workers, NEW s \in Subs, NEW outcome \in {"sent", "lost", "failed", "permanent"},
             Deliver(w, s, outcome)
      PROVE  /\ status = "queued"
             /\ \A x \in Subs : mails'[x] # mails[x] => sub[x] = "active" /\ x \notin subTx
  <2>1. Running(w) /\ s \in run[w].claimed /\ \A x \in Subs : mails'[x] # mails[x] => x = s
    BY <1>4 DEF Deliver, IssueInv, IssueTypeOK
  <2> QED
    BY <2>1 DEF IssueInv, RunAlone, HeldIsActive
<1> QED
  BY <1>1, <1>2, <1>3, <1>4 DEF IssueNext

LEMMA LifecycleStep ==
  ASSUME IssueInv, [IssueNext]_newsletterVars, status' # status
  PROVE  \/ status = "none"
         \/ CanMove(status, status')
         \/ status \in {"queued", "sending"} /\ status' = "sent"
<1>1. CASE UNCHANGED newsletterVars
  BY <1>1 DEF newsletterVars, issueVars
<1>2. CASE \E to \in IssueStatus : CreateIssue(to)
  BY <1>2 DEF CreateIssue
<1>3. CASE \E e \in Editors : ReadIssue(e) \/ RequestFails(e)
  BY <1>3 DEF ReadIssue, RequestFails, issueVars
<1>4. CASE \E e \in Editors, to \in IssueStatus : SaveEdit(e, to) \/ SaveMove(e, to)
  BY <1>4 DEF SaveEdit, SaveMove, StillAsRead
<1>5. CASE DueIssues \/ ReleaseDue \/ Tick
  BY <1>5 DEF DueIssues, ReleaseDue, Tick, issueVars, CanMove, Transitions
<1>6. CASE \E s \in Subs : SubscriberTxBegin(s) \/ SubscriberTxEnd(s)
  BY <1>6 DEF SubscriberTxBegin, SubscriberTxEnd, issueVars
<1>7. ASSUME NEW w \in Workers, DispatchStep(w) \/ AbortRun(w)
      PROVE  status \in {"queued", "sending"} /\ status' = "sent"
  <2>1. FinishIssue(w)
    BY <1>7 DEF DispatchStep, AbortRun, Begin, SkipRun, ClaimRecipients, Deliver, DeliveriesPending, Rollback
  <2> QED
    BY <2>1 DEF FinishIssue, IssueInv, RunAlone
<1> QED
  BY <1>1, <1>2, <1>3, <1>4, <1>5, <1>6, <1>7 DEF IssueNext

(* Nobody who has left is mailed, nobody is mailed a cancelled issue, and  *)
(* the status follows the life cycle (ClaimRecipients, MoveIssue,          *)
(* FinishIssue).                                                           *)
THEOREM IssueStepsAreSafe == IssueSpec => IssueSteps
<1>1. IssueInv /\ [IssueNext]_newsletterVars =>
        [\A s \in Subs : mails'[s] # mails[s] => sub[s] = "active" /\ s \notin subTx]_newsletterVars
  BY MailStep
<1>2. IssueInv /\ [IssueNext]_newsletterVars => [status = "cancelled" => UNCHANGED mails]_newsletterVars
  BY MailStep
<1>3. IssueInv /\ [IssueNext]_newsletterVars =>
        [status' # status =>
           \/ status = "none"
           \/ CanMove(status, status')
           \/ status \in {"queued", "sending"} /\ status' = "sent"]_newsletterVars
  BY LifecycleStep
<1> QED
  BY <1>1, <1>2, <1>3, IssueAlwaysInv, PTL DEF IssueSpec, IssueSteps, MailsOnlyActive, CancelStopsMail, LifecycleRespected

-----------------------------------------------------------------------------
(* Notifications.  Between its insert and the streams a row is in one      *)
(* place: with the worker that made it, on the bus, or offered.  What a    *)
(* stream has written, holds and queues was offered to it, and the three   *)
(* are apart.  late holds only rows that no stream had been offered when   *)
(* the session ended.  A delivery has a number of its own, so the rows it  *)
(* is still to insert are new; and whom it has told has a row of its own   *)
(* or a committed one.                                                     *)

Told(q) == {q[i] : i \in DOMAIN q}
Apart(q) == \A i, j \in DOMAIN q : q[i] = q[j] => i = j
HeldCount(s) == IF s.held = NoNotice THEN 0 ELSE 1
Stored == inbox \cup undone

(* A stream, with the rows stored and those stored late.                   *)
StreamSound(s, box, lates) ==
  /\ Apart(s.offered) /\ Told(s.offered) \subseteq box
  /\ Apart(s.queue) /\ Told(s.queue) \subseteq Told(s.offered)
  /\ s.written \subseteq Told(s.offered) \ Told(s.queue) /\ IsFiniteSet(s.written)
  /\ s.held # NoNotice => s.held \in Told(s.offered) /\ s.held \notin Told(s.queue) /\ s.held \notin s.written
  /\ Len(s.offered) = Cardinality(s.written) + HeldCount(s) + Len(s.queue) + s.dropped + s.reported
  /\ s.pc \in {"closed", "verified"} => s.offered = <<>>
  /\ s.pc = "select" => s.held = NoNotice
  /\ s.imp => s.written \cap lates = {} /\ (s.pc = "frame" => s.held \notin lates)

FreshIsAlone ==
  \A w \in NoteWorkers : deliverer[w].fresh # NoUser =>
    LET n == RowOf(deliverer[w], deliverer[w].fresh) IN
    /\ n \in Stored /\ n \notin Told(bus)
    /\ \A k \in Streams : n \notin Told(stream[k].offered)

BusIsAlone ==
  /\ Apart(bus) /\ Told(bus) \subseteq Stored
  /\ \A k \in Streams : Told(bus) \cap Told(stream[k].offered) = {}

DeliverySound(d, cps, rows) ==
  /\ d.event = NoEvent => d = NoDelivery
  /\ d.event # NoEvent => d.message \in 1..MaxCopies /\ d.copy \in 1..cps[d.event]
  /\ d.pc # "handle" => d.todo = {} /\ d.fresh = NoUser /\ d.failed = FALSE
  /\ d.pc = "claim" => d.told = {}
  /\ \A u \in NoteUsers : d.pc = "claim" \/ u \in d.todo => RowOf(d, u) \notin rows

DeliveriesSound == \A w \in NoteWorkers : DeliverySound(deliverer[w], copies, Stored)
DeliveriesApart ==
  \A v, w \in NoteWorkers :
    v # w /\ deliverer[v].event = deliverer[w].event /\ deliverer[v].event # NoEvent
      => deliverer[v].copy # deliverer[w].copy

RowsNumbered == \A r \in Stored : r[3] <= copies[r[1]]
OneRow == \A r, s \in inbox : r[1] = s[1] /\ r[2] = s[2] => r = s

(* With the rows and the deliveries there are: a row of an open delivery,  *)
(* one that is d's or committed, and one for everybody d has told.         *)
InOpen(r, dls) == \E v \in NoteWorkers : dls[v].pc = "handle" /\ r[1] = dls[v].event /\ r[3] = dls[v].copy
HasRow(d, u, box, dls) ==
  \E r \in box : r[1] = d.event /\ r[2] = u /\ (InOpen(r, dls) => d.pc = "handle" /\ r[3] = d.copy)
ToldHave(d, box, dls) ==
  d.pc \in {"handle", "ack"} /\ d.failed = FALSE => \A u \in d.told \ d.todo : HasRow(d, u, box, dls)
ToldHaveRows == \A w \in NoteWorkers : ToldHave(deliverer[w], inbox, deliverer)

StreamsSound == \A k \in Streams : StreamSound(stream[k], Stored, late)

NoteInv ==
  /\ NotificationsTypeOK /\ FreshIsAlone /\ BusIsAlone /\ StreamsSound
  /\ DeliveriesSound /\ DeliveriesApart /\ RowsNumbered /\ OneRow /\ ToldHaveRows
  /\ impActive => late = {}

LEMMA NoteTypes ==
  /\ NoNotice \notin NoticeRow /\ NoDelivery \in Delivery /\ NoStream \in StreamRow
  /\ \A d \in Delivery, u \in NoteUsers : d.event # NoEvent /\ d.copy # 0 => RowOf(d, u) \in NoticeRow
<1>1. NoNotice \notin NoticeRow
  BY NotificationBounds DEF NoNotice, NoticeRow
<1>2. NoDelivery \in Delivery
  BY NotificationBounds DEF NoDelivery, Delivery
<1>3. NoStream \in StreamRow
  BY DEF NoStream, StreamRow
<1>4. \A d \in Delivery, u \in NoteUsers : d.event # NoEvent /\ d.copy # 0 => RowOf(d, u) \in NoticeRow
  BY NotificationBounds DEF Delivery, RowOf, NoticeRow
<1> QED
  BY <1>1, <1>2, <1>3, <1>4

LEMMA ToldAppend ==
  ASSUME NEW q \in Seq(NoticeRow), NEW n \in NoticeRow
  PROVE  /\ Append(q, n) \in Seq(NoticeRow) /\ Told(Append(q, n)) = Told(q) \cup {n} /\ Len(Append(q, n)) = Len(q) + 1
         /\ Apart(q) /\ n \notin Told(q) => Apart(Append(q, n))
<1>1. PICK a : a = Append(q, n)
  OBVIOUS
<1>2. /\ a \in Seq(NoticeRow) /\ Len(a) = Len(q) + 1 /\ DOMAIN a = 1..Len(q) + 1 /\ DOMAIN q = 1..Len(q) /\ Len(q) \in Nat
      /\ a[Len(q) + 1] = n /\ \A i \in 1..Len(q) : a[i] = q[i]
  BY <1>1
<1>3. Told(a) = Told(q) \cup {n}
  BY <1>2 DEF Told
<1>4. Apart(q) /\ n \notin Told(q) => Apart(a)
  BY <1>2 DEF Apart, Told
<1> QED
  BY <1>1, <1>2, <1>3, <1>4

LEMMA ToldTail ==
  ASSUME NEW q \in Seq(NoticeRow), q # <<>>
  PROVE  /\ Head(q) \in NoticeRow /\ Head(q) \in Told(q) /\ Tail(q) \in Seq(NoticeRow) /\ Len(Tail(q)) = Len(q) - 1
         /\ Told(Tail(q)) \subseteq Told(q)
         /\ Apart(q) => Apart(Tail(q)) /\ Head(q) \notin Told(Tail(q))
<1>1. PICK t : t = Tail(q)
  OBVIOUS
<1>2. /\ t \in Seq(NoticeRow) /\ Len(t) = Len(q) - 1 /\ DOMAIN t = 1..Len(q) - 1 /\ DOMAIN q = 1..Len(q) /\ Len(q) \in Nat \ {0}
      /\ Head(q) = q[1] /\ \A i \in 1..Len(q) - 1 : t[i] = q[i + 1]
  BY <1>1
<1>3. Head(q) \in NoticeRow /\ Head(q) \in Told(q)
  BY <1>2 DEF Told
<1>4. Told(t) \subseteq Told(q)
  BY <1>2 DEF Told
<1>5. ASSUME Apart(q) PROVE Apart(t) /\ Head(q) \notin Told(t)
  <2>1. Apart(t)
    <3> SUFFICES ASSUME NEW i \in DOMAIN t, NEW j \in DOMAIN t, t[i] = t[j] PROVE i = j
      BY DEF Apart
    <3>1. i + 1 \in DOMAIN q /\ j + 1 \in DOMAIN q /\ q[i + 1] = q[j + 1]
      BY <1>2
    <3>2. i + 1 = j + 1
      BY <1>5, <3>1 DEF Apart
    <3> QED
      BY <1>2, <3>2
  <2>2. Head(q) \notin Told(t)
    BY <1>2, <1>5 DEF Apart, Told
  <2> QED
    BY <2>1, <2>2
<1> QED
  BY <1>1, <1>2, <1>3, <1>4, <1>5

LEMMA NoStreamSound == ASSUME NEW B, NEW L PROVE StreamSound(NoStream, B, L) /\ Told(NoStream.offered) = {}
<1>1. /\ NoStream.offered = <<>> /\ NoStream.queue = <<>> /\ NoStream.written = {} /\ NoStream.held = NoNotice
      /\ NoStream.dropped = 0 /\ NoStream.reported = 0 /\ NoStream.imp = FALSE /\ NoStream.pc = "closed"
  BY DEF NoStream
<1>2. Told(<<>>) = {} /\ Apart(<<>>) /\ Len(<<>>) = 0
  BY DEF Told, Apart
<1>3. IsFiniteSet({}) /\ Cardinality({}) = 0
  BY FS_EmptySet
<1> QED
  BY <1>1, <1>2, <1>3 DEF StreamSound, HeldCount

LEMMA NotificationsInitInv == NotificationsInit => NoteInv
<1> SUFFICES ASSUME NotificationsInit PROVE NoteInv
  OBVIOUS
<1>1. /\ copies \in [NoteEvents -> 0..MaxCopies] /\ noteFaults \in 0..MaxNoteFaults /\ opens \in 0..MaxOpens
  BY NotificationBounds DEF NotificationsInit
<1>2. deliverer \in [NoteWorkers -> Delivery] /\ stream \in [Streams -> StreamRow]
  BY NoteTypes DEF NotificationsInit
<1>3. /\ sent \subseteq Command /\ claims \subseteq Command /\ inbox = {} /\ undone = {} /\ late = {} /\ bus = <<>>
      /\ bus \in Seq(NoticeRow)
  BY DEF NotificationsInit
<1>4. {hubClosed, impActive} \subseteq BOOLEAN
  <2>1. hubClosed = FALSE /\ impActive = TRUE
    BY DEF NotificationsInit
  <2> QED
    BY <2>1
<1>5. NotificationsTypeOK
  BY <1>1, <1>2, <1>3, <1>4 DEF NotificationsTypeOK
<1>6. \A w \in NoteWorkers : deliverer[w] = NoDelivery
  BY DEF NotificationsInit
<1>7. /\ NoDelivery.fresh = NoUser /\ NoDelivery.event = NoEvent /\ NoDelivery.pc = "idle" /\ NoDelivery.todo = {}
      /\ NoDelivery.failed = FALSE
  BY DEF NoDelivery
<1>8. FreshIsAlone /\ DeliveriesSound /\ DeliveriesApart /\ ToldHaveRows
  BY <1>3, <1>6, <1>7 DEF FreshIsAlone, DeliveriesSound, DeliverySound, DeliveriesApart, ToldHaveRows, ToldHave, Stored
<1>9. RowsNumbered /\ OneRow
  BY <1>3 DEF RowsNumbered, OneRow, Stored
<1>10. BusIsAlone /\ StreamsSound
  BY <1>3, NoStreamSound DEF NotificationsInit, BusIsAlone, StreamsSound, Apart, Told
<1> QED
  BY <1>3, <1>5, <1>8, <1>9, <1>10 DEF NoteInv

(* A row stored anew changes nothing for what was offered before.          *)
LEMMA BoxGrows ==
  ASSUME NEW s, NEW B, NEW L, NEW B2, NEW L2, StreamSound(s, B, L), B \subseteq B2, L2 \cap B \subseteq L,
         NoNotice \notin L2
  PROVE  StreamSound(s, B2, L2)
<1>1. Told(s.offered) \subseteq B2
  BY DEF StreamSound
<1>2. s.imp => s.written \cap L2 = {}
  BY DEF StreamSound
<1>3. s.imp /\ s.pc = "frame" => s.held \notin L2
  BY DEF StreamSound
<1> QED
  BY <1>1, <1>2, <1>3 DEF StreamSound

LEMMA OfferSound ==
  ASSUME NEW s \in StreamRow, NEW B, NEW L, StreamSound(s, B, L), NEW n \in NoticeRow, n \in B, n \notin Told(s.offered),
         s.pc \in {"select", "check", "frame"}
  PROVE  /\ Offered(s, n) \in StreamRow /\ StreamSound(Offered(s, n), B, L)
         /\ Told(Offered(s, n).offered) = Told(s.offered) \cup {n}
<1>1. PICK o : o = Append(s.offered, n)
  OBVIOUS
<1>2. PICK p : p = Append(s.queue, n)
  OBVIOUS
<1>3. s.offered \in Seq(NoticeRow) /\ s.queue \in Seq(NoticeRow) /\ s.dropped \in Nat /\ s.reported \in Nat
  BY DEF StreamRow
<1>4. o \in Seq(NoticeRow) /\ Told(o) = Told(s.offered) \cup {n} /\ Len(o) = Len(s.offered) + 1 /\ Apart(o)
  BY <1>1, <1>3, ToldAppend DEF StreamSound
<1>5. n \notin Told(s.queue) /\ n \notin s.written /\ (s.held # NoNotice => s.held # n)
  BY DEF StreamSound
<1>6. p \in Seq(NoticeRow) /\ Told(p) = Told(s.queue) \cup {n} /\ Len(p) = Len(s.queue) + 1 /\ Apart(p)
  BY <1>2, <1>3, <1>5, ToldAppend DEF StreamSound
<1>7. /\ IsFiniteSet(s.written) /\ Cardinality(s.written) \in Nat /\ HeldCount(s) \in Nat
      /\ Len(s.offered) \in Nat /\ Len(s.queue) \in Nat
  BY <1>3, FS_CardinalityType DEF StreamSound, HeldCount
<1>8. CASE Len(s.queue) < Buffer
  <2>1. PICK d : d = [s EXCEPT !.offered = o, !.queue = p]
    OBVIOUS
  <2>2. Offered(s, n) = d
    BY <1>1, <1>2, <1>8, <2>1 DEF Offered, StreamRow
  <2>3. d \in StreamRow
    BY <1>4, <1>6, <2>1 DEF StreamRow
  <2>4. /\ d.offered = o /\ d.queue = p /\ d.written = s.written /\ d.held = s.held /\ d.dropped = s.dropped
        /\ d.reported = s.reported /\ d.pc = s.pc /\ d.imp = s.imp
    BY <2>1 DEF StreamRow
  <2>5. Len(o) = Cardinality(d.written) + HeldCount(d) + Len(p) + d.dropped + d.reported
    <3>1. HeldCount(d) = HeldCount(s)
      BY <2>4 DEF HeldCount
    <3>2. Len(s.offered) = Cardinality(s.written) + HeldCount(s) + Len(s.queue) + s.dropped + s.reported
      BY DEF StreamSound
    <3>3. Len(s.offered) + 1 = Cardinality(s.written) + HeldCount(s) + (Len(s.queue) + 1) + s.dropped + s.reported
      BY <1>3, <1>7, <3>2
    <3> QED
      BY <1>4, <1>6, <2>4, <3>1, <3>3
  <2>6. StreamSound(d, B, L)
    BY <1>4, <1>5, <1>6, <2>4, <2>5 DEF StreamSound
  <2> QED
    BY <1>4, <2>2, <2>3, <2>4, <2>6
<1>9. CASE ~(Len(s.queue) < Buffer)
  <2>1. PICK d : d = [s EXCEPT !.offered = o, !.dropped = s.dropped + 1]
    OBVIOUS
  <2>2. Offered(s, n) = d
    BY <1>1, <1>9, <2>1 DEF Offered, Dropped, StreamRow
  <2>3. d \in StreamRow
    <3>1. s.dropped + 1 \in Nat
      BY <1>3
    <3> QED
      BY <1>4, <2>1, <3>1 DEF StreamRow
  <2>4. /\ d.offered = o /\ d.queue = s.queue /\ d.written = s.written /\ d.held = s.held /\ d.dropped = s.dropped + 1
        /\ d.reported = s.reported /\ d.pc = s.pc /\ d.imp = s.imp
    BY <2>1 DEF StreamRow
  <2>5. Len(o) = Cardinality(d.written) + HeldCount(d) + Len(d.queue) + d.dropped + d.reported
    <3>1. HeldCount(d) = HeldCount(s)
      BY <2>4 DEF HeldCount
    <3>2. Len(s.offered) = Cardinality(s.written) + HeldCount(s) + Len(s.queue) + s.dropped + s.reported
      BY DEF StreamSound
    <3>3. Len(s.offered) + 1 = Cardinality(s.written) + HeldCount(s) + Len(s.queue) + (s.dropped + 1) + s.reported
      <4>1. PICK a \in Nat, b \in Nat, x \in Nat, y \in Nat, z \in Nat, v \in Nat :
              /\ a = Len(s.offered) /\ b = Cardinality(s.written) /\ x = HeldCount(s)
              /\ y = Len(s.queue) /\ z = s.dropped /\ v = s.reported
        BY <1>3, <1>7
      <4>2. a = b + x + y + z + v
        BY <3>2, <4>1
      <4>3. a + 1 = b + x + y + (z + 1) + v
        BY <4>2
      <4> QED
        BY <4>1, <4>3
    <3> QED
      BY <1>4, <2>4, <3>1, <3>3
  <2>6. StreamSound(d, B, L)
    BY <1>4, <1>5, <2>4, <2>5 DEF StreamSound
  <2> QED
    BY <1>4, <2>2, <2>3, <2>4, <2>6
<1> QED
  BY <1>8, <1>9

LEMMA TakeSound ==
  ASSUME NEW s \in StreamRow, NEW B, NEW L, StreamSound(s, B, L), s.pc = "select", s.queue # <<>>
  PROVE  LET d == [s EXCEPT !.pc = "check", !.held = Head(s.queue), !.queue = Tail(@)]
         IN  d \in StreamRow /\ StreamSound(d, B, L) /\ d.offered = s.offered
<1>1. PICK h, t : h = Head(s.queue) /\ t = Tail(s.queue)
  OBVIOUS
<1>2. s.queue \in Seq(NoticeRow) /\ s.offered \in Seq(NoticeRow) /\ s.dropped \in Nat /\ s.reported \in Nat
  BY DEF StreamRow
<1>3. /\ h \in NoticeRow /\ h \in Told(s.queue) /\ t \in Seq(NoticeRow) /\ Len(t) = Len(s.queue) - 1
      /\ Told(t) \subseteq Told(s.queue) /\ Apart(t) /\ h \notin Told(t)
  BY <1>1, <1>2, ToldTail DEF StreamSound
<1>4. PICK d : d = [s EXCEPT !.pc = "check", !.held = h, !.queue = t]
  OBVIOUS
<1>5. d = [s EXCEPT !.pc = "check", !.held = Head(s.queue), !.queue = Tail(@)]
  BY <1>1, <1>4 DEF StreamRow
<1>6. d \in StreamRow
  BY <1>3, <1>4 DEF StreamRow
<1>7. /\ d.offered = s.offered /\ d.queue = t /\ d.written = s.written /\ d.held = h /\ d.dropped = s.dropped
      /\ d.reported = s.reported /\ d.pc = "check" /\ d.imp = s.imp
  BY <1>4 DEF StreamRow
<1>8. Len(d.offered) = Cardinality(d.written) + HeldCount(d) + Len(d.queue) + d.dropped + d.reported
  <2>1. HeldCount(d) = 1 /\ HeldCount(s) = 0
    BY <1>3, <1>7, NoteTypes DEF HeldCount, StreamSound
  <2>2. Len(s.offered) = Cardinality(s.written) + HeldCount(s) + Len(s.queue) + s.dropped + s.reported
    BY DEF StreamSound
  <2>3. Cardinality(s.written) \in Nat /\ Len(s.queue) \in Nat /\ Len(s.offered) \in Nat
    BY <1>2, FS_CardinalityType DEF StreamSound
  <2> QED
    BY <1>2, <1>3, <1>7, <2>1, <2>2, <2>3
<1>9. StreamSound(d, B, L)
  BY <1>3, <1>7, <1>8 DEF StreamSound
<1> QED
  BY <1>5, <1>6, <1>7, <1>9

LEMMA FrameSound ==
  ASSUME NEW s \in StreamRow, NEW B, NEW L, StreamSound(s, B, L), s.pc = "frame"
  PROVE  LET d == [s EXCEPT !.pc = "select", !.held = NoNotice, !.dropped = 0, !.reported = @ + s.dropped,
                            !.written = IF s.held = NoNotice THEN @ ELSE @ \cup {s.held}]
         IN  d \in StreamRow /\ StreamSound(d, B, L) /\ d.offered = s.offered
<1>1. PICK x : x = IF s.held = NoNotice THEN s.written ELSE s.written \cup {s.held}
  OBVIOUS
<1>2. /\ s.queue \in Seq(NoticeRow) /\ s.offered \in Seq(NoticeRow) /\ s.dropped \in Nat /\ s.reported \in Nat
      /\ s.written \subseteq NoticeRow /\ s.held \in NoticeRow \cup {NoNotice}
  BY DEF StreamRow
<1>3. PICK m : m = s.reported + s.dropped
  OBVIOUS
<1>4. PICK d : d = [s EXCEPT !.pc = "select", !.held = NoNotice, !.dropped = 0, !.reported = m, !.written = x]
  OBVIOUS
<1>5. d = [s EXCEPT !.pc = "select", !.held = NoNotice, !.dropped = 0, !.reported = @ + s.dropped,
                    !.written = IF s.held = NoNotice THEN @ ELSE @ \cup {s.held}]
  BY <1>1, <1>3, <1>4 DEF StreamRow
<1>6. x \subseteq NoticeRow /\ m \in Nat
  BY <1>1, <1>2, <1>3
<1>7. d \in StreamRow
  BY <1>4, <1>6 DEF StreamRow
<1>8. /\ d.offered = s.offered /\ d.queue = s.queue /\ d.written = x /\ d.held = NoNotice /\ d.dropped = 0
      /\ d.reported = m /\ d.pc = "select" /\ d.imp = s.imp
  BY <1>4 DEF StreamRow
<1>9. IsFiniteSet(x) /\ Cardinality(x) = Cardinality(s.written) + HeldCount(s) /\ Cardinality(s.written) \in Nat
  <2>1. CASE s.held = NoNotice
    BY <1>1, <2>1, FS_CardinalityType DEF StreamSound, HeldCount
  <2>2. CASE s.held # NoNotice
    BY <1>1, <2>2, FS_CardinalityType, FS_AddElement DEF StreamSound, HeldCount
  <2> QED
    BY <2>1, <2>2
<1>10. Len(d.offered) = Cardinality(d.written) + HeldCount(d) + Len(d.queue) + d.dropped + d.reported
  <2>1. HeldCount(d) = 0 /\ HeldCount(s) \in Nat
    BY <1>8 DEF HeldCount
  <2>2. Len(s.offered) = Cardinality(s.written) + HeldCount(s) + Len(s.queue) + s.dropped + s.reported
    BY DEF StreamSound
  <2>3. Len(s.queue) \in Nat /\ Len(s.offered) \in Nat
    BY <1>2
  <2> QED
    BY <1>2, <1>3, <1>8, <1>9, <2>1, <2>2, <2>3
<1>11. x \subseteq Told(s.offered) \ Told(s.queue) /\ (s.imp => x \cap L = {})
  BY <1>1 DEF StreamSound
<1>12. StreamSound(d, B, L)
  BY <1>8, <1>9, <1>10, <1>11 DEF StreamSound
<1> QED
  BY <1>5, <1>7, <1>8, <1>12

NoteCounters ==
  /\ copies \in [NoteEvents -> 0..MaxCopies] /\ sent \subseteq Command /\ claims \subseteq Command
  /\ noteFaults \in 0..MaxNoteFaults

LEMMA NoteCountersHold ==
  ASSUME NoteInv
  PROVE  NoteCounters
BY DEF NoteInv, NotificationsTypeOK, NoteCounters

(* The uncommitted rows are those of the deliveries still being handled.   *)
LEMMA UncommittedRows == Uncommitted = {r \in inbox : InOpen(r, deliverer)}
BY DEF Uncommitted, RowsOf, InOpen

(* A worker's delivery becomes d; rows are kept or, of this delivery only, *)
(* taken back.                                                             *)
DeliveryBecomes(w, d) ==
  /\ deliverer' = [deliverer EXCEPT ![w] = d]
  /\ inbox' \subseteq inbox /\ Stored' = Stored
  /\ \A r \in inbox \ inbox' : r[1] = deliverer[w].event /\ r[3] = deliverer[w].copy /\ deliverer[w].pc = "handle"
  /\ NoteCounters' /\ \A e \in NoteEvents : copies[e] <= copies'[e]
  /\ d.pc = "handle" => /\ d.event = deliverer[w].event /\ d.copy = deliverer[w].copy
                        /\ deliverer[w].pc \in {"claim", "handle"}
  /\ DeliverySound(d, copies', Stored') /\ ToldHave(d, inbox', deliverer')
  /\ \A v \in NoteWorkers \ {w} : d.event # NoEvent /\ deliverer[v].event = d.event => deliverer[v].copy # d.copy

LEMMA DeliveriesStep ==
  ASSUME NoteInv, NEW w \in NoteWorkers, NEW d \in Delivery, DeliveryBecomes(w, d)
  PROVE  DeliveriesSound' /\ DeliveriesApart' /\ RowsNumbered' /\ OneRow' /\ ToldHaveRows'
<1>b. PICK b : b = deliverer[w]
  OBVIOUS
<1>h. /\ deliverer' = [deliverer EXCEPT ![w] = d] /\ inbox' \subseteq inbox /\ Stored' = Stored
      /\ \A e \in NoteEvents : copies[e] <= copies'[e]
      /\ NoteCounters'
      /\ d.pc = "handle" => d.event = b.event /\ d.copy = b.copy /\ b.pc \in {"claim", "handle"}
      /\ \A r \in inbox \ inbox' : r[1] = b.event /\ r[3] = b.copy /\ b.pc = "handle"
      /\ DeliverySound(d, copies', Stored') /\ ToldHave(d, inbox', deliverer')
      /\ \A v \in NoteWorkers \ {w} : d.event # NoEvent /\ deliverer[v].event = d.event => deliverer[v].copy # d.copy
  BY <1>b DEF DeliveryBecomes
<1>1. deliverer \in [NoteWorkers -> Delivery] /\ inbox \subseteq NoticeRow /\ Stored \subseteq NoticeRow
  BY DEF NoteInv, NotificationsTypeOK, Stored
<1>2. deliverer'[w] = d /\ \A v \in NoteWorkers \ {w} : deliverer'[v] = deliverer[v]
  BY <1>b, <1>h, <1>1
<1>3. NoteCounters
  BY NoteCountersHold
<1>4. DeliveriesSound'
  <2> SUFFICES ASSUME NEW v \in NoteWorkers, v # w PROVE DeliverySound(deliverer'[v], copies', Stored')
    BY <1>b, <1>h, <1>2 DEF DeliveriesSound
  <2>1. PICK x \in Delivery : x = deliverer[v] /\ x = deliverer'[v]
    BY <1>b, <1>h, <1>1, <1>2
  <2>2. DeliverySound(x, copies, Stored)
    BY <1>b, <1>h, <2>1 DEF NoteInv, DeliveriesSound
  <2>3. x.event # NoEvent => x.copy \in 1..copies'[x.event]
    <3>1. CASE x.event # NoEvent
      <4>1. x.event \in NoteEvents /\ x.copy \in 1..copies[x.event]
        BY <1>b, <1>h, <2>2, <3>1 DEF Delivery, DeliverySound
      <4> QED
        BY <1>b, <1>h, <1>3, <4>1 DEF NoteCounters
    <3> QED
      BY <1>b, <1>h, <3>1
  <2> QED
    BY <1>b, <1>h, <2>1, <2>2, <2>3 DEF DeliverySound
<1>5. DeliveriesApart'
  <2> SUFFICES ASSUME NEW v \in NoteWorkers, NEW x \in NoteWorkers, v # x, deliverer'[v].event = deliverer'[x].event,
                      deliverer'[v].event # NoEvent
               PROVE  deliverer'[v].copy # deliverer'[x].copy
    BY DEF DeliveriesApart
  <2>1. CASE v = w
    BY <1>b, <1>h, <1>2, <2>1
  <2>2. CASE x = w
    BY <1>b, <1>h, <1>2, <2>2
  <2>3. CASE v # w /\ x # w
    BY <1>b, <1>h, <1>2, <2>3 DEF NoteInv, DeliveriesApart
  <2> QED
    BY <1>b, <1>h, <2>1, <2>2, <2>3
<1>6. RowsNumbered'
  <2> SUFFICES ASSUME NEW r \in Stored PROVE r[3] <= copies'[r[1]]
    BY <1>h DEF RowsNumbered
  <2>1. r[3] \in Nat /\ r[1] \in NoteEvents /\ r[3] <= copies[r[1]]
    BY <1>b, <1>h, <1>1 DEF NoteInv, RowsNumbered, NoticeRow
  <2> QED
    BY <1>b, <1>h, <1>3, <2>1 DEF NoteCounters
<1>7. OneRow'
  BY <1>h DEF NoteInv, OneRow
<1>8. ToldHaveRows'
  <2> SUFFICES ASSUME NEW v \in NoteWorkers, v # w PROVE ToldHave(deliverer'[v], inbox', deliverer')
    BY <1>b, <1>h, <1>2 DEF ToldHaveRows
  <2>1. PICK x \in Delivery : x = deliverer[v] /\ x = deliverer'[v]
    BY <1>b, <1>h, <1>1, <1>2
  <2>2. ASSUME x.pc \in {"handle", "ack"}, x.failed = FALSE, NEW u \in x.told \ x.todo PROVE HasRow(x, u, inbox', deliverer')
    <3>1. PICK r \in inbox : r[1] = x.event /\ r[2] = u /\ (InOpen(r, deliverer) => x.pc = "handle" /\ r[3] = x.copy)
      BY <1>b, <1>h, <2>1, <2>2 DEF NoteInv, ToldHaveRows, ToldHave, HasRow
    <3>2. r[1] # NoEvent
      BY <1>b, <1>h, <1>1, <3>1, NotificationBounds DEF NoticeRow
    <3>3. r \in inbox'
      <4> SUFFICES ASSUME r \notin inbox' PROVE FALSE
        OBVIOUS
      <4>1. r[1] = b.event /\ r[3] = b.copy /\ b.pc = "handle"
        BY <1>b, <1>h, <3>1
      <4>2. r[3] = x.copy
        BY <1>b, <1>h, <3>1, <4>1 DEF InOpen
      <4> QED
        BY <1>b, <1>h, <2>1, <3>1, <3>2, <4>1, <4>2 DEF NoteInv, DeliveriesApart
    <3>4. ASSUME InOpen(r, deliverer') PROVE InOpen(r, deliverer)
      <4>1. PICK y \in NoteWorkers : deliverer'[y].pc = "handle" /\ r[1] = deliverer'[y].event /\ r[3] = deliverer'[y].copy
        BY <1>b, <1>h, <3>4 DEF InOpen
      <4>2. CASE y # w
        BY <1>b, <1>h, <1>2, <4>1, <4>2 DEF InOpen
      <4>3. CASE y = w
        <5>1. d.pc = "handle" /\ r[1] = b.event /\ r[3] = b.copy /\ b.pc \in {"claim", "handle"}
          BY <1>b, <1>h, <1>2, <4>1, <4>3
        <5>2. b.pc # "claim"
          <6>1. r[2] \in NoteUsers /\ r = <<r[1], r[2], r[3]>>
            BY <1>b, <1>h, <1>1 DEF NoticeRow
          <6>2. r = RowOf(b, r[2]) /\ r \in Stored
            BY <1>b, <1>h, <5>1, <6>1 DEF RowOf, Stored
          <6> QED
            BY <1>b, <1>h, <6>1, <6>2 DEF NoteInv, DeliveriesSound, DeliverySound
        <5> QED
          BY <1>b, <1>h, <5>1, <5>2 DEF InOpen
      <4> QED
        BY <1>b, <1>h, <4>2, <4>3
    <3> QED
      BY <1>b, <1>h, <3>1, <3>3, <3>4 DEF HasRow
  <2>3. ToldHave(x, inbox', deliverer')
    BY <1>b, <1>h, <2>2 DEF ToldHave
  <2> QED
    BY <1>b, <1>h, <2>1, <2>3
<1> QED
  BY <1>b, <1>h, <1>4, <1>5, <1>6, <1>7, <1>8

(* The same, of a worker that announces nothing.                           *)
LEMMA WorkerStepInv ==
  ASSUME NoteInv, NEW w \in NoteWorkers, NEW d \in Delivery, DeliveryBecomes(w, d), d.fresh = NoUser,
         UNCHANGED <<bus, late, hubVars>>
  PROVE  NoteInv'
<1>h. deliverer' = [deliverer EXCEPT ![w] = d] /\ inbox' \subseteq inbox /\ Stored' = Stored /\ NoteCounters'
  BY DEF DeliveryBecomes
<1>1. UNCHANGED <<bus, late, stream, hubClosed, impActive, opens>>
  BY DEF hubVars
<1>2. deliverer \in [NoteWorkers -> Delivery] /\ inbox \subseteq NoticeRow /\ Stored \subseteq NoticeRow /\ late \subseteq Stored
  BY DEF NoteInv, NotificationsTypeOK, Stored
<1>3. deliverer'[w] = d /\ deliverer' \in [NoteWorkers -> Delivery] /\ \A v \in NoteWorkers \ {w} : deliverer'[v] = deliverer[v]
  BY <1>h, <1>2
<1>4. NotificationsTypeOK'
  <2>1. inbox' \subseteq NoticeRow /\ undone' \subseteq NoticeRow /\ late' \subseteq inbox' \cup undone'
    BY <1>h, <1>1, <1>2 DEF Stored
  <2> QED
    BY <1>h, <1>1, <1>3, <2>1 DEF NoteInv, NotificationsTypeOK, NoteCounters
<1>5. FreshIsAlone'
  <2> SUFFICES ASSUME NEW v \in NoteWorkers, deliverer'[v].fresh # NoUser, NEW n, n = RowOf(deliverer'[v], deliverer'[v].fresh)
               PROVE  n \in Stored' /\ n \notin Told(bus') /\ \A k \in Streams : n \notin Told(stream'[k].offered)
    BY DEF FreshIsAlone, RowOf, Told
  <2>1. v # w /\ deliverer'[v] = deliverer[v]
    BY <1>3
  <2> QED
    BY <1>h, <1>1, <2>1 DEF NoteInv, FreshIsAlone
<1>6. BusIsAlone' /\ StreamsSound'
  BY <1>h, <1>1 DEF NoteInv, BusIsAlone, StreamsSound, Told, Apart
<1>7. DeliveriesSound' /\ DeliveriesApart' /\ RowsNumbered' /\ OneRow' /\ ToldHaveRows'
  BY DeliveriesStep
<1> QED
  BY <1>1, <1>4, <1>5, <1>6, <1>7 DEF NoteInv

(* Of the deliveries' own facts, what a step of one of them needs.         *)
LEMMA DeliveryFacts ==
  ASSUME NoteInv, NEW w \in NoteWorkers, NEW b, b = deliverer[w]
  PROVE  /\ b \in Delivery /\ NoteCounters /\ DeliverySound(b, copies, Stored) /\ ToldHave(b, inbox, deliverer)
         /\ deliverer \in [NoteWorkers -> Delivery]
         /\ \A v \in NoteWorkers \ {w} : b.event # NoEvent /\ deliverer[v].event = b.event => deliverer[v].copy # b.copy
<1>1. b \in Delivery /\ NoteCounters /\ deliverer \in [NoteWorkers -> Delivery]
  BY NoteCountersHold DEF NoteInv, NotificationsTypeOK
<1>2. DeliverySound(b, copies, Stored) /\ ToldHave(b, inbox, deliverer)
  BY DEF NoteInv, DeliveriesSound, ToldHaveRows
<1>3. \A v \in NoteWorkers \ {w} : b.event # NoEvent /\ deliverer[v].event = b.event => deliverer[v].copy # b.copy
  BY DEF NoteInv, DeliveriesApart
<1> QED
  BY <1>1, <1>2, <1>3

(* A delivery that keeps its place keeps whom it has told.                 *)
LEMMA ToldKept ==
  ASSUME NEW w \in NoteWorkers, deliverer \in [NoteWorkers -> Delivery], NEW b, b = deliverer[w], NEW d \in Delivery,
         deliverer' = [deliverer EXCEPT ![w] = d], d.pc = b.pc, d.event = b.event, d.copy = b.copy
  PROVE  \A r : InOpen(r, deliverer') <=> InOpen(r, deliverer)
<1>1. deliverer'[w] = d /\ \A v \in NoteWorkers \ {w} : deliverer'[v] = deliverer[v]
  OBVIOUS
<1>2. \A v \in NoteWorkers : /\ deliverer'[v].pc = deliverer[v].pc /\ deliverer'[v].event = deliverer[v].event
                             /\ deliverer'[v].copy = deliverer[v].copy
  BY <1>1
<1> QED
  BY <1>2 DEF InOpen

(* A command is received for the first time or again.                      *)
LEMMA ReceiveInv ==
  ASSUME NoteInv, NEW w \in NoteWorkers, NEW e \in NoteEvents, NotifyChange(e, w) \/ Redeliver(e, w)
  PROVE  NoteInv'
<1>1. PICK m \in 1..MaxCopies : deliverer' = [deliverer EXCEPT ![w] = InHand(e, m, copies[e] + 1)]
  <2>1. CASE NotifyChange(e, w)
    <3>1. copies[e] + 1 \in 1..MaxCopies
      BY <2>1, NoteCountersHold, NotificationBounds DEF NotifyChange, NoteCounters
    <3> QED
      BY <2>1, <3>1 DEF NotifyChange, Becomes
  <2>2. CASE Redeliver(e, w)
    BY <2>2 DEF Redeliver, Becomes
  <2> QED
    BY <2>1, <2>2
<1>2. PICK d : d = InHand(e, m, copies[e] + 1)
  OBVIOUS
<1>3. /\ copies[e] < MaxCopies /\ copies' = [copies EXCEPT ![e] = copies[e] + 1] /\ UNCHANGED <<claims, noteFaults>>
      /\ UNCHANGED <<inbox, undone>> /\ UNCHANGED <<bus, late, hubVars>>
      /\ sent' = sent \/ sent' = sent \cup {<<e, copies[e] + 1>>}
  BY DEF NotifyChange, Redeliver
<1>4. NoteCounters /\ copies[e] \in Nat /\ copies[e] + 1 \in 1..MaxCopies
  BY <1>3, NoteCountersHold, NotificationBounds DEF NoteCounters
<1>5. /\ d \in Delivery /\ d.event = e /\ d.pc = "claim" /\ d.message = m /\ d.copy = copies[e] + 1 /\ d.fresh = NoUser
      /\ d.todo = {} /\ d.told = {} /\ d.failed = FALSE
  <2>1. PICK x \in Delivery : x = NoDelivery
    BY NoteTypes
  <2>2. x.fresh = NoUser /\ x.todo = {} /\ x.told = {} /\ x.failed = FALSE
    BY <2>1 DEF NoDelivery
  <2>3. PICK c \in 1..MaxCopies : c = copies[e] + 1
    BY <1>4
  <2>4. d = [x EXCEPT !.pc = "claim", !.event = e, !.message = m, !.copy = c]
    BY <1>2, <2>1, <2>3 DEF InHand
  <2>5. m \in 0..MaxCopies /\ c \in 0..MaxCopies
    BY NotificationBounds
  <2> QED
    BY <2>2, <2>3, <2>4, <2>5 DEF Delivery
<1>6. NoteCounters' /\ copies'[e] = copies[e] + 1 /\ \A x \in NoteEvents : copies[x] <= copies'[x]
  BY <1>3, <1>4, NotificationBounds DEF NoteCounters, Command
<1>7. e # NoEvent /\ Stored' = Stored
  BY <1>3, NotificationBounds DEF Stored
<1>8. \A r \in Stored : r[1] = e => r[3] # copies[e] + 1
  <2> SUFFICES ASSUME NEW r \in Stored, r[1] = e, r[3] = copies[e] + 1 PROVE FALSE
    OBVIOUS
  <2>1. r[3] <= copies[e]
    BY DEF NoteInv, RowsNumbered
  <2> QED
    BY <1>4, <2>1
<1>9. DeliverySound(d, copies', Stored')
  <2>1. \A u \in NoteUsers : RowOf(d, u) \notin Stored
    BY <1>5, <1>8 DEF RowOf
  <2> QED
    BY <1>4, <1>5, <1>6, <1>7, <2>1 DEF DeliverySound
<1>10. \A v \in NoteWorkers \ {w} : deliverer[v].event = d.event => deliverer[v].copy # d.copy
  <2> SUFFICES ASSUME NEW v \in NoteWorkers, deliverer[v].event = e, deliverer[v].copy = copies[e] + 1 PROVE FALSE
    BY <1>5
  <2>1. deliverer[v].copy \in 1..copies[e]
    BY <1>7 DEF NoteInv, DeliveriesSound, DeliverySound
  <2> QED
    BY <1>4, <2>1
<1>11. ToldHave(d, inbox', deliverer')
  BY <1>5 DEF ToldHave
<1>12. DeliveryBecomes(w, d)
  BY <1>1, <1>2, <1>3, <1>5, <1>6, <1>7, <1>9, <1>10, <1>11 DEF DeliveryBecomes
<1> QED
  BY <1>3, <1>5, <1>12, WorkerStepInv

(* The claim, and the choice of whom to tell.                              *)
LEMMA ClaimCommandInv ==
  ASSUME NoteInv, NEW w \in NoteWorkers, ClaimCommand(w)
  PROVE  NoteInv'
<1>1. PICK b : b = deliverer[w]
  OBVIOUS
<1>2. /\ b \in Delivery /\ NoteCounters /\ DeliverySound(b, copies, Stored) /\ deliverer \in [NoteWorkers -> Delivery]
      /\ \A v \in NoteWorkers \ {w} : b.event # NoEvent /\ deliverer[v].event = b.event => deliverer[v].copy # b.copy
  BY <1>1, DeliveryFacts
<1>3. /\ b.pc = "claim" /\ UNCHANGED <<copies, sent, claims, noteFaults>> /\ UNCHANGED <<inbox, undone>>
      /\ UNCHANGED <<bus, late, hubVars>>
  BY <1>1 DEF ClaimCommand
<1>4. /\ b.todo = {} /\ b.fresh = NoUser /\ b.failed = FALSE /\ b.told = {}
      /\ \A u \in NoteUsers : RowOf(b, u) \notin Stored
  BY <1>2, <1>3 DEF DeliverySound
<1>5. NoteCounters' /\ Stored' = Stored /\ \A e \in NoteEvents : copies[e] <= copies'[e]
  BY <1>2, <1>3 DEF NoteCounters, Stored
<1>6. b.event # NoEvent
  BY <1>2, <1>3 DEF DeliverySound, NoDelivery
<1>7. ASSUME NEW d \in Delivery, deliverer' = [deliverer EXCEPT ![w] = d], d.pc \in {"handle", "ack"}, d.event = b.event,
             d.copy = b.copy, d.message = b.message, d.fresh = NoUser, d.failed = FALSE,
             d.told = d.todo, d.pc = "ack" => d.todo = {}
      PROVE  NoteInv'
  <2>1. DeliverySound(d, copies', Stored')
    <3>1. \A u \in NoteUsers : RowOf(d, u) = RowOf(b, u)
      BY <1>7 DEF RowOf
    <3> QED
      BY <1>2, <1>3, <1>4, <1>5, <1>6, <1>7, <3>1 DEF DeliverySound
  <2>2. ToldHave(d, inbox', deliverer')
    BY <1>7 DEF ToldHave
  <2>3. DeliveryBecomes(w, d)
    BY <1>1, <1>2, <1>3, <1>5, <1>7, <2>1, <2>2 DEF DeliveryBecomes
  <2> QED
    BY <1>3, <1>7, <2>3, WorkerStepInv
<1>8. CASE deliverer' = [deliverer EXCEPT ![w] = [b EXCEPT !.pc = "ack"]]
  <2>1. PICK d : d = [b EXCEPT !.pc = "ack"]
    OBVIOUS
  <2>2. d \in Delivery /\ d.pc = "ack" /\ d.event = b.event /\ d.copy = b.copy /\ d.message = b.message
        /\ d.fresh = NoUser /\ d.failed = FALSE /\ d.told = {} /\ d.todo = {}
    BY <1>2, <1>4, <2>1 DEF Delivery
  <2> QED
    BY <1>7, <1>8, <2>1, <2>2
<1>9. ASSUME NEW T \in SUBSET NoteUsers,
             deliverer' = [deliverer EXCEPT ![w] = [b EXCEPT !.pc = "handle", !.told = T, !.todo = T]]
      PROVE  NoteInv'
  <2>1. PICK d : d = [b EXCEPT !.pc = "handle", !.told = T, !.todo = T]
    OBVIOUS
  <2>2. d \in Delivery /\ d.pc = "handle" /\ d.event = b.event /\ d.copy = b.copy /\ d.message = b.message
        /\ d.fresh = NoUser /\ d.failed = FALSE /\ d.told = T /\ d.todo = T
    BY <1>2, <1>4, <2>1 DEF Delivery
  <2> QED
    BY <1>7, <1>9, <2>1, <2>2
<1>10. \/ deliverer' = [deliverer EXCEPT ![w] = [b EXCEPT !.pc = "ack"]]
       \/ \E T \in SUBSET NoteUsers : deliverer' = [deliverer EXCEPT ![w] = [b EXCEPT !.pc = "handle", !.told = T, !.todo = T]]
  BY <1>1 DEF ClaimCommand, Becomes, Recipients
<1> QED
  BY <1>8, <1>9, <1>10

(* A recipient fails.                                                      *)
LEMMA RecipientFailsInv ==
  ASSUME NoteInv, NEW w \in NoteWorkers, NEW u \in NoteUsers, RecipientFails(w, u)
  PROVE  NoteInv'
<1>1. PICK b : b = deliverer[w]
  OBVIOUS
<1>2. /\ b \in Delivery /\ NoteCounters /\ DeliverySound(b, copies, Stored) /\ deliverer \in [NoteWorkers -> Delivery]
      /\ \A v \in NoteWorkers \ {w} : b.event # NoEvent /\ deliverer[v].event = b.event => deliverer[v].copy # b.copy
  BY <1>1, DeliveryFacts
<1>3. /\ b.pc = "handle" /\ b.fresh = NoUser /\ UNCHANGED <<copies, sent, claims>> /\ UNCHANGED <<inbox, undone>>
      /\ UNCHANGED <<bus, late, hubVars>> /\ noteFaults < MaxNoteFaults /\ noteFaults' = noteFaults + 1
  BY <1>1 DEF RecipientFails, NoteFault
<1>4. PICK left \in SUBSET b.todo : deliverer' = [deliverer EXCEPT ![w] = [b EXCEPT !.todo = left, !.failed = TRUE]]
  BY <1>1 DEF RecipientFails, Becomes
<1>5. PICK d : d = [b EXCEPT !.todo = left, !.failed = TRUE]
  OBVIOUS
<1>6. /\ d \in Delivery /\ d.pc = "handle" /\ d.event = b.event /\ d.copy = b.copy /\ d.message = b.message
      /\ d.fresh = NoUser /\ d.failed = TRUE /\ d.todo = left
  BY <1>2, <1>3, <1>5 DEF Delivery
<1>7. NoteCounters' /\ Stored' = Stored /\ \A e \in NoteEvents : copies[e] <= copies'[e]
  BY <1>2, <1>3, NotificationBounds DEF NoteCounters, Stored
<1>8. DeliverySound(d, copies', Stored')
  <2>1. b.event # NoEvent
    BY <1>2, <1>3 DEF DeliverySound, NoDelivery
  <2>2. \A x \in NoteUsers : RowOf(d, x) = RowOf(b, x)
    BY <1>6 DEF RowOf
  <2> QED
    BY <1>2, <1>3, <1>6, <1>7, <2>1, <2>2 DEF DeliverySound
<1>9. ToldHave(d, inbox', deliverer')
  BY <1>6 DEF ToldHave
<1>10. DeliveryBecomes(w, d)
  BY <1>1, <1>2, <1>3, <1>4, <1>5, <1>6, <1>7, <1>8, <1>9 DEF DeliveryBecomes
<1> QED
  BY <1>3, <1>6, <1>10, WorkerStepInv

(* The commit: the rows of the delivery are no longer those of an open one.*)
LEMMA CommitDeliveryInv ==
  ASSUME NoteInv, NEW w \in NoteWorkers, CommitDelivery(w)
  PROVE  NoteInv'
<1>1. PICK b : b = deliverer[w]
  OBVIOUS
<1>2. /\ b \in Delivery /\ NoteCounters /\ DeliverySound(b, copies, Stored) /\ ToldHave(b, inbox, deliverer)
      /\ deliverer \in [NoteWorkers -> Delivery]
      /\ \A v \in NoteWorkers \ {w} : b.event # NoEvent /\ deliverer[v].event = b.event => deliverer[v].copy # b.copy
  BY <1>1, DeliveryFacts
<1>3. /\ b.pc = "handle" /\ b.todo = {} /\ b.fresh = NoUser /\ ~b.failed /\ UNCHANGED <<copies, sent, noteFaults>>
      /\ UNCHANGED <<inbox, undone>> /\ UNCHANGED <<bus, late, hubVars>> /\ claims' = claims \cup {<<b.event, b.message>>}
      /\ deliverer' = [deliverer EXCEPT ![w] = [b EXCEPT !.pc = "ack"]]
  BY <1>1 DEF CommitDelivery, Handled, Becomes, CommandOf
<1>4. PICK d : d = [b EXCEPT !.pc = "ack"]
  OBVIOUS
<1>5. b.failed = FALSE
  BY <1>2, <1>3 DEF Delivery
<1>6. /\ d \in Delivery /\ d.pc = "ack" /\ d.event = b.event /\ d.copy = b.copy /\ d.message = b.message
      /\ d.fresh = NoUser /\ d.failed = FALSE /\ d.todo = {} /\ d.told = b.told
  BY <1>2, <1>3, <1>4, <1>5 DEF Delivery
<1>7. b.event # NoEvent
  BY <1>2, <1>3 DEF DeliverySound, NoDelivery
<1>8. b.event \in NoteEvents /\ b.message \in 1..MaxCopies
  BY <1>2, <1>7 DEF Delivery, DeliverySound
<1>9. NoteCounters' /\ Stored' = Stored /\ \A e \in NoteEvents : copies[e] <= copies'[e]
  BY <1>2, <1>3, <1>8 DEF NoteCounters, Stored, Command
<1>10. DeliverySound(d, copies', Stored')
  BY <1>2, <1>3, <1>6, <1>7, <1>9 DEF DeliverySound
<1>11. ToldHave(d, inbox', deliverer')
  <2> SUFFICES ASSUME NEW u \in b.told PROVE HasRow(d, u, inbox, deliverer')
    BY <1>3, <1>6 DEF ToldHave
  <2>1. PICK r \in inbox : r[1] = b.event /\ r[2] = u /\ (InOpen(r, deliverer) => r[3] = b.copy)
    BY <1>2, <1>3, <1>5 DEF ToldHave, HasRow
  <2>2. ~InOpen(r, deliverer')
    <3> SUFFICES ASSUME NEW v \in NoteWorkers, deliverer'[v].pc = "handle", r[1] = deliverer'[v].event,
                        r[3] = deliverer'[v].copy
                 PROVE  FALSE
      BY DEF InOpen
    <3>1. v # w /\ deliverer'[v] = deliverer[v]
      BY <1>2, <1>3, <1>4, <1>6
    <3>2. r[3] = b.copy
      BY <2>1, <3>1 DEF InOpen
    <3> QED
      BY <1>2, <1>7, <2>1, <3>1, <3>2
  <2> QED
    BY <1>6, <2>1, <2>2 DEF HasRow
<1>12. DeliveryBecomes(w, d)
  BY <1>1, <1>2, <1>3, <1>4, <1>6, <1>9, <1>10, <1>11 DEF DeliveryBecomes
<1> QED
  BY <1>3, <1>6, <1>12, WorkerStepInv

(* The delivery is over: acknowledged, failed or dead.                     *)
LEMMA DeliveryEndsInv ==
  ASSUME NoteInv, NEW w \in NoteWorkers, AckDelivery(w) \/ FailDelivery(w) \/ WorkerDies(w)
  PROVE  NoteInv'
<1>1. PICK b : b = deliverer[w]
  OBVIOUS
<1>2. NoteCounters /\ inbox \subseteq NoticeRow /\ undone \subseteq NoticeRow
  BY NoteCountersHold DEF NoteInv, NotificationsTypeOK
<1>3. PICK x \in Delivery : /\ x = NoDelivery /\ x.fresh = NoUser /\ x.event = NoEvent /\ x.pc = "idle" /\ x.todo = {}
                            /\ x.failed = FALSE
  BY NoteTypes DEF NoDelivery
<1>4. /\ deliverer' = [deliverer EXCEPT ![w] = x] /\ UNCHANGED <<copies, claims>> /\ UNCHANGED <<bus, late, hubVars>>
      /\ sent' \subseteq sent
  BY <1>3 DEF AckDelivery, FailDelivery, WorkerDies, RollsBack, Becomes
<1>5. noteFaults' = noteFaults \/ (noteFaults < MaxNoteFaults /\ noteFaults' = noteFaults + 1)
  BY DEF AckDelivery, FailDelivery, WorkerDies, NoteFault
<1>6. NoteCounters' /\ \A e \in NoteEvents : copies[e] <= copies'[e]
  BY <1>2, <1>4, <1>5, NotificationBounds DEF NoteCounters
<1>7. /\ inbox' \subseteq inbox /\ Stored' = Stored
      /\ \A r \in inbox \ inbox' : r[1] = b.event /\ r[3] = b.copy /\ b.pc = "handle"
  <2>1. CASE UNCHANGED <<inbox, undone>>
    BY <2>1 DEF Stored
  <2>2. CASE b.pc = "handle" /\ inbox' = inbox \ RowsOf(b) /\ undone' = undone \cup RowsOf(b)
    BY <2>2 DEF RowsOf, Stored
  <2> QED
    BY <1>1, <2>1, <2>2 DEF AckDelivery, FailDelivery, WorkerDies, RollsBack
<1>8. DeliverySound(x, copies', Stored') /\ ToldHave(x, inbox', deliverer')
  BY <1>3 DEF DeliverySound, ToldHave
<1>9. DeliveryBecomes(w, x)
  BY <1>1, <1>3, <1>4, <1>6, <1>7, <1>8 DEF DeliveryBecomes
<1> QED
  BY <1>3, <1>4, <1>9, WorkerStepInv

(* The insert of a row: the worker that made it is the only one to tell.   *)
LEMMA InsertNoticeInv ==
  ASSUME NoteInv, NEW w \in NoteWorkers, NEW u \in NoteUsers, InsertNotice(w, u)
  PROVE  NoteInv'
<1>1. PICK b : b = deliverer[w]
  OBVIOUS
<1>2. /\ b \in Delivery /\ NoteCounters /\ DeliverySound(b, copies, Stored) /\ ToldHave(b, inbox, deliverer)
      /\ deliverer \in [NoteWorkers -> Delivery]
      /\ \A v \in NoteWorkers \ {w} : b.event # NoEvent /\ deliverer[v].event = b.event => deliverer[v].copy # b.copy
  BY <1>1, DeliveryFacts
<1>3. /\ b.pc = "handle" /\ b.fresh = NoUser /\ u \in b.todo /\ ~Waits(b, u)
      /\ UNCHANGED <<copies, sent, claims, undone, bus, hubVars, noteFaults>>
  BY <1>1 DEF InsertNotice
<1>4. PICK n : n = RowOf(b, u)
  OBVIOUS
<1>5. /\ b.event # NoEvent /\ b.event \in NoteEvents /\ b.copy \in 1..copies[b.event] /\ b.copy \in 1..MaxCopies
      /\ n \in NoticeRow /\ n[1] = b.event /\ n[2] = u /\ n[3] = b.copy /\ n \notin Stored
  <2>1. b.event # NoEvent
    BY <1>2, <1>3 DEF DeliverySound, NoDelivery
  <2>2. b.event \in NoteEvents /\ b.copy \in 1..copies[b.event]
    BY <1>2, <2>1 DEF Delivery, DeliverySound
  <2>3. b.copy \in 1..MaxCopies
    BY <1>2, <2>2, NotificationBounds DEF NoteCounters
  <2>4. n[1] = b.event /\ n[2] = u /\ n[3] = b.copy /\ n \in NoticeRow
    BY <1>4, <2>2, <2>3 DEF RowOf, NoticeRow
  <2> QED
    BY <1>2, <1>3, <1>4, <2>1, <2>2, <2>3, <2>4 DEF DeliverySound
<1>6. NoteCounters'
  BY <1>2, <1>3 DEF NoteCounters
<1>7. CASE ~Created(b.event, u)
  <2>1. PICK d : d = [b EXCEPT !.todo = b.todo \ {u}, !.fresh = NoUser]
    OBVIOUS
  <2>2. /\ d \in Delivery /\ d.pc = "handle" /\ d.event = b.event /\ d.copy = b.copy /\ d.message = b.message
        /\ d.fresh = NoUser /\ d.failed = b.failed /\ d.told = b.told /\ d.todo = b.todo \ {u}
    BY <1>2, <1>3, <2>1 DEF Delivery
  <2>3. deliverer' = [deliverer EXCEPT ![w] = d] /\ inbox' = inbox /\ late' = late
    BY <1>1, <1>7, <2>1 DEF InsertNotice, Becomes
  <2>4. Stored' = Stored /\ \A e \in NoteEvents : copies[e] <= copies'[e]
    BY <1>2, <1>3, <2>3 DEF Stored, NoteCounters
  <2>5. DeliverySound(d, copies', Stored')
    <3>1. \A x \in NoteUsers : RowOf(d, x) = RowOf(b, x)
      BY <2>2 DEF RowOf
    <3> QED
      BY <1>2, <1>3, <1>5, <2>2, <2>4, <3>1 DEF DeliverySound
  <2>6. ToldHave(d, inbox', deliverer')
    <3> SUFFICES ASSUME d.failed = FALSE, NEW x \in d.told \ d.todo PROVE HasRow(d, x, inbox, deliverer')
      BY <2>3 DEF ToldHave
    <3>1. \A r : InOpen(r, deliverer') <=> InOpen(r, deliverer)
      BY <1>1, <1>2, <1>3, <2>2, <2>3, ToldKept
    <3>2. CASE x = u
      <4>1. PICK r \in inbox : r[1] = b.event /\ r[2] = u
        BY <1>7 DEF Created
      <4>2. ~InOpen(r, deliverer)
        BY <1>3, <4>1, UncommittedRows DEF Waits
      <4> QED
        BY <2>2, <3>1, <3>2, <4>1, <4>2 DEF HasRow
    <3>3. CASE x # u
      <4>1. x \in b.told \ b.todo /\ b.failed = FALSE
        BY <2>2, <3>3
      <4>2. HasRow(b, x, inbox, deliverer)
        BY <1>2, <1>3, <4>1 DEF ToldHave
      <4> QED
        BY <1>3, <2>2, <3>1, <4>2 DEF HasRow
    <3> QED
      BY <3>2, <3>3
  <2>7. DeliveryBecomes(w, d)
    BY <1>1, <1>2, <1>3, <1>6, <2>2, <2>3, <2>4, <2>5, <2>6 DEF DeliveryBecomes
  <2> QED
    BY <1>3, <2>2, <2>3, <2>7, WorkerStepInv
<1>8. CASE Created(b.event, u)
  <2>1. PICK d : d = [b EXCEPT !.todo = b.todo \ {u}, !.fresh = u]
    OBVIOUS
  <2>2. /\ d \in Delivery /\ d.pc = "handle" /\ d.event = b.event /\ d.copy = b.copy /\ d.message = b.message
        /\ d.fresh = u /\ d.failed = b.failed /\ d.told = b.told /\ d.todo = b.todo \ {u}
    BY <1>2, <1>3, <2>1 DEF Delivery
  <2>3. /\ deliverer' = [deliverer EXCEPT ![w] = d] /\ inbox' = inbox \cup {n}
        /\ late' \subseteq late \cup {n} /\ late \subseteq late' /\ (impActive => late' = late)
    BY <1>1, <1>4, <1>8, <2>1 DEF InsertNotice, Becomes
  <2>4. UNCHANGED <<copies, undone, bus, stream, hubClosed, impActive, opens>> /\ Stored' = Stored \cup {n}
    BY <1>3, <2>3 DEF hubVars, Stored
  <2>5. deliverer'[w] = d /\ deliverer' \in [NoteWorkers -> Delivery] /\ \A v \in NoteWorkers \ {w} : deliverer'[v] = deliverer[v]
    BY <1>2, <2>2, <2>3
  <2>6. inbox \subseteq NoticeRow /\ late \subseteq Stored /\ Stored \subseteq NoticeRow
    BY DEF NoteInv, NotificationsTypeOK, Stored
  <2>7. NotificationsTypeOK'
    <3>1. inbox' \subseteq NoticeRow /\ late' \subseteq inbox' \cup undone'
      BY <1>5, <2>3, <2>4, <2>6 DEF Stored
    <3> QED
      BY <1>6, <2>4, <2>5, <3>1 DEF NoteInv, NotificationsTypeOK, NoteCounters
  <2>8. n \notin Told(bus) /\ \A k \in Streams : n \notin Told(stream[k].offered)
    BY <1>5 DEF NoteInv, BusIsAlone, StreamsSound, StreamSound
  <2>9. FreshIsAlone'
    <3> SUFFICES ASSUME NEW v \in NoteWorkers, deliverer'[v].fresh # NoUser, NEW m, m = RowOf(deliverer'[v], deliverer'[v].fresh)
                 PROVE  m \in Stored' /\ m \notin Told(bus') /\ \A k \in Streams : m \notin Told(stream'[k].offered)
      BY DEF FreshIsAlone, RowOf, Told
    <3>1. CASE v = w
      <4>1. m = n
        BY <1>4, <2>2, <2>5, <3>1 DEF RowOf
      <4> QED
        BY <2>4, <2>8, <4>1
    <3>2. CASE v # w
      BY <2>4, <2>5, <3>2 DEF NoteInv, FreshIsAlone
    <3> QED
      BY <3>1, <3>2
  <2>10. BusIsAlone'
    BY <2>4 DEF NoteInv, BusIsAlone, Told, Apart
  <2>11. StreamsSound'
    <3> SUFFICES ASSUME NEW k \in Streams PROVE StreamSound(stream[k], Stored', late')
      BY <2>4 DEF StreamsSound
    <3>1. NoNotice \notin late' /\ Stored \subseteq Stored' /\ late' \cap Stored \subseteq late
      BY <1>5, <2>3, <2>4, <2>6, NoteTypes
    <3>2. StreamSound(stream[k], Stored, late)
      BY DEF NoteInv, StreamsSound
    <3> QED
      BY <3>1, <3>2, BoxGrows
  <2>12. DeliveriesSound'
    <3> SUFFICES ASSUME NEW v \in NoteWorkers PROVE DeliverySound(deliverer'[v], copies', Stored')
      BY DEF DeliveriesSound
    <3>1. PICK x \in Delivery : x = deliverer'[v]
      BY <2>5
    <3>2. CASE v = w
      <4>1. x = d
        BY <2>5, <3>1, <3>2
      <4>2. \A y \in d.todo : RowOf(d, y) \notin Stored'
        <5> SUFFICES ASSUME NEW y \in d.todo PROVE RowOf(d, y) \notin Stored'
          OBVIOUS
        <5>1. RowOf(d, y) = RowOf(b, y) /\ y \in b.todo /\ y # u /\ y \in NoteUsers
          BY <1>2, <2>2 DEF RowOf, Delivery
        <5>2. RowOf(b, y)[2] = y
          BY DEF RowOf
        <5> QED
          BY <1>2, <1>5, <2>4, <5>1, <5>2 DEF DeliverySound
      <4> QED
        BY <1>2, <1>3, <1>5, <2>2, <2>4, <3>1, <4>1, <4>2 DEF DeliverySound
    <3>3. CASE v # w
      <4>1. x = deliverer[v] /\ DeliverySound(x, copies, Stored)
        BY <2>5, <3>1, <3>3 DEF NoteInv, DeliveriesSound
      <4>2. \A y \in NoteUsers : RowOf(x, y) # n
        <5> SUFFICES ASSUME NEW y \in NoteUsers, RowOf(x, y) = n PROVE FALSE
          OBVIOUS
        <5>1. x.event = b.event /\ x.copy = b.copy
          BY <1>4 DEF RowOf
        <5> QED
          BY <1>2, <1>5, <3>3, <4>1, <5>1
      <4> QED
        BY <2>4, <3>1, <4>1, <4>2 DEF DeliverySound
    <3> QED
      BY <3>2, <3>3
  <2>13. DeliveriesApart'
    <3>1. \A v \in NoteWorkers : deliverer'[v].event = deliverer[v].event /\ deliverer'[v].copy = deliverer[v].copy
      BY <1>1, <2>2, <2>5
    <3> QED
      BY <3>1 DEF NoteInv, DeliveriesApart
  <2>14. RowsNumbered'
    <3>1. n[3] <= copies[n[1]]
      BY <1>2, <1>5 DEF NoteCounters
    <3> QED
      BY <2>4, <3>1 DEF NoteInv, RowsNumbered
  <2>15. OneRow'
    BY <1>5, <1>8, <2>3 DEF NoteInv, OneRow, Created
  <2>16. ToldHaveRows'
    <3> SUFFICES ASSUME NEW v \in NoteWorkers PROVE ToldHave(deliverer'[v], inbox', deliverer')
      BY DEF ToldHaveRows
    <3>1. \A r : InOpen(r, deliverer') <=> InOpen(r, deliverer)
      BY <1>1, <1>2, <1>3, <2>2, <2>3, ToldKept
    <3>2. PICK x : x = deliverer'[v]
      OBVIOUS
    <3>3. PICK y : y = deliverer[v]
      OBVIOUS
    <3>4. /\ y.pc = x.pc /\ y.event = x.event /\ y.copy = x.copy /\ y.failed = x.failed /\ y.told = x.told
          /\ ToldHave(y, inbox, deliverer)
      BY <1>1, <1>3, <2>2, <2>5, <3>2, <3>3 DEF NoteInv, ToldHaveRows
    <3>5. ASSUME x.pc \in {"handle", "ack"}, x.failed = FALSE, NEW p \in x.told \ x.todo
          PROVE  HasRow(x, p, inbox', deliverer')
      <4>1. CASE p \notin y.todo
        <5>1. HasRow(y, p, inbox, deliverer)
          BY <3>4, <3>5, <4>1 DEF ToldHave
        <5> QED
          BY <2>3, <3>1, <3>4, <5>1 DEF HasRow
      <4>2. CASE p \in y.todo
        <5>1. v = w /\ x = d /\ p = u
          BY <1>1, <2>2, <2>5, <3>2, <3>3, <3>5, <4>2
        <5> QED
          BY <1>5, <2>2, <2>3, <5>1 DEF HasRow
      <4> QED
        BY <4>1, <4>2
    <3> QED
      BY <3>2, <3>5 DEF ToldHave
  <2> QED
    BY <2>3, <2>4, <2>7, <2>9, <2>10, <2>11, <2>12, <2>13, <2>14, <2>15, <2>16 DEF NoteInv
<1> QED
  BY <1>7, <1>8

(* The announcement goes out, or is lost.                                  *)
LEMMA PublishNoticeInv ==
  ASSUME NoteInv, NEW w \in NoteWorkers, PublishNotice(w)
  PROVE  NoteInv'
<1>1. UNCHANGED <<copies, sent, claims, inbox, undone, hubVars, late>>
  BY DEF PublishNotice
<1>2. PICK b : b = deliverer[w]
  OBVIOUS
<1>3. /\ b \in Delivery /\ NoteCounters /\ DeliverySound(b, copies, Stored) /\ ToldHave(b, inbox, deliverer)
      /\ deliverer \in [NoteWorkers -> Delivery]
      /\ \A v \in NoteWorkers \ {w} : b.event # NoEvent /\ deliverer[v].event = b.event => deliverer[v].copy # b.copy
  BY <1>2, DeliveryFacts
<1>4. b.fresh # NoUser /\ b.fresh \in NoteUsers /\ b.pc = "handle" /\ b.event # NoEvent
  <2>1. b.fresh # NoUser
    BY <1>2 DEF PublishNotice
  <2> QED
    BY <1>3, <2>1 DEF Delivery, DeliverySound, NoDelivery
<1>5. PICK n : n = RowOf(b, b.fresh)
  OBVIOUS
<1>6. PICK d : d = [b EXCEPT !.fresh = NoUser]
  OBVIOUS
<1>7. /\ d \in Delivery /\ d.pc = "handle" /\ d.event = b.event /\ d.copy = b.copy /\ d.message = b.message
      /\ d.fresh = NoUser /\ d.failed = b.failed /\ d.told = b.told /\ d.todo = b.todo
  BY <1>3, <1>4, <1>6 DEF Delivery
<1>8. deliverer' = [deliverer EXCEPT ![w] = d] /\ Stored' = Stored
  BY <1>1, <1>2, <1>6 DEF PublishNotice, Becomes, Stored
<1>9. ASSUME NoteCounters' PROVE DeliveryBecomes(w, d)
  <2>1. DeliverySound(d, copies', Stored')
    <3>1. \A x \in NoteUsers : RowOf(d, x) = RowOf(b, x)
      BY <1>7 DEF RowOf
    <3> QED
      BY <1>1, <1>3, <1>4, <1>7, <1>8, <3>1 DEF DeliverySound
  <2>2. \A r : InOpen(r, deliverer') <=> InOpen(r, deliverer)
    BY <1>2, <1>3, <1>4, <1>7, <1>8, ToldKept
  <2>3. ToldHave(d, inbox', deliverer')
    BY <1>1, <1>3, <1>4, <1>7, <2>2 DEF ToldHave, HasRow
  <2>4. \A e \in NoteEvents : copies[e] <= copies'[e]
    BY <1>1, <1>3 DEF NoteCounters
  <2> QED
    BY <1>1, <1>2, <1>3, <1>4, <1>7, <1>8, <1>9, <2>1, <2>3, <2>4 DEF DeliveryBecomes
<1>10. CASE NoteFault /\ UNCHANGED bus
  <2>1. NoteCounters'
    BY <1>1, <1>3, <1>10, NotificationBounds DEF NoteCounters, NoteFault
  <2> QED
    BY <1>1, <1>7, <1>9, <1>10, <2>1, WorkerStepInv
<1>11. CASE bus' = Append(bus, n) /\ UNCHANGED noteFaults
  <2>1. UNCHANGED <<inbox, undone, late, stream, hubClosed, impActive, opens>>
    BY <1>1 DEF hubVars
  <2>2. deliverer'[w] = d /\ deliverer' \in [NoteWorkers -> Delivery] /\ \A v \in NoteWorkers \ {w} : deliverer'[v] = deliverer[v]
    BY <1>3, <1>7, <1>8
  <2>3. n \in Stored /\ n \notin Told(bus) /\ \A k \in Streams : n \notin Told(stream[k].offered)
    BY <1>2, <1>4, <1>5 DEF NoteInv, FreshIsAlone
  <2>4. bus \in Seq(NoticeRow) /\ Apart(bus) /\ Stored \subseteq NoticeRow
    BY DEF NoteInv, NotificationsTypeOK, BusIsAlone, Stored
  <2>5. bus' \in Seq(NoticeRow) /\ Told(bus') = Told(bus) \cup {n} /\ Apart(bus')
    BY <1>11, <2>3, <2>4, ToldAppend
  <2>6. NoteCounters'
    BY <1>1, <1>3, <1>11 DEF NoteCounters
  <2>7. NotificationsTypeOK'
    BY <2>1, <2>2, <2>5, <2>6 DEF NoteInv, NotificationsTypeOK, NoteCounters
  <2>8. BusIsAlone'
    BY <1>8, <2>1, <2>3, <2>5 DEF NoteInv, BusIsAlone
  <2>9. FreshIsAlone'
    <3> SUFFICES ASSUME NEW v \in NoteWorkers, deliverer'[v].fresh # NoUser, NEW m, m = RowOf(deliverer'[v], deliverer'[v].fresh)
                 PROVE  m \in Stored' /\ m \notin Told(bus') /\ \A k \in Streams : m \notin Told(stream'[k].offered)
      BY DEF FreshIsAlone, RowOf, Told
    <3>1. v # w /\ deliverer'[v] = deliverer[v] /\ deliverer[v].fresh # NoUser
      BY <1>7, <2>2
    <3>2. m \in Stored /\ m \notin Told(bus) /\ \A k \in Streams : m \notin Told(stream[k].offered)
      BY <3>1 DEF NoteInv, FreshIsAlone
    <3>3. m # n
      <4>1. deliverer[v].event = m[1] /\ deliverer[v].copy = m[3] /\ n[1] = b.event /\ n[3] = b.copy
        BY <1>5, <3>1 DEF RowOf
      <4> QED
        BY <1>3, <1>4, <3>1, <4>1
    <3> QED
      BY <1>8, <2>1, <2>5, <3>2, <3>3
  <2>10. StreamsSound'
    BY <1>8, <2>1 DEF NoteInv, StreamsSound
  <2>11. DeliveriesSound' /\ DeliveriesApart' /\ RowsNumbered' /\ OneRow' /\ ToldHaveRows'
    BY <1>7, <1>9, <2>6, DeliveriesStep
  <2> QED
    BY <2>1, <2>7, <2>8, <2>9, <2>10, <2>11 DEF NoteInv
<1> QED
  BY <1>2, <1>5, <1>10, <1>11 DEF PublishNotice

(* The streams change, and the bus may give up a row.                      *)
LEMMA HubStepInv ==
  ASSUME NoteInv, UNCHANGED inboxVars, UNCHANGED noteFaults, opens' \in 0..MaxOpens, {hubClosed', impActive'} \subseteq BOOLEAN,
         impActive' => impActive,
         stream' \in [Streams -> StreamRow], \A k \in Streams : StreamSound(stream'[k], Stored, late),
         bus' \in Seq(NoticeRow), Apart(bus'), Told(bus') \subseteq Told(bus),
         \A k \in Streams : /\ Told(stream'[k].offered) \subseteq Told(stream[k].offered) \cup Told(bus)
                            /\ Told(stream'[k].offered) \cap Told(bus') = {}
  PROVE  NoteInv'
<1>1. UNCHANGED <<copies, sent, claims, deliverer, inbox, undone, late>> /\ Stored' = Stored
  BY DEF inboxVars, Stored
<1>2. NotificationsTypeOK'
  BY <1>1 DEF NoteInv, NotificationsTypeOK
<1>3. BusIsAlone'
  BY <1>1 DEF NoteInv, BusIsAlone
<1>4. FreshIsAlone'
  <2> SUFFICES ASSUME NEW v \in NoteWorkers, deliverer[v].fresh # NoUser, NEW n, n = RowOf(deliverer[v], deliverer[v].fresh)
               PROVE  n \in Stored /\ n \notin Told(bus') /\ \A k \in Streams : n \notin Told(stream'[k].offered)
    BY <1>1 DEF FreshIsAlone, RowOf, Told
  <2>1. n \in Stored /\ n \notin Told(bus) /\ \A k \in Streams : n \notin Told(stream[k].offered)
    BY DEF NoteInv, FreshIsAlone
  <2> QED
    BY <2>1
<1>5. StreamsSound'
  BY <1>1 DEF NoteInv, StreamsSound
<1>6. DeliveriesSound' /\ DeliveriesApart' /\ RowsNumbered' /\ OneRow' /\ ToldHaveRows'
  BY <1>1 DEF NoteInv, DeliveriesSound, DeliveriesApart, RowsNumbered, OneRow, ToldHaveRows
<1> QED
  BY <1>1, <1>2, <1>3, <1>4, <1>5, <1>6 DEF NoteInv

(* One stream becomes d, which was offered nothing new.                    *)
LEMMA OneStreamInv ==
  ASSUME NoteInv, NEW k \in Streams, NEW d \in StreamRow, SetStream(k, d), StreamSound(d, Stored, late),
         Told(d.offered) \subseteq Told(stream[k].offered), UNCHANGED <<inboxVars, bus, hubClosed, impActive, noteFaults>>,
         opens' \in 0..MaxOpens
  PROVE  NoteInv'
<1>1. stream \in [Streams -> StreamRow] /\ stream' = [stream EXCEPT ![k] = d]
  BY DEF NoteInv, NotificationsTypeOK, SetStream
<1>2. stream' \in [Streams -> StreamRow] /\ stream'[k] = d /\ \A x \in Streams : x # k => stream'[x] = stream[x]
  BY <1>1
<1>3. \A x \in Streams : StreamSound(stream'[x], Stored, late)
  BY <1>2 DEF NoteInv, StreamsSound
<1>4. \A x \in Streams : Told(stream'[x].offered) \subseteq Told(stream[x].offered)
  BY <1>2
<1>5. \A x \in Streams : Told(bus) \cap Told(stream[x].offered) = {}
  BY DEF NoteInv, BusIsAlone
<1>6. bus' \in Seq(NoticeRow) /\ Apart(bus') /\ {hubClosed', impActive'} \subseteq BOOLEAN /\ bus' = bus
  BY DEF NoteInv, NotificationsTypeOK, BusIsAlone
<1>7. \A x \in Streams : /\ Told(stream'[x].offered) \subseteq Told(stream[x].offered) \cup Told(bus)
                         /\ Told(stream'[x].offered) \cap Told(bus') = {}
  BY <1>4, <1>5, <1>6
<1> QED
  BY <1>2, <1>3, <1>6, <1>7, HubStepInv

(* A stream of which only the place changes.                               *)
LEMMA PlaceSound ==
  ASSUME NEW s \in StreamRow, NEW B, NEW L, StreamSound(s, B, L), NEW x,
         \/ s.pc = "verified" /\ x = "select"
         \/ s.pc = "select" /\ x = "check"
         \/ s.pc = "check" /\ x = "frame" /\ (s.imp => s.held \notin L)
  PROVE  [s EXCEPT !.pc = x] \in StreamRow /\ StreamSound([s EXCEPT !.pc = x], B, L) /\ [s EXCEPT !.pc = x].offered = s.offered
<1>1. PICK d : d = [s EXCEPT !.pc = x]
  OBVIOUS
<1>2. d \in StreamRow
  BY <1>1 DEF StreamRow
<1>3. /\ d.offered = s.offered /\ d.queue = s.queue /\ d.written = s.written /\ d.held = s.held /\ d.dropped = s.dropped
      /\ d.reported = s.reported /\ d.pc = x /\ d.imp = s.imp
  BY <1>1 DEF StreamRow
<1>4. s.pc = "verified" => s.held = NoNotice
  BY DEF StreamSound, Told
<1>5. HeldCount(d) = HeldCount(s)
  BY <1>3 DEF HeldCount
<1>6. StreamSound(d, B, L)
  BY <1>3, <1>4, <1>5 DEF StreamSound
<1> QED
  BY <1>1, <1>2, <1>3, <1>6

LEMMA StreamsInv ==
  ASSUME NoteInv, NEW k \in Streams,
         \/ \E u \in NoteUsers, imp \in BOOLEAN : BeginStream(k, u, imp)
         \/ Register(k) \/ TakeEvent(k) \/ CheckSession(k) \/ WriteFrame(k) \/ CloseStream(k)
  PROVE  NoteInv'
<1>1. UNCHANGED <<inboxVars, bus, hubClosed, impActive, noteFaults>>
  BY DEF BeginStream, Register, TakeEvent, CheckSession, WriteFrame, CloseStream
<1>2. opens' \in 0..MaxOpens
  <2>1. opens \in 0..MaxOpens
    BY DEF NoteInv, NotificationsTypeOK
  <2>2. opens' = opens \/ (opens < MaxOpens /\ opens' = opens + 1)
    BY DEF BeginStream, Register, TakeEvent, CheckSession, WriteFrame, CloseStream
  <2> QED
    BY <2>1, <2>2, NotificationBounds
<1>3. PICK s : s = stream[k]
  OBVIOUS
<1>4. s \in StreamRow /\ StreamSound(s, Stored, late)
  BY <1>3 DEF NoteInv, NotificationsTypeOK, StreamsSound
<1>5. CASE SetStream(k, NoStream)
  BY <1>1, <1>2, <1>5, NoteTypes, NoStreamSound, OneStreamInv
<1>6. ASSUME NEW x, SetStream(k, [s EXCEPT !.pc = x]),
             \/ s.pc = "verified" /\ x = "select"
             \/ s.pc = "select" /\ x = "check"
             \/ s.pc = "check" /\ x = "frame" /\ (s.imp => s.held \notin late)
      PROVE  NoteInv'
  <2>1. PICK d : d = [s EXCEPT !.pc = x]
    OBVIOUS
  <2>2. d \in StreamRow /\ StreamSound(d, Stored, late) /\ d.offered = s.offered
    BY <1>4, <1>6, <2>1, PlaceSound
  <2> QED
    BY <1>1, <1>2, <1>3, <1>6, <2>1, <2>2, OneStreamInv
<1>7. ASSUME NEW u \in NoteUsers, NEW imp \in BOOLEAN, BeginStream(k, u, imp) PROVE NoteInv'
  <2>1. PICK d : d = [NoStream EXCEPT !.pc = "verified", !.user = u, !.imp = imp]
    OBVIOUS
  <2>2. d \in StreamRow
    BY <2>1, NoteTypes DEF StreamRow
  <2>3. /\ d.offered = <<>> /\ d.queue = <<>> /\ d.written = {} /\ d.held = NoNotice
        /\ d.dropped = 0 /\ d.reported = 0 /\ d.pc = "verified"
    BY <2>1 DEF NoStream
  <2>4. Told(<<>>) = {} /\ Apart(<<>>) /\ Len(<<>>) = 0 /\ IsFiniteSet({}) /\ Cardinality({}) = 0
    BY FS_EmptySet DEF Told, Apart
  <2>5. StreamSound(d, Stored, late) /\ Told(d.offered) = {}
    BY <2>3, <2>4 DEF StreamSound, HeldCount
  <2>6. SetStream(k, d)
    BY <1>7, <2>1 DEF BeginStream
  <2> QED
    BY <1>1, <1>2, <2>2, <2>5, <2>6, OneStreamInv
<1>8. CASE Register(k)
  BY <1>3, <1>5, <1>6, <1>8 DEF Register, OnStream
<1>9. CASE TakeEvent(k)
  <2>1. CASE SetStream(k, [s EXCEPT !.pc = "check"])
    BY <1>3, <1>6, <1>9, <2>1 DEF TakeEvent, OnStream
  <2>2. CASE s.queue # <<>> /\ SetStream(k, [s EXCEPT !.pc = "check", !.held = Head(s.queue), !.queue = Tail(@)])
    <3>1. PICK d : d = [s EXCEPT !.pc = "check", !.held = Head(s.queue), !.queue = Tail(@)]
      OBVIOUS
    <3>2. d \in StreamRow /\ StreamSound(d, Stored, late) /\ d.offered = s.offered
      BY <1>3, <1>4, <1>9, <2>2, <3>1, TakeSound DEF TakeEvent, OnStream
    <3> QED
      BY <1>1, <1>2, <1>3, <2>2, <3>1, <3>2, OneStreamInv
  <2> QED
    BY <1>3, <1>9, <2>1, <2>2 DEF TakeEvent
<1>10. CASE CheckSession(k)
  <2>1. Alive(k) => (s.imp => s.held \notin late)
    BY <1>3 DEF Alive, NoteInv
  <2> QED
    BY <1>3, <1>5, <1>6, <1>10, <2>1 DEF CheckSession, OnStream
<1>11. CASE WriteFrame(k)
  <2>1. PICK d : d = [s EXCEPT !.pc = "select", !.held = NoNotice, !.dropped = 0, !.reported = @ + s.dropped,
                               !.written = IF s.held = NoNotice THEN @ ELSE @ \cup {s.held}]
    OBVIOUS
  <2>2. d \in StreamRow /\ StreamSound(d, Stored, late) /\ d.offered = s.offered
    BY <1>3, <1>4, <1>11, <2>1, FrameSound DEF WriteFrame, OnStream
  <2>3. SetStream(k, d)
    BY <1>3, <1>11, <2>1 DEF WriteFrame
  <2> QED
    BY <1>1, <1>2, <1>3, <2>2, <2>3, OneStreamInv
<1>12. CASE CloseStream(k)
  BY <1>5, <1>12 DEF CloseStream
<1> QED
  BY <1>7, <1>8, <1>9, <1>10, <1>11, <1>12

(* The hub's own steps: an announcement reaches the streams of its         *)
(* recipient, the hub shuts down, the session ends.                        *)
LEMMA HubDeliverInv ==
  ASSUME NoteInv, HubDeliver
  PROVE  NoteInv'
<1>1. UNCHANGED <<inboxVars, hubClosed, impActive, opens, noteFaults>> /\ bus # <<>> /\ bus' = Tail(bus)
  BY DEF HubDeliver
<1>2. PICK n : n = Head(bus)
  OBVIOUS
<1>3. bus \in Seq(NoticeRow) /\ Apart(bus) /\ Told(bus) \subseteq Stored
      /\ \A k \in Streams : Told(bus) \cap Told(stream[k].offered) = {}
  BY DEF NoteInv, NotificationsTypeOK, BusIsAlone
<1>4. /\ n \in NoticeRow /\ n \in Told(bus) /\ bus' \in Seq(NoticeRow) /\ Told(bus') \subseteq Told(bus)
      /\ Apart(bus') /\ n \notin Told(bus')
  BY <1>1, <1>2, <1>3, ToldTail
<1>5. stream' = [k \in Streams |-> IF k \in OpenOf(n[2]) THEN Offered(stream[k], n) ELSE stream[k]]
  BY <1>2 DEF HubDeliver
<1>6. ASSUME NEW k \in Streams
      PROVE  /\ stream'[k] \in StreamRow /\ StreamSound(stream'[k], Stored, late)
             /\ Told(stream'[k].offered) \subseteq Told(stream[k].offered) \cup {n}
  <2>1. stream[k] \in StreamRow /\ StreamSound(stream[k], Stored, late)
    BY DEF NoteInv, NotificationsTypeOK, StreamsSound
  <2>2. CASE k \in OpenOf(n[2])
    <3>1. stream'[k] = Offered(stream[k], n) /\ stream[k].pc \in {"select", "check", "frame"}
      BY <1>5, <2>2 DEF OpenOf
    <3>2. n \in Stored /\ n \notin Told(stream[k].offered)
      BY <1>3, <1>4
    <3>3. PICK s : s = stream[k]
      OBVIOUS
    <3>4. s \in StreamRow /\ StreamSound(s, Stored, late) /\ s.pc \in {"select", "check", "frame"} /\ n \notin Told(s.offered)
      BY <2>1, <3>1, <3>2, <3>3
    <3>5. /\ Offered(s, n) \in StreamRow /\ StreamSound(Offered(s, n), Stored, late)
          /\ Told(Offered(s, n).offered) = Told(s.offered) \cup {n}
      BY <1>4, <3>2, <3>4, OfferSound
    <3>6. PICK d : d = Offered(s, n)
      OBVIOUS
    <3>7. d \in StreamRow /\ StreamSound(d, Stored, late) /\ Told(d.offered) = Told(s.offered) \cup {n}
      BY <3>5, <3>6
    <3>8. stream'[k] = d
      BY <3>1, <3>3, <3>6
    <3> QED
      BY <3>3, <3>7, <3>8
  <2>3. CASE k \notin OpenOf(n[2])
    <3>1. stream'[k] = stream[k]
      BY <1>5, <2>3
    <3> QED
      BY <2>1, <3>1
  <2> QED
    BY <2>2, <2>3
<1>7. stream' \in [Streams -> StreamRow]
  BY <1>5, <1>6
<1>8. \A k \in Streams : /\ Told(stream'[k].offered) \subseteq Told(stream[k].offered) \cup Told(bus)
                         /\ Told(stream'[k].offered) \cap Told(bus') = {}
  BY <1>3, <1>4, <1>6
<1>9. opens' \in 0..MaxOpens /\ {hubClosed', impActive'} \subseteq BOOLEAN
  BY <1>1 DEF NoteInv, NotificationsTypeOK
<1> QED
  BY <1>1, <1>4, <1>6, <1>7, <1>8, <1>9, HubStepInv

LEMMA HubEndsInv ==
  ASSUME NoteInv, ShutdownHub \/ SessionEnds
  PROVE  NoteInv'
<1>1. UNCHANGED <<inboxVars, bus, opens, noteFaults>>
  BY DEF ShutdownHub, SessionEnds
<1>2. {hubClosed', impActive'} \subseteq BOOLEAN /\ (impActive' => impActive)
  <2>1. hubClosed \in BOOLEAN /\ impActive \in BOOLEAN
    BY DEF NoteInv, NotificationsTypeOK
  <2>2. hubClosed' = hubClosed \/ hubClosed' = TRUE
    BY DEF ShutdownHub, SessionEnds
  <2>3. impActive' = impActive \/ impActive' = FALSE
    BY DEF ShutdownHub, SessionEnds
  <2>4. hubClosed' \in BOOLEAN
    BY <2>1, <2>2
  <2>5. impActive' \in BOOLEAN /\ (impActive' => impActive)
    <3>1. CASE impActive' = impActive
      BY <2>1, <3>1, Zenon
    <3>2. CASE impActive' = FALSE
      BY <3>2, Zenon
    <3> QED
      BY <2>3, <3>1, <3>2
  <2> QED
    BY <2>4, <2>5
<1>3. ASSUME NEW k \in Streams
      PROVE  stream'[k] \in StreamRow /\ StreamSound(stream'[k], Stored, late) /\ stream'[k].offered = stream[k].offered
  <2>1. PICK s : s = stream[k]
    OBVIOUS
  <2>2. s \in StreamRow /\ StreamSound(s, Stored, late)
    BY <2>1 DEF NoteInv, NotificationsTypeOK, StreamsSound
  <2>3. CASE SessionEnds
    BY <2>1, <2>2, <2>3 DEF SessionEnds
  <2>4. CASE ShutdownHub
    <3>1. PICK h \in BOOLEAN : h = (s.pc \in {"select", "check", "frame"})
      <4>1. CASE s.pc \in {"select", "check", "frame"}
        <5>1. TRUE = (s.pc \in {"select", "check", "frame"})
          BY <4>1
        <5> QED
          BY <5>1
      <4>2. CASE s.pc \notin {"select", "check", "frame"}
        <5>1. FALSE = (s.pc \in {"select", "check", "frame"})
          BY <4>2
        <5> QED
          BY <5>1
      <4> QED
        BY <4>1, <4>2
    <3>2. PICK d : d = [s EXCEPT !.done = h]
      OBVIOUS
    <3>3. stream'[k] = d
      BY <2>1, <2>4, <3>1, <3>2 DEF ShutdownHub
    <3>4. d \in StreamRow
      BY <2>2, <3>2 DEF StreamRow
    <3>5. /\ d.offered = s.offered /\ d.queue = s.queue /\ d.written = s.written /\ d.held = s.held /\ d.dropped = s.dropped
          /\ d.reported = s.reported /\ d.pc = s.pc /\ d.imp = s.imp
      BY <2>2, <3>2 DEF StreamRow
    <3>6. StreamSound(d, Stored, late)
      BY <2>2, <3>5 DEF StreamSound, HeldCount
    <3> QED
      BY <2>1, <3>3, <3>4, <3>5, <3>6
  <2> QED
    BY <2>3, <2>4
<1>4. stream' \in [Streams -> StreamRow]
  <2>1. stream' = [k \in Streams |-> stream'[k]]
    BY DEF ShutdownHub, SessionEnds, NoteInv, NotificationsTypeOK
  <2> QED
    BY <1>3, <2>1
<1>5. bus \in Seq(NoticeRow) /\ Apart(bus) /\ \A k \in Streams : Told(bus) \cap Told(stream[k].offered) = {}
  BY DEF NoteInv, NotificationsTypeOK, BusIsAlone
<1>6. opens' \in 0..MaxOpens
  BY <1>1 DEF NoteInv, NotificationsTypeOK
<1>7. bus' \in Seq(NoticeRow) /\ Apart(bus') /\ Told(bus') \subseteq Told(bus)
  BY <1>1, <1>5
<1>8. \A k \in Streams : /\ Told(stream'[k].offered) \subseteq Told(stream[k].offered) \cup Told(bus)
                         /\ Told(stream'[k].offered) \cap Told(bus') = {}
  BY <1>1, <1>3, <1>5
<1> QED
  BY <1>1, <1>2, <1>3, <1>4, <1>6, <1>7, <1>8, HubStepInv

LEMMA NotificationsNextInv == NoteInv /\ [NotificationsNext]_noteVars => NoteInv'
<1> SUFFICES ASSUME NoteInv, [NotificationsNext]_noteVars PROVE NoteInv'
  OBVIOUS
<1>1. CASE UNCHANGED noteVars
  <2>1. UNCHANGED <<copies, sent, claims, deliverer, inbox, undone, bus, stream, hubClosed, impActive, late, noteFaults, opens>>
    BY <1>1 DEF noteVars
  <2>2. Stored' = Stored
    BY <2>1 DEF Stored
  <2>3. NotificationsTypeOK'
    BY <2>1 DEF NoteInv, NotificationsTypeOK
  <2>4. FreshIsAlone' /\ BusIsAlone' /\ StreamsSound'
    BY <2>1, <2>2 DEF NoteInv, FreshIsAlone, BusIsAlone, Told, Apart, RowOf, StreamsSound
  <2>5. DeliveriesSound' /\ DeliveriesApart' /\ RowsNumbered' /\ OneRow' /\ ToldHaveRows'
    BY <2>1, <2>2 DEF NoteInv, DeliveriesSound, DeliveriesApart, RowsNumbered, OneRow, ToldHaveRows
  <2> QED
    BY <2>1, <2>3, <2>4, <2>5 DEF NoteInv
<1>2. ASSUME NEW w \in NoteWorkers, NEW e \in NoteEvents, NotifyChange(e, w) \/ Redeliver(e, w) PROVE NoteInv'
  BY <1>2, ReceiveInv
<1>3. ASSUME NEW w \in NoteWorkers, ClaimCommand(w) PROVE NoteInv'
  BY <1>3, ClaimCommandInv
<1>4. ASSUME NEW w \in NoteWorkers, NEW u \in NoteUsers, InsertNotice(w, u) PROVE NoteInv'
  BY <1>4, InsertNoticeInv
<1>5. ASSUME NEW w \in NoteWorkers, NEW u \in NoteUsers, RecipientFails(w, u) PROVE NoteInv'
  BY <1>5, RecipientFailsInv
<1>6. ASSUME NEW w \in NoteWorkers, PublishNotice(w) PROVE NoteInv'
  BY <1>6, PublishNoticeInv
<1>7. ASSUME NEW w \in NoteWorkers, CommitDelivery(w) PROVE NoteInv'
  BY <1>7, CommitDeliveryInv
<1>8. ASSUME NEW w \in NoteWorkers, AckDelivery(w) \/ FailDelivery(w) \/ WorkerDies(w) PROVE NoteInv'
  BY <1>8, DeliveryEndsInv
<1>9. ASSUME NEW k \in Streams,
             \/ \E u \in NoteUsers, imp \in BOOLEAN : BeginStream(k, u, imp)
             \/ Register(k) \/ TakeEvent(k) \/ CheckSession(k) \/ WriteFrame(k) \/ CloseStream(k)
      PROVE  NoteInv'
  BY <1>9, StreamsInv
<1>10. CASE HubDeliver
  BY <1>10, HubDeliverInv
<1>11. CASE ShutdownHub \/ SessionEnds
  BY <1>11, HubEndsInv
<1> QED
  BY <1>1, <1>2, <1>3, <1>4, <1>5, <1>6, <1>7, <1>8, <1>9, <1>10, <1>11 DEF NotificationsNext

LEMMA NoteInvIsEnough == NoteInv => NotificationsInvariant
<1> SUFFICES ASSUME NoteInv PROVE NotificationsInvariant
  OBVIOUS
<1>1. PushedOnce
  <2>1. \A r, s \in inbox : r[1] = s[1] /\ r[2] = s[2] => r = s
    BY DEF NoteInv, OneRow
  <2>2. ASSUME NEW k \in Streams, NEW i \in DOMAIN stream[k].offered, NEW j \in DOMAIN stream[k].offered, i # j,
               NEW r, r = stream[k].offered[i], NEW s, s = stream[k].offered[j]
        PROVE  r # s /\ (r[1] = s[1] /\ r[2] = s[2] => r \in undone \/ s \in undone)
    <3>1. r # s /\ r \in Stored /\ s \in Stored
      BY <2>2 DEF NoteInv, StreamsSound, StreamSound, Apart, Told
    <3> QED
      BY <2>1, <3>1 DEF Stored
  <2> QED
    BY <2>1, <2>2 DEF PushedOnce
<1>2. HandledIsStored
  <2> SUFFICES ASSUME NEW w \in NoteWorkers, deliverer[w].pc = "ack", NEW u \in deliverer[w].told
               PROVE  \E r \in inbox \ Uncommitted : r[1] = deliverer[w].event /\ r[2] = u
    BY DEF HandledIsStored
  <2>1. deliverer[w].todo = {} /\ deliverer[w].failed = FALSE
    BY DEF NoteInv, DeliveriesSound, DeliverySound
  <2>2. HasRow(deliverer[w], u, inbox, deliverer)
    BY <2>1 DEF NoteInv, ToldHaveRows, ToldHave
  <2> QED
    BY <2>2, UncommittedRows DEF HasRow
<1>3. EndedSeesNothing
  BY DEF NoteInv, StreamsSound, StreamSound, EndedSeesNothing
<1>4. StreamAccounts
  BY DEF NoteInv, StreamsSound, StreamSound, HeldCount, StreamAccounts
<1> QED
  BY <1>1, <1>2, <1>3, <1>4 DEF NoteInv, NotificationsInvariant

(* However often a command is delivered, by however many workers and by    *)
(* however many commands with its dedupe keys, the inbox has one row of a  *)
(* notice and a stream is offered a row once, and a notice again only      *)
(* after a rollback; what is acknowledged is stored for everyone it told;  *)
(* a stream accounts for every row offered; and nothing inserted after an  *)
(* impersonation session ended is written to its stream (Once, Inbox       *)
(* .deliver, Hub.Deliver, checkSession), for any number of events, users,  *)
(* workers and streams.                                                    *)
THEOREM NoticesArePushedOnce == NotificationsSpec => []NotificationsInvariant
<1>1. NotificationsInit => NoteInv
  BY NotificationsInitInv
<1>2. NoteInv /\ [NotificationsNext]_noteVars => NoteInv'
  BY NotificationsNextInv
<1>3. NoteInv => NotificationsInvariant
  BY NoteInvIsEnough
<1> QED
  BY <1>1, <1>2, <1>3, PTL DEF NotificationsSpec

-----------------------------------------------------------------------------
(* The audit log.  A request under way owes nothing yet and impersonates   *)
(* only on a route that is known.  The recorder's goroutine has room in    *)
(* its batch while it takes entries, and it drains and ends only once the  *)
(* recorder is closed: whatever was queued before is then on its way.      *)

RequestSound(r) == r.pc # "done" => r.owed = FALSE /\ (r.imp => r.matched)

RecorderSound ==
  /\ auditPc \in {"run", "drain"} => Len(auditBatch) < AuditBatchSize
  /\ auditPc = "drain" \/ auditPc \in Drained => stopped

AuditInv ==
  /\ AuditTypeOK /\ AuditAccounted /\ EntryStoredOnce /\ RecorderSound
  /\ \A q \in HttpReqs : RequestSound(http[q])

LEMMA AuditTypes ==
  /\ NotArrived \in HttpReq /\ RequestSound(NotArrived)
  /\ \A op \in Operations : Routes[op].group \in {"admin", "self"} => Routes[op].named # "skipped"
<1>1. "health" \in Operations
  BY DEF Operations, Routes
<1>2. NotArrived \in HttpReq /\ RequestSound(NotArrived)
  BY <1>1 DEF NotArrived, HttpReq, Bearers, RequestSound, Statuses
<1>3. \A op \in Operations : Routes[op].group \in {"admin", "self"} => Routes[op].named # "skipped"
  <2>1. Operations = {"list", "settings", "password", "login", "refresh", "comment", "health"}
    BY DEF Operations, Routes
  <2>2. /\ Routes.list.named # "skipped" /\ Routes.settings.named # "skipped" /\ Routes.password.named # "skipped"
        /\ Routes.login.named # "skipped" /\ Routes.comment.named # "skipped" /\ Routes.health.named # "skipped"
    BY DEF Routes
  <2>3. Routes.refresh.group = "auth"
    BY DEF Routes
  <2> QED
    BY <2>1, <2>2, <2>3
<1> QED
  BY <1>2, <1>3

(* What is on a queue after a step of it.                                  *)
LEMMA QueuedAppend ==
  ASSUME NEW S, NEW s \in Seq(S), NEW e \in S
  PROVE  Append(s, e) \in Seq(S) /\ ToSet(Append(s, e)) = ToSet(s) \cup {e} /\ Len(Append(s, e)) = Len(s) + 1
<1>1. PICK a : a = Append(s, e)
  OBVIOUS
<1>2. PICK n \in Nat : n = Len(s)
  OBVIOUS
<1>3. /\ a \in Seq(S) /\ Len(a) = n + 1 /\ DOMAIN a = 1..n + 1 /\ DOMAIN s = 1..n
      /\ \A i \in 1..n : a[i] = s[i]
      /\ a[n + 1] = e
  BY <1>1, <1>2
<1>4. ToSet(a) = ToSet(s) \cup {e}
  <2>1. ASSUME NEW x \in ToSet(a) PROVE x \in ToSet(s) \cup {e}
    <3>1. PICK i \in 1..n + 1 : x = a[i]
      BY <1>3, <2>1 DEF ToSet
    <3>2. i \in 1..n \/ i = n + 1
      OBVIOUS
    <3> QED
      BY <1>3, <3>1, <3>2 DEF ToSet
  <2>2. ASSUME NEW x \in ToSet(s) PROVE x \in ToSet(a)
    BY <1>3, <2>2 DEF ToSet
  <2>3. e \in ToSet(a)
    BY <1>3 DEF ToSet
  <2> QED
    BY <2>1, <2>2, <2>3
<1> QED
  BY <1>1, <1>2, <1>3, <1>4

LEMMA QueuedTail ==
  ASSUME NEW S, NEW s \in Seq(S), s # <<>>
  PROVE  Head(s) \in S /\ Tail(s) \in Seq(S) /\ ToSet(s) = {Head(s)} \cup ToSet(Tail(s)) /\ Len(Tail(s)) = Len(s) - 1
<1>1. PICK a : a = Tail(s)
  OBVIOUS
<1>2. PICK n \in Nat : n = Len(s)
  OBVIOUS
<1>3. /\ n > 0 /\ Head(s) = s[1] /\ Head(s) \in S /\ a \in Seq(S) /\ Len(a) = n - 1
      /\ DOMAIN a = 1..n - 1 /\ DOMAIN s = 1..n
      /\ \A i \in 1..n - 1 : a[i] = s[i + 1]
  BY <1>1, <1>2
<1>4. ToSet(s) = {Head(s)} \cup ToSet(a)
  <2>1. ASSUME NEW x \in ToSet(s) PROVE x \in {Head(s)} \cup ToSet(a)
    <3>1. PICK i \in 1..n : x = s[i]
      BY <1>3, <2>1 DEF ToSet
    <3>2. CASE i = 1
      BY <1>3, <3>1, <3>2
    <3>3. CASE i # 1
      <4>1. PICK j \in 1..n - 1 : i = j + 1
        <5>1. i - 1 \in 1..n - 1 /\ i = (i - 1) + 1
          BY <3>3
        <5> QED
          BY <5>1
      <4>2. x = a[j]
        BY <1>3, <3>1, <4>1
      <4> QED
        BY <1>3, <4>2 DEF ToSet
    <3> QED
      BY <3>2, <3>3
  <2>2. ASSUME NEW x \in ToSet(a) PROVE x \in ToSet(s)
    <3>1. PICK i \in 1..n - 1 : x = s[i + 1]
      BY <1>3, <2>2 DEF ToSet
    <3>2. i + 1 \in 1..n
      OBVIOUS
    <3> QED
      BY <1>3, <3>1, <3>2 DEF ToSet
  <2>3. Head(s) \in ToSet(s)
    BY <1>3 DEF ToSet
  <2> QED
    BY <2>1, <2>2, <2>3
<1> QED
  BY <1>1, <1>2, <1>3, <1>4

(* A request moves on in the chain.                                        *)
LEMMA RequestMoves ==
  ASSUME AuditInv, NEW q \in HttpReqs, NEW d \in HttpReq, RequestSound(d), d.owed = FALSE,
         http' = [http EXCEPT ![q] = d], slots' \subseteq HttpReqs, UNCHANGED trailVars
  PROVE  AuditInv'
<1>1. UNCHANGED <<maxInFlight, serving, stopped, auditQueue, droppedEntries, auditBatch, auditPc, brokered, topic,
                  poisoned, auditLog, auditFaults>>
  BY DEF trailVars, writerVars
<1>2. AuditTypeOK'
  BY <1>1 DEF AuditInv, AuditTypeOK
<1>3. \A k \in HttpReqs : http'[k] = http[k] \/ http'[k] = d
  BY DEF AuditInv, AuditTypeOK
<1>4. \A k \in HttpReqs : Accounted(k)' <=> Accounted(k)
  BY <1>1 DEF Accounted
<1>5. AuditAccounted'
  BY <1>3, <1>4 DEF AuditInv, AuditAccounted
<1>6. EntryStoredOnce' /\ RecorderSound'
  BY <1>1 DEF AuditInv, EntryStoredOnce, RecorderSound
<1>7. \A k \in HttpReqs : RequestSound(http'[k])
  BY <1>3 DEF AuditInv
<1> QED
  BY <1>2, <1>5, <1>6, <1>7 DEF AuditInv

(* The steps before Audit's second half.                                   *)
LEMMA PassesInv ==
  ASSUME AuditInv, NEW q \in HttpReqs, http[q].pc # "done", slots' \subseteq HttpReqs, UNCHANGED trailVars,
         NEW next \in {"gate", "limit", "handler", "send"}, Passes(q, next)
  PROVE  AuditInv'
<1>1. PICK r \in HttpReq : r = http[q] /\ RequestSound(r) /\ http \in [HttpReqs -> HttpReq]
  BY DEF AuditInv, AuditTypeOK
<1>2. PICK d : d = [r EXCEPT !.pc = next]
  OBVIOUS
<1>3. d \in HttpReq
  BY <1>1, <1>2 DEF HttpReq
<1>4. d.owed = r.owed /\ d.imp = r.imp /\ d.matched = r.matched
  BY <1>1, <1>2 DEF HttpReq
<1>5. http' = [http EXCEPT ![q] = d]
  BY <1>1, <1>2 DEF Passes
<1>6. RequestSound(d) /\ d.owed = FALSE
  BY <1>1, <1>4 DEF RequestSound
<1> QED
  BY <1>3, <1>5, <1>6, RequestMoves

LEMMA RejectsInv ==
  ASSUME AuditInv, NEW q \in HttpReqs, http[q].pc # "done", slots' \subseteq HttpReqs, UNCHANGED trailVars,
         NEW code \in Statuses, Rejects(q, code)
  PROVE  AuditInv'
<1>1. PICK r \in HttpReq : r = http[q] /\ RequestSound(r) /\ http \in [HttpReqs -> HttpReq]
  BY DEF AuditInv, AuditTypeOK
<1>2. PICK d : d = [r EXCEPT !.pc = "audit", !.status = code]
  OBVIOUS
<1>3. d \in HttpReq
  BY <1>1, <1>2 DEF HttpReq
<1>4. d.owed = r.owed /\ d.imp = r.imp /\ d.matched = r.matched
  BY <1>1, <1>2 DEF HttpReq
<1>5. http' = [http EXCEPT ![q] = d]
  BY <1>1, <1>2 DEF Rejects
<1>6. RequestSound(d) /\ d.owed = FALSE
  BY <1>1, <1>4 DEF RequestSound
<1> QED
  BY <1>3, <1>5, <1>6, RequestMoves

LEMMA ArriveInv ==
  ASSUME AuditInv, NEW q \in HttpReqs, Arrive(q)
  PROVE  AuditInv'
<1>1. PICK e \in HttpReq : e = NotArrived /\ e.owed = FALSE /\ e.imp = FALSE
  BY AuditTypes DEF NotArrived
<1>2. UNCHANGED trailVars
  BY DEF Arrive
<1>3. slots \subseteq HttpReqs
  BY DEF AuditInv, AuditTypeOK
<1>4. PICK op \in Operations, bearer \in Bearers :
        /\ slots' \in {slots, slots \cup {q}}
        /\ \/ http' = [http EXCEPT ![q] = [NotArrived EXCEPT !.pc = "done"]]
           \/ http' = [http EXCEPT ![q] = [NotArrived EXCEPT !.pc = "auth", !.op = op, !.bearer = bearer]]
  BY DEF Arrive
<1>5. slots' \subseteq HttpReqs
  BY <1>3, <1>4
<1>6. CASE http' = [http EXCEPT ![q] = [NotArrived EXCEPT !.pc = "done"]]
  <2>1. PICK d : d = [e EXCEPT !.pc = "done"]
    OBVIOUS
  <2>2. d \in HttpReq /\ d.owed = FALSE /\ d.imp = FALSE
    BY <1>1, <2>1 DEF HttpReq
  <2>3. http' = [http EXCEPT ![q] = d]
    BY <1>1, <1>6, <2>1
  <2>4. RequestSound(d)
    BY <2>2 DEF RequestSound
  <2> QED
    BY <1>2, <1>5, <2>2, <2>3, <2>4, RequestMoves
<1>7. CASE http' = [http EXCEPT ![q] = [NotArrived EXCEPT !.pc = "auth", !.op = op, !.bearer = bearer]]
  <2>1. PICK d : d = [e EXCEPT !.pc = "auth", !.op = op, !.bearer = bearer]
    OBVIOUS
  <2>2. d \in HttpReq /\ d.owed = FALSE /\ d.imp = FALSE
    <3>1. d \in HttpReq
      BY <1>1, <1>4, <2>1 DEF HttpReq
    <3>2. d.owed = FALSE /\ d.imp = FALSE
      BY <1>1, <2>1 DEF HttpReq
    <3> QED
      BY <3>1, <3>2
  <2>3. http' = [http EXCEPT ![q] = d]
    BY <1>1, <1>7, <2>1
  <2>4. RequestSound(d)
    BY <2>2 DEF RequestSound
  <2> QED
    BY <1>2, <1>5, <2>2, <2>3, <2>4, RequestMoves
<1> QED
  BY <1>4, <1>6, <1>7

LEMMA BearerAuthInv ==
  ASSUME AuditInv, NEW q \in HttpReqs, BearerAuth(q)
  PROVE  AuditInv'
<1>1. PICK r \in HttpReq : r = http[q] /\ RequestSound(r) /\ http \in [HttpReqs -> HttpReq]
  BY DEF AuditInv, AuditTypeOK
<1>2. UNCHANGED trailVars /\ slots' \subseteq HttpReqs /\ r.pc = "auth"
  BY <1>1 DEF BearerAuth, AuditInv, AuditTypeOK
<1> DEFINE known == http[q].bearer \in {"user", "imp"} /\ RouteFor(q).auth # "none"
<1> DEFINE Admitted(yes) == http' = [http EXCEPT ![q].pc = "guard", ![q].matched = TRUE,
                               ![q].bearer = "none",
                               ![q].signedIn = yes, ![q].imp = yes /\ http[q].bearer = "imp"]
<1>3. Admitted(known) \/ Admitted(FALSE) \/ Rejects(q, 401) \/ Rejects(q, 500)
  BY DEF BearerAuth
<1>4. ASSUME NEW yes \in BOOLEAN, Admitted(yes)
      PROVE  AuditInv'
  <2>1. PICK b \in BOOLEAN : b = (yes /\ http[q].bearer = "imp")
    <3>1. CASE yes /\ http[q].bearer = "imp"
      <4>1. TRUE = (yes /\ http[q].bearer = "imp")
        BY <3>1
      <4> QED
        BY <4>1
    <3>2. CASE ~(yes /\ http[q].bearer = "imp")
      <4>1. FALSE = (yes /\ http[q].bearer = "imp")
        BY <3>2
      <4> QED
        BY <4>1
    <3> QED
      BY <3>1, <3>2
  <2>2. PICK d : d = [r EXCEPT !.pc = "guard", !.matched = TRUE, !.bearer = "none", !.signedIn = yes, !.imp = b]
    OBVIOUS
  <2>3. http' = [http EXCEPT ![q] = d]
    BY <1>1, <1>4, <2>1, <2>2
  <2>4. d \in HttpReq /\ d.owed = r.owed /\ d.matched
    <3>1. d \in HttpReq
      BY <1>1, <2>1, <2>2 DEF HttpReq, Bearers
    <3>2. d.owed = r.owed /\ d.matched
      BY <1>1, <2>2 DEF HttpReq
    <3> QED
      BY <3>1, <3>2
  <2>5. RequestSound(d) /\ d.owed = FALSE
    BY <1>1, <1>2, <2>4 DEF RequestSound
  <2> QED
    BY <1>2, <2>3, <2>4, <2>5, RequestMoves
<1>5. CASE Admitted(known)
  <2>1. PICK b \in BOOLEAN : b = known
    <3>1. CASE known
      <4>1. TRUE = known
        BY <3>1
      <4> QED
        BY <4>1
    <3>2. CASE ~known
      <4>1. FALSE = known
        BY <3>2
      <4> QED
        BY <4>1
    <3> QED
      BY <3>1, <3>2
  <2>2. Admitted(b)
    BY <1>5, <2>1
  <2> QED
    BY <1>4, <2>2
<1>6. CASE Admitted(FALSE)
  BY <1>4, <1>6
<1>7. CASE Rejects(q, 401) \/ Rejects(q, 500)
  <2>1. PICK code \in Statuses : Rejects(q, code)
    BY <1>7 DEF Statuses
  <2>2. http[q].pc # "done"
    BY <1>1, <1>2
  <2> QED
    BY <1>2, <2>1, <2>2, RejectsInv
<1> QED
  BY <1>3, <1>5, <1>6, <1>7

LEMMA GuardsInv ==
  ASSUME AuditInv, NEW q \in HttpReqs, ImpersonationGuard(q) \/ RequirePermission(q) \/ RateLimit(q)
  PROVE  AuditInv'
<1>1. UNCHANGED trailVars /\ slots' \subseteq HttpReqs /\ http[q].pc # "done"
  BY DEF ImpersonationGuard, RequirePermission, RateLimit, AuditInv, AuditTypeOK
<1>2. \/ \E next \in {"gate", "limit", "handler", "send"} : Passes(q, next)
      \/ \E code \in Statuses : Rejects(q, code)
  BY DEF ImpersonationGuard, RequirePermission, RateLimit, Statuses
<1> QED
  BY <1>1, <1>2, PassesInv, RejectsInv

LEMMA HandleInv ==
  ASSUME AuditInv, NEW q \in HttpReqs, Handle(q)
  PROVE  AuditInv'
<1>1. PICK r \in HttpReq : r = http[q] /\ RequestSound(r) /\ http \in [HttpReqs -> HttpReq]
  BY DEF AuditInv, AuditTypeOK
<1>2. UNCHANGED trailVars /\ slots' \subseteq HttpReqs /\ r.pc = "handler"
  BY <1>1 DEF Handle, AuditInv, AuditTypeOK
<1>3. PICK code \in Answers, named \in BOOLEAN :
        /\ named => RouteFor(q).group = "auth"
        /\ http' = [http EXCEPT ![q].pc = "audit", ![q].status = code, ![q].signedIn = @ \/ named]
  BY Zenon DEF Handle
<1>4. PICK b \in BOOLEAN : b = (r.signedIn \/ named)
  <2>1. CASE r.signedIn \/ named
    <3>1. TRUE = (r.signedIn \/ named)
      BY <2>1
    <3> QED
      BY <3>1
  <2>2. CASE ~(r.signedIn \/ named)
    <3>1. FALSE = (r.signedIn \/ named)
      BY <2>2
    <3> QED
      BY <3>1
  <2> QED
    BY <2>1, <2>2
<1>5. PICK d : d = [r EXCEPT !.pc = "audit", !.status = code, !.signedIn = b]
  OBVIOUS
<1>6. http' = [http EXCEPT ![q] = d]
  <2>1. b = (http[q].signedIn \/ named)
    BY <1>1, <1>4
  <2>2. http' = [http EXCEPT ![q].pc = "audit", ![q].status = code, ![q].signedIn = b]
    BY <1>3, <2>1, Zenon
  <2> QED
    BY <1>1, <1>5, <2>2
<1>7. d \in HttpReq /\ d.owed = r.owed /\ d.imp = r.imp /\ d.matched = r.matched
  <2>1. code \in Statuses /\ b \in BOOLEAN
    BY <1>3, <1>4 DEF Answers, Statuses
  <2>2. d \in HttpReq
    BY <1>1, <1>5, <2>1 DEF HttpReq
  <2>3. d.owed = r.owed /\ d.imp = r.imp /\ d.matched = r.matched
    BY <1>1, <1>5 DEF HttpReq
  <2> QED
    BY <2>2, <2>3
<1>8. RequestSound(d) /\ d.owed = FALSE
  BY <1>1, <1>2, <1>7 DEF RequestSound
<1> QED
  BY <1>2, <1>6, <1>7, <1>8, RequestMoves

(* A request ends; what it owes is queued, counted, or promised no longer. *)
LEMMA FinishInv ==
  ASSUME AuditInv, NEW q \in HttpReqs, NEW panicked \in BOOLEAN, Finish(q, panicked),
         UNCHANGED <<maxInFlight, serving, stopped, writerVars>>,
         auditQueue' \in Seq(HttpReqs), Len(auditQueue') <= AuditQueueSize,
         ToSet(auditQueue) \subseteq ToSet(auditQueue'),
         droppedEntries' \subseteq HttpReqs, droppedEntries \subseteq droppedEntries',
         Owed(q) /\ ~panicked /\ ~stopped => Accounted(q)'
  PROVE  AuditInv'
<1>1. /\ UNCHANGED <<maxInFlight, serving, stopped, auditBatch, auditPc, brokered, topic, poisoned, auditLog, auditFaults>>
      /\ http \in [HttpReqs -> HttpReq] /\ http[q] \in HttpReq
  BY DEF writerVars, AuditInv, AuditTypeOK
<1>2. PICK o \in BOOLEAN : o = Owed(q)
  <2>1. CASE Owed(q)
    <3>1. TRUE = Owed(q)
      BY <2>1, Zenon
    <3> QED
      BY <3>1
  <2>2. CASE ~Owed(q)
    <3>1. FALSE = Owed(q)
      BY <2>2 DEF Owed
    <3> QED
      BY <3>1
  <2> QED
    BY <2>1, <2>2
<1>3. PICK i \in BOOLEAN : i = http[q].imp
  BY <1>1 DEF HttpReq
<1>4. PICK s \in BOOLEAN : s = stopped
  BY DEF AuditInv, AuditTypeOK
<1>5. PICK e \in HttpReq : e = NotArrived
  BY AuditTypes
<1>6. PICK d : d = [e EXCEPT !.pc = "done", !.imp = i, !.owed = o, !.panicked = panicked, !.late = s]
  OBVIOUS
<1>7. d \in HttpReq
  <2>1. PICK f : f = [e EXCEPT !.pc = "done", !.imp = i]
    OBVIOUS
  <2>2. f \in HttpReq
    BY <1>3, <1>5, <2>1 DEF HttpReq
  <2>3. PICK g : g = [f EXCEPT !.owed = o, !.panicked = panicked]
    OBVIOUS
  <2>4. g \in HttpReq
    BY <1>2, <2>2, <2>3 DEF HttpReq
  <2>5. [g EXCEPT !.late = s] \in HttpReq
    BY <1>4, <2>4 DEF HttpReq
  <2>6. d = [g EXCEPT !.late = s]
    BY <1>5, <1>6, <2>1, <2>3
  <2> QED
    BY <2>5, <2>6
<1>8. d.pc = "done" /\ d.owed = o /\ d.panicked = panicked /\ d.late = s
  BY <1>5, <1>6 DEF HttpReq
<1>9. http' = [http EXCEPT ![q] = d] /\ slots' = slots \ {q}
  BY <1>2, <1>3, <1>4, <1>5, <1>6 DEF Finish
<1>10. AuditTypeOK'
  BY <1>1, <1>7, <1>9 DEF AuditInv, AuditTypeOK
<1>11. ASSUME NEW k \in HttpReqs, Accounted(k) PROVE Accounted(k)'
  BY <1>1, <1>11 DEF Accounted
<1>12. AuditAccounted'
  <2> SUFFICES ASSUME NEW k \in HttpReqs, http'[k].owed, ~http'[k].panicked, ~http'[k].late PROVE Accounted(k)'
    BY DEF AuditAccounted
  <2>1. CASE k = q
    <3>1. http'[q] = d
      BY <1>1, <1>9
    <3>2. Owed(q) /\ ~panicked /\ ~stopped
      BY <1>2, <1>4, <1>8, <2>1, <3>1
    <3> QED
      BY <2>1, <3>2
  <2>2. CASE k # q
    <3>1. http'[k] = http[k]
      BY <1>1, <1>9, <2>2
    <3> QED
      BY <1>11, <3>1 DEF AuditInv, AuditAccounted
  <2> QED
    BY <2>1, <2>2
<1>13. EntryStoredOnce' /\ RecorderSound'
  BY <1>1 DEF AuditInv, EntryStoredOnce, RecorderSound
<1>14. \A k \in HttpReqs : RequestSound(http'[k])
  <2>1. RequestSound(d)
    BY <1>8 DEF RequestSound
  <2> QED
    BY <1>1, <1>9, <2>1 DEF AuditInv
<1> QED
  BY <1>10, <1>12, <1>13, <1>14 DEF AuditInv

(* What is owed is made an entry of.                                       *)
LEMMA OwedMakesEntry ==
  ASSUME AuditInv, NEW q \in HttpReqs, http[q].pc # "done", Owed(q)
  PROVE  MakesEntry(q)
<1>1. PICK r \in HttpReq : r = http[q] /\ RequestSound(r)
  BY DEF AuditInv, AuditTypeOK
<1>2. CASE r.imp
  BY <1>1, <1>2 DEF RequestSound, MakesEntry
<1>3. CASE ~r.imp
  <2>1. r.matched /\ RouteFor(q).mutating /\ Success(r) /\ RouteFor(q).group \in {"admin", "self"}
    BY <1>1, <1>3 DEF Owed
  <2>2. http[q].op \in Operations
    BY <1>1 DEF HttpReq
  <2>3. RouteFor(q).named # "skipped"
    BY <2>1, <2>2, AuditTypes DEF RouteFor
  <2>4. Audited(q)
    BY <1>1, <2>1, <2>3 DEF Audited
  <2> QED
    BY <1>1, <2>1, <2>4 DEF MakesEntry
<1> QED
  BY <1>2, <1>3

LEMMA EndsInv ==
  ASSUME AuditInv, NEW q \in HttpReqs, HandlerPanics(q) \/ RecordEntry(q) \/ SendEntry(q)
  PROVE  AuditInv'
<1>1. /\ auditQueue \in Seq(HttpReqs) /\ Len(auditQueue) <= AuditQueueSize /\ droppedEntries \subseteq HttpReqs
      /\ slots \subseteq HttpReqs
  BY DEF AuditInv, AuditTypeOK
<1>2. CASE HandlerPanics(q)
  <2>1. Finish(q, TRUE) /\ UNCHANGED <<maxInFlight, serving, stopped, writerVars, auditQueue, droppedEntries>>
    BY <1>2 DEF HandlerPanics, trailVars
  <2> QED
    BY <1>1, <2>1, FinishInv
<1>3. CASE RecordEntry(q)
  <2>1. http[q].pc = "audit" /\ UNCHANGED <<maxInFlight, serving, stopped, auditQueue, writerVars>>
    BY <1>3 DEF RecordEntry
  <2>2. CASE MakesEntry(q) /\ ~stopped
    <3>1. Passes(q, "send") /\ slots' = slots /\ droppedEntries' = droppedEntries
      BY <1>3, <2>2 DEF RecordEntry
    <3>2. UNCHANGED trailVars
      BY <2>1, <3>1 DEF trailVars
    <3>3. slots' \subseteq HttpReqs /\ http[q].pc # "done"
      BY <1>1, <2>1, <3>1
    <3> QED
      BY <3>1, <3>2, <3>3, PassesInv
  <2>3. CASE ~(MakesEntry(q) /\ ~stopped)
    <3>1. Finish(q, FALSE) /\ droppedEntries' = IF MakesEntry(q) THEN droppedEntries \cup {q} ELSE droppedEntries
      BY <1>3, <2>3 DEF RecordEntry
    <3>2. Owed(q) /\ ~stopped => FALSE
      BY <2>1, <2>3, OwedMakesEntry
    <3>3. auditQueue' \in Seq(HttpReqs) /\ Len(auditQueue') <= AuditQueueSize /\ ToSet(auditQueue) \subseteq ToSet(auditQueue')
      BY <1>1, <2>1
    <3>4. droppedEntries' \subseteq HttpReqs /\ droppedEntries \subseteq droppedEntries'
      BY <1>1, <3>1
    <3> QED
      BY <2>1, <3>1, <3>2, <3>3, <3>4, FinishInv
  <2> QED
    BY <2>2, <2>3
<1>4. CASE SendEntry(q)
  <2>1. http[q].pc = "send" /\ Finish(q, FALSE) /\ UNCHANGED <<maxInFlight, serving, stopped, writerVars>>
    BY <1>4 DEF SendEntry
  <2>2. UNCHANGED <<stopped, auditPc>>
    BY <2>1 DEF writerVars
  <2>3. CASE Len(auditQueue) < AuditQueueSize
    <3>1. auditQueue' = Append(auditQueue, q) /\ droppedEntries' = droppedEntries
      BY <1>4, <2>3 DEF SendEntry
    <3>2. auditQueue' \in Seq(HttpReqs) /\ ToSet(auditQueue') = ToSet(auditQueue) \cup {q} /\ Len(auditQueue') = Len(auditQueue) + 1
      BY <1>1, <3>1, QueuedAppend
    <3>3. Len(auditQueue') <= AuditQueueSize
      BY <1>1, <2>3, <3>2, AuditBounds
    <3>4. ~stopped => Accounted(q)'
      BY <2>2, <3>2 DEF AuditInv, RecorderSound, Accounted
    <3> QED
      BY <1>1, <2>1, <3>1, <3>2, <3>3, <3>4, FinishInv
  <2>4. CASE ~(Len(auditQueue) < AuditQueueSize)
    <3>1. auditQueue' = auditQueue /\ droppedEntries' = droppedEntries \cup {q}
      BY <1>4, <2>4 DEF SendEntry
    <3>2. Accounted(q)'
      BY <3>1 DEF Accounted
    <3>3. auditQueue' \in Seq(HttpReqs) /\ Len(auditQueue') <= AuditQueueSize /\ ToSet(auditQueue) \subseteq ToSet(auditQueue')
      BY <1>1, <3>1
    <3>4. droppedEntries' \subseteq HttpReqs /\ droppedEntries \subseteq droppedEntries'
      BY <1>1, <3>1
    <3> QED
      BY <2>1, <3>2, <3>3, <3>4, FinishInv
  <2> QED
    BY <2>3, <2>4
<1> QED
  BY <1>2, <1>3, <1>4

(* A step of the recorder or of its sink: no request moves, and an entry   *)
(* that was accounted for is.                                              *)
LEMMA WriterInv ==
  ASSUME AuditInv, UNCHANGED requestVars, AuditTypeOK', RecorderSound', EntryStoredOnce',
         \A q \in HttpReqs : Accounted(q) => Accounted(q)'
  PROVE  AuditInv'
<1>1. http' = http
  BY DEF requestVars
<1>2. AuditAccounted'
  BY <1>1 DEF AuditInv, AuditAccounted
<1>3. \A q \in HttpReqs : RequestSound(http'[q])
  BY <1>1 DEF AuditInv
<1> QED
  BY <1>2, <1>3 DEF AuditInv

LEMMA CloseInv ==
  ASSUME AuditInv, Shutdown \/ CloseRecorder
  PROVE  AuditInv'
<1>1. UNCHANGED <<http, maxInFlight, slots, auditQueue, droppedEntries, auditBatch, auditPc, brokered, topic, poisoned, auditLog, auditFaults>>
  BY DEF Shutdown, CloseRecorder, requestVars, writerVars
<1>2. serving' \in BOOLEAN /\ stopped' \in BOOLEAN /\ (stopped => stopped')
  <2>1. serving \in BOOLEAN /\ stopped \in BOOLEAN
    BY DEF AuditInv, AuditTypeOK
  <2>2. CASE Shutdown
    <3>1. serving' = FALSE /\ stopped' = stopped
      BY <2>2 DEF Shutdown
    <3> QED
      BY <2>1, <3>1, Zenon
  <2>3. CASE CloseRecorder
    <3>1. serving' = serving /\ stopped' = TRUE
      BY <2>3 DEF CloseRecorder
    <3> QED
      BY <2>1, <3>1, Zenon
  <2> QED
    BY <2>2, <2>3
<1>3. AuditTypeOK'
  BY <1>1, <1>2 DEF AuditInv, AuditTypeOK
<1>4. RecorderSound' /\ EntryStoredOnce'
  BY <1>1, <1>2 DEF AuditInv, RecorderSound, EntryStoredOnce
<1>5. \A q \in HttpReqs : Accounted(q) => Accounted(q)'
  BY <1>1 DEF Accounted
<1>6. UNCHANGED requestVars
  BY <1>1 DEF requestVars
<1> QED
  BY <1>3, <1>4, <1>5, <1>6, WriterInv

(* The goroutine takes entries and decides to flush.                       *)
LEMMA TakeEntryInv ==
  ASSUME AuditInv, TakeEntry
  PROVE  AuditInv'
<1>1. /\ UNCHANGED <<http, maxInFlight, slots, serving, stopped, brokered, topic, poisoned, auditLog, droppedEntries, auditFaults>>
      /\ UNCHANGED requestVars
  BY DEF TakeEntry, intakeVars, requestVars
<1>2. /\ auditQueue \in Seq(HttpReqs) /\ auditQueue # <<>> /\ Len(auditQueue) <= AuditQueueSize
      /\ auditBatch \in Seq(HttpReqs) /\ Len(auditBatch) < AuditBatchSize /\ auditPc \in {"run", "drain"}
  BY DEF AuditInv, AuditTypeOK, RecorderSound, TakeEntry
<1>3. PICK e : e = Head(auditQueue)
  OBVIOUS
<1>4. /\ e \in HttpReqs /\ auditQueue' \in Seq(HttpReqs) /\ ToSet(auditQueue) = {e} \cup ToSet(auditQueue')
      /\ Len(auditQueue') = Len(auditQueue) - 1
  BY <1>2, <1>3, QueuedTail DEF TakeEntry
<1>5. auditBatch' \in Seq(HttpReqs) /\ ToSet(auditBatch') = ToSet(auditBatch) \cup {e} /\ Len(auditBatch') = Len(auditBatch) + 1
  BY <1>2, <1>3, <1>4, QueuedAppend DEF TakeEntry
<1>6. auditPc' = IF Len(auditBatch') >= AuditBatchSize THEN FlushPc ELSE auditPc
  BY DEF TakeEntry
<1>7. Len(auditQueue') <= AuditQueueSize /\ Len(auditBatch') <= AuditBatchSize
  BY <1>2, <1>4, <1>5, AuditBounds
<1>8. auditPc' \notin Drained /\ auditPc \notin Drained /\ auditPc' \in {"run", "drain", "publish", "insert"}
  BY <1>2, <1>6 DEF FlushPc, Drained
<1>9. AuditTypeOK'
  BY <1>1, <1>4, <1>5, <1>7, <1>8 DEF AuditInv, AuditTypeOK
<1>10. RecorderSound'
  <2>1. auditPc' \in {"run", "drain"} => Len(auditBatch') < AuditBatchSize /\ auditPc' = auditPc
    BY <1>2, <1>5, <1>6, AuditBounds DEF FlushPc
  <2>2. auditPc' = "drain" \/ auditPc' \in Drained => stopped'
    BY <1>1, <1>8, <2>1 DEF AuditInv, RecorderSound
  <2> QED
    BY <2>1, <2>2 DEF RecorderSound
<1>11. EntryStoredOnce'
  BY <1>1 DEF AuditInv, EntryStoredOnce
<1>12. \A q \in HttpReqs : Accounted(q) => Accounted(q)'
  BY <1>1, <1>4, <1>5, <1>8 DEF Accounted
<1> QED
  BY <1>1, <1>9, <1>10, <1>11, <1>12, WriterInv

LEMMA LoopInv ==
  ASSUME AuditInv, FlushTick \/ SeeStopped \/ DrainEnds
  PROVE  AuditInv'
<1>1. /\ UNCHANGED <<http, maxInFlight, slots, serving, stopped, brokered, auditQueue, auditBatch, topic, poisoned, auditLog,
                     droppedEntries, auditFaults>>
      /\ UNCHANGED requestVars
  BY DEF FlushTick, SeeStopped, DrainEnds, LastBatch, intakeVars, requestVars
<1>2. /\ auditPc' \in {"publish", "insert", "drain"} \cup Drained
      /\ auditPc' = "drain" \/ auditPc' \in Drained => stopped
  BY DEF FlushTick, SeeStopped, DrainEnds, LastBatch, FlushPc, AuditInv, RecorderSound, Drained
<1>3. auditPc' = "drain" => Len(auditBatch) < AuditBatchSize
  BY DEF FlushTick, SeeStopped, DrainEnds, LastBatch, FlushPc, AuditInv, RecorderSound
<1>4. auditPc' \in Drained => auditQueue = <<>>
  BY DEF FlushTick, SeeStopped, DrainEnds, LastBatch, FlushPc, Drained
<1>5. AuditTypeOK'
  BY <1>1, <1>2 DEF AuditInv, AuditTypeOK
<1>6. RecorderSound' /\ EntryStoredOnce'
  BY <1>1, <1>2, <1>3 DEF AuditInv, RecorderSound, EntryStoredOnce, Drained
<1>7. ToSet(<<>>) = {}
  BY DEF ToSet
<1>8. \A q \in HttpReqs : Accounted(q) => Accounted(q)'
  BY <1>1, <1>4, <1>7 DEF Accounted
<1> QED
  BY <1>1, <1>5, <1>6, <1>8, WriterInv

(* A batch leaves the goroutine for the broker, the table or the count.    *)
LEMMA FlushInv ==
  ASSUME AuditInv, UNCHANGED <<intakeVars, auditQueue>>, auditPc \in {"publish", "insert", "lastPublish", "lastInsert"},
         AfterFlush,
         topic \subseteq topic', topic' \subseteq Message, UNCHANGED poisoned, auditFaults' \in 0..MaxAuditFaults,
         droppedEntries \subseteq droppedEntries', droppedEntries' \subseteq HttpReqs,
         auditLog' \in [HttpReqs -> Nat], \A q \in HttpReqs : auditLog[q] <= auditLog'[q] /\ auditLog'[q] <= 1,
         \A q \in ToSet(auditBatch) : (\E m \in topic' : q \in m.entries) \/ q \in droppedEntries' \/ auditLog'[q] > 0
  PROVE  AuditInv'
<1>1. UNCHANGED <<http, maxInFlight, slots, serving, stopped, brokered, auditQueue, poisoned>> /\ UNCHANGED requestVars
  BY DEF intakeVars, requestVars
<1>2. /\ auditBatch' = <<>> /\ Len(auditBatch') = 0 /\ auditBatch' \in Seq(HttpReqs)
      /\ auditPc' \in {"run", "drain", "done"} /\ (auditPc' = "drain" \/ auditPc' \in Drained => stopped)
      /\ auditPc \notin Drained => auditPc' \notin Drained
  BY DEF AfterFlush, Drained, AuditInv, RecorderSound
<1>3. 0 < AuditBatchSize /\ 0 <= AuditBatchSize
  BY AuditBounds
<1>4. AuditTypeOK'
  BY <1>1, <1>2, <1>3 DEF AuditInv, AuditTypeOK, Drained
<1>5. RecorderSound'
  BY <1>1, <1>2, <1>3 DEF RecorderSound
<1>6. EntryStoredOnce'
  BY DEF EntryStoredOnce
<1>7. ASSUME NEW q \in HttpReqs, Accounted(q) PROVE Accounted(q)'
  <2>1. auditLog[q] \in Nat /\ auditLog'[q] \in Nat /\ auditLog[q] <= auditLog'[q]
    BY DEF AuditInv, AuditTypeOK
  <2>2. CASE q \in ToSet(auditBatch)
    BY <2>2 DEF Accounted
  <2>3. CASE q \notin ToSet(auditBatch)
    BY <1>1, <1>2, <1>7, <2>1, <2>3 DEF Accounted
  <2> QED
    BY <2>2, <2>3
<1> QED
  BY <1>1, <1>4, <1>5, <1>6, <1>7, WriterInv

(* Inserting a set of entries.                                             *)
LEMMA InsertedRows ==
  ASSUME AuditInv, NEW S
  PROVE  /\ Inserted(S) \in [HttpReqs -> Nat]
         /\ \A q \in HttpReqs : auditLog[q] <= Inserted(S)[q] /\ Inserted(S)[q] <= 1 /\ (q \in S => Inserted(S)[q] > 0)
<1>1. \A q \in HttpReqs : auditLog[q] \in Nat /\ auditLog[q] <= 1
  BY DEF AuditInv, AuditTypeOK, EntryStoredOnce
<1> QED
  BY <1>1 DEF Inserted

LEMMA SinkInv ==
  ASSUME AuditInv, PublishBatch \/ InsertBatch \/ InsertFails
  PROVE  AuditInv'
<1>1. /\ auditPc \in {"publish", "insert", "lastPublish", "lastInsert"} /\ AfterFlush /\ UNCHANGED <<intakeVars, auditQueue>> /\ UNCHANGED poisoned
  BY DEF PublishBatch, InsertBatch, InsertFails
<1>2. /\ topic \subseteq Message /\ droppedEntries \subseteq HttpReqs /\ auditFaults \in 0..MaxAuditFaults
      /\ auditBatch \in Seq(HttpReqs) /\ auditLog \in [HttpReqs -> Nat]
      /\ \A q \in HttpReqs : auditLog[q] <= auditLog[q] /\ auditLog[q] <= 1
  BY DEF AuditInv, AuditTypeOK, EntryStoredOnce
<1>3. ToSet(auditBatch) \subseteq HttpReqs
  BY <1>2 DEF ToSet
<1>4. CASE PublishBatch
  <2>1. PICK m : m = [entries |-> ToSet(auditBatch), tries |-> 0]
    OBVIOUS
  <2>2. m \in Message /\ m.entries = ToSet(auditBatch)
    BY <1>3, <2>1, AuditBounds DEF Message
  <2>3. topic' = topic \cup {m} /\ UNCHANGED <<auditLog, droppedEntries, auditFaults>>
    BY <1>4, <2>1 DEF PublishBatch
  <2>4. topic \subseteq topic' /\ topic' \subseteq Message
    BY <1>2, <2>2, <2>3
  <2>5. \A q \in ToSet(auditBatch) : \E x \in topic' : q \in x.entries
    BY <2>2, <2>3
  <2> QED
    BY <1>1, <1>2, <2>3, <2>4, <2>5, FlushInv
<1>5. CASE InsertBatch
  <2>1. auditLog' = Inserted(ToSet(auditBatch)) /\ UNCHANGED <<topic, droppedEntries, auditFaults>>
    BY <1>5 DEF InsertBatch
  <2>2. /\ auditLog' \in [HttpReqs -> Nat]
        /\ \A q \in HttpReqs : auditLog[q] <= auditLog'[q] /\ auditLog'[q] <= 1
        /\ \A q \in ToSet(auditBatch) : auditLog'[q] > 0
    BY <1>3, <2>1, InsertedRows
  <2> QED
    BY <1>1, <1>2, <2>1, <2>2, FlushInv
<1>6. CASE InsertFails
  <2>1. droppedEntries' = droppedEntries \cup ToSet(auditBatch) /\ UNCHANGED <<topic, auditLog>> /\ Fault
    BY <1>6 DEF InsertFails
  <2>2. auditFaults' \in 0..MaxAuditFaults
    BY <1>2, <2>1, AuditBounds DEF Fault
  <2>3. droppedEntries \subseteq droppedEntries' /\ droppedEntries' \subseteq HttpReqs /\ ToSet(auditBatch) \subseteq droppedEntries'
    BY <1>2, <1>3, <2>1
  <2> QED
    BY <1>1, <1>2, <2>1, <2>2, <2>3, FlushInv
<1> QED
  BY <1>4, <1>5, <1>6

(* Steps at the broker and its consumer.                                   *)
LEMMA BrokerStepInv ==
  ASSUME AuditInv, UNCHANGED <<requestVars, serving, stopped, auditQueue, auditBatch, brokered, droppedEntries>>,
         \/ auditPc' = auditPc
         \/ auditPc = "publish" /\ auditPc' = "insert"
         \/ auditPc = "lastPublish" /\ auditPc' = "lastInsert",
         topic' \subseteq Message, poisoned \subseteq poisoned', poisoned' \subseteq HttpReqs, auditFaults' \in 0..MaxAuditFaults,
         auditLog' \in [HttpReqs -> Nat], \A q \in HttpReqs : auditLog[q] <= auditLog'[q] /\ auditLog'[q] <= 1,
         \A m \in topic : \A q \in m.entries : (\E x \in topic' : q \in x.entries) \/ q \in poisoned' \/ auditLog'[q] > 0
  PROVE  AuditInv'
<1>1. /\ UNCHANGED <<http, maxInFlight, slots, serving, stopped, brokered, auditQueue, auditBatch, droppedEntries>>
      /\ auditPc' \in Drained <=> auditPc \in Drained
  BY DEF requestVars, Drained
<1>2. AuditTypeOK'
  BY <1>1 DEF AuditInv, AuditTypeOK, Drained
<1>3. RecorderSound'
  BY <1>1 DEF AuditInv, RecorderSound, Drained
<1>4. EntryStoredOnce'
  BY DEF EntryStoredOnce
<1>5. ASSUME NEW q \in HttpReqs, Accounted(q) PROVE Accounted(q)'
  <2>1. auditLog[q] \in Nat /\ auditLog'[q] \in Nat /\ auditLog[q] <= auditLog'[q]
    BY DEF AuditInv, AuditTypeOK
  <2>2. CASE \E m \in topic : q \in m.entries
    BY <2>2 DEF Accounted
  <2>3. CASE ~\E m \in topic : q \in m.entries
    BY <1>1, <1>5, <2>1, <2>3 DEF Accounted, Drained
  <2> QED
    BY <2>2, <2>3
<1> QED
  BY <1>2, <1>3, <1>4, <1>5, WriterInv

LEMMA BrokerInv ==
  ASSUME AuditInv, PublishFails \/ \E m \in topic : StoreBatch(m) \/ StoreFails(m)
  PROVE  AuditInv'
<1>1. /\ UNCHANGED <<requestVars, serving, stopped, auditQueue, auditBatch, brokered, droppedEntries>>
      /\ \/ auditPc' = auditPc
         \/ auditPc = "publish" /\ auditPc' = "insert"
         \/ auditPc = "lastPublish" /\ auditPc' = "lastInsert"
  BY DEF PublishFails, StoreBatch, StoreFails, intakeVars
<1>2. /\ topic \subseteq Message /\ poisoned \subseteq HttpReqs /\ auditFaults \in 0..MaxAuditFaults
      /\ auditBatch \in Seq(HttpReqs) /\ auditLog \in [HttpReqs -> Nat]
      /\ \A q \in HttpReqs : auditLog[q] <= auditLog[q] /\ auditLog[q] <= 1
  BY DEF AuditInv, AuditTypeOK, EntryStoredOnce
<1>3. auditFaults' = auditFaults \/ Fault => auditFaults' \in 0..MaxAuditFaults
  BY <1>2, AuditBounds DEF Fault
<1>4. CASE PublishFails
  <2>1. ToSet(auditBatch) \subseteq HttpReqs
    BY <1>2 DEF ToSet
  <2>2. PICK m : m = [entries |-> ToSet(auditBatch), tries |-> 0]
    OBVIOUS
  <2>3. m \in Message
    BY <2>1, <2>2, AuditBounds DEF Message
  <2>4. (topic' = topic \/ topic' = topic \cup {m}) /\ UNCHANGED <<poisoned, auditLog>> /\ Fault
    BY <1>4, <2>2 DEF PublishFails
  <2>5. topic \subseteq topic' /\ topic' \subseteq Message /\ auditFaults' \in 0..MaxAuditFaults
    BY <1>2, <1>3, <2>3, <2>4
  <2> QED
    BY <1>1, <1>2, <2>4, <2>5, BrokerStepInv
<1>5. ASSUME NEW m \in topic, StoreBatch(m) PROVE AuditInv'
  <2>1. /\ auditLog' = Inserted(m.entries) /\ UNCHANGED poisoned /\ (auditFaults' = auditFaults \/ Fault)
        /\ topic' \in {topic, topic \ {m}}
    BY <1>5 DEF StoreBatch
  <2>2. m \in Message /\ m.entries \subseteq HttpReqs
    BY <1>2 DEF Message
  <2>3. /\ auditLog' \in [HttpReqs -> Nat]
        /\ \A q \in HttpReqs : auditLog[q] <= auditLog'[q] /\ auditLog'[q] <= 1
        /\ \A q \in m.entries : auditLog'[q] > 0
    BY <2>1, <2>2, InsertedRows
  <2>4. \A y \in topic : y \in topic' \/ y = m
    BY <2>1
  <2>5. \A y \in topic : \A q \in y.entries : (\E x \in topic' : q \in x.entries) \/ q \in poisoned' \/ auditLog'[q] > 0
    BY <2>3, <2>4
  <2>6. topic' \subseteq Message /\ auditFaults' \in 0..MaxAuditFaults
    BY <1>2, <1>3, <2>1
  <2> QED
    BY <1>1, <1>2, <2>1, <2>3, <2>5, <2>6, BrokerStepInv
<1>6. ASSUME NEW m \in topic, StoreFails(m) PROVE AuditInv'
  <2>1. Fault /\ UNCHANGED auditLog
    BY <1>6 DEF StoreFails
  <2>2. m \in Message /\ m.entries \subseteq HttpReqs /\ m.tries \in 0..MaxAuditTries
    BY <1>2 DEF Message
  <2>3. CASE m.tries + 1 < MaxAuditTries
    <3>1. PICK d : d = [m EXCEPT !.tries = m.tries + 1]
      OBVIOUS
    <3>2. d \in Message /\ d.entries = m.entries
      <4>1. m.tries + 1 \in 0..MaxAuditTries
        BY <2>2, <2>3, AuditBounds
      <4> QED
        BY <2>2, <3>1, <4>1 DEF Message
    <3>3. topic' = (topic \ {m}) \cup {d} /\ poisoned' = poisoned
      BY <1>6, <2>3, <3>1 DEF StoreFails
    <3>4. \A y \in topic : \E x \in topic' : x.entries = y.entries
      BY <3>2, <3>3
    <3>5. \A y \in topic : \A q \in y.entries : \E x \in topic' : q \in x.entries
      BY <3>4
    <3>6. topic' \subseteq Message /\ auditFaults' \in 0..MaxAuditFaults
      BY <1>2, <1>3, <2>1, <3>2, <3>3
    <3> QED
      BY <1>1, <1>2, <2>1, <3>3, <3>5, <3>6, BrokerStepInv
  <2>4. CASE ~(m.tries + 1 < MaxAuditTries)
    <3>1. topic' = topic \ {m} /\ poisoned' = poisoned \cup m.entries
      BY <1>6, <2>4 DEF StoreFails
    <3>2. \A y \in topic : y \in topic' \/ y = m
      BY <3>1
    <3>3. \A y \in topic : \A q \in y.entries : (\E x \in topic' : q \in x.entries) \/ q \in poisoned'
      BY <3>1, <3>2
    <3>4. topic' \subseteq Message /\ auditFaults' \in 0..MaxAuditFaults /\ poisoned \subseteq poisoned' /\ poisoned' \subseteq HttpReqs
      BY <1>2, <1>3, <2>1, <2>2, <3>1
    <3> QED
      BY <1>1, <1>2, <2>1, <3>3, <3>4, BrokerStepInv
  <2> QED
    BY <2>3, <2>4
<1> QED
  BY <1>4, <1>5, <1>6

(* For every number of requests and every size of queue and batch: what    *)
(* the log owes is on its way, stored, dead-lettered or counted as         *)
(* dropped, through full queues, failed publishes and inserts and the      *)
(* drain at shutdown, and no entry is stored twice (Audit, Recorder.Record,*)
(* drain and flush, Sink.Insert).                                          *)
THEOREM AuditLosesNothingSilently == AuditSpec => []AuditInvariant
<1>1. AuditInit => AuditInv
  <2> SUFFICES ASSUME AuditInit PROVE AuditInv
    OBVIOUS
  <2>1. \A q \in HttpReqs : http[q] = NotArrived /\ auditLog[q] = 0
    BY DEF AuditInit
  <2>2. NotArrived.owed = FALSE
    BY DEF NotArrived
  <2>3. AuditTypeOK
    <3>1. http \in [HttpReqs -> HttpReq] /\ auditLog \in [HttpReqs -> Nat]
      BY AuditTypes DEF AuditInit
    <3>2. {serving, stopped, brokered} \subseteq BOOLEAN
      BY Zenon DEF AuditInit
    <3>3. /\ auditQueue \in Seq(HttpReqs) /\ Len(auditQueue) <= AuditQueueSize
          /\ auditBatch \in Seq(HttpReqs) /\ Len(auditBatch) <= AuditBatchSize
      BY AuditBounds DEF AuditInit
    <3>4. /\ maxInFlight \in SlotLimits /\ slots \subseteq HttpReqs /\ auditPc = "run"
          /\ topic \subseteq Message /\ poisoned \subseteq HttpReqs /\ droppedEntries \subseteq HttpReqs
          /\ auditFaults \in 0..MaxAuditFaults
      BY AuditBounds DEF AuditInit
    <3> QED
      BY <3>1, <3>2, <3>3, <3>4 DEF AuditTypeOK
  <2>4. AuditAccounted /\ EntryStoredOnce
    BY <2>1, <2>2 DEF AuditAccounted, EntryStoredOnce
  <2>5. RecorderSound
    BY AuditBounds DEF AuditInit, RecorderSound, Drained
  <2>6. \A q \in HttpReqs : RequestSound(http[q])
    BY <2>1, AuditTypes
  <2> QED
    BY <2>3, <2>4, <2>5, <2>6 DEF AuditInv
<1>2. AuditInv /\ [AuditNext]_auditVars => AuditInv'
  <2> SUFFICES ASSUME AuditInv, [AuditNext]_auditVars PROVE AuditInv'
    OBVIOUS
  <2>1. CASE AuditNext
    <3>1. CASE \E q \in HttpReqs : \/ Arrive(q) \/ BearerAuth(q) \/ ImpersonationGuard(q) \/ RequirePermission(q)
                                   \/ RateLimit(q) \/ Handle(q) \/ HandlerPanics(q) \/ RecordEntry(q) \/ SendEntry(q)
      BY <3>1, ArriveInv, BearerAuthInv, GuardsInv, HandleInv, EndsInv
    <3>2. CASE Shutdown \/ CloseRecorder
      BY <3>2, CloseInv
    <3>3. CASE TakeEntry \/ FlushTick \/ SeeStopped \/ DrainEnds
      BY <3>3, TakeEntryInv, LoopInv
    <3>4. CASE PublishBatch \/ InsertBatch \/ InsertFails
      BY <3>4, SinkInv
    <3>5. CASE PublishFails \/ \E m \in topic : StoreBatch(m) \/ StoreFails(m)
      BY <3>5, BrokerInv
    <3> QED
      BY <2>1, <3>1, <3>2, <3>3, <3>4, <3>5 DEF AuditNext
  <2>2. CASE UNCHANGED auditVars
    BY <2>2 DEF auditVars, AuditInv, AuditTypeOK, AuditAccounted, Accounted, EntryStoredOnce, RecorderSound
  <2> QED
    BY <2>1, <2>2
<1>3. AuditInv => AuditInvariant
  BY DEF AuditInv, AuditInvariant
<1> QED
  BY <1>1, <1>2, <1>3, PTL DEF AuditSpec
=============================================================================
