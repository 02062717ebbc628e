------------------------------ MODULE Consent --------------------------------
(***************************************************************************)
(* Analytics consent and the events it admits (core/consent/service/       *)
(* service.go over consent_repository.go; core/analytics/service/ingest.go *)
(* and writer.go).  One browser with a consent token, signed in as one     *)
(* user or not, whose calls overlap; its subject is the row the token      *)
(* names.  Store and Withdraw read the consents and then commit; an event  *)
(* passes the consent gate, then the bounded queue, then a batch insert.   *)
(* last_seen_at is left out.                                               *)
(***************************************************************************)
EXTENDS Naturals, FiniteSets

CONSTANTS Calls,         \* concurrent consent calls
          Events,        \* events the browser may send
          MaxSubjects,   \* bound: subjects created (a new one after erasure)
          MaxConsentOps, \* bound: consent calls begun
          QueueSize,     \* capacity of the writer's queue
          BatchSize      \* events per insert

ASSUME ConsentAssumption == {MaxSubjects, MaxConsentOps, QueueSize, BatchSize} \subseteq Nat \ {0}

VARIABLES row,        \* consent_subjects with their analytics_consents
          token,      \* the subject whose token the browser holds, 0 for none
          call,       \* the open consent calls
          consentOps,
          event,      \* each event: where it is and the subject it is tagged with
          stopped,    \* the writer's stop channel is closed
          writer      \* "run", "drain", "done"

consentVars == <<row, token, call, consentOps, event, stopped, writer>>

Purposes == {"analytics", "authenticated_analytics"}
Statuses == {"none", "granted", "rejected", "withdrawn"}
Undecided == [p \in Purposes |-> "none"]
Subjects == 1..MaxSubjects
SubjectRow == [state : {"none", "live", "erased"}, consent : [Purposes -> Statuses], linked : BOOLEAN]
NoSubject == [state |-> "none", consent |-> Undecided, linked |-> FALSE]
ConsentChoices == UNION {[P -> BOOLEAN] : P \in SUBSET Purposes \ {{}}}

Call == [op : {"store"}, of : 0..MaxSubjects, choice : ConsentChoices, user : BOOLEAN, read : [Purposes -> Statuses]]
        \cup [op : {"withdraw"}, of : 1..MaxSubjects, purpose : Purposes, read : BOOLEAN]
NoCall == [op |-> "idle"]

(* late: stored after its subject withdrew.                                *)
Event == [at : {"none", "gated", "sending", "queued", "batch", "stored", "dropped", "deleted"},
          of : 0..MaxSubjects, late : BOOLEAN, afterStop : BOOLEAN]
NoEvent == [at |-> "none", of |-> 0, late |-> FALSE, afterStop |-> FALSE]

ConsentTypeOK ==
  /\ row \in [Subjects -> SubjectRow] /\ token \in 0..MaxSubjects
  /\ call \in [Calls -> Call \cup {NoCall}] /\ consentOps \in 0..MaxConsentOps
  /\ event \in [Events -> Event]
  /\ stopped \in BOOLEAN /\ writer \in {"run", "drain", "done"}

ConsentInit ==
  /\ row = [s \in Subjects |-> NoSubject] /\ token = 0
  /\ call = [c \in Calls |-> NoCall] /\ consentOps = 0
  /\ event = [e \in Events |-> NoEvent]
  /\ stopped = FALSE /\ writer = "run"

-----------------------------------------------------------------------------
(* Decide: refusing what was granted withdraws it.                         *)
Decide(status, granted) ==
  IF granted THEN "granted"
  ELSE IF status = "granted" THEN "withdrawn" ELSE IF status = "none" THEN "rejected" ELSE status

(* validateDecisions.                                                      *)
ValidChoice(choice, user) ==
  "authenticated_analytics" \in DOMAIN choice /\ choice["authenticated_analytics"]
  => user /\ "analytics" \in DOMAIN choice /\ choice["analytics"]

(* The live row the token names, 0 when there is none.                     *)
SubjectByToken == IF token # 0 /\ row[token].state = "live" THEN token ELSE 0
Standing(s) == IF s = 0 THEN Undecided ELSE row[s].consent

Calling(c, rec) == call' = [call EXCEPT ![c] = rec]

(* Store, up to the list of the stored consents.                           *)
BeginStore(c) ==
  /\ call[c].op = "idle" /\ consentOps < MaxConsentOps
  /\ \E choice \in ConsentChoices, user \in BOOLEAN :
       /\ ValidChoice(choice, user)
       /\ Calling(c, [op |-> "store", of |-> SubjectByToken, choice |-> choice, user |-> user,
                       read |-> Standing(SubjectByToken)])
  /\ consentOps' = consentOps + 1
  /\ UNCHANGED <<row, token, event, stopped, writer>>

(* save of a withdrawn analytics consent deletes the subject's events.     *)
KeepsEvents(of, status) == event     \* mutant: the events stay
Saved(of, status) ==
  IF status # "withdrawn" THEN event
  ELSE [e \in Events |-> IF event[e].of = of /\ event[e].at = "stored" THEN [event[e] EXCEPT !.at = "deleted"]
                         ELSE event[e]]

(* The transaction: apply decides from what it read; an unchanged consent  *)
(* is not saved; a decision on authenticated_analytics sets the link.  A   *)
(* browser without a subject gets one.  The subject may be gone by now.    *)
CommitStore(c) ==
  LET in == call[c]
      after == [p \in Purposes |-> IF p \in DOMAIN in.choice THEN Decide(in.read[p], in.choice[p]) ELSE in.read[p]]
      saved == {p \in DOMAIN in.choice : in.read[p] # after[p]}
      Stored(s) ==
        /\ row' = [row EXCEPT ![s] =
              [state |-> "live",
               consent |-> [p \in Purposes |-> IF p \in saved THEN after[p] ELSE row[s].consent[p]],
               linked |-> IF "authenticated_analytics" \in DOMAIN in.choice
                          THEN in.choice["authenticated_analytics"] ELSE row[s].linked]]
        /\ token' = s
        /\ event' = IF "analytics" \in saved THEN Saved(s, after["analytics"]) ELSE event
  IN  /\ in.op = "store"
      /\ \/ in.of # 0 /\ row[in.of].state = "live" /\ Stored(in.of)
         \/ in.of # 0 /\ row[in.of].state # "live" /\ UNCHANGED <<row, token, event>>
         \/ /\ in.of = 0
            /\ \E s \in Subjects : /\ row[s].state = "none" /\ \A t \in 1..(s - 1) : row[t].state # "none"
                                  /\ Stored(s)
      /\ Calling(c, NoCall)
      /\ UNCHANGED <<consentOps, stopped, writer>>

(* Withdraw of one consent: Get reads it and whether the subject is        *)
(* linked; the caller owns it by the token.                                *)
BeginWithdraw(c) ==
  /\ call[c].op = "idle" /\ consentOps < MaxConsentOps /\ SubjectByToken # 0
  /\ \E p \in Purposes :
       /\ row[token].consent[p] # "none"
       /\ Calling(c, [op |-> "withdraw", of |-> token, purpose |-> p, read |-> row[token].linked])
  /\ consentOps' = consentOps + 1
  /\ UNCHANGED <<row, token, event, stopped, writer>>

(* The transaction lists the consents anew; analytics takes the other      *)
(* purpose with it, and the user is unlinked if one was read.              *)
CommitWithdraw(c) ==
  LET in == call[c]
      covered == IF in.purpose = "analytics" THEN Purposes ELSE {in.purpose}
      withdrawn == {p \in covered : row[in.of].consent[p] = "granted"}
  IN  /\ in.op = "withdraw"
      /\ IF row[in.of].state = "live"
         THEN /\ row' = [row EXCEPT ![in.of] =
                    [row[in.of] EXCEPT !.consent = [p \in Purposes |-> IF p \in withdrawn THEN "withdrawn" ELSE @[p]],
                                      !.linked = @ /\ ~in.read]]
              /\ event' = IF "analytics" \in withdrawn THEN Saved(in.of, "withdrawn") ELSE event
         ELSE UNCHANGED <<row, event>>
      /\ Calling(c, NoCall)
      /\ UNCHANGED <<token, consentOps, stopped, writer>>

CallFails(c) ==
  /\ call[c].op # "idle" /\ Calling(c, NoCall)
  /\ UNCHANGED <<row, token, consentOps, event, stopped, writer>>

(* EraseUser deletes the linked subjects with their events.                *)
EraseLinked ==
  LET gone == {s \in Subjects : row[s].linked}
  IN  /\ gone # {}
      /\ row' = [s \in Subjects |-> IF s \in gone THEN [NoSubject EXCEPT !.state = "erased"] ELSE row[s]]
      /\ event' = [e \in Events |-> IF event[e].of \in gone /\ event[e].at = "stored"
                                    THEN [event[e] EXCEPT !.at = "deleted"] ELSE event[e]]
      /\ UNCHANGED <<token, call, consentOps, stopped, writer>>

-----------------------------------------------------------------------------
(* Ingest and Writer.                                                      *)

Move(e, rec) == event' = [event EXCEPT ![e] = rec]
Held(at) == {e \in Events : event[e].at = at}
traffic == <<row, token, call, consentOps>>

(* Decision, then accept: an event of a granting subject carries it, one   *)
(* of a refusing subject is dropped, any other is anonymous.               *)
IngestEvent(e) ==
  /\ event[e].at = "none"
  /\ LET status == Standing(SubjectByToken)["analytics"]
     IN  /\ status \notin {"rejected", "withdrawn"}
         /\ Move(e, [event[e] EXCEPT !.at = "gated", !.of = IF status = "granted" THEN token ELSE 0])
  /\ UNCHANGED <<traffic, stopped, writer>>

(* Enqueue looks at stop, then sends without waiting.                      *)
CheckStop(e) ==
  /\ event[e].at = "gated"
  /\ Move(e, [event[e] EXCEPT !.at = IF stopped THEN "dropped" ELSE "sending"])
  /\ UNCHANGED <<traffic, stopped, writer>>

SendEvent(e) ==
  /\ event[e].at = "sending"
  /\ Move(e, [event[e] EXCEPT !.at = IF Cardinality(Held("queued")) < QueueSize THEN "queued" ELSE "dropped",
                              !.afterStop = stopped])
  /\ UNCHANGED <<traffic, stopped, writer>>

TakeEvent(e) ==
  /\ event[e].at = "queued" /\ writer # "done" /\ Cardinality(Held("batch")) < BatchSize
  /\ Move(e, [event[e] EXCEPT !.at = "batch"])
  /\ UNCHANGED <<traffic, stopped, writer>>

(* flush: the whole batch is stored, or lost and counted.  Of a subject    *)
(* that has withdrawn since, the events are stored all the same.           *)
Forgotten(s) == s # 0 /\ (row[s].state = "erased" \/ row[s].consent["analytics"] = "withdrawn")

Flushed(ok) ==
  [e \in Events |-> IF event[e].at # "batch" THEN event[e]
                    ELSE [event[e] EXCEPT !.at = IF ok THEN "stored" ELSE "dropped", !.late = Forgotten(event[e].of)]]

Flush ==
  /\ writer # "done" /\ Held("batch") # {}
  /\ \E ok \in BOOLEAN : event' = Flushed(ok)
  /\ UNCHANGED <<traffic, stopped, writer>>

CloseWriter ==
  /\ ~stopped /\ stopped' = TRUE
  /\ UNCHANGED <<traffic, event, writer>>

SeeStop ==
  /\ stopped /\ writer = "run" /\ writer' = "drain"
  /\ UNCHANGED <<traffic, event, stopped>>

(* drain ends when the queue is empty, with a last flush.                  *)
LastFlush == Flushed(TRUE)

EndDrain ==
  /\ writer = "drain" /\ Held("queued") = {}
  /\ event' = LastFlush /\ writer' = "done"
  /\ UNCHANGED <<traffic, stopped>>

ConsentNext ==
  \/ \E c \in Calls : BeginStore(c) \/ CommitStore(c) \/ BeginWithdraw(c) \/ CommitWithdraw(c) \/ CallFails(c)
  \/ EraseLinked
  \/ \E e \in Events : IngestEvent(e) \/ CheckStop(e) \/ SendEvent(e) \/ TakeEvent(e)
  \/ Flush \/ CloseWriter \/ SeeStop \/ EndDrain

ConsentSpec == ConsentInit /\ [][ConsentNext]_consentVars

-----------------------------------------------------------------------------
(* While analytics is withdrawn, or once the subject is erased, an event   *)
(* stored under it is one that was in flight: withdrawing deletes all that *)
(* was stored, whichever call withdraws.  (An event in flight is stored    *)
(* and stays until raw retention.  What is flushed between the DELETE and  *)
(* the COMMIT of a withdrawal, one step here, is in flight too: the gate   *)
(* let it in while consent was granted, and READ COMMITTED hides it from   *)
(* the DELETE.)                                                            *)
WithdrawalForgets ==
  \A e \in Events : event[e].at = "stored" /\ Forgotten(event[e].of) => event[e].late

(* A closed writer has stored or counted every event it accepted, but for  *)
(* one sent to the queue after stop, by a call that had looked before.     *)
DrainIsComplete ==
  writer = "done" => \A e \in Events : event[e].at \in {"queued", "batch"} => event[e].afterStop

(* Withdrawn consent and a closed writer leave nothing behind (Withdraw,   *)
(* DeleteSubjectEvents, the Writer's drain).                               *)
ConsentInvariant == ConsentTypeOK /\ WithdrawalForgets /\ DrainIsComplete
=============================================================================
