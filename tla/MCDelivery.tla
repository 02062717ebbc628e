----------------------------- MODULE MCDelivery -----------------------------
(* Model checking instance of the outbox, the notifications, the audit     *)
(* trail and the newsletter issue: what leaves a request for a queue.      *)
(* They share no variables, so one of them moves in a behaviour and the    *)
(* others rest: the reachable states are the sum of theirs, not the        *)
(* product.                                                                *)
EXTENDS Outbox, Notifications, AuditTrail, NewsletterIssue, TLC

VARIABLE focus    \* the component that moves

deliveryVars == <<focus, outboxVars, queue, noteVars, auditVars, newsletterVars>>

(* A component that rests has one initial state.                           *)
AtRest ==
  /\ focus # "audit" => brokered /\ maxInFlight = CHOOSE n \in SlotLimits : TRUE
  /\ focus # "issue" => content = CHOOSE c \in Contents : TRUE

DeliveryInit ==
  /\ focus \in {"outbox", "notifications", "audit", "issue"}
  /\ OutboxAloneInit
  /\ NotificationsInit
  /\ AuditInit
  /\ IssueInit
  /\ AtRest

DeliveryNext ==
  /\ UNCHANGED focus
  /\ \/ focus = "outbox" /\ OutboxNext /\ UNCHANGED <<noteVars, auditVars, newsletterVars>>
     \/ focus = "notifications" /\ NotificationsNext /\ UNCHANGED <<outboxVars, queue, auditVars, newsletterVars>>
     \/ focus = "audit" /\ AuditNext /\ UNCHANGED <<outboxVars, queue, noteVars, newsletterVars>>
     \/ focus = "issue" /\ IssueNext /\ UNCHANGED <<outboxVars, queue, noteVars, auditVars>>

DeliverySpec == DeliveryInit /\ [][DeliveryNext]_deliveryVars

(* Relays, workers and HTTP requests have the same names: one component    *)
(* moves, and none compares the names of two kinds.                        *)
Symmetry == Permutations(Relays) \cup Permutations(Subs)
=============================================================================
