-------------------------------- MODULE Roles --------------------------------
(***************************************************************************)
(* Roles, grants and the policy every instance enforces                    *)
(* (core/rbac/service/roles.go over adapters/outbound/rbac).  A write      *)
(* changes the relational tables and casbin_rules in one READ COMMITTED    *)
(* transaction, reloads the enforcer of its own instance and announces the *)
(* change; the other instances reload on the announcement, which may be    *)
(* lost, and on a timer (RBAC_POLICY_RELOAD_INTERVAL).  A reload reads the *)
(* table and then replaces the policy in memory.                           *)
(*                                                                         *)
(* A row <<"g", u, r>> gives user u role r, a row <<"p", r, k>> gives role *)
(* r permission k; the relational tables and the rules hold such rows.     *)
(***************************************************************************)
EXTENDS Naturals, FiniteSets

CONSTANTS Members,     \* users
          Custom,      \* names of custom roles
          Instances,   \* API processes
          RoleCalls,   \* overlapping requests
          NoMember,
          MaxRoleOps   \* bound: requests made

ASSUME RolesAssumption == NoMember \notin Members /\ MaxRoleOps \in Nat /\ Instances # {}

Admin == "admin"
RoleNames == Custom \cup {Admin}
Keys == {"posts", "*"}
Rows == ({"g"} \X Members \X RoleNames) \cup ({"p"} \X RoleNames \X Keys)

VARIABLES roles,      \* roles
          grants,     \* user_roles and role_permissions
          rules,      \* casbin_rules
          policy,     \* the enforcer of each instance
          loading,    \* the background reloads of each instance
          announced,  \* instances an announcement is on its way to
          rcall, roleOps

roleVars == <<roles, grants, rules, policy, loading, announced, rcall, roleOps>>

(* The goroutines of PolicySync: their reloads may overlap.                *)
Reloaders == Instances \X {"subscriber", "timer"}

RoleCall == [pc : {"idle", "begun", "first", "second", "load", "apply", "notify"}, at : Instances,
             op : {"none", "create", "delete", "set", "assign", "revoke"}, u : Members \cup {NoMember}, r : RoleNames,
             keys : SUBSET Keys, saw : SUBSET Rows, sawRules : SUBSET Rows]
NoRoleCall == [pc |-> "idle", at |-> CHOOSE i \in Instances : TRUE, op |-> "none", u |-> NoMember, r |-> Admin,
               keys |-> {}, saw |-> {}, sawRules |-> {}]

RolesTypeOK ==
  /\ roles \subseteq RoleNames /\ grants \subseteq Rows /\ rules \subseteq Rows
  /\ policy \in [Instances -> SUBSET Rows]
  /\ loading \in [Reloaders -> [busy : BOOLEAN, rows : SUBSET Rows]]
  /\ announced \subseteq Instances
  /\ rcall \in [RoleCalls -> RoleCall] /\ roleOps \in 0..MaxRoleOps

NotLoading == [busy |-> FALSE, rows |-> {}]

(* Init: seeded, every member an administrator.                            *)
Seeded == {<<"g", u, Admin>> : u \in Members} \cup {<<"p", Admin, "*">>}
RolesInit ==
  /\ roles = RoleNames /\ grants = Seeded /\ rules = Seeded
  /\ policy = [i \in Instances |-> Seeded] /\ loading = [b \in Reloaders |-> NotLoading]
  /\ announced = {} /\ rcall = [c \in RoleCalls |-> NoRoleCall] /\ roleOps = 0

-----------------------------------------------------------------------------
(* model.conf: a role of the user holds the permission or "*".             *)
Enforce(i, u, k) == \E r \in RoleNames : <<"g", u, r>> \in policy[i] /\ {<<"p", r, k>>, <<"p", r, "*">>} \cap policy[i] # {}

(* What the service lets through, besides the permission of the actor: the *)
(* protected role keeps its grants, nobody revokes their own admin role,   *)
(* and "*" cannot be granted.                                              *)
Permitted(actor, op, u, r) ==
  /\ op \in {"delete", "set", "create"} => r # Admin
  /\ op = "revoke" => ~(actor = u /\ r = Admin)

RoleRequest(c) ==
  /\ rcall[c].pc = "idle" /\ roleOps < MaxRoleOps /\ roleOps' = roleOps + 1
  /\ \E i \in Instances, actor, u \in Members, r \in RoleNames, op \in {"create", "delete", "set", "assign", "revoke"},
       keys \in SUBSET (Keys \ {"*"}) :
       /\ Enforce(i, actor, "roles") /\ Permitted(actor, op, u, r)
       /\ op \in {"delete", "assign", "revoke"} => keys = {}
       /\ rcall' = [rcall EXCEPT ![c] = [pc |-> "begun", at |-> i, op |-> op, r |-> r, keys |-> keys, saw |-> {}, sawRules |-> {},
                                           u |-> IF op \in {"assign", "revoke"} THEN u ELSE NoMember]]
  /\ UNCHANGED <<roles, grants, rules, policy, loading, announced>>

(* The rows the statements of a write are about.                           *)
Target(q) == CASE q.op \in {"assign", "revoke"} -> {<<"g", q.u, q.r>>}
               [] q.op = "set" -> {"p"} \X {q.r} \X Keys
               [] q.op = "delete" -> ({"g"} \X Members \X {q.r}) \cup ({"p"} \X {q.r} \X Keys)
               [] OTHER -> {}
Added(q) == IF q.op = "assign" THEN Target(q) ELSE {"p"} \X {q.r} \X q.keys

EndRoleCall(c) == rcall' = [rcall EXCEPT ![c] = NoRoleCall]

(* The relational statement: it waits for a transaction that has deleted   *)
(* rows it wants.                                                          *)
FirstStatement(c) ==
  /\ rcall[c].pc = "begun"
  /\ \A d \in RoleCalls : d # c /\ rcall[d].pc \in {"first", "second"} /\ rcall[d].op # "assign"
                            => rcall[d].saw \cap Target(rcall[c]) = {}
  /\ IF (rcall[c].r \in roles) = (rcall[c].op # "create")
     THEN rcall' = [rcall EXCEPT ![c].pc = "first", ![c].saw = grants \cap Target(rcall[c])]
     ELSE EndRoleCall(c)
  /\ UNCHANGED <<roles, grants, rules, policy, loading, announced, roleOps>>

(* The statement on casbin_rules sees what is committed by now.            *)
SecondStatement(c) ==
  /\ rcall[c].pc = "first"
  /\ rcall' = [rcall EXCEPT ![c].pc = "second", ![c].sawRules = rules \cap Target(rcall[c])]
  /\ UNCHANGED <<roles, grants, rules, policy, loading, announced, roleOps>>

(* Foreign keys: a row is added only while its role exists.                *)
CommitWrite(c) ==
  /\ rcall[c].pc = "second"
  /\ LET q == rcall[c]
         new == IF q.op = "assign" /\ q.saw # {} THEN {} ELSE Added(q)
     IN IF (q.op = "create" /\ q.r \in roles) \/ (q.op # "create" /\ new # {} /\ q.r \notin roles)
        THEN EndRoleCall(c) /\ UNCHANGED <<roles, grants, rules>>
        ELSE /\ roles' = CASE q.op = "create" -> roles \cup {q.r} [] q.op = "delete" -> roles \ {q.r} [] OTHER -> roles
             /\ grants' = IF q.op = "assign" THEN grants \cup new
                          ELSE (grants \ (IF q.op = "delete" THEN Target(q) ELSE q.saw)) \cup new
             /\ rules' = IF q.op = "assign" THEN rules \cup (IF q.sawRules = {} THEN Added(q) ELSE {})
                         ELSE (rules \ q.sawRules) \cup new
             /\ rcall' = [rcall EXCEPT ![c] = [NoRoleCall EXCEPT !.pc = "load", !.at = q.at]]
  /\ UNCHANGED <<policy, loading, announced, roleOps>>

(* write: reload this instance, announce to the others; a failed reload    *)
(* is announced all the same.                                              *)
LoadPolicy(c) ==
  /\ rcall[c].pc = "load" /\ rcall' = [rcall EXCEPT ![c].pc = "apply", ![c].sawRules = rules]
  /\ UNCHANGED <<roles, grants, rules, policy, loading, announced, roleOps>>
ApplyPolicy(c) ==
  /\ rcall[c].pc = "apply" /\ policy' = [policy EXCEPT ![rcall[c].at] = rcall[c].sawRules]
  /\ rcall' = [rcall EXCEPT ![c].pc = "notify", ![c].sawRules = {}]
  /\ UNCHANGED <<roles, grants, rules, loading, announced, roleOps>>
Notify(c) ==
  /\ rcall[c].pc \in {"load", "notify"}
  /\ \E reached \in SUBSET (Instances \ {rcall[c].at}) : announced' = announced \cup reached
  /\ EndRoleCall(c)
  /\ UNCHANGED <<roles, grants, rules, policy, loading, roleOps>>

(* An error rolls the transaction back; a process may die anywhere.        *)
RoleCallDies(c) ==
  /\ rcall[c].pc # "idle" /\ EndRoleCall(c)
  /\ UNCHANGED <<roles, grants, rules, policy, loading, announced, roleOps>>

(* PolicySync: on an announcement and on every tick of the timer.          *)
OnAnnouncement(i) ==
  /\ i \in announced /\ announced' = announced \ {i} /\ ~loading[<<i, "subscriber">>].busy
  /\ loading' = [loading EXCEPT ![<<i, "subscriber">>] = [busy |-> TRUE, rows |-> rules]]
  /\ UNCHANGED <<roles, grants, rules, policy, rcall, roleOps>>
TickNever(i) == FALSE
OnTick(i) ==
  /\ ~loading[<<i, "timer">>].busy
  /\ loading' = [loading EXCEPT ![<<i, "timer">>] = [busy |-> TRUE, rows |-> rules]]
  /\ UNCHANGED <<roles, grants, rules, policy, announced, rcall, roleOps>>
ReloadPolicy(b) ==
  /\ loading[b].busy /\ loading' = [loading EXCEPT ![b] = NotLoading]
  /\ policy' = [policy EXCEPT ![b[1]] = loading[b].rows]
  /\ UNCHANGED <<roles, grants, rules, announced, rcall, roleOps>>

RolesNext ==
  \/ \E c \in RoleCalls :
       \/ RoleRequest(c) \/ FirstStatement(c) \/ SecondStatement(c) \/ CommitWrite(c)
       \/ LoadPolicy(c) \/ ApplyPolicy(c) \/ Notify(c) \/ RoleCallDies(c)
  \/ \E i \in Instances : OnAnnouncement(i) \/ OnTick(i)
  \/ \E b \in Reloaders : ReloadPolicy(b)

RolesSpec == RolesInit /\ [][RolesNext]_roleVars

-----------------------------------------------------------------------------
(* Once the writes stop, every instance enforces the stored rules: neither *)
(* a lost announcement, a process that died before it announced, nor a     *)
(* reload that read before a commit and applied after it lasts.            *)
PolicyConverges == <>[](\A i \in Instances : policy[i] = rules)

(* RevokeUserRole: "an install cannot lose its last admin by accident".    *)
AdminRemains == \E u \in Members : <<"g", u, Admin>> \in rules

WildcardHolders(rows) == {r \in RoleNames : <<"p", r, "*">> \in rows}

(* "Only the protected role holds" the wildcard permission, and it cannot  *)
(* be deleted or lose it: in the tables, in the rules and in the policy of *)
(* every instance, whatever overlaps, fails or is reloaded late            *)
(* (ProtectedRole, WildcardPermission; SetPermissions, Delete).             *)
WildcardIsProtected ==
  /\ Admin \in roles /\ WildcardHolders(grants) = {Admin} /\ WildcardHolders(rules) = {Admin}
  /\ \A i \in Instances : WildcardHolders(policy[i]) = {Admin}

RolesInvariant == RolesTypeOK /\ WildcardIsProtected

(* The protected role keeps its place, and the policy of every instance    *)
(* converges (RoleStore.write, PolicySync.Start and reload).               *)
RolesCorrect == []RolesInvariant /\ PolicyConverges
=============================================================================
