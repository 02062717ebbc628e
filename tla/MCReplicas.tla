----------------------------- MODULE MCReplicas -----------------------------
(* Model checking instance of what the replicas of the service agree on:   *)
(* who runs a job, and which roles are in force. The two share no          *)
(* variables, so one of them moves in a behaviour and the other rests: the *)
(* reachable states are the sum of theirs, not the product.                *)
EXTENDS Scheduler, Roles

VARIABLE focus    \* the component that moves

replicasVars == <<focus, schedulerVars, roleVars>>

(* A component that rests has one initial state.                           *)
AtRest == focus # "scheduler" => job = CHOOSE j \in Jobs : TRUE

ReplicasInit ==
  /\ focus \in {"scheduler", "roles"}
  /\ SchedulerInit
  /\ RolesInit
  /\ AtRest

ReplicasNext ==
  /\ UNCHANGED focus
  /\ \/ focus = "scheduler" /\ SchedulerNext /\ UNCHANGED roleVars
     \/ focus = "roles" /\ RolesNext /\ UNCHANGED schedulerVars

(* Every replica keeps ticking, its statements return and a job ends.      *)
(* That a replica gets the lock is not assumed of any one of them.         *)
SchedulerFairness ==
  \A p \in Replicas :
    WF_schedulerVars(focus = "scheduler" /\ (Tick(p) \/ TryLock(p) \/ CheckDue(p) \/ StartRun(p)
                                             \/ RunPart(p) \/ FinishRun(p)))

(* The timer runs in every instance until Stop, and a reload that fails is *)
(* tried again on the next tick.                                           *)
RolesFairness ==
  /\ \A i \in Instances : WF_roleVars(focus = "roles" /\ OnTick(i))
  /\ \A b \in Reloaders : WF_roleVars(focus = "roles" /\ ReloadPolicy(b))

ReplicasSpec ==
  /\ ReplicasInit
  /\ [][ReplicasNext]_replicasVars
  /\ SchedulerFairness /\ RolesFairness

(* Scheduler.run: a job that is due is started.  (A job is due from the    *)
(* first state on, so this is stated where the scheduler moves.)           *)
ScheduledJobStarts == focus = "scheduler" => DueJobStarts
=============================================================================
