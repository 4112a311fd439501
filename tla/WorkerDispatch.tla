--------------------------- MODULE WorkerDispatch ---------------------------
(***************************************************************************)
(* The worker side of CanonicalOrchestrator.run of src/orchestration.py:   *)
(* WorkerDispatcher (src/worker_dispatch.py) leases a worker for every     *)
(* task of a plan, WorkerExecutionBoundary (src/worker_execution.py) lets  *)
(* a task run under its lease only, and the finally clause gives the       *)
(* leases back.  Several runs do so at once on one WorkerRouter.           *)
(*                                                                         *)
(* Every router call takes the lock anew: between two of them other runs,  *)
(* an operator, health checks and a restart change the table.  Task ids    *)
(* come from the leader's answer and are unique within a plan only, so     *)
(* that two runs may work on equal ones.                                   *)
(***************************************************************************)
EXTENDS WorkerRouter

CONSTANTS
  Runs,    \* calls of CanonicalOrchestrator.run that may be under way at once
  Plans    \* the plans of the decomposer, in the order of _topological_tasks

\* What _validate_plan checks.  It takes the standby pool for a role, too.
ASSUME PlansAssumption ==
  /\ Plans \subseteq Seq([task : Tasks, role : Pools])
  /\ \A plan \in Plans :
       /\ Len(plan) > 0
       /\ \A i, j \in DOMAIN plan : plan[i].task = plan[j].task => i = j

VARIABLES
  pc,        \* where each run is
  plan,      \* its plan
  assigned,  \* its assignments: the leases of a prefix of the plan
  index,     \* the task it is at
  (* history, read by the properties only *)
  disturbed, \* runs whose leases an operator, or a run so disturbed, may have taken
  orphaned   \* tasks whose lease no run will give back

history == <<disturbed, orphaned>>
vars == <<routerVars, pc, plan, assigned, index, history>>

Steps == {"idle", "assign", "undo", "prepare", "checkpoint", "running", "release"}
\* The steps after the assignment and before the release.
Working == {"prepare", "checkpoint", "running"}

Goto(r, step) == pc' = [pc EXCEPT ![r] = step]
NextTask(r) == plan[r][index[r]].task

\* run() returns or raises.  The leases it leaves behind are nobody's.
End(r) ==
  /\ Goto(r, "idle")
  /\ plan' = [plan EXCEPT ![r] = <<>>]
  /\ assigned' = [assigned EXCEPT ![r] = <<>>]
  /\ index' = [index EXCEPT ![r] = 1]
  /\ disturbed' = disturbed \ {r}

(***************************************************************************)
(* assign_plan                                                             *)
(***************************************************************************)

Begin(r, p) ==
  /\ up /\ pc[r] = "idle"
  /\ Goto(r, "assign")
  /\ plan' = [plan EXCEPT ![r] = p]
  /\ disturbed' = IF disturbed # {} THEN disturbed \cup {r} ELSE disturbed
  /\ UNCHANGED <<routerVars, assigned, index, orphaned>>

\* Mutant: a save that fails is only logged.
AssignUnsaved(r) ==
  /\ pc[r] = "assign"
  /\ \E ok \in SaveOutcomes, lease \in Lease :
       /\ Acquire(plan[r][index[r]].role, NextTask(r), lease, ok)
       /\ assigned' = [assigned EXCEPT ![r] = Append(@, lease)]
       /\ IF index[r] < Len(plan[r])
            THEN index' = [index EXCEPT ![r] = @ + 1] /\ UNCHANGED pc
            ELSE index' = [index EXCEPT ![r] = 1] /\ Goto(r, "prepare")
  /\ orphaned' = orphaned \ {NextTask(r)}
  /\ UNCHANGED <<plan, disturbed>>

\* A lease whose save fails is in the table but not in `acquired`: acquire()
\* raises before the task is appended to it, and the undo passes over it.
Assign(r) ==
  /\ pc[r] = "assign"
  /\ \E ok \in SaveOutcomes, lease \in Lease :
       /\ Acquire(plan[r][index[r]].role, NextTask(r), lease, ok)
       /\ IF ok
            THEN /\ assigned' = [assigned EXCEPT ![r] = Append(@, lease)]
                 /\ IF index[r] < Len(plan[r])
                      THEN index' = [index EXCEPT ![r] = @ + 1] /\ UNCHANGED pc
                      ELSE index' = [index EXCEPT ![r] = 1] /\ Goto(r, "prepare")
                 /\ orphaned' = orphaned \ {NextTask(r)}
            ELSE /\ Goto(r, "undo")
                 /\ orphaned' = orphaned \cup {NextTask(r)}
                 /\ UNCHANGED <<assigned, index>>
  /\ UNCHANGED <<plan, disturbed>>

\* Mutant: the task whose acquisition failed is released with the others.
AssignRaisesAcquired(r) ==
  /\ pc[r] = "assign"
  /\ AcquireRaises(plan[r][index[r]].role, NextTask(r))
  /\ \E lease \in Lease : assigned' = [assigned EXCEPT ![r] = Append(@, lease)]
  /\ Goto(r, "undo")
  /\ UNCHANGED <<routerVars, plan, index, history>>

AssignRaises(r) ==
  /\ pc[r] = "assign"
  /\ AcquireRaises(plan[r][index[r]].role, NextTask(r))
  /\ Goto(r, "undo")
  /\ UNCHANGED <<routerVars, plan, assigned, index, history>>

\* The undo, in reverse order; it passes over whatever a release raises.
Undo(r) ==
  LET n == Len(assigned[r])
      task == plan[r][n].task IN
  /\ pc[r] = "undo" /\ n > 0
  /\ \/ \E ok \in SaveOutcomes : Release(task, ok)
     \/ leases[task] = None /\ UNCHANGED routerVars
  /\ orphaned' = orphaned \ {task}
  /\ assigned' = [assigned EXCEPT ![r] = SubSeq(@, 1, n - 1)]
  /\ UNCHANGED <<pc, plan, index, disturbed>>

\* Nothing is left to undo; run() has no assignments, so release_all does nothing.
AssignFails(r) ==
  /\ pc[r] = "undo" /\ assigned[r] = <<>>
  /\ End(r)
  /\ UNCHANGED <<routerVars, orphaned>>

(***************************************************************************)
(* The task loop.                                                          *)
(***************************************************************************)

\* _assert_active_lease
LeaseStands(r) ==
  /\ leases[NextTask(r)] # None
  /\ leases[NextTask(r)] = assigned[r][index[r]]
  /\ ~leases[NextTask(r)].standby

\* To the finally clause.
ToRelease(r) == Goto(r, "release") /\ index' = [index EXCEPT ![r] = 1]

\* prepare() of the adapter, and execute() up to the checkpoint hook: anything
\* may raise, and a lease that does not stand does.
Prepare(r) ==
  /\ pc[r] = "prepare"
  /\ \/ LeaseStands(r) /\ Goto(r, "checkpoint") /\ UNCHANGED index
     \/ ToRelease(r)
  /\ UNCHANGED <<routerVars, plan, assigned, history>>

\* Mutant: the lease is not looked up again.
LaunchUnchecked(r) ==
  /\ pc[r] = "checkpoint"
  /\ \/ Goto(r, "running") /\ UNCHANGED index
     \/ ToRelease(r)
  /\ UNCHANGED <<routerVars, plan, assigned, history>>

\* The checkpoint hook has run; the lease is looked up again before the launch.
Launch(r) ==
  /\ pc[r] = "checkpoint"
  /\ \/ LeaseStands(r) /\ Goto(r, "running") /\ UNCHANGED index
     \/ ToRelease(r)
  /\ UNCHANGED <<routerVars, plan, assigned, history>>

\* The process ends, and the task's result is validated and applied, or one of
\* these raises.
Finish(r) ==
  /\ pc[r] = "running"
  /\ \/ /\ index[r] < Len(plan[r])
        /\ index' = [index EXCEPT ![r] = @ + 1]
        /\ Goto(r, "prepare")
     \/ ToRelease(r)
  /\ UNCHANGED <<routerVars, plan, assigned, history>>

(***************************************************************************)
(* release_all, in the finally clause.                                     *)
(***************************************************************************)

\* Mutant: a task without a lease ends the loop.
ReleaseNextStopping(r) ==
  LET task == plan[r][index[r]].task IN
  /\ pc[r] = "release" /\ index[r] <= Len(assigned[r])
  /\ \/ Release(task, TRUE)
     \/ leases[task] = None /\ UNCHANGED routerVars
  /\ index' = [index EXCEPT ![r] = IF leases[task] = None THEN Len(assigned[r]) + 1 ELSE @ + 1]
  /\ orphaned' = orphaned \ {task}
  /\ UNCHANGED <<pc, plan, assigned, disturbed>>

\* A task that has lost its lease is passed over.
ReleaseNext(r) ==
  LET task == plan[r][index[r]].task IN
  /\ pc[r] = "release" /\ index[r] <= Len(assigned[r])
  /\ \/ Release(task, TRUE)
     \/ leases[task] = None /\ UNCHANGED routerVars
  /\ index' = [index EXCEPT ![r] = @ + 1]
  /\ orphaned' = orphaned \ {task}
  /\ UNCHANGED <<pc, plan, assigned, disturbed>>

\* release() cannot save: only LeaseError is caught, and the loop is left.
ReleaseRaises(r) ==
  LET rest == {plan[r][i].task : i \in index[r]+1..Len(assigned[r])} IN
  /\ pc[r] = "release" /\ index[r] <= Len(assigned[r])
  /\ FALSE \in SaveOutcomes /\ Release(plan[r][index[r]].task, FALSE)
  /\ orphaned' = {task \in orphaned \cup rest : leases'[task] # None}
  /\ End(r)

Return(r) ==
  /\ pc[r] = "release" /\ index[r] > Len(assigned[r])
  /\ End(r)
  /\ UNCHANGED <<routerVars, orphaned>>

(***************************************************************************)
(* The process, its operator and the health checks.                        *)
(***************************************************************************)

Active == {r \in Runs : pc[r] # "idle"}

StartProcess(loaded) ==
  /\ Construct(loaded)
  /\ orphaned' = {task \in Tasks : leases'[task] # None}
  /\ UNCHANGED <<pc, plan, assigned, index, disturbed>>

StopProcess ==
  /\ Stop
  /\ pc' = [r \in Runs |-> "idle"]
  /\ plan' = [r \in Runs |-> <<>>]
  /\ assigned' = [r \in Runs |-> <<>>]
  /\ index' = [r \in Runs |-> 1]
  /\ disturbed' = {} /\ orphaned' = {}

Check(report) == HealthCheck(report) /\ UNCHANGED <<pc, plan, assigned, index, history>>

\* mark_failed, mark_healthy and refresh_health, by an operator or a tool.
Mark(worker, ok) ==
  /\ MarkFailed(worker, ok) \/ MarkHealthy(worker, ok)
  /\ UNCHANGED <<pc, plan, assigned, index, history>>

Refresh(ok) == RefreshHealth(ok) /\ UNCHANGED <<pc, plan, assigned, index, history>>

\* fail_current_worker: no run calls it.
Fail(task, ok) ==
  /\ FailCurrentWorker(task, ok)
  /\ disturbed' = Active
  /\ orphaned' = orphaned \ {task}
  /\ UNCHANGED <<pc, plan, assigned, index>>

Reset(ok) ==
  /\ ResetRuntimeState(ok)
  /\ disturbed' = Active
  /\ orphaned' = {}
  /\ UNCHANGED <<pc, plan, assigned, index>>

Init ==
  /\ RouterInit
  /\ pc = [r \in Runs |-> "idle"]
  /\ plan = [r \in Runs |-> <<>>]
  /\ assigned = [r \in Runs |-> <<>>]
  /\ index = [r \in Runs |-> 1]
  /\ disturbed = {} /\ orphaned = {}

RunStep(r) ==
  \/ Assign(r) \/ AssignRaises(r) \/ Undo(r) \/ AssignFails(r)
  \/ Prepare(r) \/ Launch(r) \/ Finish(r)
  \/ ReleaseNext(r) \/ ReleaseRaises(r) \/ Return(r)

OperatorStep ==
  \E ok \in SaveOutcomes :
    \/ \E worker \in Workers : Mark(worker, ok)
    \/ Refresh(ok)
    \/ \E task \in Tasks : Fail(task, ok)
    \/ Reset(ok)

Next ==
  \/ \E r \in Runs : (\E p \in Plans : Begin(r, p)) \/ RunStep(r)
  \/ \E loaded \in {stateFile, EmptyState} : StartProcess(loaded)
  \/ StopProcess
  \/ \E report \in HealthReports : Check(report)
  \/ OperatorStep

Spec == Init /\ [][Next]_vars

\* A run is a thread that waits for nobody: the lock is held for one call at a
\* time, and the worker's process has a timeout.
FairSpec == Spec /\ \A r \in Runs : WF_vars(RunStep(r))

(***************************************************************************)
(* Properties.                                                             *)
(***************************************************************************)

\* Every variable has its type, the router's included, and a run that works has
\* an assignment for every task of its plan.
TypeOK ==
  /\ RouterTypeOK
  /\ pc \in [Runs -> Steps]
  /\ plan \in [Runs -> Plans \cup {<<>>}]
  /\ assigned \in [Runs -> Seq(Lease)]
  /\ index \in [Runs -> Nat \ {0}]
  /\ \A r \in Runs :
       /\ pc[r] = "idle" <=> plan[r] = <<>>
       /\ pc[r] \in Working => Len(assigned[r]) = Len(plan[r]) /\ index[r] <= Len(plan[r])
  /\ disturbed \subseteq Active
  /\ orphaned \subseteq Tasks

\* The i-th assignment of a run still is to be released by it.
Holds(r, i) == i \in DOMAIN assigned[r] /\ (pc[r] = "release" => i >= index[r])

\* From its assignment to its release a run has the very leases it was assigned:
\* neither another run's undo or release, nor a health check or a failing save,
\* takes one.  Only an operator does, or a run an operator took leases from.
RunHoldsItsLeases ==
  \A r \in Runs \ disturbed : \A i \in DOMAIN assigned[r] :
    Holds(r, i) => leases[plan[r][i].task] = assigned[r][i]

\* Every lease in the table is one that some run will still release, unless it
\* was orphaned: loaded from the state file, or left by a failing save.
NoLeak ==
  \A task \in Tasks \ orphaned : leases[task] # None =>
    \E r \in Runs : \E i \in DOMAIN assigned[r] :
      Holds(r, i) /\ plan[r][i].task = task /\ assigned[r][i] = leases[task]

\* What a run holds is in the state file, too, whatever other runs saved or failed
\* to save since: a process that starts after a crash does not take its workers for
\* free ones while their processes may still run.
LeasesAreOnRecord ==
  \A r \in Runs \ disturbed : \A i \in DOMAIN assigned[r] :
    Holds(r, i) => stateFile.leases[plan[r][i].task] = assigned[r][i]

\* "A lease release during checkpointing cannot authorize a stale launch": at the
\* last lookup before the launch the worker is not leased to another task, even if
\* an operator has reset the table since the assignment.
LaunchIsExclusive ==
  [][\A r \in Runs : pc[r] # "running" /\ pc'[r] = "running" =>
       \A task \in Tasks \ {NextTask(r)} :
         leases[task] # None => leases[task].worker # assigned[r][index[r]].worker]_vars

(***************************************************************************)
(* What the documentation says, and the code does not do.                  *)
(***************************************************************************)

\* "Worker leases ... are released for the whole orchestration attempt in a
\* `finally` block": no assignment outlives its run in the table.
LeasesAreReleased ==
  [][\A r \in Runs : pc[r] # "idle" /\ pc'[r] = "idle" /\ up' =>
       \A i \in DOMAIN assigned[r] : leases'[plan[r][i].task] # assigned[r][i]]_vars

=============================================================================
