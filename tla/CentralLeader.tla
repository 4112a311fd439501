--------------------------- MODULE CentralLeader ---------------------------
(***************************************************************************)
(* Planning with a leased leader: CentralLeader.plan of                    *)
(* src/central_leader.py as CanonicalOrchestrator.run of                   *)
(* src/orchestration.py calls it, by several runs at once, on the          *)
(* LeaderRouter of their process.                                          *)
(*                                                                         *)
(* Between two router calls a run holds no lock: the provider is called,   *)
(* and the plan worked off, while other runs, an operator and health       *)
(* checks change the lease table and the health file.  The process may     *)
(* stop at any time, and a new one starts from the state file.             *)
(***************************************************************************)
EXTENDS LeaderRouter

CONSTANTS
  Runs,    \* calls of CanonicalOrchestrator.run that may be under way at once
  TaskOf   \* the task id each of them is called with

ASSUME RunsAssumption == TaskOf \in [Runs -> Tasks]

\* What holds of callers that give every run a task id of its own.
DistinctTasks == \A r, s \in Runs : TaskOf[r] = TaskOf[s] => r = s

VARIABLES
  pc,         \* where each run is
  request,    \* the leader a run's request names
  (* history, read by the properties only *)
  robbed,     \* runs whose lease reset_runtime took away
  orphaned,   \* tasks whose lease no run will give back: it was loaded from the
              \* state file, or left behind by AbandonLease
  reported    \* leaders a run reported as failed, and nobody cleared since

history == <<robbed, orphaned, reported>>
vars == <<routerVars, pc, request, history>>

Steps == {"idle", "plan", "calling", "verify", "working", "cleanup"}

Goto(r, step) == pc' = [pc EXCEPT ![r] = step]

(***************************************************************************)
(* A run.                                                                  *)
(***************************************************************************)

Begin(r) ==
  /\ up /\ pc[r] = "idle"
  /\ Goto(r, "plan")
  /\ robbed' = robbed \ {r}
  /\ UNCHANGED <<routerVars, request, orphaned, reported>>

\* Understanding the project raises, or prepare() finds that the context is not
\* one to plan from.
RefuseContext(r) ==
  /\ pc[r] = "plan"
  /\ Goto(r, "cleanup")
  /\ UNCHANGED <<routerVars, request, history>>

\* Mutant: a save that fails is only logged.
PrepareUnsaved(r) ==
  /\ pc[r] = "plan"
  /\ \E ok \in SaveOutcomes, lease \in Lease :
       /\ Acquire(TaskOf[r], lease, ok)
       /\ Goto(r, "calling")
       /\ request' = [request EXCEPT ![r] = lease]
  /\ orphaned' = orphaned \ {TaskOf[r]}
  /\ UNCHANGED <<robbed, reported>>

\* prepare(): the lease, and the request made from it.  A lease whose save fails
\* is in the table, and acquire() raises.
Prepare(r) ==
  /\ pc[r] = "plan"
  /\ \E ok \in SaveOutcomes, lease \in Lease :
       /\ Acquire(TaskOf[r], lease, ok)
       /\ Goto(r, IF ok THEN "calling" ELSE "cleanup")
       /\ request' = [request EXCEPT ![r] = IF ok THEN lease ELSE NoLease]
  /\ orphaned' = orphaned \ {TaskOf[r]}
  /\ UNCHANGED <<robbed, reported>>

\* acquire() raises: the task has a lease, no leader is left, or the health file
\* cannot be read.
PrepareRaises(r) ==
  /\ pc[r] = "plan"
  /\ \/ AcquireRaises(TaskOf[r]) /\ UNCHANGED routerVars
     \/ \E ok \in SaveOutcomes : AcquireNone(TaskOf[r], ok)
  /\ Goto(r, "cleanup")
  /\ UNCHANGED <<request, history>>

TransportAnswers(r) ==
  /\ pc[r] = "calling"
  /\ Goto(r, "verify")
  /\ UNCHANGED <<routerVars, request, history>>

\* Mutant: the failure is put down to the leader the router gave out last.
TransportFailsActive(r) ==
  LET task == TaskOf[r] IN
  /\ pc[r] = "calling"
  /\ \/ /\ leases[task] # NoLease /\ active # NoLease
        /\ failed' = [failed EXCEPT ![active.tier] = @ \cup {active.account}]
        /\ Without(task)
        /\ UNCHANGED <<health, up, registry>>
        /\ Save(TRUE)
     \/ (leases[task] = NoLease \/ active = NoLease) /\ UNCHANGED routerVars
  /\ Goto(r, "cleanup")
  /\ orphaned' = orphaned \ {task}
  /\ UNCHANGED <<request, robbed, reported>>

\* The transport raises.  fail_current_leader raises in its turn if the task has
\* no lease any more, or if its save fails.
TransportFails(r) ==
  LET task == TaskOf[r] IN
  /\ pc[r] = "calling"
  /\ \/ /\ \E ok \in SaveOutcomes :
             /\ FailCurrentLeader(task, ok)
             /\ reported' = IF ok THEN reported \cup {leases[task]} ELSE reported
        /\ orphaned' = orphaned \ {task}
     \/ leases[task] = NoLease /\ UNCHANGED <<routerVars, orphaned, reported>>
  /\ Goto(r, "cleanup")
  /\ UNCHANGED <<request, robbed>>

\* The snapshot after the answer: the answer stands only if the task still has
\* the lease the request was made from.
Verify(r) ==
  /\ pc[r] = "verify"
  /\ Goto(r, IF ~SnapshotRaises /\ leases[TaskOf[r]] = request[r]
               THEN "working" ELSE "cleanup")
  /\ UNCHANGED <<routerVars, request, history>>

\* The rest of run(), which ends somehow.
Work(r) ==
  /\ pc[r] = "working"
  /\ Goto(r, "cleanup")
  /\ UNCHANGED <<routerVars, request, history>>

\* The finally clause first releases the workers.  If that raises, because the
\* worker router's state cannot be saved, the leader's release is never reached.
AbandonLease(r) ==
  /\ pc[r] = "working" /\ FALSE \in SaveOutcomes
  /\ Goto(r, "idle")
  /\ request' = [request EXCEPT ![r] = NoLease]
  /\ orphaned' = IF leases[TaskOf[r]] # NoLease THEN orphaned \cup {TaskOf[r]} ELSE orphaned
  /\ UNCHANGED <<routerVars, robbed, reported>>

\* Mutant: the lease is given back only by a run that got as far as a request.
CleanUpIfRequested(r) ==
  /\ pc[r] = "cleanup"
  /\ \/ request[r] # NoLease /\ \E ok \in SaveOutcomes : Release(TaskOf[r], ok)
     \/ (request[r] = NoLease \/ leases[TaskOf[r]] = NoLease) /\ UNCHANGED routerVars
  /\ Goto(r, "idle")
  /\ request' = [request EXCEPT ![r] = NoLease]
  /\ orphaned' = orphaned \ {TaskOf[r]}
  /\ UNCHANGED <<robbed, reported>>

\* The finally clause: release, whatever happened, and whatever release raises.
CleanUp(r) ==
  /\ pc[r] = "cleanup"
  /\ \/ \E ok \in SaveOutcomes : Release(TaskOf[r], ok)
     \/ leases[TaskOf[r]] = NoLease /\ UNCHANGED routerVars
  /\ Goto(r, "idle")
  /\ request' = [request EXCEPT ![r] = NoLease]
  /\ orphaned' = orphaned \ {TaskOf[r]}
  /\ UNCHANGED <<robbed, reported>>

(***************************************************************************)
(* The process, its operator and the health checks.                        *)
(***************************************************************************)

StartProcess(loaded) ==
  /\ Construct(loaded)
  /\ orphaned' = {task \in Tasks : leases'[task] # NoLease}
  /\ reported' = IF loaded = stateFile
                   THEN {lease \in reported : lease.account \in Configured(registry', lease.tier)}
                   ELSE {}
  /\ UNCHANGED <<pc, request, robbed>>

StopProcess ==
  /\ Stop
  /\ pc' = [r \in Runs |-> "idle"]
  /\ request' = [r \in Runs |-> NoLease]
  /\ robbed' = {}
  /\ orphaned' = {}
  /\ UNCHANGED reported

Check(report) == HealthCheck(report) /\ UNCHANGED <<pc, request, history>>

Mark(account, tier) ==
  /\ \E ok \in SaveOutcomes : MarkHealthy(account, tier, ok)
  /\ reported' = reported \ {[account |-> account, tier |-> tier]}
  /\ UNCHANGED <<pc, request, robbed, orphaned>>

Clear ==
  /\ \E ok \in SaveOutcomes : ClearRuntimeFailures(ok)
  /\ reported' = {}
  /\ UNCHANGED <<pc, request, robbed, orphaned>>

Reset ==
  /\ \E ok \in SaveOutcomes : ResetRuntime(ok)
  /\ robbed' = robbed \cup {r \in Runs : leases[TaskOf[r]] # NoLease}
  /\ orphaned' = {}
  /\ reported' = {}
  /\ UNCHANGED <<pc, request>>

Init ==
  /\ RouterInit
  /\ pc = [r \in Runs |-> "idle"]
  /\ request = [r \in Runs |-> NoLease]
  /\ robbed = {} /\ orphaned = {} /\ reported = {}

RunStep(r) ==
  \/ RefuseContext(r)
  \/ Prepare(r)
  \/ PrepareRaises(r)
  \/ TransportAnswers(r)
  \/ TransportFails(r)
  \/ Verify(r)
  \/ Work(r)
  \/ AbandonLease(r)
  \/ CleanUp(r)

Next ==
  \/ \E r \in Runs : Begin(r) \/ RunStep(r)
  \/ \E loaded \in {stateFile, EmptyState} : StartProcess(loaded)
  \/ StopProcess
  \/ \E report \in HealthReports : Check(report)
  \/ \E account \in Accounts, tier \in Tiers : Mark(account, tier)
  \/ Clear
  \/ Reset

Spec == Init /\ [][Next]_vars

\* The threads of the process are scheduled, and the transport has a timeout.
\* Nothing is promised of callers, operators, health checks and restarts.
FairSpec == Spec /\ \A r \in Runs : WF_vars(RunStep(r))

(***************************************************************************)
(* Properties.                                                             *)
(***************************************************************************)

\* Every variable has its type, the router's included.
TypeOK ==
  /\ RouterTypeOK
  /\ pc \in [Runs -> Steps]
  /\ request \in [Runs -> Lease \cup {NoLease}]
  /\ robbed \subseteq Runs
  /\ orphaned \subseteq Tasks
  /\ reported \subseteq Lease

\* From the request to the clean-up a run's task has the very lease its request
\* was made from, unless an operator reset the router: no other run, restart or
\* failing save takes it.
RunHoldsItsLease ==
  \A r \in Runs :
    pc[r] \in {"calling", "verify", "working"} /\ r \notin robbed =>
      leases[TaskOf[r]] = request[r]

\* Every lease in the table belongs to a run that will release it, or was
\* orphaned from a process that stopped: a run that ends, however it ends and
\* whichever of its saves fail, leaves none behind.
NoLeak ==
  \A task \in Tasks : leases[task] # NoLease =>
    task \in orphaned \/ \E r \in Runs : TaskOf[r] = task /\ pc[r] # "idle"

\* "Exclude failed connection": a leader that was reported and saved as failed is
\* not called again, also by a later process, until an operator clears it.
ReportedIsNotUsed ==
  \A r \in Runs : pc[r] = "calling" /\ r \notin robbed => request[r] \notin reported

\* The lease of a run that calls its leader, checks its answer or works off its plan
\* is in the state file, too, whatever other runs saved or failed to save since: a
\* process that starts after a crash does not take its leader for a free one.
LeaseIsOnRecord ==
  \A r \in Runs :
    pc[r] \in {"calling", "verify", "working"} /\ r \notin robbed =>
      stateFile.leases[TaskOf[r]] = request[r]

\* An account is recorded as failed only by a run that is calling it, for the
\* tier it is called at, or when a process loads its state file.
BlameIsRight ==
  [][\A tier \in Tiers : \A account \in failed'[tier] \ failed[tier] :
       \/ ~up
       \/ \E r \in Runs : /\ pc[r] = "calling" /\ pc'[r] = "cleanup"
                          /\ request[r] = [account |-> account, tier |-> tier]]_vars

=============================================================================
