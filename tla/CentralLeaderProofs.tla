------------------------ MODULE CentralLeaderProofs ------------------------
(***************************************************************************)
(* Proofs about LeaderRouter and CentralLeader, for any accounts, tasks,   *)
(* runs, registries and health reports, with saves that may fail and       *)
(* processes that may stop at any time.                                    *)
(***************************************************************************)
EXTENDS CentralLeader, TLAPS

Exclusive(table) ==
  \A s, t \in Tasks : s # t /\ table[s] # NoLease /\ table[t] # NoLease =>
                        table[s].account # table[t].account

\* The inductive invariant of a router, whoever calls it.
RouterInv ==
  /\ RouterTypeOK
  /\ Exclusive(leases) /\ Exclusive(stateFile.leases)
  /\ ReadyMeansLeased

(***************************************************************************)
(* A router and any callers.                                               *)
(***************************************************************************)

\* What a registry is, read off its assumption.
LEMMA PoolTypes ==
  ASSUME NEW pools \in Registries
  PROVE  pools \in [Tiers -> Seq(Accounts)]
  BY RegistriesAssumption

\* The initial values have their types.
LEMMA EmptyTypes ==
  /\ NoneFailed \in [Tiers -> SUBSET Accounts]
  /\ NoLeases \in [Tasks -> Lease \cup {NoLease}]
  /\ EmptyState \in SavedState
  /\ [tier \in Tiers |-> <<>>] \in [Tiers -> Seq(Accounts)]
<1>1. <<>> \in Seq(Accounts)
  OBVIOUS
<1>2. QED
  BY <1>1 DEF NoneFailed, NoLeases, EmptyState, SavedState

\* The router's invariant holds initially.
LEMMA InitRouter == RouterInit => RouterInv
<1> SUFFICES ASSUME RouterInit
             PROVE  RouterInv
  OBVIOUS
<1>1. RouterTypeOK
  BY EmptyTypes, HealthAssumption DEF RouterInit, RouterTypeOK
<1>2. Exclusive(leases) /\ Exclusive(stateFile.leases)
  BY DEF RouterInit, EmptyState, NoLeases, Exclusive
<1>3. ReadyMeansLeased
  BY DEF RouterInit, ReadyMeansLeased
<1>4. QED
  BY <1>1, <1>2, <1>3 DEF RouterInv

\* What a save leaves in the file: the new state or the old file.
LEMMA SaveStep ==
  ASSUME RouterInv, NEW ok, Save(ok),
         failed' \in [Tiers -> SUBSET Accounts],
         leases' \in [Tasks -> Lease \cup {NoLease}],
         active' \in Lease \cup {NoLease},
         Exclusive(leases)'
  PROVE  stateFile' \in SavedState /\ Exclusive(stateFile'.leases)
<1>1. CASE stateFile' = stateFile
  BY <1>1 DEF RouterInv, RouterTypeOK, Exclusive
<1>2. CASE stateFile' = [failed |-> failed', leases |-> leases', active |-> active']
  <2>1. stateFile'.leases = leases'
    BY <1>2
  <2>2. QED
    BY <1>2, <2>1 DEF SavedState, Exclusive
<1>3. QED
  BY <1>1, <1>2 DEF Save

\* A method call keeps the invariant if what it does to memory does.
LEMMA CallKeeps ==
  ASSUME RouterInv, NEW ok, Save(ok), UNCHANGED <<health, up, registry>>,
         failed' \in [Tiers -> SUBSET Accounts],
         leases' \in [Tasks -> Lease \cup {NoLease}],
         active' \in Lease \cup {NoLease},
         Exclusive(leases)',
         ReadyMeansLeased'
  PROVE  RouterInv'
<1>1. stateFile' \in SavedState /\ Exclusive(stateFile'.leases)
  BY SaveStep
<1>2. RouterTypeOK'
  BY <1>1 DEF RouterInv, RouterTypeOK
<1>3. Exclusive(stateFile.leases)'
  BY <1>1 DEF Exclusive
<1>4. QED
  BY <1>2, <1>3 DEF RouterInv

\* Taking a lease out of the table.
LEMMA WithoutKeeps ==
  ASSUME RouterInv, NEW task \in Tasks, Without(task)
  PROVE  /\ leases' \in [Tasks -> Lease \cup {NoLease}]
         /\ active' \in Lease \cup {NoLease}
         /\ Exclusive(leases)'
         /\ ReadyMeansLeased'
<1>1. /\ leases \in [Tasks -> Lease \cup {NoLease}] /\ active \in Lease \cup {NoLease}
      /\ leases' = [leases EXCEPT ![task] = NoLease]
  BY DEF RouterInv, RouterTypeOK, Without
<1>2. leases' \in [Tasks -> Lease \cup {NoLease}] /\ active' \in Lease \cup {NoLease}
  BY <1>1 DEF Without
<1>3. Exclusive(leases)'
  BY <1>1 DEF RouterInv, Exclusive
<1>4. ReadyMeansLeased'
  <2>1. SUFFICES ASSUME \A t \in Tasks : leases'[t] = NoLease
                 PROVE  active' = NoLease
    BY DEF ReadyMeansLeased
  <2>2. leases' = NoLeases
    BY <1>2, <2>1 DEF NoLeases
  <2>3. QED
    BY <2>2 DEF Without
<1>5. QED
  BY <1>2, <1>3, <1>4

\* The account of a new lease has no other lease.
LEMMA AcquireKeeps ==
  ASSUME RouterInv, NEW task \in Tasks, NEW lease \in Lease, NEW ok, Acquire(task, lease, ok)
  PROVE  RouterInv'
<1>1. /\ leases \in [Tasks -> Lease \cup {NoLease}]
      /\ leases' = [leases EXCEPT ![task] = lease] /\ active' = lease
      /\ UNCHANGED <<health, up, registry, failed>> /\ Save(ok)
      /\ lease # NoLease
  BY LeaderConstantsAssumption DEF RouterInv, RouterTypeOK, Acquire
<1>2. ~Leased(lease.account)
  BY DEF Acquire, Selected, Eligible
<1>3. Exclusive(leases)'
  BY <1>1, <1>2 DEF RouterInv, Exclusive, Leased
<1>4. ReadyMeansLeased'
  BY <1>1 DEF ReadyMeansLeased
<1>5. /\ leases' \in [Tasks -> Lease \cup {NoLease}] /\ active' \in Lease \cup {NoLease}
      /\ failed' \in [Tiers -> SUBSET Accounts]
  BY <1>1 DEF RouterInv, RouterTypeOK
<1>6. QED
  BY <1>1, <1>3, <1>4, <1>5, CallKeeps

\* Loading keeps one lease per account.
LEMMA ConstructKeeps ==
  ASSUME RouterInv, NEW loaded, Construct(loaded)
  PROVE  RouterInv'
<1>1. loaded \in SavedState /\ Save(TRUE) /\ UNCHANGED health /\ up' = TRUE
  BY EmptyTypes DEF Construct, RouterInv, RouterTypeOK
<1>2. PICK pools \in Registries :
        /\ registry' = pools
        /\ failed' = [tier \in Tiers |-> loaded.failed[tier] \cap Configured(pools, tier)]
        /\ \E kept \in SUBSET Tasks :
             /\ Kept(kept, loaded.leases, pools)
             /\ leases' = [task \in Tasks |->
                             IF task \in kept THEN loaded.leases[task] ELSE NoLease]
  BY DEF Construct
<1>3. PICK kept \in SUBSET Tasks :
        /\ Kept(kept, loaded.leases, pools)
        /\ leases' = [task \in Tasks |->
                        IF task \in kept THEN loaded.leases[task] ELSE NoLease]
  BY <1>2
<1>4. registry' \in [Tiers -> Seq(Accounts)]
  BY <1>2, PoolTypes
<1>5. failed' \in [Tiers -> SUBSET Accounts]
  BY <1>1, <1>2 DEF SavedState
<1>6. leases' \in [Tasks -> Lease \cup {NoLease}]
  BY <1>1, <1>3 DEF SavedState
<1>7. active' \in Lease \cup {NoLease} /\ ReadyMeansLeased'
  BY <1>1 DEF SavedState, Construct, ReadyMeansLeased
<1>8. Exclusive(leases)'
  <2>1. \A s, t \in kept : loaded.leases[s].account = loaded.leases[t].account => s = t
    BY <1>3 DEF Kept
  <2>2. \A t \in Tasks : leases'[t] # NoLease => t \in kept /\ leases'[t] = loaded.leases[t]
    BY <1>3
  <2>3. QED
    BY <2>1, <2>2 DEF Exclusive
<1>9. stateFile' \in SavedState /\ Exclusive(stateFile'.leases)
  BY <1>1, <1>5, <1>6, <1>7, <1>8, SaveStep
<1>10. RouterTypeOK'
  BY <1>1, <1>4, <1>5, <1>6, <1>7, <1>9 DEF RouterInv, RouterTypeOK
<1>11. Exclusive(stateFile.leases)'
  BY <1>9 DEF Exclusive
<1>12. QED
  BY <1>7, <1>8, <1>10, <1>11 DEF RouterInv

\* Every step of a router keeps its invariant.
LEMMA RouterStep == RouterInv /\ [RouterNext]_routerVars => RouterInv'
<1> SUFFICES ASSUME RouterInv, [RouterNext]_routerVars
             PROVE  RouterInv'
  OBVIOUS
<1>t. /\ failed \in [Tiers -> SUBSET Accounts] /\ leases \in [Tasks -> Lease \cup {NoLease}]
      /\ active \in Lease \cup {NoLease} /\ Exclusive(leases) /\ ReadyMeansLeased
  BY DEF RouterInv, RouterTypeOK
<1>1. ASSUME NEW loaded, Construct(loaded)
      PROVE  RouterInv'
  BY <1>1, ConstructKeeps
<1>2. CASE Stop
  <2>1. /\ leases' = NoLeases /\ active' = NoLease /\ failed' = NoneFailed /\ up' = FALSE
        /\ registry' = [tier \in Tiers |-> <<>>] /\ UNCHANGED <<health, stateFile>>
    BY <1>2 DEF Stop
  <2>2. RouterTypeOK'
    BY <2>1, EmptyTypes DEF RouterInv, RouterTypeOK
  <2>3. Exclusive(leases)' /\ Exclusive(stateFile.leases)'
    BY <2>1 DEF RouterInv, Exclusive, NoLeases
  <2>4. ReadyMeansLeased'
    BY <2>1 DEF ReadyMeansLeased
  <2>5. QED
    BY <2>2, <2>3, <2>4 DEF RouterInv
<1>3. ASSUME NEW report \in HealthReports, HealthCheck(report)
      PROVE  RouterInv'
  BY <1>3, HealthAssumption
  DEF HealthCheck, RouterInv, RouterTypeOK, Exclusive, ReadyMeansLeased, memory
<1>4. ASSUME NEW ok \in SaveOutcomes, NEW task \in Tasks, NEW lease \in Lease,
             Acquire(task, lease, ok)
      PROVE  RouterInv'
  BY <1>4, AcquireKeeps
<1>5. ASSUME NEW ok \in SaveOutcomes, NEW task \in Tasks, AcquireNone(task, ok)
      PROVE  RouterInv'
  <2>1. /\ active' = NoLease /\ UNCHANGED <<health, up, registry, failed, leases>> /\ Save(ok)
    BY <1>5 DEF AcquireNone
  <2>2. Exclusive(leases)' /\ ReadyMeansLeased'
    BY <1>t, <2>1 DEF Exclusive, ReadyMeansLeased
  <2>3. QED
    BY <1>t, <2>1, <2>2, CallKeeps
<1>6. ASSUME NEW ok \in SaveOutcomes, NEW task \in Tasks, Release(task, ok)
      PROVE  RouterInv'
  BY <1>t, <1>6, WithoutKeeps, CallKeeps DEF Release
<1>7. ASSUME NEW ok \in SaveOutcomes, NEW task \in Tasks, FailCurrentLeader(task, ok)
      PROVE  RouterInv'
  <2>1. leases[task] \in Lease
    BY <1>t, <1>7 DEF FailCurrentLeader
  <2>2. failed' \in [Tiers -> SUBSET Accounts]
    BY <1>t, <1>7, <2>1 DEF FailCurrentLeader, Lease
  <2>3. QED
    BY <1>7, <2>2, WithoutKeeps, CallKeeps DEF FailCurrentLeader
<1>8. ASSUME NEW ok \in SaveOutcomes, NEW account \in Accounts, NEW tier \in Tiers,
             MarkHealthy(account, tier, ok)
      PROVE  RouterInv'
  <2>1. failed' \in [Tiers -> SUBSET Accounts]
    BY <1>t, <1>8 DEF MarkHealthy
  <2>2. UNCHANGED <<health, up, registry, leases, active>> /\ Save(ok)
    BY <1>8 DEF MarkHealthy
  <2>3. Exclusive(leases)' /\ ReadyMeansLeased'
    BY <1>t, <2>2 DEF Exclusive, ReadyMeansLeased
  <2>4. QED
    BY <1>t, <2>1, <2>2, <2>3, CallKeeps
<1>9. ASSUME NEW ok \in SaveOutcomes, ClearRuntimeFailures(ok)
      PROVE  RouterInv'
  <2>1. failed' = NoneFailed /\ UNCHANGED <<health, up, registry, leases, active>> /\ Save(ok)
    BY <1>9 DEF ClearRuntimeFailures
  <2>2. Exclusive(leases)' /\ ReadyMeansLeased'
    BY <1>t, <2>1 DEF Exclusive, ReadyMeansLeased
  <2>3. QED
    BY <1>t, <2>1, <2>2, EmptyTypes, CallKeeps
<1>10. ASSUME NEW ok \in SaveOutcomes, ResetRuntime(ok)
       PROVE  RouterInv'
  <2>1. /\ failed' = NoneFailed /\ leases' = NoLeases /\ active' = NoLease
        /\ UNCHANGED <<health, up, registry>> /\ Save(ok)
    BY <1>10 DEF ResetRuntime
  <2>2. Exclusive(leases)' /\ ReadyMeansLeased'
    BY <2>1 DEF Exclusive, ReadyMeansLeased, NoLeases
  <2>3. QED
    BY <2>1, <2>2, EmptyTypes, CallKeeps
<1>11. CASE UNCHANGED routerVars
  BY <1>11 DEF routerVars, memory, RouterInv, RouterTypeOK, Exclusive, ReadyMeansLeased
<1>12. QED
  BY <1>1, <1>2, <1>3, <1>4, <1>5, <1>6, <1>7, <1>8, <1>9, <1>10, <1>11 DEF RouterNext

\* The invariant of a router holds for any callers.
THEOREM RouterInvariance == RouterSpec => []RouterInv
<1>1. QED
  BY InitRouter, RouterStep, PTL DEF RouterSpec

\* No account has two leases, in memory or in the state file.
THEOREM RouterExclusive == RouterSpec => []OneLeasePerAccount
<1>1. RouterInv => OneLeasePerAccount
  BY DEF RouterInv, Exclusive, OneLeasePerAccount
<1>2. QED
  BY <1>1, RouterInvariance, PTL

(***************************************************************************)
(* The runs of the coordinator are such callers.                           *)
(***************************************************************************)

\* The task of a run is a task.
LEMMA TaskTypes == \A r \in Runs : TaskOf[r] \in Tasks
  BY RunsAssumption

\* Every step of the runs, the process and its operator is a call of one method
\* of the router, or leaves the router alone.
LEMMA StepIsCall == [Next]_vars => [RouterNext]_routerVars
<1> SUFFICES ASSUME [Next]_vars
             PROVE  [RouterNext]_routerVars
  OBVIOUS
<1>1. ASSUME NEW r \in Runs, Begin(r) \/ RunStep(r)
      PROVE  [RouterNext]_routerVars
  <2>1. CASE Begin(r) \/ RefuseContext(r) \/ TransportAnswers(r) \/ Verify(r) \/ Work(r)
             \/ AbandonLease(r)
    BY <2>1 DEF Begin, RefuseContext, TransportAnswers, Verify, Work, AbandonLease
  <2>2. CASE Prepare(r)
    BY <2>2, TaskTypes DEF Prepare, RouterNext
  <2>3. CASE PrepareRaises(r)
    BY <2>3, TaskTypes DEF PrepareRaises, RouterNext
  <2>4. CASE TransportFails(r)
    BY <2>4, TaskTypes DEF TransportFails, RouterNext
  <2>5. CASE CleanUp(r)
    BY <2>5, TaskTypes DEF CleanUp, RouterNext
  <2>6. QED
    BY <1>1, <2>1, <2>2, <2>3, <2>4, <2>5 DEF RunStep
<1>2. ASSUME NEW loaded \in {stateFile, EmptyState}, StartProcess(loaded)
      PROVE  RouterNext
  BY <1>2 DEF StartProcess, RouterNext
<1>3. CASE StopProcess
  BY <1>3 DEF StopProcess, RouterNext
<1>4. ASSUME NEW report \in HealthReports, Check(report)
      PROVE  RouterNext
  BY <1>4 DEF Check, RouterNext
<1>5. ASSUME NEW account \in Accounts, NEW tier \in Tiers, Mark(account, tier)
      PROVE  RouterNext
  BY <1>5 DEF Mark, RouterNext
<1>6. CASE Clear
  BY <1>6 DEF Clear, RouterNext
<1>7. CASE Reset
  BY <1>7 DEF Reset, RouterNext
<1>8. CASE UNCHANGED vars
  BY <1>8 DEF vars
<1>9. QED
  BY <1>1, <1>2, <1>3, <1>4, <1>5, <1>6, <1>7, <1>8 DEF Next

\* The coordinator's runs use the router as its specification allows.
LEMMA CallsTheRouter == Spec => RouterSpec
<1>1. Init => RouterInit
  BY DEF Init
<1>2. QED
  BY <1>1, StepIsCall, PTL DEF Spec, RouterSpec

\* So that they find its invariant, ...
THEOREM RouterHolds == Spec => []RouterInv
  BY CallsTheRouter, RouterInvariance, PTL

\* ... no two of them ever use one account, and ...
THEOREM ExclusiveTheorem == Spec => []OneLeasePerAccount
  BY CallsTheRouter, RouterExclusive, PTL

\* ... LeaderFailover says READY only while some run holds a lease.
THEOREM ReadyTheorem == Spec => []ReadyMeansLeased
<1>1. RouterInv => ReadyMeansLeased
  BY DEF RouterInv
<1>2. QED
  BY <1>1, RouterHolds, PTL

(***************************************************************************)
(* What holds of the runs whatever their task ids are.                     *)
(***************************************************************************)

Busy == {"calling", "verify", "working"}

RunTypes ==
  /\ pc \in [Runs -> Steps]
  /\ request \in [Runs -> Lease \cup {NoLease}]
  /\ robbed \subseteq Runs
  /\ orphaned \subseteq Tasks
  /\ reported \subseteq Lease

DownIsIdle == ~up => \A r \in Runs : pc[r] = "idle"

BusyHasRequest == \A r \in Runs : pc[r] \in Busy => request[r] \in Lease

\* A reported leader is among the failed ones of the state file, and of memory.
ReportedIsFailed ==
  \A lease \in reported : /\ lease.account \in stateFile.failed[lease.tier]
                          /\ up => lease.account \in failed[lease.tier]

RunsInv == RunTypes /\ DownIsIdle /\ BusyHasRequest /\ ReportedIsFailed /\ NoLeak

\* The invariant of the runs holds initially.
LEMMA InitRuns == Init => RunsInv
<1> SUFFICES ASSUME Init
             PROVE  RunsInv
  OBVIOUS
<1>1. /\ pc = [r \in Runs |-> "idle"] /\ request = [r \in Runs |-> NoLease]
      /\ robbed = {} /\ orphaned = {} /\ reported = {} /\ leases = NoLeases
  BY DEF Init, RouterInit
<1>2. QED
  BY <1>1 DEF RunsInv, RunTypes, Steps, DownIsIdle, BusyHasRequest, Busy,
              ReportedIsFailed, NoLeak, NoLeases

\* A step of a run to another step keeps the types, if what it writes has them.
LEMMA RunStepTypes ==
  ASSUME RunTypes, NEW r \in Runs, NEW step \in Steps, Goto(r, step),
         request' = request \/ \E lease \in Lease \cup {NoLease} :
                                 request' = [request EXCEPT ![r] = lease],
         robbed' \subseteq Runs, orphaned' \subseteq Tasks, reported' \subseteq Lease
  PROVE  RunTypes'
  BY DEF RunTypes, Goto

\* A run that is under way runs in a process that is up.
LEMMA RunIsUp ==
  ASSUME RouterInv, RunsInv, NEW r \in Runs, pc[r] # "idle"
  PROVE  up = TRUE
  BY DEF RunsInv, DownIsIdle, RouterInv, RouterTypeOK

\* A step of a run that is not one of the lease table.
LEMMA QuietRunStep ==
  ASSUME RouterInv, RunsInv, NEW r \in Runs, NEW step \in Steps, Goto(r, step),
         UNCHANGED <<routerVars, reported>>, up = TRUE,
         robbed' \subseteq Runs, orphaned' \subseteq Tasks, orphaned \subseteq orphaned',
         \/ request' = request /\ (step \in Busy => pc[r] \in Busy)
         \/ request' = [request EXCEPT ![r] = NoLease] /\ step \notin Busy,
         step = "idle" => leases[TaskOf[r]] = NoLease \/ TaskOf[r] \in orphaned'
  PROVE  RunsInv'
<1>1. RunTypes'
  BY RunStepTypes DEF RunsInv, RunTypes
<1>2. pc' = [pc EXCEPT ![r] = step] /\ pc \in [Runs -> Steps]
      /\ request \in [Runs -> Lease \cup {NoLease}]
  BY DEF Goto, RunsInv, RunTypes
<1>3. DownIsIdle'
  BY DEF DownIsIdle, routerVars
<1>4. BusyHasRequest'
  BY <1>2 DEF RunsInv, BusyHasRequest
<1>5. ReportedIsFailed'
  BY DEF RunsInv, ReportedIsFailed, routerVars, memory
<1>6. NoLeak'
  <2>1. leases' = leases
    BY DEF routerVars, memory
  <2>2. QED
    BY <1>2, <2>1 DEF RunsInv, NoLeak
<1>7. QED
  BY <1>1, <1>3, <1>4, <1>5, <1>6 DEF RunsInv

\* A step of a run that calls the router: only the lease of its own task and the
\* failed leaders change, and these only grow.
LEMMA CallingRunStep ==
  ASSUME RouterInv, RunsInv, NEW r \in Runs, NEW step \in Steps, Goto(r, step),
         NEW ok \in SaveOutcomes, Save(ok), up = TRUE, up' = up,
         NEW lease \in Lease \cup {NoLease}, leases' = [leases EXCEPT ![TaskOf[r]] = lease],
         \A tier \in Tiers : failed[tier] \subseteq failed'[tier],
         robbed' = robbed, orphaned' = orphaned \ {TaskOf[r]},
         \A l \in reported' \ reported :
           l \in Lease /\ ok = TRUE /\ l.account \in failed'[l.tier],
         (request' = request /\ step \notin Busy) \/
           (\E l \in Lease \cup {NoLease} :
             request' = [request EXCEPT ![r] = l] /\ (step \in Busy => l \in Lease)),
         step = "idle" => lease = NoLease
  PROVE  RunsInv'
<1>1. /\ pc' = [pc EXCEPT ![r] = step] /\ pc \in [Runs -> Steps]
      /\ request \in [Runs -> Lease \cup {NoLease}] /\ reported \subseteq Lease
      /\ robbed \subseteq Runs /\ orphaned \subseteq Tasks
      /\ leases \in [Tasks -> Lease \cup {NoLease}] /\ TaskOf[r] \in Tasks
  BY TaskTypes DEF Goto, RunsInv, RunTypes, RouterInv, RouterTypeOK
<1>2. RunTypes'
  BY <1>1, RunStepTypes DEF RunsInv
<1>3. DownIsIdle'
  BY DEF DownIsIdle
<1>4. BusyHasRequest'
  BY <1>1 DEF RunsInv, BusyHasRequest
<1>5. ReportedIsFailed'
  <2>1. SUFFICES ASSUME NEW l \in reported'
                 PROVE  l.account \in stateFile'.failed[l.tier] /\ l.account \in failed'[l.tier]
    BY DEF ReportedIsFailed
  <2>2. l \in Lease /\ l.tier \in Tiers
    BY <1>1 DEF Lease
  <2>3. l.account \in failed'[l.tier]
    BY <2>2 DEF RunsInv, ReportedIsFailed
  <2>4. CASE stateFile' = stateFile /\ ok # TRUE
    BY <2>2, <2>3, <2>4 DEF RunsInv, ReportedIsFailed
  <2>5. CASE stateFile' = [failed |-> failed', leases |-> leases', active |-> active']
    BY <2>3, <2>5
  <2>6. QED
    BY <2>3, <2>4, <2>5, LeaderConstantsAssumption DEF Save
<1>6. NoLeak'
  <2>1. SUFFICES ASSUME NEW task \in Tasks, leases'[task] # NoLease, task \notin orphaned'
                 PROVE  \E q \in Runs : TaskOf[q] = task /\ pc'[q] # "idle"
    BY DEF NoLeak
  <2>2. CASE task = TaskOf[r]
    BY <1>1, <2>1, <2>2
  <2>3. CASE task # TaskOf[r]
    <3>1. PICK q \in Runs : TaskOf[q] = task /\ pc[q] # "idle"
      BY <1>1, <2>1, <2>3 DEF RunsInv, NoLeak
    <3>2. q # r
      BY <2>3, <3>1
    <3>3. QED
      BY <1>1, <3>1, <3>2
  <2>4. QED
    BY <2>2, <2>3
<1>7. QED
  BY <1>2, <1>3, <1>4, <1>5, <1>6 DEF RunsInv

\* A step of a run keeps the invariant of the runs.
LEMMA RunKeeps ==
  ASSUME RouterInv, RunsInv, NEW r \in Runs, Begin(r) \/ RunStep(r)
  PROVE  RunsInv'
<1>t. /\ TaskOf[r] \in Tasks /\ leases \in [Tasks -> Lease \cup {NoLease}]
      /\ failed \in [Tiers -> SUBSET Accounts] /\ up \in BOOLEAN
      /\ request \in [Runs -> Lease \cup {NoLease}] /\ pc \in [Runs -> Steps]
      /\ robbed \subseteq Runs /\ orphaned \subseteq Tasks /\ reported \subseteq Lease
  BY TaskTypes DEF RunsInv, RunTypes, RouterInv, RouterTypeOK
<1>s. /\ Steps = {"idle", "plan", "calling", "verify", "working", "cleanup"}
      /\ Busy = {"calling", "verify", "working"}
  BY DEF Steps, Busy
<1>1. CASE Begin(r)
  <2>1. Goto(r, "plan") /\ up = TRUE /\ robbed' \subseteq Runs
        /\ UNCHANGED <<routerVars, reported, request, orphaned>>
    BY <1>t, <1>1 DEF Begin
  <2>2. QED
    BY <1>t, <1>s, <2>1, QuietRunStep
<1>2. CASE RefuseContext(r) \/ TransportAnswers(r) \/ Verify(r) \/ Work(r)
  <2>1. up = TRUE
    BY <1>2, RunIsUp DEF RefuseContext, TransportAnswers, Verify, Work
  <2>2. /\ \/ Goto(r, "cleanup")
           \/ Goto(r, "verify") /\ pc[r] = "calling"
           \/ Goto(r, "working") /\ pc[r] = "verify"
        /\ UNCHANGED <<routerVars, reported, request, orphaned, robbed>>
    BY <1>2 DEF RefuseContext, TransportAnswers, Verify, Work, history, Goto
  <2>3. QED
    BY <1>t, <1>s, <2>1, <2>2, QuietRunStep
<1>3. CASE AbandonLease(r)
  <2>1. up = TRUE
    BY <1>3, RunIsUp DEF AbandonLease
  <2>2. /\ Goto(r, "idle") /\ request' = [request EXCEPT ![r] = NoLease]
        /\ UNCHANGED <<routerVars, reported, robbed>>
        /\ orphaned \subseteq orphaned' /\ orphaned' \subseteq Tasks
        /\ leases[TaskOf[r]] = NoLease \/ TaskOf[r] \in orphaned'
    BY <1>t, <1>3 DEF AbandonLease
  <2>3. QED
    BY <1>t, <1>s, <2>1, <2>2, QuietRunStep
<1>4. CASE Prepare(r)
  <2>1. PICK ok \in SaveOutcomes, lease \in Lease :
          /\ Acquire(TaskOf[r], lease, ok)
          /\ Goto(r, IF ok THEN "calling" ELSE "cleanup")
          /\ request' = [request EXCEPT ![r] = IF ok THEN lease ELSE NoLease]
    BY <1>4 DEF Prepare
  <2>2. /\ Save(ok) /\ up = TRUE /\ up' = up /\ failed' = failed
        /\ leases' = [leases EXCEPT ![TaskOf[r]] = lease]
    BY <1>t, <2>1 DEF Acquire
  <2>3. robbed' = robbed /\ orphaned' = orphaned \ {TaskOf[r]} /\ reported' = reported
    BY <1>4 DEF Prepare
  <2>4. CASE ok
    BY <1>s, <2>1, <2>2, <2>3, <2>4, CallingRunStep
  <2>5. CASE ~ok
    BY <1>s, <2>1, <2>2, <2>3, <2>5, CallingRunStep
  <2>6. QED
    BY <2>4, <2>5
<1>5. CASE PrepareRaises(r)
  <2>1. up = TRUE
    BY <1>5, RunIsUp DEF PrepareRaises
  <2>2. Goto(r, "cleanup") /\ UNCHANGED <<request, robbed, orphaned, reported>>
    BY <1>5 DEF PrepareRaises, history
  <2>3. CASE UNCHANGED routerVars
    BY <1>t, <1>s, <2>1, <2>2, <2>3, QuietRunStep
  <2>4. ASSUME NEW ok \in SaveOutcomes, AcquireNone(TaskOf[r], ok)
        PROVE  RunsInv'
    <3>1. Save(ok) /\ UNCHANGED <<up, failed, leases>>
      BY <2>4 DEF AcquireNone
    <3>2. RunTypes'
      BY <1>t, <1>s, <2>2, RunStepTypes DEF RunsInv
    <3>3. DownIsIdle'
      BY <2>1, <3>1 DEF DownIsIdle
    <3>4. BusyHasRequest'
      BY <1>t, <1>s, <2>2 DEF RunsInv, BusyHasRequest, Goto
    <3>5. ReportedIsFailed'
      BY <2>1, <2>2, <3>1 DEF RunsInv, ReportedIsFailed, Save
    <3>6. NoLeak'
      BY <1>t, <2>2, <3>1 DEF RunsInv, NoLeak, Goto
    <3>7. QED
      BY <3>2, <3>3, <3>4, <3>5, <3>6 DEF RunsInv
  <2>5. QED
    BY <1>5, <2>3, <2>4 DEF PrepareRaises
<1>6. CASE TransportFails(r)
  <2>1. up = TRUE
    BY <1>6, RunIsUp DEF TransportFails
  <2>2. Goto(r, "cleanup") /\ UNCHANGED <<request, robbed>>
    BY <1>6 DEF TransportFails
  <2>3. CASE leases[TaskOf[r]] = NoLease /\ UNCHANGED <<routerVars, orphaned, reported>>
    BY <1>t, <1>s, <2>1, <2>2, <2>3, QuietRunStep
  <2>4. ASSUME NEW ok \in SaveOutcomes, FailCurrentLeader(TaskOf[r], ok),
               reported' = IF ok THEN reported \cup {leases[TaskOf[r]]} ELSE reported,
               orphaned' = orphaned \ {TaskOf[r]}
        PROVE  RunsInv'
    <3>1. /\ leases[TaskOf[r]] \in Lease
          /\ leases[TaskOf[r]].tier \in Tiers
      BY <1>t, <2>4 DEF FailCurrentLeader, Lease
    <3>2. /\ failed' = [failed EXCEPT ![leases[TaskOf[r]].tier] =
                          @ \cup {leases[TaskOf[r]].account}]
          /\ leases' = [leases EXCEPT ![TaskOf[r]] = NoLease]
          /\ up' = up /\ Save(ok)
      BY <2>4 DEF FailCurrentLeader, Without
    <3>3. \A tier \in Tiers : failed[tier] \subseteq failed'[tier]
      BY <1>t, <3>1, <3>2
    <3>4. \A l \in reported' \ reported :
            l \in Lease /\ ok = TRUE /\ l.account \in failed'[l.tier]
      BY <1>t, <2>4, <3>1, <3>2, LeaderConstantsAssumption
    <3>5. /\ "cleanup" \in Steps /\ "cleanup" \notin Busy /\ "cleanup" # "idle"
          /\ NoLease \in Lease \cup {NoLease}
          /\ Goto(r, "cleanup") /\ request' = request /\ robbed' = robbed
      BY <1>s, <2>2
    <3>6. QED
      BY <2>1, <2>4, <3>2, <3>3, <3>4, <3>5, CallingRunStep
  <2>5. QED
    BY <1>6, <2>3, <2>4 DEF TransportFails
<1>7. CASE CleanUp(r)
  <2>1. up = TRUE
    BY <1>7, RunIsUp DEF CleanUp
  <2>2. /\ Goto(r, "idle") /\ request' = [request EXCEPT ![r] = NoLease]
        /\ orphaned' = orphaned \ {TaskOf[r]} /\ UNCHANGED <<robbed, reported>>
    BY <1>7 DEF CleanUp
  <2>3. ASSUME NEW ok \in SaveOutcomes, Release(TaskOf[r], ok)
        PROVE  RunsInv'
    <3>1. /\ leases' = [leases EXCEPT ![TaskOf[r]] = NoLease]
          /\ UNCHANGED <<up, failed>> /\ Save(ok)
      BY <2>3 DEF Release, Without
    <3>2. QED
      BY <1>s, <2>1, <2>2, <3>1, CallingRunStep
  <2>4. CASE leases[TaskOf[r]] = NoLease /\ UNCHANGED routerVars
    <3>1. RunTypes'
      BY <1>t, <1>s, <2>2, RunStepTypes DEF RunsInv
    <3>2. DownIsIdle' /\ ReportedIsFailed'
      BY <2>1, <2>2, <2>4 DEF RunsInv, DownIsIdle, ReportedIsFailed, routerVars, memory
    <3>3. BusyHasRequest'
      BY <1>t, <1>s, <2>2 DEF RunsInv, BusyHasRequest, Goto
    <3>4. NoLeak'
      <4>1. leases' = leases
        BY <2>4 DEF routerVars, memory
      <4>2. QED
        BY <1>t, <2>2, <2>4, <4>1 DEF RunsInv, NoLeak, Goto
    <3>5. QED
      BY <3>1, <3>2, <3>3, <3>4 DEF RunsInv
  <2>5. QED
    BY <1>7, <2>3, <2>4 DEF CleanUp
<1>8. QED
  BY <1>1, <1>2, <1>3, <1>4, <1>5, <1>6, <1>7 DEF RunStep

\* So does a step of the process, its operator or a health check.
LEMMA OthersKeep ==
  ASSUME RouterInv, RunsInv,
         \/ \E loaded \in {stateFile, EmptyState} : StartProcess(loaded)
         \/ StopProcess
         \/ \E report \in HealthReports : Check(report)
         \/ \E account \in Accounts, tier \in Tiers : Mark(account, tier)
         \/ Clear
         \/ Reset
  PROVE  RunsInv'
<1>t. /\ leases \in [Tasks -> Lease \cup {NoLease}] /\ failed \in [Tiers -> SUBSET Accounts]
      /\ request \in [Runs -> Lease \cup {NoLease}] /\ pc \in [Runs -> Steps]
      /\ robbed \subseteq Runs /\ orphaned \subseteq Tasks /\ reported \subseteq Lease
      /\ stateFile \in SavedState /\ up \in BOOLEAN
  BY DEF RunsInv, RunTypes, RouterInv, RouterTypeOK
<1>1. ASSUME NEW loaded \in {stateFile, EmptyState}, StartProcess(loaded)
      PROVE  RunsInv'
  <2>1. PICK pools \in Registries :
          /\ registry' = pools
          /\ failed' = [tier \in Tiers |-> loaded.failed[tier] \cap Configured(pools, tier)]
    BY <1>1 DEF StartProcess, Construct
  <2>2. /\ ~up /\ up' = TRUE /\ UNCHANGED <<pc, request, robbed>>
        /\ orphaned' = {task \in Tasks : leases'[task] # NoLease}
        /\ reported' = IF loaded = stateFile
                         THEN {lease \in reported :
                                 lease.account \in Configured(registry', lease.tier)}
                         ELSE {}
        /\ stateFile' = [failed |-> failed', leases |-> leases', active |-> active']
    BY <1>1 DEF StartProcess, Construct, Save
  <2>3. RunTypes' /\ DownIsIdle' /\ BusyHasRequest'
    BY <1>t, <2>2 DEF RunsInv, RunTypes, DownIsIdle, BusyHasRequest
  <2>4. NoLeak'
    BY <2>2 DEF NoLeak
  <2>5. ReportedIsFailed'
    <3>1. SUFFICES ASSUME NEW l \in reported'
                   PROVE  l.account \in failed'[l.tier]
      BY <2>2 DEF ReportedIsFailed
    <3>2. /\ loaded = stateFile /\ l \in reported /\ l.tier \in Tiers
          /\ l.account \in Configured(pools, l.tier)
      BY <1>t, <2>1, <2>2, <3>1 DEF Lease
    <3>3. l.account \in stateFile.failed[l.tier]
      BY <3>2 DEF RunsInv, ReportedIsFailed
    <3>4. QED
      BY <2>1, <3>2, <3>3
  <2>6. QED
    BY <2>3, <2>4, <2>5 DEF RunsInv
<1>2. CASE StopProcess
  <2>1. /\ up' = FALSE /\ leases' = NoLeases /\ UNCHANGED <<stateFile, reported>>
        /\ pc' = [r \in Runs |-> "idle"] /\ request' = [r \in Runs |-> NoLease]
        /\ robbed' = {} /\ orphaned' = {}
    BY <1>2 DEF StopProcess, Stop
  <2>2. RunTypes' /\ DownIsIdle' /\ BusyHasRequest'
    BY <1>t, <2>1 DEF RunTypes, DownIsIdle, BusyHasRequest, Busy, Steps
  <2>3. ReportedIsFailed' /\ NoLeak'
    BY <2>1 DEF RunsInv, ReportedIsFailed, NoLeak, NoLeases
  <2>4. QED
    BY <2>2, <2>3 DEF RunsInv
<1>3. ASSUME NEW report \in HealthReports, Check(report)
      PROVE  RunsInv'
  <2>1. UNCHANGED <<stateFile, up, failed, leases, pc, request, robbed, orphaned, reported>>
    BY <1>3 DEF Check, HealthCheck, memory, history
  <2>2. QED
    BY <2>1 DEF RunsInv, RunTypes, DownIsIdle, BusyHasRequest, ReportedIsFailed, NoLeak
<1>4. ASSUME NEW account \in Accounts, NEW tier \in Tiers, NEW ok \in SaveOutcomes,
             MarkHealthy(account, tier, ok), UNCHANGED <<pc, request, robbed, orphaned>>,
             reported' = reported \ {[account |-> account, tier |-> tier]}
      PROVE  RunsInv'
  <2>1. up /\ failed' = [failed EXCEPT ![tier] = @ \ {account}] /\ UNCHANGED <<up, leases>>
        /\ Save(ok)
    BY <1>4 DEF MarkHealthy
  <2>2. RunTypes' /\ DownIsIdle' /\ BusyHasRequest' /\ NoLeak'
    BY <1>4, <2>1 DEF RunsInv, RunTypes, DownIsIdle, BusyHasRequest, NoLeak
  <2>3. ASSUME NEW l \in reported'
        PROVE  l.account \in stateFile'.failed[l.tier] /\ l.account \in failed'[l.tier]
    <3>1. /\ l \in Lease /\ l.tier \in Tiers /\ l # [account |-> account, tier |-> tier]
          /\ l.account \in stateFile.failed[l.tier] /\ l.account \in failed[l.tier]
      BY <1>t, <1>4, <2>1, <2>3 DEF RunsInv, ReportedIsFailed, Lease
    <3>2. l.tier # tier \/ l.account # account
      BY <3>1 DEF Lease
    <3>3. l.account \in failed'[l.tier]
      BY <1>t, <2>1, <3>1, <3>2
    <3>4. QED
      BY <2>1, <3>1, <3>3 DEF Save
  <2>4. QED
    BY <2>2, <2>3 DEF RunsInv, ReportedIsFailed
<1>5. CASE Clear
  <2>1. /\ UNCHANGED <<up, leases, pc, request, robbed, orphaned>> /\ reported' = {}
    BY <1>5 DEF Clear, ClearRuntimeFailures
  <2>2. QED
    BY <2>1 DEF RunsInv, RunTypes, DownIsIdle, BusyHasRequest, ReportedIsFailed, NoLeak
<1>6. CASE Reset
  <2>1. /\ UNCHANGED <<up, pc, request>> /\ leases' = NoLeases
        /\ reported' = {} /\ orphaned' = {} /\ robbed' \subseteq Runs
    BY <1>t, <1>6 DEF Reset, ResetRuntime
  <2>2. QED
    BY <2>1 DEF RunsInv, RunTypes, DownIsIdle, BusyHasRequest, ReportedIsFailed, NoLeak, NoLeases
<1>7. QED
  BY <1>1, <1>2, <1>3, <1>4, <1>5, <1>6 DEF Mark

\* Every step keeps the invariant of the runs.
LEMMA RunsStep == RouterInv /\ RunsInv /\ [Next]_vars => RunsInv'
<1> SUFFICES ASSUME RouterInv, RunsInv, [Next]_vars
             PROVE  RunsInv'
  OBVIOUS
<1>1. CASE UNCHANGED vars
  BY <1>1 DEF vars, routerVars, memory, history, RunsInv, RunTypes, DownIsIdle,
              BusyHasRequest, ReportedIsFailed, NoLeak
<1>2. QED
  BY <1>1, RunKeeps, OthersKeep DEF Next

\* The invariant of the runs, whatever their task ids.
THEOREM RunsInvariance == Spec => []RunsInv
<1>1. Init => RunsInv
  BY InitRuns
<1>2. QED
  BY <1>1, RunsStep, RouterHolds, PTL DEF Spec

\* Every variable of the runs and of the router has its type.
THEOREM RunsTypeCorrect == Spec => []TypeOK
<1>1. RouterInv /\ RunsInv => TypeOK
  BY DEF RouterInv, RunsInv, RunTypes, TypeOK
<1>2. QED
  BY <1>1, RouterHolds, RunsInvariance, PTL

\* A run leaves a lease behind only where its workers cannot be released.
THEOREM NoLeakTheorem == Spec => []NoLeak
<1>1. RunsInv => NoLeak
  BY DEF RunsInv
<1>2. QED
  BY <1>1, RunsInvariance, PTL

(***************************************************************************)
(* What holds of runs that have a task id each.                            *)
(***************************************************************************)

\* Nobody but an operator takes the lease of a busy run, and then nobody gives
\* its task another one.
KeepsOrLoses ==
  \A r \in Runs : pc[r] \in Busy =>
    /\ leases[TaskOf[r]] \in {request[r], NoLease}
    /\ r \notin robbed => leases[TaskOf[r]] = request[r]

HoldsInv == KeepsOrLoses /\ ReportedIsNotUsed

\* What a run's step does to the runs other than itself: at most, it reports the
\* leader of its own lease as failed.
LEMMA OwnEffect ==
  ASSUME RouterInv, RunsInv, DistinctTasks, NEW s \in Runs, Begin(s) \/ RunStep(s)
  PROVE  /\ \A r \in Runs \ {s} :
              /\ pc'[r] = pc[r] /\ request'[r] = request[r]
              /\ leases'[TaskOf[r]] = leases[TaskOf[r]]
              /\ r \in robbed' <=> r \in robbed
         /\ \A l \in reported' \ reported :
              l = leases[TaskOf[s]] /\ l # NoLease /\ pc'[s] = "cleanup"
<1>t. /\ leases \in [Tasks -> Lease \cup {NoLease}] /\ pc \in [Runs -> Steps]
      /\ request \in [Runs -> Lease \cup {NoLease}]
      /\ \A r \in Runs : TaskOf[r] \in Tasks
      /\ \A r \in Runs \ {s} : TaskOf[r] # TaskOf[s]
  BY TaskTypes DEF DistinctTasks, RouterInv, RouterTypeOK, RunsInv, RunTypes
<1>1. leases' = leases \/ \E lease : leases' = [leases EXCEPT ![TaskOf[s]] = lease]
  BY DEF Begin, RunStep, RefuseContext, Prepare, PrepareRaises, TransportAnswers,
         TransportFails, Verify, Work, AbandonLease, CleanUp, Acquire, AcquireNone,
         FailCurrentLeader, Release, Without, routerVars, memory
<1>2. \A r \in Runs \ {s} : leases'[TaskOf[r]] = leases[TaskOf[r]]
  BY <1>t, <1>1
<1>3. \E step : pc' = [pc EXCEPT ![s] = step]
  BY DEF Begin, RunStep, RefuseContext, Prepare, PrepareRaises, TransportAnswers,
         TransportFails, Verify, Work, AbandonLease, CleanUp, Goto
<1>4. request' = request \/ \E lease : request' = [request EXCEPT ![s] = lease]
  BY DEF Begin, RunStep, RefuseContext, Prepare, PrepareRaises, TransportAnswers,
         TransportFails, Verify, Work, AbandonLease, CleanUp, history
<1>5. robbed' = robbed \/ robbed' = robbed \ {s}
  BY DEF Begin, RunStep, RefuseContext, Prepare, PrepareRaises, TransportAnswers,
         TransportFails, Verify, Work, AbandonLease, CleanUp, history
<1>6. reported' = reported \/
        /\ reported' = reported \cup {leases[TaskOf[s]]} /\ leases[TaskOf[s]] # NoLease
        /\ pc' = [pc EXCEPT ![s] = "cleanup"]
  <2>1. CASE TransportFails(s)
    BY <2>1 DEF TransportFails, FailCurrentLeader, Goto
  <2>2. CASE ~TransportFails(s)
    BY <2>2 DEF Begin, RunStep, RefuseContext, Prepare, PrepareRaises, TransportAnswers,
                Verify, Work, AbandonLease, CleanUp, history
  <2>3. QED
    BY <2>1, <2>2
<1>7. QED
  BY <1>t, <1>2, <1>3, <1>4, <1>5, <1>6

\* What a run's step does to the run itself: it is busy with a lease it has just
\* got, or with the one it was busy with.
LEMMA BusyEffect ==
  ASSUME RouterInv, RunsInv, NEW s \in Runs, Begin(s) \/ RunStep(s), pc'[s] \in Busy
  PROVE  \/ /\ pc[s] \in Busy /\ request' = request /\ leases' = leases /\ robbed' = robbed
            /\ reported' = reported /\ pc'[s] # "calling"
         \/ /\ request'[s] \in Lease /\ leases'[TaskOf[s]] = request'[s]
            /\ request'[s].account \notin failed[request'[s].tier] /\ reported' = reported
<1>t. /\ leases \in [Tasks -> Lease \cup {NoLease}] /\ pc \in [Runs -> Steps]
      /\ request \in [Runs -> Lease \cup {NoLease}] /\ TaskOf[s] \in Tasks
  BY TaskTypes DEF RouterInv, RouterTypeOK, RunsInv, RunTypes
<1>1. CASE Prepare(s)
  <2>1. PICK ok \in SaveOutcomes, lease \in Lease :
          /\ Acquire(TaskOf[s], lease, ok)
          /\ Goto(s, IF ok THEN "calling" ELSE "cleanup")
          /\ request' = [request EXCEPT ![s] = IF ok THEN lease ELSE NoLease]
    BY <1>1 DEF Prepare
  <2>2. ok
    BY <1>t, <2>1 DEF Goto, Busy
  <2>3. request'[s] = lease /\ leases'[TaskOf[s]] = lease
    BY <1>t, <2>1, <2>2 DEF Acquire
  <2>4. lease.account \notin failed[lease.tier] /\ reported' = reported
    BY <1>1, <2>1 DEF Prepare, Acquire, Selected, Eligible
  <2>5. QED
    BY <2>3, <2>4
<1>2. CASE ~Prepare(s)
  BY <1>t, <1>2 DEF Begin, RunStep, RefuseContext, PrepareRaises, TransportAnswers, TransportFails,
                    Verify, Work, AbandonLease, CleanUp, Goto, Busy, history, routerVars, memory
<1>3. QED
  BY <1>1, <1>2

\* A step of a run keeps every run's hold on its lease.
LEMMA RunHolds ==
  ASSUME RouterInv, RunsInv, HoldsInv, DistinctTasks, NEW s \in Runs, Begin(s) \/ RunStep(s)
  PROVE  HoldsInv'
<1>1. KeepsOrLoses'
  <2>1. SUFFICES ASSUME NEW r \in Runs, pc'[r] \in Busy
                 PROVE  /\ leases'[TaskOf[r]] \in {request'[r], NoLease}
                        /\ r \notin robbed' => leases'[TaskOf[r]] = request'[r]
    BY DEF KeepsOrLoses
  <2>2. CASE r = s
    BY <2>1, <2>2, BusyEffect DEF HoldsInv, KeepsOrLoses
  <2>3. CASE r # s
    BY <2>1, <2>3, OwnEffect DEF HoldsInv, KeepsOrLoses
  <2>4. QED
    BY <2>2, <2>3
<1>2. ReportedIsNotUsed'
  <2>1. SUFFICES ASSUME NEW r \in Runs, pc'[r] = "calling", r \notin robbed',
                        request'[r] \in reported'
                 PROVE  FALSE
    BY DEF ReportedIsNotUsed
  <2>2. CASE r = s
    <3>1. /\ request'[s] \in Lease /\ request'[s].account \notin failed[request'[s].tier]
          /\ reported' = reported
      BY <2>1, <2>2, BusyEffect DEF Busy
    <3>2. pc[s] = "plan"
      BY <2>1, <2>2 DEF Begin, RunStep, RefuseContext, Prepare, PrepareRaises, TransportAnswers,
                        TransportFails, Verify, Work, AbandonLease, CleanUp, Goto, RunsInv, RunTypes
    <3>3. up = TRUE
      BY <3>2, RunIsUp
    <3>4. QED
      BY <2>1, <2>2, <3>1, <3>3 DEF RunsInv, ReportedIsFailed
  <2>3. CASE r # s
    <3>1. /\ pc[r] = "calling" /\ r \notin robbed /\ request'[r] = request[r]
          /\ request[r] \notin reported /\ request[r] \in reported'
      BY <2>1, <2>3, OwnEffect DEF HoldsInv, ReportedIsNotUsed
    <3>2. request[r] = leases[TaskOf[s]] /\ leases[TaskOf[s]] # NoLease
      BY <3>1, OwnEffect
    <3>3. leases[TaskOf[r]] = request[r]
      BY <3>1 DEF HoldsInv, KeepsOrLoses, Busy
    <3>4. TaskOf[r] \in Tasks /\ TaskOf[s] \in Tasks /\ TaskOf[r] # TaskOf[s]
      BY <2>3, TaskTypes DEF DistinctTasks
    <3>5. QED
      BY <3>2, <3>3, <3>4 DEF RouterInv, Exclusive
  <2>4. QED
    BY <2>2, <2>3
<1>3. QED
  BY <1>1, <1>2 DEF HoldsInv

\* So does a step of the process, its operator or a health check.
LEMMA OthersHold ==
  ASSUME RouterInv, RunsInv, HoldsInv,
         \/ \E loaded \in {stateFile, EmptyState} : StartProcess(loaded)
         \/ StopProcess
         \/ \E report \in HealthReports : Check(report)
         \/ \E account \in Accounts, tier \in Tiers : Mark(account, tier)
         \/ Clear
         \/ Reset
  PROVE  HoldsInv'
<1>1. ASSUME NEW loaded \in {stateFile, EmptyState}, StartProcess(loaded)
      PROVE  HoldsInv'
  <2>1. \A r \in Runs : pc'[r] = "idle"
    BY <1>1 DEF StartProcess, Construct, RunsInv, DownIsIdle
  <2>2. QED
    BY <2>1 DEF HoldsInv, KeepsOrLoses, ReportedIsNotUsed, Busy
<1>2. CASE StopProcess
  BY <1>2 DEF StopProcess, HoldsInv, KeepsOrLoses, ReportedIsNotUsed, Busy
<1>3. CASE Reset
  <2>1. /\ UNCHANGED <<pc, request>> /\ leases' = NoLeases /\ reported' = {}
        /\ robbed' = robbed \cup {r \in Runs : leases[TaskOf[r]] # NoLease}
    BY <1>3 DEF Reset, ResetRuntime
  <2>2. ASSUME NEW r \in Runs, pc[r] \in Busy
        PROVE  leases'[TaskOf[r]] = NoLease /\ r \in robbed'
    <3>1. TaskOf[r] \in Tasks /\ request[r] # NoLease
      BY <2>2, TaskTypes, LeaderConstantsAssumption DEF RunsInv, BusyHasRequest
    <3>2. QED
      BY <2>1, <2>2, <3>1 DEF HoldsInv, KeepsOrLoses, NoLeases
  <2>3. QED
    BY <2>1, <2>2 DEF HoldsInv, KeepsOrLoses, ReportedIsNotUsed
<1>4. CASE \/ \E report \in HealthReports : Check(report)
           \/ \E account \in Accounts, tier \in Tiers : Mark(account, tier)
           \/ Clear
  <2>1. UNCHANGED <<pc, request, leases, robbed>> /\ reported' \subseteq reported
    BY <1>4 DEF Check, HealthCheck, Mark, MarkHealthy, Clear, ClearRuntimeFailures, memory, history
  <2>2. QED
    BY <2>1 DEF HoldsInv, KeepsOrLoses, ReportedIsNotUsed
<1>5. QED
  BY <1>1, <1>2, <1>3, <1>4

\* Every step keeps it.
LEMMA HoldsStep ==
  ASSUME DistinctTasks
  PROVE  RouterInv /\ RunsInv /\ HoldsInv /\ [Next]_vars => HoldsInv'
<1> SUFFICES ASSUME RouterInv, RunsInv, HoldsInv, [Next]_vars
             PROVE  HoldsInv'
  OBVIOUS
<1>1. CASE UNCHANGED vars
  BY <1>1 DEF vars, routerVars, memory, history, HoldsInv, KeepsOrLoses, ReportedIsNotUsed
<1>2. QED
  BY <1>1, RunHolds, OthersHold DEF Next

\* With a task id for each run, every run keeps what it was leased.
THEOREM HoldsInvariance ==
  ASSUME DistinctTasks
  PROVE  Spec => []HoldsInv
<1>1. Init => HoldsInv
  BY DEF Init, HoldsInv, KeepsOrLoses, ReportedIsNotUsed, Busy
<1>2. RouterInv /\ RunsInv /\ HoldsInv /\ [Next]_vars => HoldsInv'
  BY HoldsStep
<1>3. QED
  BY <1>1, <1>2, RouterHolds, RunsInvariance, PTL DEF Spec

\* From its request to its end a run has the lease its request was made from,
\* unless an operator reset the router.
THEOREM HoldsTheorem ==
  ASSUME DistinctTasks
  PROVE  Spec => []RunHoldsItsLease
<1>1. HoldsInv => RunHoldsItsLease
  BY DEF HoldsInv, KeepsOrLoses, RunHoldsItsLease, Busy
<1>2. QED
  BY <1>1, HoldsInvariance, PTL

\* A leader that is known to have failed is not called.
THEOREM ReportedTheorem ==
  ASSUME DistinctTasks
  PROVE  Spec => []ReportedIsNotUsed
<1>1. HoldsInv => ReportedIsNotUsed
  BY DEF HoldsInv
<1>2. QED
  BY <1>1, HoldsInvariance, PTL

\* A save writes the whole table, or nothing.
LEMMA FileFollows ==
  ASSUME [Next]_vars
  PROVE  stateFile' = stateFile \/ stateFile'.leases = leases'
<1>0. ASSUME NEW ok, Save(ok)
      PROVE  stateFile' = stateFile \/ stateFile'.leases = leases'
  BY <1>0 DEF Save
<1>1. ASSUME NEW r \in Runs, Begin(r) \/ RunStep(r)
      PROVE  stateFile' = stateFile \/ stateFile'.leases = leases'
  BY <1>0, <1>1
  DEF Begin, RunStep, RefuseContext, Prepare, PrepareRaises, TransportAnswers, TransportFails,
      Verify, Work, AbandonLease, CleanUp, Acquire, AcquireNone, FailCurrentLeader, Release,
      routerVars
<1>2. CASE ~\E r \in Runs : Begin(r) \/ RunStep(r)
  BY <1>0, <1>2
  DEF Next, StartProcess, Construct, StopProcess, Stop, Check, HealthCheck, Mark, MarkHealthy,
      Clear, ClearRuntimeFailures, Reset, ResetRuntime, vars, routerVars
<1>3. QED
  BY <1>1, <1>2

\* A run that is busy after its own step was busy before it, or its lease was saved.
LEMMA PrepareSaves ==
  ASSUME RouterInv, RunsInv, NEW s \in Runs, Begin(s) \/ RunStep(s), pc'[s] \in Busy
  PROVE  \/ stateFile'.leases = leases'
         \/ pc[s] \in Busy /\ request' = request /\ robbed' = robbed
<1>t. pc \in [Runs -> Steps]
  BY DEF RunsInv, RunTypes
<1>1. CASE Prepare(s)
  <2>1. PICK ok \in SaveOutcomes, lease \in Lease :
          /\ Acquire(TaskOf[s], lease, ok)
          /\ Goto(s, IF ok THEN "calling" ELSE "cleanup")
    BY <1>1 DEF Prepare
  <2>2. ok
    BY <1>t, <2>1 DEF Goto, Busy
  <2>3. QED
    BY <2>1, <2>2 DEF Acquire, Save
<1>2. CASE ~Prepare(s)
  BY <1>t, <1>2 DEF Begin, RunStep, RefuseContext, PrepareRaises, TransportAnswers, TransportFails,
                    Verify, Work, AbandonLease, CleanUp, Goto, Busy, history
<1>3. QED
  BY <1>1, <1>2

\* The steps that are no run's leave no run busy, or leave it as it is.
LEMMA OthersLeaveBusy ==
  ASSUME RunsInv, [Next]_vars, ~\E s \in Runs : Begin(s) \/ RunStep(s),
         NEW r \in Runs, pc'[r] \in Busy
  PROVE  pc[r] \in Busy /\ request'[r] = request[r] /\ (r \in robbed => r \in robbed')
  BY DEF Next, StartProcess, Construct, StopProcess, Check, Mark, Clear, Reset, vars, history,
         RunsInv, DownIsIdle, Busy

\* A lease that a run works under outlives the process: the state file has it.
THEOREM OnRecordTheorem ==
  ASSUME DistinctTasks
  PROVE  Spec => []LeaseIsOnRecord
<1>1. Init => LeaseIsOnRecord
  BY DEF Init, LeaseIsOnRecord
<1>2. RouterInv /\ RunsInv /\ HoldsInv' /\ LeaseIsOnRecord /\ [Next]_vars => LeaseIsOnRecord'
  <2> SUFFICES ASSUME RouterInv, RunsInv, HoldsInv', LeaseIsOnRecord, [Next]_vars,
                      NEW r \in Runs, pc'[r] \in Busy, r \notin robbed'
               PROVE  stateFile'.leases[TaskOf[r]] = request'[r]
    BY DEF LeaseIsOnRecord, Busy
  <2>1. leases'[TaskOf[r]] = request'[r]
    BY DEF HoldsInv, KeepsOrLoses
  <2>2. \/ stateFile'.leases = leases'
        \/ pc[r] \in Busy /\ request'[r] = request[r] /\ r \notin robbed
    <3>1. CASE Begin(r) \/ RunStep(r)
      BY <3>1, PrepareSaves
    <3>2. ASSUME NEW s \in Runs \ {r}, Begin(s) \/ RunStep(s)
          PROVE  pc[r] \in Busy /\ request'[r] = request[r] /\ r \notin robbed
      BY <3>2, OwnEffect
    <3>3. CASE ~\E s \in Runs : Begin(s) \/ RunStep(s)
      BY <3>3, OthersLeaveBusy
    <3>4. QED
      BY <3>1, <3>2, <3>3
  <2>3. CASE stateFile' = stateFile
    BY <2>1, <2>2, <2>3 DEF LeaseIsOnRecord, Busy
  <2>4. QED
    BY <2>1, <2>3, FileFollows
<1>3. QED
  BY <1>1, <1>2, RouterHolds, RunsInvariance, HoldsInvariance, PTL DEF Spec

\* A failure is put down to the leader that was called.
THEOREM BlameTheorem ==
  ASSUME DistinctTasks
  PROVE  Spec => BlameIsRight
<1> DEFINE Blamed == \A tier \in Tiers : \A account \in failed'[tier] \ failed[tier] :
                       \/ ~up
                       \/ \E r \in Runs : /\ pc[r] = "calling" /\ pc'[r] = "cleanup"
                                          /\ request[r] = [account |-> account, tier |-> tier]
<1>1. ASSUME RouterInv, RunsInv, HoldsInv, [Next]_vars
      PROVE  Blamed
  <2>1. SUFFICES ASSUME NEW tier \in Tiers, NEW account \in failed'[tier] \ failed[tier], up
                 PROVE  \E r \in Runs : /\ pc[r] = "calling" /\ pc'[r] = "cleanup"
                                        /\ request[r] = [account |-> account, tier |-> tier]
    OBVIOUS
  <2>t. failed \in [Tiers -> SUBSET Accounts] /\ pc \in [Runs -> Steps]
        /\ leases \in [Tasks -> Lease \cup {NoLease}]
    BY <1>1 DEF RouterInv, RouterTypeOK, RunsInv, RunTypes
  <2>2. \/ failed' = failed \/ failed' = NoneFailed
        \/ \E a \in Accounts, u \in Tiers : failed' = [failed EXCEPT ![u] = @ \ {a}]
        \/ \E r \in Runs, ok \in SaveOutcomes :
             TransportFails(r) /\ FailCurrentLeader(TaskOf[r], ok)
    <3>1. CASE \E r \in Runs : Begin(r) \/ RunStep(r)
      <4>1. PICK r \in Runs : Begin(r) \/ RunStep(r)
        BY <3>1
      <4>2. CASE TransportFails(r)
        BY <4>2 DEF TransportFails, routerVars, memory
      <4>3. CASE ~TransportFails(r)
        BY <4>1, <4>3
        DEF Begin, RunStep, RefuseContext, Prepare, PrepareRaises, TransportAnswers,
            Verify, Work, AbandonLease, CleanUp, Acquire, AcquireNone, Release, routerVars, memory
      <4>4. QED
        BY <4>2, <4>3
    <3>2. CASE ~\E r \in Runs : Begin(r) \/ RunStep(r)
      BY <1>1, <2>1, <3>2
      DEF Next, StartProcess, Construct, StopProcess, Stop, Check, HealthCheck, Mark, MarkHealthy,
          Clear, ClearRuntimeFailures, Reset, ResetRuntime, vars, routerVars, memory
    <3>3. QED
      BY <3>1, <3>2
  <2>3. PICK r \in Runs, ok \in SaveOutcomes :
          TransportFails(r) /\ FailCurrentLeader(TaskOf[r], ok)
    BY <2>1, <2>t, <2>2 DEF NoneFailed
  <2>4. /\ pc[r] = "calling" /\ pc'[r] = "cleanup"
        /\ leases[TaskOf[r]] # NoLease
        /\ failed' = [failed EXCEPT ![leases[TaskOf[r]].tier] =
                        @ \cup {leases[TaskOf[r]].account}]
    BY <2>t, <2>3 DEF TransportFails, FailCurrentLeader, Goto
  <2>5. leases[TaskOf[r]] \in Lease /\ request[r] = leases[TaskOf[r]]
    BY <1>1, <2>t, <2>4, TaskTypes DEF HoldsInv, KeepsOrLoses, Busy
  <2>6. leases[TaskOf[r]].tier = tier /\ leases[TaskOf[r]].account = account
    BY <2>1, <2>t, <2>4, <2>5 DEF Lease
  <2>7. QED
    BY <2>4, <2>5, <2>6 DEF Lease
<1>2. QED
  BY <1>1, RouterHolds, RunsInvariance, HoldsInvariance, PTL DEF Spec, BlameIsRight

=============================================================================
