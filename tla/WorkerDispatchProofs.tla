------------------------ MODULE WorkerDispatchProofs ------------------------
(***************************************************************************)
(* Proofs about WorkerRouter and WorkerDispatch, for any workers, roles,   *)
(* tasks, runs, plans, registries and health reports, with saves that may  *)
(* fail and processes that may stop at any time.                           *)
(***************************************************************************)
EXTENDS WorkerDispatch, SequenceTheorems, TLAPS

\* The inductive invariant of a router, whoever calls it.
RouterInv == RouterTypeOK /\ OneLeasePerWorker /\ StandbyAccounted

(***************************************************************************)
(* A router and any callers.                                               *)
(***************************************************************************)

\* What a registry is, read off its assumption.
LEMMA PoolTypes ==
  ASSUME NEW pools \in Registries
  PROVE  pools \in [Pools -> Seq(Workers)]
  BY RegistriesAssumption

\* No record is None.
LEMMA NoneIsNoLease ==
  /\ None \notin Lease
  /\ \A worker \in Workers \cup {None}, role \in Roles \cup {None} :
       None # [worker |-> worker, role |-> role, standby |-> TRUE]
<1> DEFINE Records == [worker : Workers \cup {None}, role : Roles \cup {None}, standby : BOOLEAN]
<1>1. None \notin Records
  BY WorkerConstantsAssumption
<1>2. None \notin Lease
  <2>1. Lease \subseteq Records
    BY DEF Lease
  <2>2. QED
    BY <1>1, <2>1
<1>3. ASSUME NEW worker \in Workers \cup {None}, NEW role \in Roles \cup {None}
      PROVE  None # [worker |-> worker, role |-> role, standby |-> TRUE]
  <2>1. [worker |-> worker, role |-> role, standby |-> TRUE] \in Records
    OBVIOUS
  <2> HIDE DEF Records
  <2>2. QED
    BY <1>1, <2>1
<1>4. QED
  BY <1>2, <1>3

\* The initial values have their types, and are in order.
LEMMA EmptyTypes ==
  /\ NoLeases \in [Tasks -> Lease \cup {None}]
  /\ EmptyState \in SavedState
  /\ NoPools \in [Pools -> Seq(Workers)]
  /\ Exclusive(NoLeases) /\ Exclusive(EmptyState.leases)
  /\ Accounted(NoLeases, None, None)
  /\ Accounted(EmptyState.leases, EmptyState.standbyFor, EmptyState.standbyWorker)
<1>1. <<>> \in Seq(Workers)
  OBVIOUS
<1>2. QED
  BY <1>1 DEF NoLeases, EmptyState, SavedState, NoPools, Exclusive, Accounted

\* The router's invariant holds initially.
LEMMA InitRouter == RouterInit => RouterInv
  BY EmptyTypes, HealthAssumption
  DEF RouterInit, RouterInv, RouterTypeOK, OneLeasePerWorker, StandbyAccounted

\* A method call keeps the invariant if what it does to memory does: the file
\* is left as it was, or becomes what the memory is.
LEMMA CallKeeps ==
  ASSUME RouterInv, NEW ok, Save(ok),
         health' \in Report \cup {Unreadable}, up' \in BOOLEAN,
         registry' \in [Pools -> Seq(Workers)], failed' \subseteq Workers,
         leases' \in [Tasks -> Lease \cup {None}],
         standbyFor' \in Roles \cup {None}, standbyWorker' \in Workers \cup {None},
         Exclusive(leases'), Accounted(leases', standbyFor', standbyWorker')
  PROVE  RouterInv'
<1>1. /\ stateFile' \in SavedState /\ Exclusive(stateFile'.leases)
      /\ Accounted(stateFile'.leases, stateFile'.standbyFor, stateFile'.standbyWorker)
  <2>1. CASE stateFile' = stateFile
    BY <2>1 DEF RouterInv, RouterTypeOK, OneLeasePerWorker, StandbyAccounted
  <2>2. CASE stateFile' = [failed |-> failed', leases |-> leases',
                           standbyFor |-> standbyFor', standbyWorker |-> standbyWorker']
    <3>1. /\ stateFile'.leases = leases' /\ stateFile'.standbyFor = standbyFor'
          /\ stateFile'.standbyWorker = standbyWorker'
      BY <2>2
    <3>2. QED
      BY <2>2, <3>1 DEF SavedState
  <2>3. QED
    BY <2>1, <2>2 DEF Save
<1>2. RouterTypeOK'
  BY <1>1 DEF RouterTypeOK
<1>3. OneLeasePerWorker'
  BY <1>1 DEF OneLeasePerWorker, Exclusive
<1>4. StandbyAccounted'
  BY <1>1 DEF StandbyAccounted, Accounted
<1>5. QED
  BY <1>2, <1>3, <1>4 DEF RouterInv

\* A method call that leaves the leases alone.
LEMMA QuietCallKeeps ==
  ASSUME RouterInv, NEW ok, Save(ok), failed' \subseteq Workers,
         UNCHANGED <<health, up, registry, leases, standbyFor, standbyWorker>>
  PROVE  RouterInv'
<1>1. Exclusive(leases') /\ Accounted(leases', standbyFor', standbyWorker')
  BY DEF RouterInv, OneLeasePerWorker, StandbyAccounted
<1>2. QED
  BY <1>1, CallKeeps DEF RouterInv, RouterTypeOK

\* A change of a lease that is not the standby's, to one that is not either.
LEMMA AccountedExcept ==
  ASSUME NEW table \in [Tasks -> Lease \cup {None}],
         NEW role \in Roles \cup {None}, NEW worker \in Workers \cup {None},
         Accounted(table, role, worker),
         NEW task \in Tasks, NEW lease \in Lease \cup {None},
         table[task] # None => ~table[task].standby,
         lease # None => ~lease.standby
  PROVE  Accounted([table EXCEPT ![task] = lease], role, worker)
<1> DEFINE new == [table EXCEPT ![task] = lease]
<1>1. new[task] = lease /\ \A t \in Tasks \ {task} : new[t] = table[t]
  OBVIOUS
<1>2. CASE /\ role = None /\ worker = None
           /\ \A t \in Tasks : table[t] # None => ~table[t].standby
  BY <1>1, <1>2 DEF Accounted
<1>3. ASSUME NEW s \in Tasks,
             table[s] = [worker |-> worker, role |-> role, standby |-> TRUE],
             \A t \in Tasks \ {s} : table[t] # None => ~table[t].standby
      PROVE  Accounted(new, role, worker)
  <2>1. table[s] # None /\ table[s].standby
    BY <1>3, NoneIsNoLease
  <2>2. s # task
    BY <2>1
  <2>3. /\ new[s] = [worker |-> worker, role |-> role, standby |-> TRUE]
        /\ \A t \in Tasks \ {s} : new[t] # None => ~new[t].standby
    BY <1>1, <1>3, <2>2
  <2>4. QED
    BY <2>3 DEF Accounted
<1>4. QED
  BY <1>2, <1>3 DEF Accounted

\* Taking a lease out of the table: if it is the standby's, the fields named it.
LEMMA WithoutKeeps ==
  ASSUME RouterInv, NEW task \in Tasks, leases[task] # None, Without(task)
  PROVE  /\ leases' = [leases EXCEPT ![task] = None]
         /\ leases' \in [Tasks -> Lease \cup {None}]
         /\ standbyFor' \in Roles \cup {None} /\ standbyWorker' \in Workers \cup {None}
         /\ Exclusive(leases') /\ Accounted(leases', standbyFor', standbyWorker')
<1>1. /\ leases \in [Tasks -> Lease \cup {None}] /\ leases[task] \in Lease
      /\ standbyFor \in Roles \cup {None} /\ standbyWorker \in Workers \cup {None}
      /\ Exclusive(leases) /\ Accounted(leases, standbyFor, standbyWorker)
  BY DEF RouterInv, RouterTypeOK, OneLeasePerWorker, StandbyAccounted
<1>2. leases' = [leases EXCEPT ![task] = None]
  BY DEF Without
<1>3. leases' \in [Tasks -> Lease \cup {None}]
  BY <1>1, <1>2
<1>4. Exclusive(leases')
  BY <1>1, <1>2 DEF Exclusive
<1>5. CASE leases[task].standby
  <2>1. /\ leases[task] = [worker |-> standbyWorker, role |-> standbyFor, standby |-> TRUE]
        /\ \A t \in Tasks \ {task} : leases[t] # None => ~leases[t].standby
    BY <1>1, <1>5 DEF Accounted
  <2>2. standbyFor' = None /\ standbyWorker' = None
    BY <1>5, <2>1 DEF Without
  <2>3. QED
    BY <1>1, <1>2, <1>3, <1>4, <2>1, <2>2 DEF Accounted
<1>6. CASE ~leases[task].standby
  <2>1. standbyFor' = standbyFor /\ standbyWorker' = standbyWorker
    BY <1>6 DEF Without
  <2>2. Accounted(leases', standbyFor, standbyWorker)
    BY <1>1, <1>2, <1>6, AccountedExcept
  <2>3. QED
    BY <1>1, <1>2, <1>3, <1>4, <2>1, <2>2
<1>7. QED
  BY <1>5, <1>6

\* The worker of a new lease has no other lease, and there is no other standby.
LEMMA AcquireKeeps ==
  ASSUME RouterInv, NEW role, NEW task \in Tasks, NEW lease \in Lease, NEW ok,
         Acquire(role, task, lease, ok)
  PROVE  RouterInv'
<1>1. /\ leases \in [Tasks -> Lease \cup {None}]
      /\ standbyFor \in Roles \cup {None} /\ standbyWorker \in Workers \cup {None}
      /\ Exclusive(leases) /\ Accounted(leases, standbyFor, standbyWorker)
  BY DEF RouterInv, RouterTypeOK, OneLeasePerWorker, StandbyAccounted
<1>2. /\ leases' = [leases EXCEPT ![task] = lease] /\ leases[task] = None
      /\ UNCHANGED <<health, up, registry, failed>> /\ Save(ok)
      /\ lease # None /\ lease.worker \in Workers /\ lease.role \in Roles
      /\ lease.standby \in BOOLEAN
  BY NoneIsNoLease DEF Acquire, Lease
<1>3. ~Leased(lease.worker)
  BY DEF Acquire, Selected, FirstAvailable, Available
<1>4. Exclusive(leases')
  BY <1>1, <1>2, <1>3 DEF Exclusive, Leased
<1>5. leases' \in [Tasks -> Lease \cup {None}]
  BY <1>1, <1>2
<1>6. CASE lease.standby
  <2>1. standbyFor' = lease.role /\ standbyWorker' = lease.worker
    BY <1>6 DEF Acquire
  <2>2. standbyFor = None /\ standbyWorker = None
    BY <1>6 DEF Acquire, Selected, StandbyIsFree
  <2>3. \A t \in Tasks : leases[t] # None => ~leases[t].standby
    BY <1>1, <2>2, WorkerConstantsAssumption DEF Accounted, Lease
  <2>4. lease = [worker |-> lease.worker, role |-> lease.role, standby |-> TRUE]
    BY <1>6 DEF Lease
  <2>5. Accounted(leases', lease.role, lease.worker)
    BY <1>1, <1>2, <2>3, <2>4 DEF Accounted
  <2>6. QED
    BY <1>2, <1>4, <1>5, <2>1, <2>5, CallKeeps DEF RouterInv, RouterTypeOK
<1>7. CASE ~lease.standby
  <2>1. standbyFor' = standbyFor /\ standbyWorker' = standbyWorker
    BY <1>7 DEF Acquire
  <2>2. Accounted(leases', standbyFor, standbyWorker)
    BY <1>1, <1>2, <1>7, AccountedExcept
  <2>3. QED
    BY <1>1, <1>2, <1>4, <1>5, <2>1, <2>2, CallKeeps DEF RouterInv, RouterTypeOK
<1>8. QED
  BY <1>6, <1>7

\* Loading keeps one lease per worker; the standby fields survive exactly if
\* the standby's lease does.
LEMMA ConstructKeeps ==
  ASSUME RouterInv, NEW loaded \in {stateFile, EmptyState}, Construct(loaded)
  PROVE  RouterInv'
<1>1. /\ loaded \in SavedState /\ Exclusive(loaded.leases)
      /\ Accounted(loaded.leases, loaded.standbyFor, loaded.standbyWorker)
  BY EmptyTypes DEF RouterInv, RouterTypeOK, OneLeasePerWorker, StandbyAccounted
<1>2. PICK pools \in Registries :
        /\ registry' = pools
        /\ failed' = loaded.failed \cap Configured(pools)
        /\ \E kept \in SUBSET Tasks :
             /\ Kept(kept, loaded.leases, pools)
             /\ leases' = [task \in Tasks |->
                             IF task \in kept THEN loaded.leases[task] ELSE None]
  BY DEF Construct
<1>3. PICK kept \in SUBSET Tasks :
        leases' = [task \in Tasks |-> IF task \in kept THEN loaded.leases[task] ELSE None]
  BY <1>2
<1>4. /\ Save(TRUE) /\ UNCHANGED health /\ up' = TRUE
      /\ standbyFor' = IF StandbyMatches(loaded, leases') THEN loaded.standbyFor ELSE None
      /\ standbyWorker' = IF StandbyMatches(loaded, leases') THEN loaded.standbyWorker ELSE None
  BY DEF Construct
<1>5. /\ registry' \in [Pools -> Seq(Workers)] /\ failed' \subseteq Workers
      /\ leases' \in [Tasks -> Lease \cup {None}]
      /\ standbyFor' \in Roles \cup {None} /\ standbyWorker' \in Workers \cup {None}
  BY <1>1, <1>2, <1>3, <1>4, PoolTypes DEF SavedState
<1>6. \A t \in Tasks : leases'[t] # None => leases'[t] = loaded.leases[t]
  BY <1>3
<1>7. Exclusive(leases')
  BY <1>1, <1>6 DEF Exclusive
<1>8. Accounted(leases', standbyFor', standbyWorker')
  <2>1. CASE StandbyMatches(loaded, leases')
    <3>1. standbyFor' = loaded.standbyFor /\ standbyWorker' = loaded.standbyWorker
      BY <1>4, <2>1
    <3>2. PICK s \in Tasks :
            leases'[s] = [worker |-> loaded.standbyWorker, role |-> loaded.standbyFor,
                          standby |-> TRUE]
      BY <2>1 DEF StandbyMatches
    <3>3. leases'[s] \in Lease \cup {None}
      BY <1>5
    <3>4. leases'[s] # None
      BY <1>1, <3>2, NoneIsNoLease DEF SavedState
    <3>5. loaded.leases[s] # None /\ loaded.leases[s].standby
      BY <1>6, <3>2, <3>4
    <3>6. \A t \in Tasks \ {s} : loaded.leases[t] # None => ~loaded.leases[t].standby
      BY <1>1, <3>5 DEF Accounted
    <3>7. QED
      BY <1>6, <3>1, <3>2, <3>6 DEF Accounted
  <2>2. CASE ~StandbyMatches(loaded, leases')
    <3>1. standbyFor' = None /\ standbyWorker' = None
      BY <1>4, <2>2
    <3>2. ASSUME NEW t \in Tasks, leases'[t] # None, leases'[t].standby
          PROVE  FALSE
      <4>1. leases'[t] = loaded.leases[t]
        BY <1>6, <3>2
      <4>2. leases'[t] = [worker |-> loaded.standbyWorker, role |-> loaded.standbyFor,
                          standby |-> TRUE]
        BY <1>1, <3>2, <4>1 DEF Accounted
      <4>3. QED
        BY <2>2, <4>2 DEF StandbyMatches
    <3>3. QED
      BY <3>1, <3>2 DEF Accounted
  <2>3. QED
    BY <2>1, <2>2
<1>9. QED
  BY <1>4, <1>5, <1>7, <1>8, CallKeeps DEF RouterInv, RouterTypeOK

\* Every step of a router keeps its invariant.
LEMMA RouterStep == RouterInv /\ [RouterNext]_routerVars => RouterInv'
<1> SUFFICES ASSUME RouterInv, [RouterNext]_routerVars
             PROVE  RouterInv'
  OBVIOUS
<1>t. /\ failed \subseteq Workers /\ leases \in [Tasks -> Lease \cup {None}]
      /\ health \in Report \cup {Unreadable} /\ up \in BOOLEAN /\ stateFile \in SavedState
      /\ registry \in [Pools -> Seq(Workers)]
  BY DEF RouterInv, RouterTypeOK
<1>1. ASSUME NEW loaded \in {stateFile, EmptyState}, Construct(loaded)
      PROVE  RouterInv'
  BY <1>1, ConstructKeeps
<1>2. CASE Stop
  <2>1. /\ leases' = NoLeases /\ standbyFor' = None /\ standbyWorker' = None /\ failed' = {}
        /\ up' = FALSE /\ registry' = NoPools /\ UNCHANGED <<health, stateFile>>
    BY <1>2 DEF Stop
  <2>2. RouterTypeOK'
    BY <1>t, <2>1, EmptyTypes DEF RouterTypeOK
  <2>3. OneLeasePerWorker'
    BY <2>1, EmptyTypes DEF RouterInv, OneLeasePerWorker, Exclusive
  <2>4. StandbyAccounted'
    BY <2>1, EmptyTypes DEF RouterInv, StandbyAccounted, Accounted
  <2>5. QED
    BY <2>2, <2>3, <2>4 DEF RouterInv
<1>3. ASSUME NEW report \in HealthReports, HealthCheck(report)
      PROVE  RouterInv'
  <2>1. health' = report /\ UNCHANGED <<stateFile, up, memory>>
    BY <1>3 DEF HealthCheck
  <2>2. QED
    BY <2>1, HealthAssumption
    DEF RouterInv, RouterTypeOK, OneLeasePerWorker, Exclusive, StandbyAccounted, Accounted, memory
<1>4. ASSUME NEW ok \in SaveOutcomes, NEW task \in Tasks, NEW role \in Roles, NEW lease \in Lease,
             Acquire(role, task, lease, ok)
      PROVE  RouterInv'
  BY <1>4, AcquireKeeps
<1>5. ASSUME NEW ok \in SaveOutcomes, NEW task \in Tasks, Release(task, ok)
      PROVE  RouterInv'
  BY <1>t, <1>5, WithoutKeeps, CallKeeps DEF Release
<1>6. ASSUME NEW ok \in SaveOutcomes, NEW task \in Tasks, FailCurrentWorker(task, ok)
      PROVE  RouterInv'
  <2>1. failed' \subseteq Workers
    BY <1>t, <1>6 DEF FailCurrentWorker, Lease
  <2>2. QED
    BY <1>t, <1>6, <2>1, WithoutKeeps, CallKeeps DEF FailCurrentWorker
<1>7. ASSUME NEW ok \in SaveOutcomes, NEW worker \in Workers,
             MarkFailed(worker, ok) \/ MarkHealthy(worker, ok)
      PROVE  RouterInv'
  BY <1>t, <1>7, QuietCallKeeps DEF MarkFailed, MarkHealthy
<1>8. ASSUME NEW ok \in SaveOutcomes, RefreshHealth(ok)
      PROVE  RouterInv'
  BY <1>t, <1>8, QuietCallKeeps DEF RefreshHealth, memory
<1>9. ASSUME NEW ok \in SaveOutcomes, ResetRuntimeState(ok)
      PROVE  RouterInv'
  <2>1. /\ failed' = {} /\ leases' = NoLeases /\ standbyFor' = None /\ standbyWorker' = None
        /\ UNCHANGED <<health, up, registry>> /\ Save(ok)
    BY <1>9 DEF ResetRuntimeState
  <2>2. QED
    BY <1>t, <2>1, EmptyTypes, CallKeeps
<1>10. CASE UNCHANGED routerVars
  BY <1>10
  DEF routerVars, memory, RouterInv, RouterTypeOK, OneLeasePerWorker, Exclusive,
      StandbyAccounted, Accounted
<1>11. QED
  BY <1>1, <1>2, <1>3, <1>4, <1>5, <1>6, <1>7, <1>8, <1>9, <1>10 DEF RouterNext

\* The invariant of a router holds for any callers.
THEOREM RouterInvariance == RouterSpec => []RouterInv
<1>1. QED
  BY InitRouter, RouterStep, PTL DEF RouterSpec

(***************************************************************************)
(* The runs of the coordinator are such callers.                           *)
(***************************************************************************)

\* Tasks and roles of a plan.
LEMMA PlanTypes ==
  ASSUME NEW p \in Plans
  PROVE  /\ p \in Seq([task : Tasks, role : Pools]) /\ p # <<>> /\ Len(p) \in Nat \ {0}
         /\ \A i \in 1..Len(p) : p[i].task \in Tasks
         /\ \A i, j \in 1..Len(p) : p[i].task = p[j].task => i = j
<1> DEFINE Item == [task : Tasks, role : Pools]
<1>1. /\ p \in Seq(Item) /\ Len(p) > 0
      /\ \A i, j \in DOMAIN p : p[i].task = p[j].task => i = j
  BY PlansAssumption
<1>2. DOMAIN p = 1..Len(p) /\ Len(p) \in Nat
  BY <1>1
<1>3. p # <<>>
  <2>1. Len(<<>>) = 0
    OBVIOUS
  <2>2. QED
    BY <1>1, <1>2, <2>1
<1>4. ASSUME NEW i \in 1..Len(p)
      PROVE  p[i].task \in Tasks
  <2>1. p[i] \in Item
    <3> HIDE DEF Item
    <3>1. p \in Seq(Item)
      BY <1>1
    <3>2. QED
      BY <3>1
  <2>2. QED
    BY <2>1
<1>5. \A i, j \in 1..Len(p) : p[i].task = p[j].task => i = j
  BY <1>1, <1>2
<1>6. Len(p) \in Nat \ {0}
  BY <1>1, <1>2
<1>7. QED
  BY <1>1, <1>3, <1>4, <1>5, <1>6

\* What a run, at a step and at the task k of a plan p, with the assignments done
\* so far, still has to release, as pairs of a task and a lease.
HeldAt(step, p, done, k) ==
  {<<p[i].task, done[i]>> : i \in {j \in 1..Len(done) : step = "release" => j >= k}}
Held == [r \in Runs |-> HeldAt(pc[r], plan[r], assigned[r], index[r])]

\* Without assignments a run holds nothing.
LEMMA HeldNothing ==
  ASSUME NEW step, NEW p, NEW k
  PROVE  HeldAt(step, p, <<>>, k) = {}
<1>1. Len(<<>>) = 0
  OBVIOUS
<1>2. {j \in 1..0 : step = "release" => j >= k} = {}
  OBVIOUS
<1>3. QED
  BY <1>1, <1>2 DEF HeldAt

\* Before the release, and at its start, a run holds all its assignments.
LEMMA HeldAll ==
  ASSUME NEW step, NEW p, NEW done \in Seq(Lease), NEW k, step # "release" \/ k = 1
  PROVE  HeldAt(step, p, done, k) = {<<p[i].task, done[i]>> : i \in 1..Len(done)}
<1>1. Len(done) \in Nat
  OBVIOUS
<1>2. {j \in 1..Len(done) : step = "release" => j >= k} = 1..Len(done)
  BY <1>1
<1>3. QED
  BY <1>2 DEF HeldAt

\* How the assignments and the position of a run go with its step.
Fits(step, p, done, k) ==
  /\ step = "idle" <=> p = <<>>
  /\ step = "idle" => done = <<>> /\ k = 1
  /\ step = "assign" => Len(done) = k - 1 /\ k <= Len(p)
  /\ step = "undo" => Len(done) <= Len(p)
  /\ step \in Working => Len(done) = Len(p) /\ k <= Len(p)
  /\ step = "release" => Len(done) = Len(p)
Shape == \A r \in Runs : Fits(pc[r], plan[r], assigned[r], index[r])

RunTypes ==
  /\ pc \in [Runs -> Steps]
  /\ plan \in [Runs -> Plans \cup {<<>>}]
  /\ assigned \in [Runs -> Seq(Lease)]
  /\ index \in [Runs -> Nat \ {0}]
  /\ disturbed \subseteq Runs
  /\ orphaned \subseteq Tasks

DownIsIdle == ~up => \A r \in Runs : pc[r] = "idle"

\* An operator's step disturbs all runs at once, and a run that begins meanwhile.
Disturbance == disturbed = {} \/ disturbed = Active

\* The lease table against what the runs hold.  Undisturbed, they hold different
\* tasks, under the leases of the table; and a lease that nobody holds is orphaned.
Sound(held, table, lost, upset) ==
  /\ upset = {} =>
       /\ \A r \in Runs : \A h \in held[r] : table[h[1]] = h[2]
       /\ \A q, r \in Runs : q # r => \A g \in held[q], h \in held[r] : g[1] # h[1]
  /\ \A t \in Tasks \ lost : table[t] # None => \E r \in Runs : <<t, table[t]>> \in held[r]

RunsInv ==
  /\ RunTypes /\ Shape /\ DownIsIdle /\ Disturbance
  /\ Sound(Held, leases, orphaned, disturbed)

\* A run that is under way has a plan, and its position is one of the plan's tasks.
LEMMA AtTask ==
  ASSUME RunTypes, Shape, NEW r \in Runs
  PROVE  /\ pc[r] # "idle" => plan[r] \in Plans
         /\ pc[r] \in {"assign"} \cup Working =>
              index[r] \in 1..Len(plan[r]) /\ NextTask(r) \in Tasks
         /\ Len(assigned[r]) \in Nat /\ assigned[r] \in Seq(Lease)
         /\ pc[r] # "idle" => /\ Len(assigned[r]) <= Len(plan[r])
                              /\ \A i \in 1..Len(assigned[r]) : plan[r][i].task \in Tasks
<1>1. /\ pc[r] \in Steps /\ plan[r] \in Plans \cup {<<>>} /\ assigned[r] \in Seq(Lease)
      /\ index[r] \in Nat \ {0} /\ Fits(pc[r], plan[r], assigned[r], index[r])
  BY DEF RunTypes, Shape
<1>2. Len(assigned[r]) \in Nat
  BY <1>1
<1>3. pc[r] # "idle" => plan[r] \in Plans
  BY <1>1 DEF Fits
<1>4. pc[r] # "idle" => /\ Len(plan[r]) \in Nat \ {0}
                        /\ \A i \in 1..Len(plan[r]) : plan[r][i].task \in Tasks
  BY <1>3, PlanTypes
<1>5. pc[r] # "idle" => Len(assigned[r]) <= Len(plan[r])
  BY <1>1, <1>2, <1>4 DEF Fits, Steps, Working
<1>6. pc[r] \in {"assign"} \cup Working => index[r] \in 1..Len(plan[r])
  BY <1>1, <1>4 DEF Fits, Working
<1>7. QED
  BY <1>1, <1>2, <1>3, <1>4, <1>5, <1>6 DEF NextTask, Working

\* The router calls of a run.
LEMMA RunCalls ==
  ASSUME RunTypes, Shape, NEW r \in Runs, RunStep(r)
  PROVE  [RouterNext]_routerVars
<1>1. CASE Assign(r)
  <2>1. NextTask(r) \in Tasks
    BY <1>1, AtTask DEF Assign
  <2>2. PICK ok \in SaveOutcomes, lease \in Lease :
          Acquire(plan[r][index[r]].role, NextTask(r), lease, ok)
    BY <1>1 DEF Assign
  <2>3. plan[r][index[r]].role \in Roles
    BY <2>2 DEF Acquire
  <2>4. QED
    BY <2>1, <2>2, <2>3 DEF RouterNext
<1>2. CASE Undo(r)
  <2>1. plan[r][Len(assigned[r])].task \in Tasks
    BY <1>2, AtTask DEF Undo
  <2>2. QED
    BY <1>2, <2>1 DEF Undo, RouterNext
<1>3. CASE ReleaseNext(r) \/ ReleaseRaises(r)
  <2>1. pc[r] = "release" /\ index[r] <= Len(assigned[r]) /\ index[r] \in Nat \ {0}
    BY <1>3 DEF ReleaseNext, ReleaseRaises, RunTypes
  <2>2. index[r] \in 1..Len(assigned[r])
    BY <2>1, AtTask
  <2>3. plan[r][index[r]].task \in Tasks
    BY <2>1, <2>2, AtTask
  <2>4. QED
    BY <1>3, <2>3, WorkerConstantsAssumption DEF ReleaseNext, ReleaseRaises, RouterNext
<1>4. CASE \/ AssignRaises(r) \/ AssignFails(r) \/ Prepare(r) \/ Launch(r) \/ Finish(r)
           \/ Return(r)
  BY <1>4 DEF AssignRaises, AssignFails, Prepare, Launch, Finish, Return
<1>5. QED
  BY <1>1, <1>2, <1>3, <1>4 DEF RunStep

\* Every step of the runs, the process and its operator is a call of one method
\* of the router, or leaves the router alone.
LEMMA StepIsCall == RunTypes /\ Shape /\ [Next]_vars => [RouterNext]_routerVars
<1> SUFFICES ASSUME RunTypes, Shape, [Next]_vars
             PROVE  [RouterNext]_routerVars
  OBVIOUS
<1>1. ASSUME NEW r \in Runs, RunStep(r)
      PROVE  [RouterNext]_routerVars
  BY <1>1, RunCalls
<1>2. ASSUME NEW r \in Runs, NEW p \in Plans, Begin(r, p)
      PROVE  [RouterNext]_routerVars
  BY <1>2 DEF Begin
<1>3. ASSUME NEW loaded \in {stateFile, EmptyState}, StartProcess(loaded)
      PROVE  RouterNext
  BY <1>3 DEF StartProcess, RouterNext
<1>4. CASE StopProcess
  BY <1>4 DEF StopProcess, RouterNext
<1>5. ASSUME NEW report \in HealthReports, Check(report)
      PROVE  RouterNext
  BY <1>5 DEF Check, RouterNext
<1>6. CASE OperatorStep
  BY <1>6 DEF OperatorStep, Mark, Refresh, Fail, Reset, RouterNext
<1>7. CASE UNCHANGED vars
  BY <1>7 DEF vars
<1>8. QED
  BY <1>1, <1>2, <1>3, <1>4, <1>5, <1>6, <1>7 DEF Next

(***************************************************************************)
(* What the runs hold, as values.                                          *)
(***************************************************************************)

\* A new lease for a task that had none, held by the run that acquired it.
LEMMA SoundGive ==
  ASSUME NEW held \in [Runs -> SUBSET (Tasks \X Lease)],
         NEW table \in [Tasks -> Lease \cup {None}], NEW lost, NEW upset,
         Sound(held, table, lost, upset),
         NEW r \in Runs, NEW task \in Tasks, NEW lease \in Lease, table[task] = None
  PROVE  Sound([held EXCEPT ![r] = @ \cup {<<task, lease>>}],
               [table EXCEPT ![task] = lease], lost \ {task}, upset)
<1> DEFINE new == [held EXCEPT ![r] = @ \cup {<<task, lease>>}]
           given == [table EXCEPT ![task] = lease]
<1>1. /\ new[r] = held[r] \cup {<<task, lease>>} /\ \A q \in Runs \ {r} : new[q] = held[q]
      /\ given[task] = lease /\ \A t \in Tasks \ {task} : given[t] = table[t]
  OBVIOUS
<1>2. ASSUME upset = {}
      PROVE  /\ \A q \in Runs : \A h \in new[q] : given[h[1]] = h[2]
             /\ \A p, q \in Runs : p # q => \A g \in new[p], h \in new[q] : g[1] # h[1]
  <2>1. \A q \in Runs : \A h \in held[q] : /\ h \in Tasks \X Lease /\ table[h[1]] = h[2]
                                           /\ h[1] # task
    BY <1>2, NoneIsNoLease DEF Sound
  <2>2. \A p, q \in Runs : p # q => \A g \in held[p], h \in held[q] : g[1] # h[1]
    BY <1>2 DEF Sound
  <2>3. ASSUME NEW q \in Runs, NEW h \in new[q]
        PROVE  given[h[1]] = h[2]
    BY <1>1, <2>1, <2>3
  <2>4. ASSUME NEW p \in Runs, NEW q \in Runs, p # q, NEW g \in new[p], NEW h \in new[q]
        PROVE  g[1] # h[1]
    BY <1>1, <2>1, <2>2, <2>4
  <2>5. QED
    BY <2>3, <2>4
<1>3. ASSUME NEW t \in Tasks \ (lost \ {task}), given[t] # None
      PROVE  \E q \in Runs : <<t, given[t]>> \in new[q]
  BY <1>1, <1>3 DEF Sound
<1>4. QED
  BY <1>2, <1>3 DEF Sound

\* A new lease that no run holds.
LEMMA SoundLose ==
  ASSUME NEW held \in [Runs -> SUBSET (Tasks \X Lease)],
         NEW table \in [Tasks -> Lease \cup {None}], NEW lost, NEW upset,
         Sound(held, table, lost, upset),
         NEW task \in Tasks, NEW lease \in Lease, table[task] = None
  PROVE  Sound(held, [table EXCEPT ![task] = lease], lost \cup {task}, upset)
<1> DEFINE given == [table EXCEPT ![task] = lease]
<1>1. given[task] = lease /\ \A t \in Tasks \ {task} : given[t] = table[t]
  OBVIOUS
<1>2. ASSUME upset = {}
      PROVE  /\ \A q \in Runs : \A h \in held[q] : given[h[1]] = h[2]
             /\ \A p, q \in Runs : p # q => \A g \in held[p], h \in held[q] : g[1] # h[1]
  <2>1. \A q \in Runs : \A h \in held[q] : /\ h \in Tasks \X Lease /\ table[h[1]] = h[2]
                                           /\ h[1] # task
    BY <1>2, NoneIsNoLease DEF Sound
  <2>2. QED
    BY <1>1, <1>2, <2>1 DEF Sound
<1>3. ASSUME NEW t \in Tasks \ (lost \cup {task}), given[t] # None
      PROVE  \E q \in Runs : <<t, given[t]>> \in held[q]
  BY <1>1, <1>3 DEF Sound
<1>4. QED
  BY <1>2, <1>3 DEF Sound

\* A run gives back one of the tasks it holds, whether the table still has it or not.
LEMMA SoundTake ==
  ASSUME NEW held \in [Runs -> SUBSET (Tasks \X Lease)],
         NEW table \in [Tasks -> Lease \cup {None}], NEW lost, NEW upset,
         Sound(held, table, lost, upset),
         NEW r \in Runs, NEW rest \in SUBSET held[r], NEW task \in Tasks,
         \E h \in held[r] : h[1] = task,
         \A h \in held[r] : h \in rest <=> h[1] # task
  PROVE  Sound([held EXCEPT ![r] = rest], [table EXCEPT ![task] = None], lost \ {task}, upset)
<1> DEFINE new   == [held EXCEPT ![r] = rest]
           after == [table EXCEPT ![task] = None]
<1>1. /\ new[r] = rest /\ \A q \in Runs \ {r} : new[q] = held[q]
      /\ after[task] = None /\ \A t \in Tasks \ {task} : after[t] = table[t]
  OBVIOUS
<1>2. \A q \in Runs : \A h \in held[q] : h \in Tasks \X Lease
  OBVIOUS
<1>3. ASSUME upset = {}
      PROVE  /\ \A q \in Runs : \A h \in new[q] : after[h[1]] = h[2]
             /\ \A p, q \in Runs : p # q => \A g \in new[p], h \in new[q] : g[1] # h[1]
  <2>1. /\ \A q \in Runs : \A h \in held[q] : table[h[1]] = h[2]
        /\ \A p, q \in Runs : p # q => \A g \in held[p], h \in held[q] : g[1] # h[1]
    BY <1>3 DEF Sound
  <2>2. ASSUME NEW q \in Runs, NEW h \in new[q]
        PROVE  h[1] # task
    <3>1. CASE q = r
      BY <1>1, <2>2, <3>1
    <3>2. CASE q # r
      BY <1>1, <2>1, <2>2, <3>2
    <3>3. QED
      BY <3>1, <3>2
  <2>3. \A q \in Runs : new[q] \subseteq held[q]
    BY <1>1
  <2>4. QED
    BY <1>1, <1>2, <2>1, <2>2, <2>3
<1>4. ASSUME NEW t \in Tasks \ (lost \ {task}), after[t] # None
      PROVE  \E q \in Runs : <<t, after[t]>> \in new[q]
  <2>1. t # task /\ t \notin lost /\ after[t] = table[t] /\ table[t] # None
    BY <1>1, <1>4
  <2>2. PICK q \in Runs : <<t, table[t]>> \in held[q]
    BY <2>1 DEF Sound
  <2>3. q = r => <<t, table[t]>> \in rest
    BY <2>1, <2>2
  <2>4. QED
    BY <1>1, <2>1, <2>2, <2>3
<1>5. QED
  BY <1>3, <1>4 DEF Sound

\* A run gives back all it holds.
LEMMA SoundTakeAll ==
  ASSUME NEW held \in [Runs -> SUBSET (Tasks \X Lease)],
         NEW table \in [Tasks -> Lease \cup {None}], NEW lost, NEW upset,
         Sound(held, table, lost, upset),
         NEW r \in Runs, NEW after, NEW lost2, NEW upset2,
         \/ after = table
         \/ \E h \in held[r] : after = [table EXCEPT ![h[1]] = None],
         \A t \in Tasks \ lost2 :
           /\ after[t] # None => t \notin lost
           /\ \A h \in held[r] : h[1] = t => after[t] = None,
         upset2 = {} => upset = {} \/ \A q \in Runs \ {r} : held[q] = {}
  PROVE  Sound([held EXCEPT ![r] = {}], after, lost2, upset2)
<1> DEFINE new == [held EXCEPT ![r] = {}]
<1>1. new[r] = {} /\ \A q \in Runs \ {r} : new[q] = held[q]
  OBVIOUS
<1>2. \A q \in Runs : \A h \in held[q] : h \in Tasks \X Lease
  OBVIOUS
<1>3. \A t \in Tasks : after[t] # None => after[t] = table[t]
  BY <1>2
<1>4. ASSUME upset2 = {}
      PROVE  /\ \A q \in Runs : \A h \in new[q] : after[h[1]] = h[2]
             /\ \A p, q \in Runs : p # q => \A g \in new[p], h \in new[q] : g[1] # h[1]
  <2>1. CASE upset # {}
    BY <1>1, <1>4, <2>1
  <2>2. CASE upset = {}
    <3>1. /\ \A q \in Runs : \A h \in held[q] : table[h[1]] = h[2]
          /\ \A p, q \in Runs : p # q => \A g \in held[p], h \in held[q] : g[1] # h[1]
      BY <2>2 DEF Sound
    <3>2. ASSUME NEW q \in Runs \ {r}, NEW h \in held[q]
          PROVE  after[h[1]] = table[h[1]]
      BY <1>2, <3>1
    <3>3. QED
      BY <1>1, <3>1, <3>2
  <2>3. QED
    BY <2>1, <2>2
<1>5. ASSUME NEW t \in Tasks \ lost2, after[t] # None
      PROVE  \E q \in Runs : <<t, after[t]>> \in new[q]
  <2>1. t \notin lost /\ after[t] = table[t] /\ table[t] # None
    BY <1>3, <1>5
  <2>2. PICK q \in Runs : <<t, table[t]>> \in held[q]
    BY <2>1 DEF Sound
  <2>3. QED
    BY <1>1, <1>5, <2>1, <2>2
<1>6. QED
  BY <1>4, <1>5 DEF Sound

(***************************************************************************)
(* The steps of a run.                                                     *)
(***************************************************************************)

\* What the runs hold are tasks and leases.
LEMMA HeldTypes ==
  ASSUME RunTypes, Shape
  PROVE  Held \in [Runs -> SUBSET (Tasks \X Lease)]
<1>1. ASSUME NEW r \in Runs, NEW i \in 1..Len(assigned[r])
      PROVE  plan[r][i].task \in Tasks /\ assigned[r][i] \in Lease
  <2>1. /\ assigned[r] \in Seq(Lease)
        /\ pc[r] # "idle" => \A j \in 1..Len(assigned[r]) : plan[r][j].task \in Tasks
    BY AtTask
  <2>2. pc[r] # "idle"
    <3>1. SUFFICES ASSUME pc[r] = "idle"
                   PROVE  FALSE
      OBVIOUS
    <3>2. assigned[r] = <<>>
      BY <3>1 DEF Shape, Fits
    <3>3. Len(<<>>) = 0
      OBVIOUS
    <3>4. QED
      BY <1>1, <3>2, <3>3
  <2>3. Len(assigned[r]) \in Nat /\ i \in DOMAIN assigned[r]
    BY <1>1, <2>1
  <2>4. assigned[r][i] \in Lease
    <3> HIDE DEF Lease
    <3>1. QED
      BY <2>1, <2>3
  <2>5. QED
    BY <1>1, <2>1, <2>2, <2>4
<1>2. QED
  BY <1>1 DEF Held, HeldAt

\* A step of one run keeps the invariant if what the runs hold then goes with the
\* table.
LEMMA RunChange ==
  ASSUME RunsInv, NEW r \in Runs,
         NEW step \in Steps, NEW p \in Plans \cup {<<>>}, NEW done \in Seq(Lease),
         NEW k \in Nat \ {0}, Fits(step, p, done, k),
         pc' = [pc EXCEPT ![r] = step], plan' = [plan EXCEPT ![r] = p],
         assigned' = [assigned EXCEPT ![r] = done], index' = [index EXCEPT ![r] = k],
         disturbed' \subseteq Runs, orphaned' \subseteq Tasks,
         up' = up, up \/ step = "idle",
         disturbed' = {} \/ disturbed' = {q \in Runs : pc'[q] # "idle"},
         Sound([Held EXCEPT ![r] = HeldAt(step, p, done, k)], leases', orphaned', disturbed')
  PROVE  RunsInv'
<1>1. RunTypes /\ Shape /\ DownIsIdle
  BY DEF RunsInv
<1>2. RunTypes' /\ Shape' /\ Held' = [Held EXCEPT ![r] = HeldAt(step, p, done, k)]
  <2>1. RunTypes'
    BY <1>1 DEF RunTypes
  <2>2. /\ pc'[r] = step /\ plan'[r] = p /\ assigned'[r] = done /\ index'[r] = k
        /\ \A q \in Runs \ {r} : /\ pc'[q] = pc[q] /\ plan'[q] = plan[q]
                                 /\ assigned'[q] = assigned[q] /\ index'[q] = index[q]
    BY <1>1 DEF RunTypes
  <2>3. Shape'
    <3>1. ASSUME NEW q \in Runs
          PROVE  Fits(pc'[q], plan'[q], assigned'[q], index'[q])
      BY <1>1, <2>2 DEF Shape
    <3>2. QED
      BY <3>1 DEF Shape, Fits
  <2>4. Held' = [q \in Runs |-> HeldAt(pc'[q], plan'[q], assigned'[q], index'[q])]
    BY DEF Held, HeldAt
  <2>5. \A q \in Runs :
          HeldAt(pc'[q], plan'[q], assigned'[q], index'[q]) =
            IF q = r THEN HeldAt(step, p, done, k)
                     ELSE HeldAt(pc[q], plan[q], assigned[q], index[q])
    BY <2>2
  <2>6. QED
    BY <2>1, <2>3, <2>4, <2>5 DEF Held
<1>3. Sound(Held', leases', orphaned', disturbed')
  BY <1>2
<1>4. Sound(Held, leases, orphaned, disturbed)'
  BY <1>3 DEF Sound
<1>5. Disturbance'
  BY DEF Disturbance, Active
<1>6. DownIsIdle'
  BY <1>1 DEF DownIsIdle, RunTypes
<1>7. QED
  BY <1>2, <1>4, <1>5, <1>6 DEF RunsInv

\* The values of a run, and the parts of the invariant.
LEMMA RunValues ==
  ASSUME RunsInv, RouterInv, NEW r \in Runs
  PROVE  /\ RunTypes /\ Shape /\ Disturbance /\ Sound(Held, leases, orphaned, disturbed)
         /\ Held \in [Runs -> SUBSET (Tasks \X Lease)]
         /\ Held[r] = HeldAt(pc[r], plan[r], assigned[r], index[r])
         /\ leases \in [Tasks -> Lease \cup {None}]
         /\ pc[r] \in Steps /\ plan[r] \in Plans \cup {<<>>} /\ assigned[r] \in Seq(Lease)
         /\ index[r] \in Nat \ {0} /\ Fits(pc[r], plan[r], assigned[r], index[r])
         /\ pc \in [Runs -> Steps] /\ plan \in [Runs -> Plans \cup {<<>>}]
         /\ assigned \in [Runs -> Seq(Lease)] /\ index \in [Runs -> Nat \ {0}]
         /\ disturbed \subseteq Runs /\ orphaned \subseteq Tasks
         /\ pc[r] # "idle" => up = TRUE
<1>1. RunTypes /\ Shape /\ Disturbance /\ Sound(Held, leases, orphaned, disturbed) /\ DownIsIdle
  BY DEF RunsInv
<1>2. Held \in [Runs -> SUBSET (Tasks \X Lease)]
  BY <1>1, HeldTypes
<1>3. Held[r] = HeldAt(pc[r], plan[r], assigned[r], index[r])
  BY DEF Held
<1>4. leases \in [Tasks -> Lease \cup {None}] /\ up \in BOOLEAN
  BY DEF RouterInv, RouterTypeOK
<1>5. /\ pc \in [Runs -> Steps] /\ plan \in [Runs -> Plans \cup {<<>>}]
      /\ assigned \in [Runs -> Seq(Lease)] /\ index \in [Runs -> Nat \ {0}]
      /\ disturbed \subseteq Runs /\ orphaned \subseteq Tasks
  BY <1>1 DEF RunTypes
<1>6. /\ pc[r] \in Steps /\ plan[r] \in Plans \cup {<<>>} /\ assigned[r] \in Seq(Lease)
      /\ index[r] \in Nat \ {0}
  BY <1>5
<1>7. Fits(pc[r], plan[r], assigned[r], index[r])
  BY <1>1 DEF Shape
<1>8. pc[r] # "idle" => up = TRUE
  BY <1>1, <1>4 DEF DownIsIdle
<1>9. QED
  BY <1>1, <1>2, <1>3, <1>4, <1>5, <1>6, <1>7, <1>8

\* A step that changes neither the table nor what the run holds.
LEMMA QuietRun ==
  ASSUME RunsInv, RouterInv, NEW r \in Runs, UNCHANGED <<up, leases>>,
         NEW step \in Steps \ {"idle"}, NEW k \in Nat \ {0}, pc[r] # "idle",
         pc' = [pc EXCEPT ![r] = step], index' = [index EXCEPT ![r] = k],
         UNCHANGED <<plan, assigned, disturbed, orphaned>>,
         Fits(step, plan[r], assigned[r], k),
         HeldAt(step, plan[r], assigned[r], k) = HeldAt(pc[r], plan[r], assigned[r], index[r])
  PROVE  RunsInv'
<1>1. /\ plan' = [plan EXCEPT ![r] = plan[r]] /\ assigned' = [assigned EXCEPT ![r] = assigned[r]]
      /\ disturbed' \subseteq Runs /\ orphaned' \subseteq Tasks /\ up' = up /\ up
  BY RunValues
<1>2. [Held EXCEPT ![r] = HeldAt(step, plan[r], assigned[r], k)] = Held
  BY RunValues
<1>3. Sound(Held, leases', orphaned', disturbed')
  BY RunValues
<1>4. disturbed' = {} \/ disturbed' = {q \in Runs : pc'[q] # "idle"}
  BY RunValues DEF Disturbance, Active
<1>5. plan[r] \in Plans \cup {<<>>} /\ assigned[r] \in Seq(Lease)
  BY RunValues
<1>6. Sound([Held EXCEPT ![r] = HeldAt(step, plan[r], assigned[r], k)],
            leases', orphaned', disturbed')
  BY <1>2, <1>3
<1>7. QED
  BY <1>1, <1>4, <1>5, <1>6, RunChange

\* A run ends.  What it held must be out of the table, or lost.
LEMMA EndRun ==
  ASSUME RunsInv, RouterInv, NEW r \in Runs, pc[r] # "idle", End(r), up' = up,
         \/ leases' = leases
         \/ \E h \in Held[r] : leases' = [leases EXCEPT ![h[1]] = None],
         orphaned' \subseteq Tasks,
         \A t \in Tasks \ orphaned' :
           /\ leases'[t] # None => t \notin orphaned
           /\ \A h \in Held[r] : h[1] = t => leases'[t] = None
  PROVE  RunsInv'
<1>1. /\ pc' = [pc EXCEPT ![r] = "idle"] /\ plan' = [plan EXCEPT ![r] = <<>>]
      /\ assigned' = [assigned EXCEPT ![r] = <<>>] /\ index' = [index EXCEPT ![r] = 1]
      /\ disturbed' = disturbed \ {r}
  BY DEF End, Goto
<1>2. <<>> \in Seq(Lease) /\ Len(<<>>) = 0
  OBVIOUS
<1>3. Fits("idle", <<>>, <<>>, 1) /\ HeldAt("idle", <<>>, <<>>, 1) = {}
  BY <1>2 DEF Fits, HeldAt, Working
<1>4. disturbed' = {} \/ disturbed' = {q \in Runs : pc'[q] # "idle"}
  BY <1>1, RunValues DEF Disturbance, Active
<1>5. disturbed' = {} => disturbed = {} \/ \A q \in Runs \ {r} : Held[q] = {}
  <2>1. ASSUME disturbed' = {}, disturbed # {}, NEW q \in Runs \ {r}
        PROVE  Held[q] = {}
    <3>1. pc[q] = "idle"
      BY <1>1, <2>1, RunValues DEF Disturbance, Active
    <3>2. assigned[q] = <<>> /\ Held[q] = HeldAt(pc[q], plan[q], assigned[q], index[q])
      BY <3>1, RunValues DEF Fits
    <3>3. QED
      BY <1>2, <3>2 DEF HeldAt
  <2>2. QED
    BY <2>1
<1>7. Sound([Held EXCEPT ![r] = {}], leases', orphaned', disturbed')
  <2>1. /\ Held \in [Runs -> SUBSET (Tasks \X Lease)]
        /\ leases \in [Tasks -> Lease \cup {None}]
        /\ Sound(Held, leases, orphaned, disturbed)
    BY RunValues
  <2>2. QED
    BY <1>5, <2>1, SoundTakeAll
<1>8. Sound([Held EXCEPT ![r] = HeldAt("idle", <<>>, <<>>, 1)], leases', orphaned', disturbed')
  BY <1>3, <1>7
<1>9. disturbed' \subseteq Runs
  BY <1>1, RunValues
<1>10. "idle" \in Steps /\ <<>> \in Plans \cup {<<>>} /\ 1 \in Nat \ {0}
  BY DEF Steps
<1>11. QED
  BY <1>1, <1>2, <1>3, <1>4, <1>8, <1>9, <1>10, RunChange

(***************************************************************************)
(* What a run holds, when an assignment is added or given back.            *)
(***************************************************************************)

LEMMA HeldGrow ==
  ASSUME NEW p, NEW done \in Seq(Lease), NEW lease \in Lease,
         NEW step, NEW step2, step # "release", step2 # "release", NEW k, NEW k2
  PROVE  HeldAt(step2, p, Append(done, lease), k2) =
           HeldAt(step, p, done, k) \cup {<<p[Len(done) + 1].task, lease>>}
<1> DEFINE more == Append(done, lease)
<1>1. /\ Len(more) = Len(done) + 1 /\ Len(done) \in Nat
      /\ \A i \in 1..Len(done) : more[i] = done[i]
      /\ more[Len(done) + 1] = lease
  <2> HIDE DEF Lease
  <2>1. QED
    OBVIOUS
<1>2. 1..Len(more) = 1..Len(done) \cup {Len(done) + 1}
  BY <1>1
<1>3. /\ HeldAt(step2, p, more, k2) = {<<p[i].task, more[i]>> : i \in 1..Len(more)}
      /\ HeldAt(step, p, done, k) = {<<p[i].task, done[i]>> : i \in 1..Len(done)}
  BY DEF HeldAt
<1> HIDE DEF more
<1>4. HeldAt(step2, p, more, k2) =
        {<<p[i].task, done[i]>> : i \in 1..Len(done)} \cup {<<p[Len(done) + 1].task, lease>>}
  BY <1>1, <1>2, <1>3
<1>5. QED
  BY <1>3, <1>4 DEF more

\* Giving one assignment back: the last of an undo, or the next of a release.
Shrinks(step, done, fewer, n, k, k2) ==
  \/ /\ step # "release" /\ n = Len(done) /\ fewer = SubSeq(done, 1, n - 1)
  \/ /\ step = "release" /\ n = k /\ fewer = done /\ k2 = k + 1

LEMMA HeldShrink ==
  ASSUME NEW p \in Plans, NEW done \in Seq(Lease), Len(done) <= Len(p),
         NEW step, NEW k \in Nat \ {0}, NEW n \in 1..Len(done), NEW fewer, NEW k2,
         Shrinks(step, done, fewer, n, k, k2)
  PROVE  /\ HeldAt(step, p, fewer, k2) \subseteq HeldAt(step, p, done, k)
         /\ <<p[n].task, done[n]>> \in HeldAt(step, p, done, k)
         /\ \A h \in HeldAt(step, p, done, k) \ HeldAt(step, p, fewer, k2) :
              h = <<p[n].task, done[n]>>
         /\ \A h \in HeldAt(step, p, fewer, k2) : h[1] # p[n].task
<1> DEFINE still == {j \in 1..Len(done) : step = "release" => j >= k}
<1>1. Len(done) \in Nat /\ Len(p) \in Nat
  BY PlanTypes
<1>2. n \in still
  BY <1>1 DEF Shrinks
<1>3. HeldAt(step, p, done, k) = {<<p[i].task, done[i]>> : i \in still}
  BY DEF HeldAt
<1>4. HeldAt(step, p, fewer, k2) = {<<p[i].task, done[i]>> : i \in still \ {n}}
  <2>1. CASE step = "release" /\ n = k /\ fewer = done /\ k2 = k + 1
    <3>1. {j \in 1..Len(done) : step = "release" => j >= k2} = still \ {n}
      BY <1>1, <2>1
    <3> HIDE DEF still
    <3>2. QED
      BY <2>1, <3>1 DEF HeldAt
  <2>2. CASE step # "release" /\ n = Len(done) /\ fewer = SubSeq(done, 1, n - 1)
    <3>1. Len(fewer) = n - 1 /\ \A i \in 1..(n-1) : fewer[i] = done[i]
      <4> HIDE DEF Lease
      <4>1. QED
        BY <1>1, <2>2
    <3>2. {j \in 1..Len(fewer) : step = "release" => j >= k2} = still \ {n}
      BY <1>1, <2>2, <3>1
    <3>3. \A i \in still \ {n} : fewer[i] = done[i]
      BY <1>1, <2>2, <3>1
    <3> HIDE DEF still
    <3>4. QED
      BY <3>2, <3>3 DEF HeldAt
  <2>3. QED
    BY <2>1, <2>2 DEF Shrinks
<1>5. \A i \in still \ {n} : p[i].task # p[n].task
  BY <1>1, PlanTypes
<1> HIDE DEF still
<1>6. QED
  BY <1>2, <1>3, <1>4, <1>5

(***************************************************************************)
(* The steps, one by one.                                                  *)
(***************************************************************************)

LEMMA BeginKeeps ==
  ASSUME RouterInv, RunsInv, NEW r \in Runs, NEW p \in Plans, Begin(r, p)
  PROVE  RunsInv'
<1>1. /\ pc' = [pc EXCEPT ![r] = "assign"] /\ plan' = [plan EXCEPT ![r] = p]
      /\ up /\ up' = up /\ pc[r] = "idle" /\ leases' = leases /\ orphaned' = orphaned
      /\ assigned' = assigned /\ index' = index
      /\ disturbed' = IF disturbed # {} THEN disturbed \cup {r} ELSE disturbed
  BY DEF Begin, Goto, routerVars, memory
<1>2. assigned[r] = <<>> /\ index[r] = 1 /\ Held[r] = {}
  <2>1. assigned[r] = <<>> /\ index[r] = 1
    BY <1>1, RunValues DEF Fits
  <2>2. QED
    BY <2>1, RunValues, HeldNothing
<1>3. Fits("assign", p, <<>>, 1) /\ HeldAt("assign", p, <<>>, 1) = {}
  <2>1. Len(<<>>) = 0
    OBVIOUS
  <2>2. QED
    BY <2>1, PlanTypes DEF Fits, HeldAt, Working
<1>4. /\ assigned' = [assigned EXCEPT ![r] = <<>>] /\ index' = [index EXCEPT ![r] = 1]
      /\ disturbed' \subseteq Runs /\ orphaned' \subseteq Tasks
  BY <1>1, <1>2, RunValues
<1>5. disturbed' = {} \/ disturbed' = {q \in Runs : pc'[q] # "idle"}
  BY <1>1, RunValues DEF Disturbance, Active
<1>6. Sound([Held EXCEPT ![r] = HeldAt("assign", p, <<>>, 1)], leases', orphaned', disturbed')
  <2>1. [Held EXCEPT ![r] = {}] = Held
    BY <1>2, RunValues
  <2>2. disturbed' = {} => disturbed = {}
    BY <1>1
  <2>3. Sound(Held, leases, orphaned, disturbed)
    BY RunValues
  <2>4. Sound(Held, leases', orphaned', disturbed')
    BY <1>1, <2>2, <2>3 DEF Sound
  <2>5. QED
    BY <1>3, <2>1, <2>4
<1>7. "assign" \in Steps /\ p \in Plans \cup {<<>>} /\ <<>> \in Seq(Lease) /\ 1 \in Nat \ {0}
  BY DEF Steps
<1>8. QED
  BY <1>1, <1>3, <1>4, <1>5, <1>6, <1>7, RunChange

\* What is known of a run that assigns, and of its next task.
LEMMA AssignFacts ==
  ASSUME RouterInv, RunsInv, NEW r \in Runs, pc[r] = "assign"
  PROVE  /\ plan[r] \in Plans /\ Len(plan[r]) \in Nat /\ Len(assigned[r]) = index[r] - 1
         /\ index[r] <= Len(plan[r]) /\ NextTask(r) \in Tasks /\ assigned[r] \in Seq(Lease)
         /\ index[r] \in Nat \ {0} /\ Len(assigned[r]) \in Nat /\ up
<1>1. RunTypes /\ Shape
  BY DEF RunsInv
<1>2. /\ plan[r] \in Plans /\ NextTask(r) \in Tasks
      /\ Len(assigned[r]) \in Nat /\ assigned[r] \in Seq(Lease)
  BY <1>1, AtTask
<1>3. /\ Len(assigned[r]) = index[r] - 1 /\ index[r] <= Len(plan[r])
      /\ index[r] \in Nat \ {0} /\ up
  BY RunValues DEF Fits
<1>4. QED
  BY <1>2, <1>3, PlanTypes

\* Both outcomes of a call of acquire() that changes the table.
LEMMA AssignKeeps ==
  ASSUME RouterInv, RunsInv, NEW r \in Runs, Assign(r)
  PROVE  RunsInv'
<1>1. PICK ok \in SaveOutcomes, lease \in Lease :
        /\ Acquire(plan[r][index[r]].role, NextTask(r), lease, ok)
        /\ IF ok
             THEN /\ assigned' = [assigned EXCEPT ![r] = Append(@, lease)]
                  /\ IF index[r] < Len(plan[r])
                       THEN index' = [index EXCEPT ![r] = @ + 1] /\ UNCHANGED pc
                       ELSE index' = [index EXCEPT ![r] = 1] /\ Goto(r, "prepare")
                  /\ orphaned' = orphaned \ {NextTask(r)}
             ELSE /\ Goto(r, "undo")
                  /\ orphaned' = orphaned \cup {NextTask(r)}
                  /\ UNCHANGED <<assigned, index>>
  BY DEF Assign
<1>2. /\ pc[r] = "assign" /\ plan' = plan /\ disturbed' = disturbed
  BY DEF Assign
<1>3. /\ leases' = [leases EXCEPT ![NextTask(r)] = lease] /\ leases[NextTask(r)] = None
      /\ up' = up
  BY <1>1 DEF Acquire
<1>4. /\ plan[r] \in Plans /\ Len(plan[r]) \in Nat /\ Len(assigned[r]) = index[r] - 1
      /\ index[r] <= Len(plan[r]) /\ NextTask(r) \in Tasks /\ assigned[r] \in Seq(Lease)
      /\ index[r] \in Nat \ {0} /\ Len(assigned[r]) \in Nat /\ up
  BY <1>2, AssignFacts
<1>5. /\ Held \in [Runs -> SUBSET (Tasks \X Lease)] /\ leases \in [Tasks -> Lease \cup {None}]
      /\ Sound(Held, leases, orphaned, disturbed) /\ disturbed \subseteq Runs /\ orphaned \subseteq Tasks
      /\ Held[r] = HeldAt("assign", plan[r], assigned[r], index[r])
  BY <1>2, RunValues
<1>6. /\ plan' = [plan EXCEPT ![r] = plan[r]] /\ plan[r] \in Plans \cup {<<>>}
      /\ disturbed' \subseteq Runs /\ orphaned' \subseteq Tasks /\ up' = up
  BY <1>1, <1>2, <1>3, <1>4, <1>5, RunValues
<1>7. \A step \in Steps \ {"idle"} : pc' = [pc EXCEPT ![r] = step] =>
        disturbed' = {} \/ disturbed' = {q \in Runs : pc'[q] # "idle"}
  BY <1>2, RunValues DEF Disturbance, Active
<1>8. CASE ok
  <2> DEFINE more == Append(assigned[r], lease)
             step == IF index[r] < Len(plan[r]) THEN "assign" ELSE "prepare"
             k == IF index[r] < Len(plan[r]) THEN index[r] + 1 ELSE 1
  <2>1. more \in Seq(Lease) /\ Len(more) = Len(assigned[r]) + 1
    <3> HIDE DEF Lease
    <3>1. QED
      BY <1>4
  <2>2. /\ assigned' = [assigned EXCEPT ![r] = more] /\ index' = [index EXCEPT ![r] = k]
        /\ pc' = [pc EXCEPT ![r] = step]
    <3>1. assigned' = [assigned EXCEPT ![r] = more]
      BY <1>1, <1>8, RunValues
    <3>2. index' = [index EXCEPT ![r] = k]
      BY <1>1, <1>8, RunValues
    <3>3. pc' = [pc EXCEPT ![r] = step]
      BY <1>1, <1>2, <1>8, RunValues DEF Goto
    <3>4. QED
      BY <3>1, <3>2, <3>3
  <2>3. orphaned' = orphaned \ {NextTask(r)}
    BY <1>1, <1>8
  <2>4. /\ k \in Nat \ {0} /\ step \in Steps /\ step # "idle" /\ step # "release"
    BY <1>4 DEF Steps
  <2>5. Fits(step, plan[r], more, k)
    BY <1>4, <2>1, PlanTypes DEF Fits, Working
  <2>6. HeldAt(step, plan[r], more, k) = Held[r] \cup {<<NextTask(r), lease>>}
    <3>1. plan[r][Len(assigned[r]) + 1].task = NextTask(r)
      <4>1. Len(assigned[r]) + 1 = index[r]
        BY <1>4
      <4>2. QED
        BY <4>1 DEF NextTask
    <3>2. HeldAt(step, plan[r], more, k) =
            HeldAt("assign", plan[r], assigned[r], index[r])
              \cup {<<plan[r][Len(assigned[r]) + 1].task, lease>>}
      <4> DEFINE done == assigned[r]
                 p    == plan[r]
                 now  == index[r]
      <4>1. "assign" # "release" /\ done \in Seq(Lease) /\ step # "release"
        BY <1>4, <2>4
      <4> HIDE DEF step, k, done, p, now
      <4>2. HeldAt(step, p, Append(done, lease), k) =
              HeldAt("assign", p, done, now) \cup {<<p[Len(done) + 1].task, lease>>}
        BY <4>1, HeldGrow
      <4>3. QED
        BY <4>2 DEF done, p, now
    <3>3. QED
      BY <1>5, <3>1, <3>2
  <2> HIDE DEF more, step, k
  <2>7. Sound([Held EXCEPT ![r] = Held[r] \cup {<<NextTask(r), lease>>}],
              [leases EXCEPT ![NextTask(r)] = lease], orphaned \ {NextTask(r)}, disturbed)
    BY <1>3, <1>4, <1>5, SoundGive
  <2>8. Sound([Held EXCEPT ![r] = HeldAt(step, plan[r], more, k)], leases', orphaned', disturbed')
    BY <1>2, <1>3, <2>3, <2>6, <2>7
  <2>9. QED
    BY <1>4, <1>6, <1>7, <2>1, <2>2, <2>4, <2>5, <2>8, RunChange
<1>9. CASE ~ok
  <2>1. /\ pc' = [pc EXCEPT ![r] = "undo"] /\ orphaned' = orphaned \cup {NextTask(r)}
        /\ assigned' = [assigned EXCEPT ![r] = assigned[r]]
        /\ index' = [index EXCEPT ![r] = index[r]]
    BY <1>1, <1>9, RunValues DEF Goto
  <2>2. Fits("undo", plan[r], assigned[r], index[r]) /\ "undo" \in Steps \ {"idle"}
    BY <1>4, PlanTypes DEF Fits, Working, Steps
  <2>3. HeldAt("undo", plan[r], assigned[r], index[r]) = Held[r]
    BY <1>5 DEF HeldAt
  <2>4. Sound(Held, [leases EXCEPT ![NextTask(r)] = lease],
              orphaned \cup {NextTask(r)}, disturbed)
    BY <1>3, <1>4, <1>5, SoundLose
  <2>5. [Held EXCEPT ![r] = Held[r]] = Held
    BY <1>5
  <2>6. Sound([Held EXCEPT ![r] = HeldAt("undo", plan[r], assigned[r], index[r])],
              leases', orphaned', disturbed')
    BY <1>2, <1>3, <2>1, <2>3, <2>4, <2>5
  <2>7. QED
    BY <1>4, <1>6, <1>7, <2>1, <2>2, <2>6, RunChange
<1>10. QED
  BY <1>8, <1>9

\* The steps that leave the leases alone: acquire() raises without effect, and
\* what the run does between assignment and release.
LEMMA QuietSteps ==
  ASSUME RouterInv, RunsInv, NEW r \in Runs,
         AssignRaises(r) \/ Prepare(r) \/ Launch(r) \/ Finish(r)
  PROVE  RunsInv'
<1>1. UNCHANGED <<up, leases>> /\ UNCHANGED <<plan, assigned, disturbed, orphaned>>
  BY DEF AssignRaises, Prepare, Launch, Finish, routerVars, memory, history
<1>2. /\ index \in [Runs -> Nat \ {0}] /\ index[r] \in Nat \ {0}
      /\ Fits(pc[r], plan[r], assigned[r], index[r]) /\ pc[r] \in Steps
  BY RunValues
<1>3. CASE AssignRaises(r)
  <2>1. /\ pc[r] = "assign" /\ pc' = [pc EXCEPT ![r] = "undo"]
        /\ index' = [index EXCEPT ![r] = index[r]]
    BY <1>2, <1>3 DEF AssignRaises, Goto
  <2>2. Fits("undo", plan[r], assigned[r], index[r])
    BY <2>1, AssignFacts, PlanTypes DEF Fits, Working
  <2>3. HeldAt("undo", plan[r], assigned[r], index[r])
          = HeldAt(pc[r], plan[r], assigned[r], index[r])
    BY <2>1 DEF HeldAt
  <2>4. "undo" \in Steps \ {"idle"}
    BY DEF Steps
  <2>5. QED
    BY <1>1, <1>2, <2>1, <2>2, <2>3, <2>4, QuietRun
<1>4. CASE Prepare(r) \/ Launch(r) \/ Finish(r)
  <2>1. /\ pc[r] \in Working /\ pc[r] # "idle"
        /\ \/ /\ pc' = [pc EXCEPT ![r] = "release"] /\ index' = [index EXCEPT ![r] = 1]
           \/ \E step \in Working :
                /\ pc' = [pc EXCEPT ![r] = step]
                /\ \/ index' = index
                   \/ index[r] < Len(plan[r]) /\ index' = [index EXCEPT ![r] = @ + 1]
    BY <1>4 DEF Prepare, Launch, Finish, ToRelease, Goto, Working
  <2>2. /\ plan[r] \in Plans /\ Len(plan[r]) \in Nat \ {0}
        /\ Len(assigned[r]) = Len(plan[r]) /\ index[r] <= Len(plan[r])
    BY <1>2, <2>1, RunValues, PlanTypes DEF Fits, Working
  <2>3. CASE /\ pc' = [pc EXCEPT ![r] = "release"] /\ index' = [index EXCEPT ![r] = 1]
    <3>1. /\ Fits("release", plan[r], assigned[r], 1) /\ "release" \in Steps \ {"idle"}
          /\ 1 \in Nat \ {0}
      BY <2>2, PlanTypes DEF Fits, Working, Steps
    <3>2. HeldAt("release", plan[r], assigned[r], 1)
            = HeldAt(pc[r], plan[r], assigned[r], index[r])
      <4>1. pc[r] # "release" /\ assigned[r] \in Seq(Lease)
        BY <2>1, RunValues DEF Working
      <4>2. QED
        BY <4>1, HeldAll, ZenonT(40)
    <3>3. QED
      BY <1>1, <2>1, <2>3, <3>1, <3>2, QuietRun
  <2>4. ASSUME NEW step \in Working, NEW k \in Nat \ {0}, k <= Len(plan[r]),
               pc' = [pc EXCEPT ![r] = step], index' = [index EXCEPT ![r] = k]
        PROVE  RunsInv'
    <3>1. Fits(step, plan[r], assigned[r], k) /\ step \in Steps \ {"idle"}
      BY <2>2, <2>4, PlanTypes DEF Fits, Working, Steps
    <3>2. HeldAt(step, plan[r], assigned[r], k)
            = HeldAt(pc[r], plan[r], assigned[r], index[r])
      <4>1. pc[r] # "release" /\ step # "release"
        BY <2>1 DEF Working
      <4>2. QED
        BY <4>1 DEF HeldAt
    <3>3. QED
      BY <1>1, <2>1, <2>4, <3>1, <3>2, QuietRun
  <2>5. ASSUME NEW step \in Working, pc' = [pc EXCEPT ![r] = step],
               \/ index' = index
               \/ index[r] < Len(plan[r]) /\ index' = [index EXCEPT ![r] = @ + 1]
        PROVE  \E k \in Nat \ {0} : k <= Len(plan[r]) /\ index' = [index EXCEPT ![r] = k]
    <3>1. CASE index' = index
      <4>1. index' = [index EXCEPT ![r] = index[r]]
        BY <1>2, <3>1
      <4>2. QED
        BY <1>2, <2>2, <4>1
    <3>2. CASE index[r] < Len(plan[r]) /\ index' = [index EXCEPT ![r] = @ + 1]
      <4>1. index[r] + 1 \in Nat \ {0} /\ index[r] + 1 <= Len(plan[r])
        BY <1>2, <2>2, <3>2
      <4>2. QED
        BY <3>2, <4>1
    <3>3. QED
      BY <2>5, <3>1, <3>2
  <2>6. QED
    BY <2>1, <2>3, <2>4, <2>5
<1>5. QED
  BY <1>3, <1>4

\* A task is given back, by an undo or a release that does not end the run.
LEMMA GiveBack ==
  ASSUME RouterInv, RunsInv, NEW r \in Runs, pc[r] \in {"undo", "release"},
         NEW fewer \in Seq(Lease), NEW k \in Nat \ {0}, NEW n \in 1..Len(assigned[r]),
         Fits(pc[r], plan[r], fewer, k),
         Shrinks(pc[r], assigned[r], fewer, n, index[r], k),
         UNCHANGED <<pc, plan, disturbed, up>>,
         assigned' = [assigned EXCEPT ![r] = fewer], index' = [index EXCEPT ![r] = k],
         leases' = [leases EXCEPT ![plan[r][n].task] = None],
         orphaned' = orphaned \ {plan[r][n].task}
  PROVE  RunsInv'
<1> DEFINE rest == HeldAt(pc[r], plan[r], fewer, k)
           task == plan[r][n].task
<1>1. /\ Held \in [Runs -> SUBSET (Tasks \X Lease)] /\ leases \in [Tasks -> Lease \cup {None}]
      /\ Sound(Held, leases, orphaned, disturbed) /\ disturbed \subseteq Runs /\ orphaned \subseteq Tasks
      /\ Held[r] = HeldAt(pc[r], plan[r], assigned[r], index[r])
      /\ assigned[r] \in Seq(Lease) /\ index[r] \in Nat \ {0} /\ up
      /\ pc \in [Runs -> Steps] /\ plan \in [Runs -> Plans \cup {<<>>}] /\ pc[r] \in Steps
  BY RunValues
<1>2. plan[r] \in Plans /\ Len(assigned[r]) <= Len(plan[r]) /\ task \in Tasks
  BY AtTask DEF RunsInv
<1>3. /\ rest \subseteq Held[r] /\ <<task, assigned[r][n]>> \in Held[r]
      /\ \A h \in Held[r] \ rest : h = <<task, assigned[r][n]>>
      /\ \A h \in rest : h[1] # task
  <2> DEFINE done == assigned[r]
             p    == plan[r]
             step == pc[r]
             now  == index[r]
  <2>1. /\ done \in Seq(Lease) /\ p \in Plans /\ now \in Nat \ {0} /\ n \in 1..Len(done)
        /\ Len(done) <= Len(p)
        /\ Shrinks(step, done, fewer, n, now, k)
    BY <1>1, <1>2 DEF Shrinks
  <2> HIDE DEF done, p, step, now
  <2>2. /\ HeldAt(step, p, fewer, k) \subseteq HeldAt(step, p, done, now)
        /\ <<p[n].task, done[n]>> \in HeldAt(step, p, done, now)
        /\ \A h \in HeldAt(step, p, done, now) \ HeldAt(step, p, fewer, k) :
             h = <<p[n].task, done[n]>>
        /\ \A h \in HeldAt(step, p, fewer, k) : h[1] # p[n].task
    BY <2>1, HeldShrink
  <2>3. QED
    BY <1>1, <2>2 DEF done, p, step, now
<1> HIDE DEF rest, task
<1>4. \A h \in Held[r] : h \in rest <=> h[1] # task
  BY <1>3
<1>5. Sound([Held EXCEPT ![r] = rest], [leases EXCEPT ![task] = None],
            orphaned \ {task}, disturbed)
  <2>1. rest \in SUBSET Held[r] /\ \E h \in Held[r] : h[1] = task
    BY <1>3
  <2>2. QED
    BY <1>1, <1>2, <1>4, <2>1, SoundTake
<1>6. Sound([Held EXCEPT ![r] = HeldAt(pc[r], plan[r], fewer, k)], leases', orphaned', disturbed')
  BY <1>5 DEF rest, task
<1>7. /\ pc' = [pc EXCEPT ![r] = pc[r]] /\ plan' = [plan EXCEPT ![r] = plan[r]]
      /\ disturbed' \subseteq Runs /\ orphaned' \subseteq Tasks /\ up' = up
      /\ plan[r] \in Plans \cup {<<>>}
  BY <1>1, <1>2
<1>8. disturbed' = {} \/ disturbed' = {q \in Runs : pc'[q] # "idle"}
  BY RunValues DEF Disturbance, Active
<1>9. QED
  BY <1>1, <1>6, <1>7, <1>8, RunChange

\* What a call of release(), or its raising for want of a lease, does to the table.
LEMMA ReleaseTakes ==
  ASSUME RouterInv, NEW task \in Tasks,
         \/ \E ok \in SaveOutcomes : Release(task, ok)
         \/ leases[task] = None /\ UNCHANGED routerVars
  PROVE  leases' = [leases EXCEPT ![task] = None] /\ up' = up
<1>1. leases \in [Tasks -> Lease \cup {None}]
  BY DEF RouterInv, RouterTypeOK
<1>2. CASE \E ok \in SaveOutcomes : Release(task, ok)
  BY <1>2 DEF Release, Without
<1>3. CASE leases[task] = None /\ UNCHANGED routerVars
  BY <1>1, <1>3 DEF routerVars, memory
<1>4. QED
  BY <1>2, <1>3

\* A sequence without its last element.
LEMMA AllButLast ==
  ASSUME NEW S, NEW seq \in Seq(S), Len(seq) > 0
  PROVE  SubSeq(seq, 1, Len(seq) - 1) \in Seq(S) /\ Len(SubSeq(seq, 1, Len(seq) - 1)) = Len(seq) - 1
<1>1. Len(seq) \in Nat /\ \A i \in 1..Len(seq) - 1 : seq[i] \in S
  OBVIOUS
<1>2. 1 \in Int /\ Len(seq) - 1 \in Int
  BY <1>1
<1>3. /\ SubSeq(seq, 1, Len(seq) - 1) \in Seq(S)
      /\ Len(SubSeq(seq, 1, Len(seq) - 1)) =
           IF 1 <= Len(seq) - 1 THEN Len(seq) - 1 - 1 + 1 ELSE 0
  BY <1>1, <1>2, SubSeqProperties
<1>4. \A n \in Nat \ {0} : (IF 1 <= n - 1 THEN n - 1 - 1 + 1 ELSE 0) = n - 1
  OBVIOUS
<1>5. Len(seq) \in Nat \ {0}
  BY <1>1
<1>6. QED
  BY <1>3, <1>4, <1>5

LEMMA UndoKeeps ==
  ASSUME RouterInv, RunsInv, NEW r \in Runs, Undo(r)
  PROVE  RunsInv'
<1> DEFINE n == Len(assigned[r])
           fewer == SubSeq(assigned[r], 1, n - 1)
<1>1. /\ pc[r] = "undo" /\ n > 0 /\ UNCHANGED <<pc, plan, index, disturbed>>
      /\ assigned' = [assigned EXCEPT ![r] = SubSeq(@, 1, n - 1)]
      /\ orphaned' = orphaned \ {plan[r][n].task}
      /\ \/ \E ok \in SaveOutcomes : Release(plan[r][n].task, ok)
         \/ leases[plan[r][n].task] = None /\ UNCHANGED routerVars
  BY DEF Undo
<1>2. /\ plan[r] \in Plans /\ n \in Nat /\ n <= Len(plan[r]) /\ n \in 1..n
      /\ \A i \in 1..n : plan[r][i].task \in Tasks
  BY <1>1, AtTask DEF RunsInv
<1>3. leases' = [leases EXCEPT ![plan[r][n].task] = None] /\ up' = up
  BY <1>1, <1>2, ReleaseTakes
<1>4. /\ index \in [Runs -> Nat \ {0}] /\ assigned \in [Runs -> Seq(Lease)]
      /\ assigned[r] \in Seq(Lease) /\ index[r] \in Nat \ {0}
  BY RunValues
<1>5. fewer \in Seq(Lease) /\ Len(fewer) = n - 1
  BY <1>1, <1>4, AllButLast
<1>6. /\ index' = [index EXCEPT ![r] = index[r]]
      /\ assigned' = [assigned EXCEPT ![r] = fewer]
  BY <1>1, <1>4
<1>7. Fits(pc[r], plan[r], fewer, index[r])
  BY <1>1, <1>2, <1>5, PlanTypes DEF Fits, Working
<1>8. pc[r] # "release" /\ pc[r] \in {"undo", "release"}
  BY <1>1
<1>9. UNCHANGED <<pc, plan, disturbed, up>>
  BY <1>1, <1>3
<1>10. QED
  BY <1>1, <1>2, <1>3, <1>4, <1>5, <1>6, <1>7, <1>8, <1>9, GiveBack DEF Shrinks

\* The position of a release that has a task to give back.
LEMMA ReleaseFacts ==
  ASSUME RouterInv, RunsInv, NEW r \in Runs, pc[r] = "release", index[r] <= Len(assigned[r])
  PROVE  /\ plan[r] \in Plans /\ index[r] \in 1..Len(assigned[r]) /\ plan[r][index[r]].task \in Tasks
         /\ index \in [Runs -> Nat \ {0}] /\ assigned \in [Runs -> Seq(Lease)]
         /\ assigned[r] \in Seq(Lease) /\ index[r] \in Nat \ {0}
         /\ Fits("release", plan[r], assigned[r], index[r]) /\ up = TRUE
<1>1. /\ index \in [Runs -> Nat \ {0}] /\ assigned \in [Runs -> Seq(Lease)]
      /\ assigned[r] \in Seq(Lease) /\ index[r] \in Nat \ {0} /\ up = TRUE
      /\ Fits("release", plan[r], assigned[r], index[r])
  BY RunValues
<1>2. /\ plan[r] \in Plans /\ Len(assigned[r]) \in Nat
      /\ \A i \in 1..Len(assigned[r]) : plan[r][i].task \in Tasks
  BY AtTask DEF RunsInv
<1>3. index[r] \in 1..Len(assigned[r])
  BY <1>1, <1>2
<1>4. QED
  BY <1>1, <1>2, <1>3

LEMMA ReleaseNextKeeps ==
  ASSUME RouterInv, RunsInv, NEW r \in Runs, ReleaseNext(r)
  PROVE  RunsInv'
<1> DEFINE task == plan[r][index[r]].task
<1>1. /\ pc[r] = "release" /\ index[r] <= Len(assigned[r])
      /\ UNCHANGED <<pc, plan, assigned, disturbed>>
      /\ index' = [index EXCEPT ![r] = @ + 1] /\ orphaned' = orphaned \ {task}
      /\ \/ Release(task, TRUE)
         \/ leases[task] = None /\ UNCHANGED routerVars
  BY DEF ReleaseNext
<1>2. /\ plan[r] \in Plans /\ index[r] \in 1..Len(assigned[r]) /\ task \in Tasks
      /\ index \in [Runs -> Nat \ {0}] /\ assigned \in [Runs -> Seq(Lease)]
      /\ assigned[r] \in Seq(Lease) /\ index[r] \in Nat \ {0}
      /\ Fits("release", plan[r], assigned[r], index[r])
  BY <1>1, ReleaseFacts
<1>3. leases' = [leases EXCEPT ![task] = None] /\ up' = up
  BY <1>1, <1>2, ReleaseTakes, WorkerConstantsAssumption
<1>4. /\ index' = [index EXCEPT ![r] = index[r] + 1]
      /\ assigned' = [assigned EXCEPT ![r] = assigned[r]]
      /\ index[r] + 1 \in Nat \ {0}
  BY <1>1, <1>2
<1>5. Fits(pc[r], plan[r], assigned[r], index[r] + 1)
  BY <1>1, <1>2 DEF Fits, Working
<1>6. pc[r] \in {"undo", "release"} /\ UNCHANGED <<pc, plan, disturbed, up>>
  BY <1>1, <1>3
<1>7. QED
  BY <1>1, <1>2, <1>3, <1>4, <1>5, <1>6, GiveBack DEF Shrinks

\* The ways run() ends.
LEMMA EndKeeps ==
  ASSUME RouterInv, RunsInv, NEW r \in Runs, AssignFails(r) \/ ReleaseRaises(r) \/ Return(r)
  PROVE  RunsInv'
<1>1. /\ Held \in [Runs -> SUBSET (Tasks \X Lease)]
      /\ Held[r] = HeldAt(pc[r], plan[r], assigned[r], index[r])
      /\ orphaned \subseteq Tasks /\ assigned[r] \in Seq(Lease) /\ index[r] \in Nat \ {0}
  BY RunValues
<1>2. CASE AssignFails(r) \/ Return(r)
  <2>1. /\ pc[r] # "idle" /\ End(r) /\ up' = up /\ leases' = leases /\ orphaned' = orphaned
    BY <1>2 DEF AssignFails, Return, routerVars, memory
  <2>2. Held[r] = {}
    <3>1. CASE assigned[r] = <<>>
      BY <1>1, <3>1, HeldNothing
    <3>2. CASE pc[r] = "release" /\ index[r] > Len(assigned[r])
      <4>1. {j \in 1..Len(assigned[r]) : pc[r] = "release" => j >= index[r]} = {}
        <5>1. Len(assigned[r]) \in Nat
          BY <1>1
        <5>2. QED
          BY <1>1, <3>2, <5>1
      <4>2. QED
        BY <1>1, <4>1 DEF HeldAt
    <3>3. QED
      BY <1>2, <3>1, <3>2 DEF AssignFails, Return
  <2>3. \A t \in Tasks \ orphaned' :
          /\ leases'[t] # None => t \notin orphaned
          /\ \A h \in Held[r] : h[1] = t => leases'[t] = None
    BY <2>1, <2>2
  <2>4. QED
    BY <1>1, <2>1, <2>3, EndRun
<1>3. CASE ReleaseRaises(r)
  <2> DEFINE task == plan[r][index[r]].task
             others == {plan[r][i].task : i \in index[r]+1..Len(assigned[r])}
  <2>1. /\ pc[r] = "release" /\ index[r] <= Len(assigned[r]) /\ End(r)
        /\ orphaned' = {t \in orphaned \cup others : leases'[t] # None}
        /\ \E ok \in SaveOutcomes : Release(task, ok)
    BY <1>3 DEF ReleaseRaises
  <2>2. /\ index[r] \in 1..Len(assigned[r]) /\ task \in Tasks
        /\ \A i \in 1..Len(assigned[r]) : plan[r][i].task \in Tasks
    BY <2>1, ReleaseFacts, AtTask DEF RunsInv
  <2>3. leases' = [leases EXCEPT ![task] = None] /\ up' = up
    BY <2>1, <2>2, ReleaseTakes
  <2>4. Held[r] = {<<plan[r][i].task, assigned[r][i]>> :
                     i \in {j \in 1..Len(assigned[r]) : j >= index[r]}}
    BY <1>1, <2>1 DEF HeldAt
  <2>5. \A h \in Held[r] : h[1] = task \/ h[1] \in others
    <3>1. Len(assigned[r]) \in Nat
      BY <1>1
    <3>2. \A i \in 1..Len(assigned[r]) : i >= index[r] =>
            i = index[r] \/ i \in index[r]+1..Len(assigned[r])
      BY <1>1, <3>1
    <3>3. QED
      BY <2>4, <3>2
  <2>6. <<task, assigned[r][index[r]]>> \in Held[r]
    BY <1>1, <2>2, <2>4
  <2>7. others \subseteq Tasks
    <3>1. \A i \in index[r]+1..Len(assigned[r]) : i \in 1..Len(assigned[r])
      <4>1. Len(assigned[r]) \in Nat
        BY <1>1
      <4>2. QED
        BY <1>1, <4>1
    <3>2. QED
      BY <2>2, <3>1
  <2>8. leases \in [Tasks -> Lease \cup {None}]
    BY DEF RouterInv, RouterTypeOK
  <2> HIDE DEF task, others
  <2>9. \E h \in Held[r] : leases' = [leases EXCEPT ![h[1]] = None]
    BY <2>3, <2>6
  <2>10. orphaned' \subseteq Tasks
    BY <1>1, <2>1, <2>7
  <2>11. \A t \in Tasks \ orphaned' :
           /\ leases'[t] # None => t \notin orphaned
           /\ \A h \in Held[r] : h[1] = t => leases'[t] = None
    BY <2>1, <2>2, <2>3, <2>5, <2>8
  <2>12. pc[r] # "idle"
    BY <2>1
  <2>13. QED
    BY <2>1, <2>3, <2>9, <2>10, <2>11, <2>12, EndRun
<1>4. QED
  BY <1>2, <1>3

\* A step of nobody's: the runs stay as they are, and the table may only lose leases,
\* by an operator, who disturbs every run.
LEMMA OutsideKeeps ==
  ASSUME RouterInv, RunsInv, up' = up, UNCHANGED <<pc, plan, assigned, index>>,
         \/ leases' = leases /\ UNCHANGED history
         \/ /\ disturbed' = Active /\ orphaned' \subseteq Tasks
            /\ \A t \in Tasks : leases'[t] # None =>
                 leases'[t] = leases[t] /\ (t \in orphaned => t \in orphaned')
  PROVE  RunsInv'
<1>1. /\ RunTypes /\ Shape /\ DownIsIdle /\ Disturbance
      /\ Sound(Held, leases, orphaned, disturbed)
  BY DEF RunsInv
<1>2. disturbed' \subseteq Runs /\ orphaned' \subseteq Tasks
  BY <1>1 DEF RunTypes, Active, history
<1>3. RunTypes' /\ Shape' /\ DownIsIdle'
  BY <1>1, <1>2 DEF RunTypes, Shape, Fits, DownIsIdle
<1>4. Held' = Held
  BY DEF Held, HeldAt
<1>5. Disturbance'
  BY <1>1 DEF Disturbance, Active, history
<1>6. Sound(Held, leases', orphaned', disturbed')
  <2>1. CASE leases' = leases /\ UNCHANGED history
    BY <1>1, <2>1 DEF history
  <2>2. CASE /\ disturbed' = Active
             /\ \A t \in Tasks : leases'[t] # None =>
                  leases'[t] = leases[t] /\ (t \in orphaned => t \in orphaned')
    <3>1. ASSUME disturbed' = {}, NEW q \in Runs
          PROVE  Held[q] = {}
      <4>1. pc[q] = "idle"
        BY <2>2, <3>1 DEF Active
      <4>2. assigned[q] = <<>>
        BY <1>1, <4>1 DEF Shape, Fits
      <4>3. QED
        BY <4>2, HeldNothing DEF Held
    <3>2. \A t \in Tasks \ orphaned' : leases'[t] # None =>
            \E q \in Runs : <<t, leases'[t]>> \in Held[q]
      BY <1>1, <2>2 DEF Sound
    <3>3. QED
      BY <3>1, <3>2 DEF Sound
  <2>3. QED
    BY <2>1, <2>2
<1>7. Sound(Held, leases, orphaned, disturbed)'
  BY <1>4, <1>6 DEF Sound
<1>8. QED
  BY <1>3, <1>5, <1>7 DEF RunsInv

\* While all runs are idle nothing is held: a process starts with orphans only.
LEMMA IdleHoldsNothing ==
  ASSUME RouterInv, RunsInv, \A r \in Runs : pc[r] = "idle"
  PROVE  Held = [r \in Runs |-> {}] /\ disturbed = {}
<1>1. \A r \in Runs : HeldAt(pc[r], plan[r], assigned[r], index[r]) = {}
  <2>1. ASSUME NEW r \in Runs
        PROVE  HeldAt(pc[r], plan[r], assigned[r], index[r]) = {}
    <3>1. assigned[r] = <<>>
      BY DEF RunsInv, Shape, Fits
    <3>2. QED
      BY <3>1, HeldNothing
  <2>2. QED
    BY <2>1
<1>2. disturbed = {}
  BY DEF RunsInv, Disturbance, Active
<1>3. QED
  BY <1>1, <1>2 DEF Held

LEMMA StartKeeps ==
  ASSUME RouterInv, RunsInv, NEW loaded, StartProcess(loaded)
  PROVE  RunsInv'
<1>1. /\ UNCHANGED <<pc, plan, assigned, index, disturbed>>
      /\ orphaned' = {task \in Tasks : leases'[task] # None} /\ ~up /\ up' = TRUE
  BY DEF StartProcess, Construct
<1>2. RunTypes /\ Shape /\ Disturbance /\ \A r \in Runs : pc[r] = "idle"
  BY <1>1 DEF RunsInv, DownIsIdle
<1>3. Held = [r \in Runs |-> {}] /\ disturbed = {}
  BY <1>2, IdleHoldsNothing
<1>4. Held' = Held
  BY <1>1 DEF Held, HeldAt
<1>5. RunTypes' /\ Shape' /\ DownIsIdle' /\ Disturbance'
  BY <1>1, <1>2 DEF RunTypes, Shape, Fits, DownIsIdle, Disturbance, Active
<1>6. Sound(Held, leases, orphaned, disturbed)'
  BY <1>1, <1>3, <1>4 DEF Sound
<1>7. QED
  BY <1>5, <1>6 DEF RunsInv

\* Every run is idle, and nobody has a lease.
LEMMA FreshRuns ==
  ASSUME pc = [r \in Runs |-> "idle"], plan = [r \in Runs |-> <<>>],
         assigned = [r \in Runs |-> <<>>], index = [r \in Runs |-> 1],
         disturbed = {}, orphaned = {}, leases = NoLeases
  PROVE  RunsInv
<1>1. <<>> \in Seq(Lease) /\ Len(<<>>) = 0
  OBVIOUS
<1>2. RunTypes /\ DownIsIdle /\ Disturbance
  BY <1>1 DEF RunTypes, DownIsIdle, Disturbance, Steps
<1>3. Shape
  BY <1>1 DEF Shape, Fits, Working
<1>4. Held = [r \in Runs |-> {}]
  <2>1. \A r \in Runs : HeldAt(pc[r], plan[r], assigned[r], index[r]) = {}
    BY HeldNothing
  <2>2. QED
    BY <2>1 DEF Held
<1>5. Sound(Held, leases, orphaned, disturbed)
  BY <1>4 DEF Sound, NoLeases
<1>6. QED
  BY <1>2, <1>3, <1>5 DEF RunsInv

LEMMA StopKeeps == StopProcess => RunsInv'
<1> SUFFICES ASSUME StopProcess
             PROVE  RunsInv'
  OBVIOUS
<1>1. /\ pc' = [r \in Runs |-> "idle"] /\ plan' = [r \in Runs |-> <<>>]
      /\ assigned' = [r \in Runs |-> <<>>] /\ index' = [r \in Runs |-> 1]
      /\ disturbed' = {} /\ orphaned' = {} /\ leases' = NoLeases
  BY DEF StopProcess, Stop
<1>2. <<>> \in Seq(Lease) /\ Len(<<>>) = 0
  OBVIOUS
<1>3. RunTypes' /\ DownIsIdle' /\ Disturbance'
  BY <1>1, <1>2 DEF RunTypes, DownIsIdle, Disturbance, Steps
<1>4. Shape'
  BY <1>1, <1>2 DEF Shape, Fits, Working
<1>5. Held' = [r \in Runs |-> {}]
  <2>1. Held' = [r \in Runs |-> HeldAt(pc'[r], plan'[r], assigned'[r], index'[r])]
    BY DEF Held, HeldAt
  <2>2. \A r \in Runs : HeldAt(pc'[r], plan'[r], assigned'[r], index'[r]) = {}
    BY <1>1, HeldNothing
  <2>3. QED
    BY <2>1, <2>2
<1>6. Sound(Held, leases, orphaned, disturbed)'
  BY <1>1, <1>5 DEF Sound, NoLeases
<1>7. QED
  BY <1>3, <1>4, <1>6 DEF RunsInv

\* The operator's calls.
LEMMA OperatorKeeps ==
  ASSUME RouterInv, RunsInv, OperatorStep
  PROVE  RunsInv'
<1>1. leases \in [Tasks -> Lease \cup {None}] /\ orphaned \subseteq Tasks
  BY DEF RouterInv, RouterTypeOK, RunsInv, RunTypes
<1>2. PICK ok \in SaveOutcomes :
        \/ \E worker \in Workers : Mark(worker, ok)
        \/ Refresh(ok)
        \/ \E task \in Tasks : Fail(task, ok)
        \/ Reset(ok)
  BY DEF OperatorStep
<1>3. ASSUME NEW worker \in Workers, Mark(worker, ok)
      PROVE  RunsInv'
  <2>1. /\ up' = up /\ leases' = leases /\ UNCHANGED history
        /\ UNCHANGED <<pc, plan, assigned, index>>
    BY <1>3 DEF Mark, MarkFailed, MarkHealthy
  <2>2. QED
    BY <2>1, OutsideKeeps
<1>4. CASE Refresh(ok)
  <2>1. /\ up' = up /\ leases' = leases /\ UNCHANGED history
        /\ UNCHANGED <<pc, plan, assigned, index>>
    BY <1>4 DEF Refresh, RefreshHealth, memory
  <2>2. QED
    BY <2>1, OutsideKeeps
<1>5. ASSUME NEW task \in Tasks, Fail(task, ok)
      PROVE  RunsInv'
  <2>1. /\ up' = up /\ leases' = [leases EXCEPT ![task] = None]
        /\ orphaned' = orphaned \ {task} /\ disturbed' = Active
        /\ UNCHANGED <<pc, plan, assigned, index>>
    BY <1>5 DEF Fail, FailCurrentWorker, Without
  <2>2. \A t \in Tasks : leases'[t] # None =>
          leases'[t] = leases[t] /\ (t \in orphaned => t \in orphaned')
    BY <1>1, <2>1
  <2>3. QED
    BY <1>1, <2>1, <2>2, OutsideKeeps
<1>6. CASE Reset(ok)
  <2>1. /\ up' = up /\ leases' = NoLeases /\ orphaned' = {} /\ disturbed' = Active
        /\ UNCHANGED <<pc, plan, assigned, index>>
    BY <1>6 DEF Reset, ResetRuntimeState
  <2>2. \A t \in Tasks : leases'[t] # None =>
          leases'[t] = leases[t] /\ (t \in orphaned => t \in orphaned')
    BY <2>1 DEF NoLeases
  <2>3. QED
    BY <2>1, <2>2, OutsideKeeps
<1>7. QED
  BY <1>2, <1>3, <1>4, <1>5, <1>6

\* Every step keeps the invariant of the runs.
LEMMA RunsStep == RouterInv /\ RunsInv /\ [Next]_vars => RunsInv'
<1> SUFFICES ASSUME RouterInv, RunsInv, [Next]_vars
             PROVE  RunsInv'
  OBVIOUS
<1>1. ASSUME NEW r \in Runs, NEW p \in Plans, Begin(r, p)
      PROVE  RunsInv'
  BY <1>1, BeginKeeps
<1>2. ASSUME NEW r \in Runs, RunStep(r)
      PROVE  RunsInv'
  BY <1>2, AssignKeeps, QuietSteps, UndoKeeps, ReleaseNextKeeps, EndKeeps DEF RunStep
<1>3. ASSUME NEW loaded \in {stateFile, EmptyState}, StartProcess(loaded)
      PROVE  RunsInv'
  BY <1>3, StartKeeps
<1>4. CASE StopProcess
  BY <1>4, StopKeeps
<1>5. ASSUME NEW report \in HealthReports, Check(report)
      PROVE  RunsInv'
  <2>1. /\ up' = up /\ leases' = leases /\ UNCHANGED history
        /\ UNCHANGED <<pc, plan, assigned, index>>
    BY <1>5 DEF Check, HealthCheck, memory
  <2>2. QED
    BY <2>1, OutsideKeeps
<1>6. CASE OperatorStep
  BY <1>6, OperatorKeeps
<1>7. CASE UNCHANGED vars
  <2>1. /\ up' = up /\ leases' = leases /\ UNCHANGED history
        /\ UNCHANGED <<pc, plan, assigned, index>>
    BY <1>7 DEF vars, routerVars, memory
  <2>2. QED
    BY <2>1, OutsideKeeps
<1>8. QED
  BY <1>1, <1>2, <1>3, <1>4, <1>5, <1>6, <1>7 DEF Next

LEMMA InitRuns == Init => RouterInv /\ RunsInv
<1> SUFFICES ASSUME Init
             PROVE  RouterInv /\ RunsInv
  OBVIOUS
<1>1. RouterInv
  BY InitRouter DEF Init
<1>2. RunsInv
  BY FreshRuns DEF Init, RouterInit
<1>3. QED
  BY <1>1, <1>2

(***************************************************************************)
(* The theorems.                                                           *)
(***************************************************************************)

\* The invariant of the runs and the router together.
THEOREM DispatchInvariance == Spec => [](RouterInv /\ RunsInv)
<1>1. RouterInv /\ RunsInv /\ [Next]_vars => (RouterInv /\ RunsInv)'
  <2> SUFFICES ASSUME RouterInv, RunsInv, [Next]_vars
               PROVE  RouterInv' /\ RunsInv'
    OBVIOUS
  <2>1. [RouterNext]_routerVars
    BY StepIsCall DEF RunsInv
  <2>2. QED
    BY <2>1, RouterStep, RunsStep
<1>2. QED
  BY <1>1, InitRuns, PTL DEF Spec

\* No two tasks ever share a worker, in memory or in the state file, whatever the
\* runs, the operator, the health checks and failing saves do.
THEOREM LeasesAreExclusive == Spec => []OneLeasePerWorker
<1>1. RouterInv => OneLeasePerWorker
  BY DEF RouterInv
<1>2. QED
  BY <1>1, DispatchInvariance, PTL

\* The standby fields and the lease table never disagree.
THEOREM StandbyIsAccounted == Spec => []StandbyAccounted
<1>1. RouterInv => StandbyAccounted
  BY DEF RouterInv
<1>2. QED
  BY <1>1, DispatchInvariance, PTL

\* Every variable has its type, and the assignments fit the plan.
THEOREM TypeCorrectness == Spec => []TypeOK
<1>1. RouterInv /\ RunsInv => TypeOK
  <2> SUFFICES ASSUME RouterInv, RunsInv
               PROVE  TypeOK
    OBVIOUS
  <2>1. RouterTypeOK /\ RunTypes
    BY DEF RouterInv, RunsInv
  <2>2. \A r \in Runs :
          /\ pc[r] = "idle" <=> plan[r] = <<>>
          /\ pc[r] \in Working => Len(assigned[r]) = Len(plan[r]) /\ index[r] <= Len(plan[r])
    BY DEF RunsInv, Shape, Fits
  <2>3. disturbed \subseteq Active
    BY DEF RunsInv, Disturbance, Active
  <2>4. QED
    BY <2>1, <2>2, <2>3 DEF TypeOK, RunTypes
<1>2. QED
  BY <1>1, DispatchInvariance, PTL

\* Unless an operator interferes, a run has its leases until it releases them.
THEOREM RunsHoldTheirLeases == Spec => []RunHoldsItsLeases
<1>1. RouterInv /\ RunsInv => RunHoldsItsLeases
  <2> SUFFICES ASSUME RouterInv, RunsInv, NEW r \in Runs \ disturbed,
                      NEW i \in DOMAIN assigned[r], Holds(r, i)
               PROVE  leases[plan[r][i].task] = assigned[r][i]
    BY DEF RunHoldsItsLeases
  <2>1. assigned[r] \in Seq(Lease) /\ DOMAIN assigned[r] = 1..Len(assigned[r])
    <3>1. assigned[r] \in Seq(Lease)
      BY RunValues
    <3> HIDE DEF Lease
    <3>2. QED
      BY <3>1
  <2>2. <<plan[r][i].task, assigned[r][i]>> \in Held[r]
    BY <2>1 DEF Held, HeldAt, Holds
  <2>3. pc[r] # "idle"
    <3>1. SUFFICES ASSUME pc[r] = "idle"
                   PROVE  FALSE
      OBVIOUS
    <3>2. assigned[r] = <<>>
      BY <3>1 DEF RunsInv, Shape, Fits
    <3>3. Len(<<>>) = 0
      OBVIOUS
    <3>4. QED
      BY <2>1, <3>2, <3>3
  <2>4. disturbed = {}
    BY <2>3 DEF RunsInv, Disturbance, Active
  <2>5. QED
    BY <2>2, <2>4 DEF RunsInv, Sound
<1>2. QED
  BY <1>1, DispatchInvariance, PTL

\* A save writes the whole table, or nothing.
LEMMA FileFollows ==
  ASSUME [RouterNext]_routerVars
  PROVE  stateFile' = stateFile \/ stateFile'.leases = leases'
<1>0. ASSUME NEW ok, Save(ok)
      PROVE  stateFile' = stateFile \/ stateFile'.leases = leases'
  BY <1>0 DEF Save
<1>. QED
  BY <1>0 DEF RouterNext, Construct, Stop, HealthCheck, Acquire, Release, FailCurrentWorker,
              MarkFailed, MarkHealthy, RefreshHealth, ResetRuntimeState, routerVars

\* What a run holds after a step it held before, or the step has saved it.
LEMMA HeldBefore ==
  ASSUME RouterInv, RunsInv, [Next]_vars,
         NEW r \in Runs, r \notin disturbed', NEW i \in DOMAIN assigned'[r], Holds(r, i)'
  PROVE  \/ stateFile'.leases = leases'
         \/ /\ r \notin disturbed /\ i \in DOMAIN assigned[r] /\ Holds(r, i)
            /\ plan'[r] = plan[r] /\ assigned'[r][i] = assigned[r][i]
<1> DEFINE Before == /\ r \notin disturbed /\ i \in DOMAIN assigned[r] /\ Holds(r, i)
                     /\ plan'[r] = plan[r] /\ assigned'[r][i] = assigned[r][i]
           Same == UNCHANGED <<pc, plan, assigned, index>>
<1>t. /\ pc \in [Runs -> Steps] /\ DOMAIN plan = Runs /\ DOMAIN assigned = Runs
      /\ DOMAIN index = Runs /\ index[r] \in Nat \ {0} /\ assigned[r] \in Seq(Lease)
      /\ i \in DOMAIN assigned'[r] /\ r \notin disturbed'
      /\ pc'[r] = "release" => i >= index'[r]
  BY RunValues DEF Holds
<1>0. DOMAIN <<>> = {}
  OBVIOUS
<1>i. pc[r] = "idle" => assigned[r] = <<>>
  BY DEF RunsInv, Shape, Fits
<1>1. ASSUME NEW q \in Runs, NEW p \in Plans, Begin(q, p) PROVE Before
  BY <1>t, <1>0, <1>i, <1>1 DEF Begin, Goto, Holds
<1>2. ASSUME NEW q \in Runs, Assign(q) PROVE stateFile'.leases = leases' \/ Before
  <2>1. PICK ok \in SaveOutcomes, lease \in Lease :
          /\ Acquire(plan[q][index[q]].role, NextTask(q), lease, ok)
          /\ ~ok => UNCHANGED assigned /\ Goto(q, "undo")
    BY <1>2 DEF Assign
  <2>2. CASE ok
    BY <2>1, <2>2 DEF Acquire, Save
  <2>3. CASE ~ok
    <3>1. UNCHANGED <<plan, disturbed, assigned>> /\ pc[q] = "assign" /\ Goto(q, "undo")
      BY <1>2, <2>1, <2>3 DEF Assign
    <3>2. index' = index
      BY <1>2, <1>t, <3>1 DEF Assign, Goto
    <3>. QED  BY <1>t, <3>1, <3>2 DEF Goto, Holds
  <2>. QED  BY <2>2, <2>3
<1>3. ASSUME NEW q \in Runs, Undo(q) PROVE Before
  <2>1. CASE q = r
    <3>1. /\ pc[r] = "undo" /\ Len(assigned[r]) > 0 /\ UNCHANGED <<plan, disturbed>>
          /\ assigned'[r] = SubSeq(assigned[r], 1, Len(assigned[r]) - 1)
      BY <1>3, <1>t, <2>1 DEF Undo
    <3>2. Len(assigned[r]) \in Nat /\ DOMAIN assigned[r] = 1..Len(assigned[r])
      <4> HIDE DEF Lease
      <4>1. QED  BY <1>t
    <3>3. /\ i \in 1..Len(assigned[r])
          /\ SubSeq(assigned[r], 1, Len(assigned[r]) - 1)[i] = assigned[r][i]
      <4> HIDE DEF Lease
      <4>1. QED  BY <1>t, <3>1, <3>2
    <3>. QED  BY <1>t, <3>1, <3>2, <3>3 DEF Holds
  <2>2. CASE q # r
    BY <1>3, <1>t, <2>2 DEF Undo, Holds
  <2>. QED  BY <2>1, <2>2
<1>4. ASSUME NEW q \in Runs, AssignRaises(q) PROVE Before
  BY <1>t, <1>4 DEF AssignRaises, Goto, Holds, history
<1>5. ASSUME NEW q \in Runs, Prepare(q) \/ Launch(q) \/ Finish(q) PROVE Before
  BY <1>t, <1>5 DEF Prepare, Launch, Finish, ToRelease, Goto, Holds, history
<1>6. ASSUME NEW q \in Runs, ReleaseNext(q) PROVE Before
  <2>1. UNCHANGED <<pc, plan, assigned, disturbed>> /\ index' = [index EXCEPT ![q] = @ + 1]
    BY <1>6 DEF ReleaseNext
  <2>2. i \in Nat
    <3> HIDE DEF Lease
    <3>1. QED  BY <1>t, <2>1
  <2>3. index'[r] >= index[r] /\ index'[r] \in Nat
    BY <1>t, <2>1
  <2>. QED  BY <1>t, <2>1, <2>2, <2>3 DEF Holds
<1>7. ASSUME NEW q \in Runs, End(q) PROVE Before
  BY <1>t, <1>0, <1>7 DEF End, Goto, Holds
<1>8. ASSUME NEW q \in Runs, AssignFails(q) \/ ReleaseRaises(q) \/ Return(q) PROVE Before
  BY <1>7, <1>8 DEF AssignFails, ReleaseRaises, Return
<1>9. ASSUME NEW loaded, StartProcess(loaded) PROVE Before
  BY <1>t, <1>9 DEF StartProcess, Holds
<1>10. ASSUME StopProcess PROVE Before
  BY <1>t, <1>0, <1>10 DEF StopProcess
<1>11. ASSUME NEW report, Check(report) PROVE Before
  BY <1>t, <1>11 DEF Check, Holds, history
<1>12. ASSUME OperatorStep PROVE Before
  <2>1. Same /\ (disturbed' = disturbed \/ disturbed' = Active)
    BY <1>12 DEF OperatorStep, Mark, Refresh, Fail, Reset, history
  <2>2. pc[r] # "idle"
    BY <1>t, <1>0, <1>i, <2>1
  <2>3. r \notin disturbed
    BY <1>t, <2>1, <2>2 DEF Active, RunsInv, Disturbance
  <2>. QED  BY <1>t, <2>1, <2>3 DEF Holds
<1>13. ASSUME UNCHANGED vars PROVE Before
  BY <1>t, <1>13 DEF vars, history, Holds
<1>. QED
  BY <1>1, <1>2, <1>3, <1>4, <1>5, <1>6, <1>8, <1>9, <1>10, <1>11, <1>12, <1>13
  DEF Next, RunStep

\* Unless an operator interferes, what a run holds outlives the process: the state
\* file has it.
THEOREM LeasesSurvive == Spec => []LeasesAreOnRecord
<1>1. Init => LeasesAreOnRecord
  <2>1. DOMAIN <<>> = {}
    OBVIOUS
  <2>. QED  BY <2>1 DEF Init, LeasesAreOnRecord
<1>2. /\ RouterInv /\ RunsInv /\ RunHoldsItsLeases' /\ LeasesAreOnRecord /\ [Next]_vars
      => LeasesAreOnRecord'
  <2> SUFFICES ASSUME RouterInv, RunsInv, RunHoldsItsLeases', LeasesAreOnRecord, [Next]_vars,
                      NEW r \in Runs, r \notin disturbed',
                      NEW i \in DOMAIN assigned'[r], Holds(r, i)'
               PROVE  stateFile'.leases[plan'[r][i].task] = assigned'[r][i]
    BY DEF LeasesAreOnRecord
  <2>1. leases'[plan'[r][i].task] = assigned'[r][i]
    BY DEF RunHoldsItsLeases
  <2>2. stateFile' = stateFile \/ stateFile'.leases = leases'
    BY StepIsCall, FileFollows DEF RunsInv
  <2>3. CASE stateFile' = stateFile /\ stateFile'.leases # leases'
    BY <2>3, HeldBefore DEF LeasesAreOnRecord
  <2>. QED  BY <2>1, <2>2, <2>3
<1>3. QED
  BY <1>1, <1>2, DispatchInvariance, RunsHoldTheirLeases, PTL DEF Spec

\* A lease that no run will give back was loaded from the file or left by a save
\* that failed.
THEOREM NothingLeaks == Spec => []NoLeak
<1>1. RouterInv /\ RunsInv => NoLeak
  <2> SUFFICES ASSUME RouterInv, RunsInv, NEW task \in Tasks \ orphaned, leases[task] # None
               PROVE  \E r \in Runs : \E i \in DOMAIN assigned[r] :
                        Holds(r, i) /\ plan[r][i].task = task /\ assigned[r][i] = leases[task]
    BY DEF NoLeak
  <2>1. PICK r \in Runs : <<task, leases[task]>> \in Held[r]
    BY DEF RunsInv, Sound
  <2>2. PICK i \in 1..Len(assigned[r]) :
          /\ pc[r] = "release" => i >= index[r]
          /\ <<task, leases[task]>> = <<plan[r][i].task, assigned[r][i]>>
    BY <2>1 DEF Held, HeldAt
  <2>3. i \in DOMAIN assigned[r]
    BY <2>2, RunValues
  <2>4. QED
    BY <2>2, <2>3 DEF Holds
<1>2. QED
  BY <1>1, DispatchInvariance, PTL

\* A task is launched under a lease it has: no other task has its worker then, even
\* if an operator has reset the table since the assignment.
THEOREM LaunchesAreExclusive == Spec => LaunchIsExclusive
<1>1. RouterInv /\ RunsInv /\ [Next]_vars =>
        [\A r \in Runs : pc[r] # "running" /\ pc'[r] = "running" =>
           \A task \in Tasks \ {NextTask(r)} :
             leases[task] # None => leases[task].worker # assigned[r][index[r]].worker]_vars
  <2> SUFFICES ASSUME RouterInv, RunsInv, Next, NEW r \in Runs,
                      pc[r] # "running", pc'[r] = "running",
                      NEW task \in Tasks \ {NextTask(r)}, leases[task] # None
               PROVE  leases[task].worker # assigned[r][index[r]].worker
    OBVIOUS
  <2>1. pc \in [Runs -> Steps]
    BY SMTT(40) DEF RunsInv, RunTypes
  <2>2. \E q \in Runs : Launch(q) /\ pc' = [pc EXCEPT ![q] = "running"]
    BY <2>1
    DEF Next, RunStep, Begin, Assign, AssignRaises, Undo, AssignFails, Prepare, Launch, Finish,
        ReleaseNext, ReleaseRaises, Return, End, Goto, ToRelease, StartProcess, StopProcess,
        Check, OperatorStep, Mark, Refresh, Fail, Reset
  <2>3. Launch(r) /\ pc' = [pc EXCEPT ![r] = "running"]
    BY <2>1, <2>2
  <2>4. LeaseStands(r) /\ pc[r] \in Working
    BY <2>1, <2>3 DEF Launch, Goto, ToRelease, Working
  <2>5. NextTask(r) \in Tasks
    BY <2>4, AtTask DEF RunsInv
  <2>6. QED
    BY <2>4, <2>5 DEF LeaseStands, RouterInv, OneLeasePerWorker, Exclusive
<1>2. QED
  BY <1>1, DispatchInvariance, PTL DEF Spec, LaunchIsExclusive

(***************************************************************************)
(* Saves that succeed.  WorkerLeasesAreReleased shows that a lease can     *)
(* outlive its run; only a save that fails makes that happen.              *)
(***************************************************************************)

\* What release_all has been through is nobody's lost lease.
ReleasedInv ==
  \A r \in Runs : pc[r] = "release" =>
    \A i \in DOMAIN assigned[r] : i < index[r] => plan[r][i].task \notin orphaned

\* A task of r that is held: the run that will give it back is another one.
HeldByAnother(r, task) ==
  \E s \in Runs \ {r} : \E j \in DOMAIN assigned[s] :
    Holds(s, j) /\ plan[s][j].task = task /\ assigned[s][j] = leases[task]

\* A run that is in release_all afterwards was there before and has at most passed
\* one task, or comes to it now; and no lease is lost meanwhile.
LEMMA ReleasingStep ==
  ASSUME SaveOutcomes = {TRUE}, RunsInv, [Next]_vars, NEW r \in Runs, pc'[r] = "release"
  PROVE  \/ index'[r] = 1
         \/ /\ pc[r] = "release" /\ plan'[r] = plan[r] /\ assigned'[r] = assigned[r]
            /\ orphaned' \subseteq orphaned
            /\ \/ index'[r] = index[r]
               \/ index'[r] = index[r] + 1 /\ plan[r][index[r]].task \notin orphaned'
<1> DEFINE Stays == /\ plan'[r] = plan[r] /\ assigned'[r] = assigned[r]
                    /\ index'[r] = index[r] /\ pc[r] = "release"
           Goal == \/ index'[r] = 1
                   \/ /\ pc[r] = "release" /\ plan'[r] = plan[r] /\ assigned'[r] = assigned[r]
                      /\ orphaned' \subseteq orphaned
                      /\ \/ index'[r] = index[r]
                         \/ index'[r] = index[r] + 1 /\ plan[r][index[r]].task \notin orphaned'
<1>1. /\ pc \in [Runs -> Steps] /\ DOMAIN plan = Runs /\ DOMAIN assigned = Runs
      /\ DOMAIN index = Runs /\ (~up => \A q \in Runs : pc[q] = "idle")
  BY DEF RunsInv, RunTypes, DownIsIdle
<1>2. ASSUME NEW q \in Runs, NEW p \in Plans, Begin(q, p) PROVE Goal
  BY <1>1, <1>2 DEF Begin, Goto
<1>3. ASSUME NEW q \in Runs, Assign(q) PROVE Goal
  <2>1. orphaned' \subseteq orphaned
    BY <1>3 DEF Assign
  <2>2. pc'[q] # "release" /\ (q # r => Stays)
    BY <1>1, <1>3 DEF Assign, Goto
  <2>. QED BY <2>1, <2>2
<1>4. ASSUME NEW q \in Runs, AssignRaises(q) \/ Undo(q) \/ AssignFails(q) PROVE Goal
  BY <1>1, <1>4 DEF AssignRaises, Undo, AssignFails, End, Goto, history
<1>5. ASSUME NEW q \in Runs, Prepare(q) \/ Launch(q) \/ Finish(q) PROVE Goal
  BY <1>1, <1>5 DEF Prepare, Launch, Finish, ToRelease, Goto, history
<1>6. ASSUME NEW q \in Runs, ReleaseNext(q) PROVE Goal
  BY <1>1, <1>6 DEF ReleaseNext
<1>7. ASSUME NEW q \in Runs, ReleaseRaises(q) PROVE Goal
  BY <1>7 DEF ReleaseRaises
<1>8. ASSUME NEW q \in Runs, Return(q) PROVE Goal
  BY <1>1, <1>8 DEF Return, End, Goto
<1>9. ASSUME NEW loaded, StartProcess(loaded) PROVE Goal
  BY <1>1, <1>9 DEF StartProcess, Construct
<1>10. CASE StopProcess
  BY <1>10 DEF StopProcess
<1>11. ASSUME NEW report, Check(report) PROVE Goal
  BY <1>11 DEF Check, history
<1>12. CASE OperatorStep
  BY <1>12 DEF OperatorStep, Mark, Refresh, Fail, Reset, history
<1>13. CASE UNCHANGED vars
  BY <1>13 DEF vars, history
<1>. QED
  BY <1>2, <1>3, <1>4, <1>5, <1>6, <1>7, <1>8, <1>9, <1>10, <1>11, <1>12, <1>13
  DEF Next, RunStep

\* Every step keeps it: with saves that succeed only a start adds to what is orphaned,
\* and no run is in release_all then.
LEMMA ReleasedStep ==
  ASSUME SaveOutcomes = {TRUE}, RouterInv, RunsInv, ReleasedInv, [Next]_vars
  PROVE  ReleasedInv'
<1> SUFFICES ASSUME NEW r \in Runs, pc'[r] = "release",
                    NEW i \in DOMAIN assigned'[r], i < index'[r]
             PROVE  plan'[r][i].task \notin orphaned'
  BY DEF ReleasedInv
<1>1. /\ assigned'[r] \in Seq(Lease) /\ i \in Nat \ {0}
  <2>1. RunTypes'
    BY RunsStep DEF RunsInv
  <2>. QED  BY <2>1 DEF RunTypes
<1>2. CASE index'[r] = 1
  BY <1>1, <1>2
<1>3. CASE /\ pc[r] = "release" /\ plan'[r] = plan[r] /\ assigned'[r] = assigned[r]
           /\ orphaned' \subseteq orphaned /\ index'[r] = index[r]
  BY <1>3 DEF ReleasedInv
<1>4. CASE /\ pc[r] = "release" /\ plan'[r] = plan[r] /\ assigned'[r] = assigned[r]
           /\ orphaned' \subseteq orphaned /\ index'[r] = index[r] + 1
           /\ plan[r][index[r]].task \notin orphaned'
  <2>1. index[r] \in Nat
    BY DEF RunsInv, RunTypes
  <2>2. i = index[r] \/ i < index[r]
    BY <1>1, <1>4, <2>1
  <2>. QED  BY <1>4, <2>2 DEF ReleasedInv
<1>. QED
  BY <1>2, <1>3, <1>4, ReleasingStep


\* A run ends with nothing assigned to it, or after it has been through all of its
\* tasks; its last step changes neither the table nor what is orphaned.
LEMMA EndingStep ==
  ASSUME SaveOutcomes = {TRUE}, RunsInv, Next,
         NEW r \in Runs, pc[r] # "idle", pc'[r] = "idle", up'
  PROVE  /\ assigned'[r] = <<>>
         /\ assigned[r] # <<>> => /\ pc[r] = "release" /\ index[r] > Len(assigned[r])
                                  /\ orphaned' = orphaned
<1>1. /\ pc \in [Runs -> Steps] /\ DOMAIN assigned = Runs
  BY DEF RunsInv, RunTypes
<1>2. AssignFails(r) \/ Return(r)
  <2>1. \A q \in Runs : pc' = [pc EXCEPT ![q] = "idle"] => q = r
    BY <1>1
  <2>2. \A q \in Runs, step \in Steps \ {"idle"} : pc' # [pc EXCEPT ![q] = step]
    BY <1>1
  <2>3. pc' # pc
    OBVIOUS
  <2>4. ASSUME NEW q \in Runs, RunStep(q)
        PROVE  AssignFails(q) \/ Return(q)
    BY <2>2, <2>3, <2>4
    DEF RunStep, Assign, AssignRaises, Undo, Prepare, Launch, Finish, ReleaseNext, ReleaseRaises,
        Goto, ToRelease, Steps
  <2>5. ASSUME NEW q \in Runs, AssignFails(q) \/ Return(q)
        PROVE  q = r
    BY <2>1, <2>5 DEF AssignFails, Return, End, Goto
  <2>6. ~\E q \in Runs, p \in Plans : Begin(q, p)
    BY <2>2 DEF Begin, Goto, Steps
  <2>7. /\ ~\E loaded \in {stateFile, EmptyState} : StartProcess(loaded)
        /\ ~\E report \in HealthReports : Check(report)
        /\ ~OperatorStep
    BY <2>3 DEF StartProcess, Check, OperatorStep, Mark, Refresh, Fail, Reset
  <2>8. ~StopProcess
    BY DEF StopProcess, Stop
  <2>. QED
    BY <2>4, <2>5, <2>6, <2>7, <2>8 DEF Next
<1>. QED
  BY <1>1, <1>2 DEF AssignFails, Return, End

\* A run whose saves all succeed leaves no lease: of whatever task it was assigned a
\* worker for, a lease in the table when it ends belongs to another run of that task.
THEOREM SavedLeasesAreReleased ==
  ASSUME SaveOutcomes = {TRUE}
  PROVE  Spec => [][\A r \in Runs : pc[r] # "idle" /\ pc'[r] = "idle" /\ up' =>
                      \A i \in DOMAIN assigned[r], task \in Tasks :
                        plan[r][i].task = task /\ leases'[task] # None =>
                          HeldByAnother(r, task)']_vars
<1> DEFINE Ended(r) == \A i \in DOMAIN assigned[r], task \in Tasks :
                         plan[r][i].task = task /\ leases'[task] # None =>
                           HeldByAnother(r, task)'
<1>1. Init => ReleasedInv
  BY DEF Init, ReleasedInv
<1>2. RouterInv /\ RunsInv /\ ReleasedInv /\ [Next]_vars => ReleasedInv'
  BY ReleasedStep
<1>3. ReleasedInv /\ RouterInv /\ RunsInv /\ NoLeak' /\ [Next]_vars =>
        [\A r \in Runs : pc[r] # "idle" /\ pc'[r] = "idle" /\ up' => Ended(r)]_vars
  <2> SUFFICES ASSUME ReleasedInv, RouterInv, RunsInv, NoLeak', Next,
                      NEW r \in Runs, pc[r] # "idle", pc'[r] = "idle", up',
                      NEW i \in DOMAIN assigned[r], NEW task \in Tasks,
                      plan[r][i].task = task, leases'[task] # None
               PROVE  HeldByAnother(r, task)'
    OBVIOUS
  <2>1. /\ assigned[r] \in Seq(Lease) /\ index[r] \in Nat
    BY RunValues
  <2>2. assigned[r] # <<>> /\ i \in 1..Len(assigned[r])
    BY <2>1
  <2>3. /\ assigned'[r] = <<>> /\ orphaned' = orphaned
        /\ pc[r] = "release" /\ index[r] > Len(assigned[r])
    BY <2>2, EndingStep
  <2>4. i < index[r]
    BY <2>1, <2>2, <2>3
  <2>5. task \notin orphaned'
    BY <2>3, <2>4 DEF ReleasedInv
  <2>6. PICK s \in Runs : \E j \in DOMAIN assigned'[s] :
          Holds(s, j)' /\ plan'[s][j].task = task /\ assigned'[s][j] = leases'[task]
    BY <2>5 DEF NoLeak
  <2>7. s # r
    BY <2>3, <2>6
  <2>. QED
    BY <2>6, <2>7 DEF HeldByAnother
<1>. QED
  BY <1>1, <1>2, <1>3, DispatchInvariance, NothingLeaks, PTL DEF Spec

\* Where only one run is ever under way, the lease it ends with is not in the table.
THEOREM LoneRunReleases ==
  ASSUME SaveOutcomes = {TRUE}, \A r, s \in Runs : r = s
  PROVE  Spec => LeasesAreReleased
<1>1. RouterInv /\ RunsInv
      /\ [\A r \in Runs : pc[r] # "idle" /\ pc'[r] = "idle" /\ up' =>
            \A i \in DOMAIN assigned[r], task \in Tasks :
              plan[r][i].task = task /\ leases'[task] # None => HeldByAnother(r, task)']_vars
      => [\A r \in Runs : pc[r] # "idle" /\ pc'[r] = "idle" /\ up' =>
            \A i \in DOMAIN assigned[r] : leases'[plan[r][i].task] # assigned[r][i]]_vars
  <2> SUFFICES ASSUME RouterInv, RunsInv, NEW r \in Runs, pc[r] # "idle",
                      \A i \in DOMAIN assigned[r], task \in Tasks :
                        plan[r][i].task = task /\ leases'[task] # None => HeldByAnother(r, task)',
                      NEW i \in DOMAIN assigned[r]
               PROVE  leases'[plan[r][i].task] # assigned[r][i]
    OBVIOUS
  <2>1. assigned[r] \in Seq(Lease) /\ plan[r][i].task \in Tasks
    <3>1. RunTypes /\ Shape /\ assigned[r] \in Seq(Lease)
      BY RunValues
    <3>. QED  BY <3>1, AtTask
  <2>2. assigned[r][i] # None
    BY <2>1, NoneIsNoLease
  <2>3. \A task : ~HeldByAnother(r, task)'
    BY DEF HeldByAnother
  <2>. QED  BY <2>1, <2>2, <2>3
<1>. QED
  BY <1>1, SavedLeasesAreReleased, DispatchInvariance, PTL DEF LeasesAreReleased

=============================================================================
