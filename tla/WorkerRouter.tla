---------------------------- MODULE WorkerRouter ----------------------------
(***************************************************************************)
(* The lease table of src/worker_router.py: one WorkerRouter object, its   *)
(* state file and the health file it reads.                                *)
(*                                                                         *)
(* A task gets a worker of its role's pool, or, when none is left, the one *)
(* standby worker that may be active at a time.  Every method holds the    *)
(* object's lock throughout, so a call is one step.  A call that cannot    *)
(* save the state file raises and keeps what it did to the memory.         *)
(*                                                                         *)
(* A health report gives each worker the status the health file does: a    *)
(* worker is healthy if the file lists it as such and not as failed.  What *)
(* _load_health copies from it is no variable: every method that reads the *)
(* copies reloads them first, so that what mark_failed and mark_healthy    *)
(* write to them is lost.                                                  *)
(***************************************************************************)
EXTENDS Naturals, Sequences

CONSTANTS
  Workers,        \* connection ids
  Roles,          \* REQUIRED_ROLES
  Tasks,          \* task ids
  Registries,     \* what the registry may hold when a process starts
  HealthReports,  \* what groq_worker_health.json may hold
  Unreadable,     \* a health file that is missing, malformed or of another provider
  None,           \* no lease, no worker, no role
  SaveOutcomes    \* {TRUE} if every save succeeds, {TRUE, FALSE} if not

Standby == "standby"
Pools == Roles \cup {Standby}
Lease == [worker : Workers, role : Roles, standby : BOOLEAN]

Members(pools, pool) == {pools[pool][i] : i \in DOMAIN pools[pool]}
Configured(pools) == UNION {Members(pools, pool) : pool \in Pools}

\* _load_configuration: no worker is listed twice, and no pool is empty.
ASSUME RegistriesAssumption ==
  \A pools \in Registries :
    /\ pools \in [Pools -> Seq(Workers)]
    /\ \A p, q \in Pools : \A i \in DOMAIN pools[p], j \in DOMAIN pools[q] :
         pools[p][i] = pools[q][j] => p = q /\ i = j
    /\ \A p \in Pools : pools[p] # <<>>
Report == [Workers -> {"HEALTHY", "FAILED"}]
ASSUME HealthAssumption == HealthReports \subseteq Report \cup {Unreadable}
ASSUME WorkerConstantsAssumption ==
  /\ Standby \notin Roles
  /\ None \notin Workers /\ None \notin Roles
  /\ None \notin [worker : Workers \cup {None}, role : Roles \cup {None}, standby : BOOLEAN]
  /\ Unreadable \notin Report
  /\ TRUE \in SaveOutcomes /\ SaveOutcomes \subseteq BOOLEAN

VARIABLES
  health,         \* groq_worker_health.json
  stateFile,      \* worker_router_state.json
  up,             \* the object exists
  registry,       \* worker_pools
  failed,         \* runtime_failed_connections
  leases,         \* the lease table
  standbyFor,     \* active_standby_for
  standbyWorker   \* active_standby_worker

memory     == <<registry, failed, leases, standbyFor, standbyWorker>>
routerVars == <<health, stateFile, up, memory>>

NoLeases   == [task \in Tasks |-> None]
NoPools    == [pool \in Pools |-> <<>>]
EmptyState == [failed |-> {}, leases |-> NoLeases,
               standbyFor |-> None, standbyWorker |-> None]

(***************************************************************************)
(* Availability.                                                           *)
(***************************************************************************)

\* _worker_is_leased
Leased(worker) == \E task \in Tasks : leases[task] # None /\ leases[task].worker = worker

\* Mutant: the lease table is not consulted.
AvailableUnleased(worker) ==
  /\ health # Unreadable
  /\ health[worker] = "HEALTHY" /\ worker \notin failed

\* _healthy_for_role, of one worker of a pool.
Available(worker) ==
  /\ health # Unreadable
  /\ health[worker] = "HEALTHY" /\ worker \notin failed
  /\ ~Leased(worker)

Exhausted(pool) == \A worker \in Members(registry, pool) : ~Available(worker)

FirstAvailable(worker, pool) ==
  \E i \in DOMAIN registry[pool] :
    /\ worker = registry[pool][i]
    /\ Available(worker)
    /\ \A j \in 1..(i-1) : ~Available(registry[pool][j])

\* One standby at a time, whatever its role.
StandbyIsFree == standbyWorker = None /\ standbyFor = None

\* The lease that acquire() makes, if any.
Selected(lease) ==
  IF lease.standby
    THEN /\ Exhausted(lease.role)
         /\ StandbyIsFree
         /\ FirstAvailable(lease.worker, Standby)
    ELSE FirstAvailable(lease.worker, lease.role)

(***************************************************************************)
(* Saving and loading.                                                     *)
(***************************************************************************)

\* _save_state, the last thing a method does; it raises if not ok.
Save(ok) ==
  /\ ok \in SaveOutcomes
  /\ stateFile' = IF ok THEN [failed |-> failed', leases |-> leases',
                              standbyFor |-> standbyFor', standbyWorker |-> standbyWorker']
                        ELSE stateFile

\* A lease that _normalize_state keeps for itself: its worker is in the pool it
\* was taken from.
Valid(lease, pools) ==
  lease # None /\ lease.worker \in Members(pools, IF lease.standby THEN Standby ELSE lease.role)

\* Of the leases it keeps for one worker, which one depends on their order in
\* the file.
Kept(kept, saved, pools) ==
  LET valid == {task \in Tasks : Valid(saved[task], pools)} IN
  /\ kept \subseteq valid
  /\ \A s, t \in kept : saved[s].worker = saved[t].worker => s = t
  /\ \A t \in valid : \E s \in kept : saved[s].worker = saved[t].worker

\* The standby metadata of a state file agrees with a lease of the table.
StandbyMatches(loaded, table) ==
  \E task \in Tasks :
    table[task] = [worker |-> loaded.standbyWorker, role |-> loaded.standbyFor, standby |-> TRUE]

\* __init__.  A state file that cannot be read counts as empty, and is
\* overwritten.  An unreadable health file, and a failing save, leave no object.
Construct(loaded) ==
  /\ ~up /\ up' = TRUE
  /\ health # Unreadable /\ UNCHANGED health
  /\ loaded \in {stateFile, EmptyState}
  /\ \E pools \in Registries :
       /\ registry' = pools
       /\ failed' = loaded.failed \cap Configured(pools)
       /\ \E kept \in SUBSET Tasks :
            /\ Kept(kept, loaded.leases, pools)
            /\ leases' = [task \in Tasks |-> IF task \in kept THEN loaded.leases[task] ELSE None]
  /\ standbyFor' = IF StandbyMatches(loaded, leases') THEN loaded.standbyFor ELSE None
  /\ standbyWorker' = IF StandbyMatches(loaded, leases') THEN loaded.standbyWorker ELSE None
  /\ Save(TRUE)

\* The process ends; only the files stay.
Stop ==
  /\ up /\ up' = FALSE
  /\ registry' = NoPools
  /\ failed' = {}
  /\ leases' = NoLeases
  /\ standbyFor' = None /\ standbyWorker' = None
  /\ UNCHANGED <<health, stateFile>>

\* A health check, which runs outside of the router, rewrites the health file.
HealthCheck(report) ==
  /\ health' = report
  /\ UNCHANGED <<stateFile, up, memory>>

(***************************************************************************)
(* The methods.  A call that raises before it changes anything is not a    *)
(* step of the router.                                                     *)
(***************************************************************************)

Acquire(role, task, lease, ok) ==
  /\ up /\ role \in Roles /\ leases[task] = None /\ health # Unreadable
  /\ lease.role = role /\ Selected(lease)
  /\ leases' = [leases EXCEPT ![task] = lease]
  /\ standbyFor' = IF lease.standby THEN role ELSE standbyFor
  /\ standbyWorker' = IF lease.standby THEN lease.worker ELSE standbyWorker
  /\ UNCHANGED <<health, up, registry, failed>>
  /\ Save(ok)

\* acquire() raises before it changes anything: an unknown role, a task that has
\* a lease, a health file that cannot be read, or no worker left.
AcquireRaises(role, task) ==
  \/ role \notin Roles
  \/ leases[task] # None
  \/ health = Unreadable
  \/ Exhausted(role) /\ (~StandbyIsFree \/ Exhausted(Standby))

\* Mutant: the standby's role is forgotten, its worker is not.
WithoutHalf(task) ==
  LET lease == leases[task] IN
  /\ leases' = [leases EXCEPT ![task] = None]
  /\ standbyFor' = IF lease.standby /\ standbyFor = lease.role THEN None ELSE standbyFor
  /\ UNCHANGED standbyWorker

\* Taking a lease out of the table, for release and fail_current_worker.
Without(task) ==
  LET lease == leases[task] IN
  /\ leases' = [leases EXCEPT ![task] = None]
  /\ standbyFor' = IF lease.standby /\ standbyFor = lease.role THEN None ELSE standbyFor
  /\ standbyWorker' = IF lease.standby /\ standbyWorker = lease.worker THEN None
                                                                      ELSE standbyWorker

Release(task, ok) ==
  /\ up /\ leases[task] # None
  /\ Without(task)
  /\ UNCHANGED <<health, up, registry, failed>>
  /\ Save(ok)

FailCurrentWorker(task, ok) ==
  /\ up /\ leases[task] # None
  /\ failed' = failed \cup {leases[task].worker}
  /\ Without(task)
  /\ UNCHANGED <<health, up, registry>>
  /\ Save(ok)

MarkFailed(worker, ok) ==
  /\ up /\ worker \in Configured(registry)
  /\ failed' = failed \cup {worker}
  /\ UNCHANGED <<health, up, registry, leases, standbyFor, standbyWorker>>
  /\ Save(ok)

MarkHealthy(worker, ok) ==
  /\ up /\ worker \in Configured(registry)
  /\ failed' = failed \ {worker}
  /\ UNCHANGED <<health, up, registry, leases, standbyFor, standbyWorker>>
  /\ Save(ok)

\* refresh_health also saves, and so may save what an earlier save did not.
RefreshHealth(ok) ==
  /\ up /\ health # Unreadable
  /\ UNCHANGED <<health, up, memory>>
  /\ Save(ok)

ResetRuntimeState(ok) ==
  /\ up
  /\ failed' = {}
  /\ leases' = NoLeases
  /\ standbyFor' = None /\ standbyWorker' = None
  /\ UNCHANGED <<health, up, registry>>
  /\ Save(ok)

(***************************************************************************)
(* A router and any callers at all.                                        *)
(***************************************************************************)

RouterInit ==
  /\ health \in HealthReports
  /\ stateFile = EmptyState
  /\ up = FALSE
  /\ registry = NoPools
  /\ failed = {}
  /\ leases = NoLeases
  /\ standbyFor = None /\ standbyWorker = None

RouterNext ==
  \/ \E loaded \in {stateFile, EmptyState} : Construct(loaded)
  \/ Stop
  \/ \E report \in HealthReports : HealthCheck(report)
  \/ \E ok \in SaveOutcomes :
       \/ \E task \in Tasks :
            \/ \E role \in Roles, lease \in Lease : Acquire(role, task, lease, ok)
            \/ Release(task, ok)
            \/ FailCurrentWorker(task, ok)
       \/ \E worker \in Workers : MarkFailed(worker, ok) \/ MarkHealthy(worker, ok)
       \/ RefreshHealth(ok)
       \/ ResetRuntimeState(ok)

\* One call at a time, by anybody, in any order: what the users of a router refine.
RouterSpec == RouterInit /\ [][RouterNext]_routerVars

(***************************************************************************)
(* Properties.                                                             *)
(***************************************************************************)

SavedState == [failed : SUBSET Workers,
               leases : [Tasks -> Lease \cup {None}],
               standbyFor : Roles \cup {None},
               standbyWorker : Workers \cup {None}]

\* Every variable has its type.
RouterTypeOK ==
  /\ health \in Report \cup {Unreadable}
  /\ stateFile \in SavedState
  /\ up \in BOOLEAN
  /\ registry \in [Pools -> Seq(Workers)]
  /\ failed \subseteq Workers
  /\ leases \in [Tasks -> Lease \cup {None}]
  /\ standbyFor \in Roles \cup {None}
  /\ standbyWorker \in Workers \cup {None}

\* No worker is leased to two tasks, in memory or in the state file a later
\* process starts from.
Exclusive(table) ==
  \A s, t \in Tasks : s # t /\ table[s] # None /\ table[t] # None => table[s].worker # table[t].worker
OneLeasePerWorker == Exclusive(leases) /\ Exclusive(stateFile.leases)

\* The two standby fields and the table agree: either there is no standby lease
\* and the standby is free, or there is exactly one, and the fields name it.  A
\* field that outlived its lease would lock the standby pool for good.
Accounted(table, role, worker) ==
  \/ role = None /\ worker = None /\ \A t \in Tasks : table[t] # None => ~table[t].standby
  \/ \E s \in Tasks :
       /\ table[s] = [worker |-> worker, role |-> role, standby |-> TRUE]
       /\ \A t \in Tasks \ {s} : table[t] # None => ~table[t].standby
StandbyAccounted ==
  /\ Accounted(leases, standbyFor, standbyWorker)
  /\ Accounted(stateFile.leases, stateFile.standbyFor, stateFile.standbyWorker)

=============================================================================
