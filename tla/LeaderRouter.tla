---------------------------- MODULE LeaderRouter ----------------------------
(***************************************************************************)
(* The lease table of src/leader_router.py: one LeaderRouter object in one *)
(* process, its state file and the health file it reads.                   *)
(*                                                                         *)
(* Every method holds the object's lock from its first to its last access, *)
(* so a call is one step.  A call may raise because the health file cannot *)
(* be read or because the state file cannot be written; in the second case *)
(* the object keeps what the call did to its memory.                       *)
(*                                                                         *)
(* A health report is the set of accounts, for each tier, that the health  *)
(* file lists as healthy and not as failed for the tier's model.  What     *)
(* refresh_health copies from it into the object is not a variable here:   *)
(* every method that reads the copies refreshes them first, so that also   *)
(* mark_healthy's writes to them are lost before anything reads them.  The *)
(* model of a lease follows from its tier.                                 *)
(***************************************************************************)
EXTENDS Naturals, Sequences

CONSTANTS
  Accounts,       \* connection ids
  Tasks,          \* task ids
  Registries,     \* what config/registry.json may hold when a process starts
  HealthReports,  \* what leader_health.json may hold
  Unreadable,     \* a health file that is missing, malformed or of another provider
  NoLease,        \* a task without a lease
  SaveOutcomes    \* {TRUE} if every save succeeds, {TRUE, FALSE} if not

Tiers == {"ULTRA", "SUPER"}
Lease == [account : Accounts, tier : Tiers]

Configured(pools, tier) == {pools[tier][i] : i \in DOMAIN pools[tier]}

\* validate_registry: no duplicates, and both tiers cover the same accounts.
ASSUME RegistriesAssumption ==
  \A pools \in Registries :
    /\ pools \in [Tiers -> Seq(Accounts)]
    /\ \A tier \in Tiers : \A i, j \in DOMAIN pools[tier] :
         pools[tier][i] = pools[tier][j] => i = j
    /\ Configured(pools, "ULTRA") = Configured(pools, "SUPER")
ASSUME HealthAssumption == HealthReports \subseteq [Tiers -> SUBSET Accounts] \cup {Unreadable}
ASSUME LeaderConstantsAssumption ==
  /\ NoLease \notin Lease
  /\ Unreadable \notin [Tiers -> SUBSET Accounts]
  /\ TRUE \in SaveOutcomes /\ SaveOutcomes \subseteq BOOLEAN

VARIABLES
  health,     \* leader_health.json
  stateFile,  \* leader_router_state.json
  up,         \* the object exists
  registry,   \* primary_pool and failover_pool
  failed,     \* runtime_failed_by_model
  leases,     \* the lease table
  active      \* active_tier and active_account

memory     == <<registry, failed, leases, active>>
routerVars == <<health, stateFile, up, memory>>

NoneFailed == [tier \in Tiers |-> {}]
NoLeases   == [task \in Tasks |-> NoLease]
EmptyState == [failed |-> NoneFailed, leases |-> NoLeases, active |-> NoLease]

(***************************************************************************)
(* Availability.                                                           *)
(***************************************************************************)

\* refresh_health: what the file says about configured accounts.
Reported(pools) == [tier \in Tiers |-> health[tier] \cap Configured(pools, tier)]

Leased(account) == \E task \in Tasks : leases[task] # NoLease /\ leases[task].account = account

\* Mutant: an account is only taken by a lease of the same tier.
EligibleByTier(account, tier, reports) ==
  /\ account \in reports[tier] \ failed[tier]
  /\ \A task \in Tasks : leases[task] # [account |-> account, tier |-> tier]

\* Mutant: a leader that failed in this process is eligible again.
EligibleAgain(account, tier, reports) ==
  account \in reports[tier] /\ ~Leased(account)

Eligible(account, tier, reports) ==
  /\ account \in reports[tier] \ failed[tier]
  /\ ~Leased(account)

Exhausted(tier, reports) ==
  \A account \in Configured(registry, tier) : ~Eligible(account, tier, reports)

\* The first eligible account of the first tier that has one.
Selected(lease, reports) ==
  /\ lease.tier = "SUPER" => Exhausted("ULTRA", reports)
  /\ \E i \in DOMAIN registry[lease.tier] :
       /\ lease.account = registry[lease.tier][i]
       /\ Eligible(lease.account, lease.tier, reports)
       /\ \A j \in 1..(i-1) : ~Eligible(registry[lease.tier][j], lease.tier, reports)

(***************************************************************************)
(* Saving and loading.                                                     *)
(***************************************************************************)

\* _save_state, the last thing a method does; it raises if not ok.
Save(ok) ==
  /\ ok \in SaveOutcomes
  /\ stateFile' = IF ok THEN [failed |-> failed', leases |-> leases', active |-> active']
                        ELSE stateFile

\* A lease that _normalize_state keeps for itself.
Valid(lease, pools) == lease # NoLease /\ lease.account \in Configured(pools, lease.tier)

\* Of the leases it keeps for one account, which one depends on their order in
\* the file.
Kept(kept, saved, pools) ==
  LET valid == {task \in Tasks : Valid(saved[task], pools)} IN
  /\ kept \subseteq valid
  /\ \A s, t \in kept : saved[s].account = saved[t].account => s = t
  /\ \A t \in valid : \E s \in kept : saved[s].account = saved[t].account

\* __init__.  A state file that cannot be read counts as empty, and is
\* overwritten.  An unreadable health file, and a failing save, leave no object.
Construct(loaded) ==
  /\ ~up /\ up' = TRUE
  /\ health # Unreadable /\ UNCHANGED health
  /\ loaded \in {stateFile, EmptyState}
  /\ \E pools \in Registries :
       /\ registry' = pools
       /\ failed' = [tier \in Tiers |-> loaded.failed[tier] \cap Configured(pools, tier)]
       /\ \E kept \in SUBSET Tasks :
            /\ Kept(kept, loaded.leases, pools)
            /\ leases' = [task \in Tasks |->
                            IF task \in kept THEN loaded.leases[task] ELSE NoLease]
  /\ active' = IF \E task \in Tasks : leases'[task] = loaded.active
                 THEN loaded.active ELSE NoLease
  /\ Save(TRUE)

\* The process ends; only the files stay.
Stop ==
  /\ up /\ up' = FALSE
  /\ registry' = [tier \in Tiers |-> <<>>]
  /\ failed' = NoneFailed
  /\ leases' = NoLeases
  /\ active' = NoLease
  /\ UNCHANGED <<health, stateFile>>

\* A health check, which runs outside of the router, rewrites the health file.
HealthCheck(report) ==
  /\ health' = report
  /\ UNCHANGED <<stateFile, up, memory>>

(***************************************************************************)
(* The methods.  A call that raises before it changes anything, because a  *)
(* guard or the health file stops it, is not a step of the router.         *)
(***************************************************************************)

AcquireRaises(task) == up /\ (leases[task] # NoLease \/ health = Unreadable)

Acquire(task, lease, ok) ==
  /\ up /\ leases[task] = NoLease /\ health # Unreadable
  /\ Selected(lease, Reported(registry))
  /\ leases' = [leases EXCEPT ![task] = lease]
  /\ active' = lease
  /\ UNCHANGED <<health, up, registry, failed>>
  /\ Save(ok)

\* acquire() with both tiers exhausted: LeaderUnavailable.
AcquireNone(task, ok) ==
  /\ up /\ leases[task] = NoLease /\ health # Unreadable
  /\ \A tier \in Tiers : Exhausted(tier, Reported(registry))
  /\ active' = NoLease
  /\ UNCHANGED <<health, up, registry, failed, leases>>
  /\ Save(ok)

\* Mutant: the active leader is cleared by reset_runtime only.
WithoutSticky(task) ==
  /\ leases' = [leases EXCEPT ![task] = NoLease]
  /\ UNCHANGED active

\* Taking a lease out of the table, for release and fail_current_leader.
Without(task) ==
  /\ leases' = [leases EXCEPT ![task] = NoLease]
  /\ active' = IF leases' = NoLeases THEN NoLease ELSE active

Release(task, ok) ==
  /\ up /\ leases[task] # NoLease
  /\ Without(task)
  /\ UNCHANGED <<health, up, registry, failed>>
  /\ Save(ok)

FailCurrentLeader(task, ok) ==
  /\ up /\ leases[task] # NoLease
  /\ failed' = [failed EXCEPT ![leases[task].tier] = @ \cup {leases[task].account}]
  /\ Without(task)
  /\ UNCHANGED <<health, up, registry>>
  /\ Save(ok)

MarkHealthy(account, tier, ok) ==
  /\ up /\ account \in Configured(registry, tier)
  /\ failed' = [failed EXCEPT ![tier] = @ \ {account}]
  /\ UNCHANGED <<health, up, registry, leases, active>>
  /\ Save(ok)

\* Mutant: the leases go with the failures.
ClearRuntimeFailuresWithLeases(ok) ==
  /\ up
  /\ failed' = NoneFailed
  /\ leases' = NoLeases
  /\ active' = NoLease
  /\ UNCHANGED <<health, up, registry>>
  /\ Save(ok)

ClearRuntimeFailures(ok) ==
  /\ up
  /\ failed' = NoneFailed
  /\ UNCHANGED <<health, up, registry, leases, active>>
  /\ Save(ok)

ResetRuntime(ok) ==
  /\ up
  /\ failed' = NoneFailed
  /\ leases' = NoLeases
  /\ active' = NoLease
  /\ UNCHANGED <<health, up, registry>>
  /\ Save(ok)

\* snapshot and active_pool refresh the health and change nothing else.
SnapshotRaises == health = Unreadable

(***************************************************************************)
(* A router and any callers at all.                                        *)
(***************************************************************************)

RouterInit ==
  /\ health \in HealthReports
  /\ stateFile = EmptyState
  /\ up = FALSE
  /\ registry = [tier \in Tiers |-> <<>>]
  /\ failed = NoneFailed
  /\ leases = NoLeases
  /\ active = NoLease

RouterNext ==
  \/ \E loaded \in {stateFile, EmptyState} : Construct(loaded)
  \/ Stop
  \/ \E report \in HealthReports : HealthCheck(report)
  \/ \E ok \in SaveOutcomes :
       \/ \E task \in Tasks :
            \/ \E lease \in Lease : Acquire(task, lease, ok)
            \/ AcquireNone(task, ok)
            \/ Release(task, ok)
            \/ FailCurrentLeader(task, ok)
       \/ \E account \in Accounts, tier \in Tiers : MarkHealthy(account, tier, ok)
       \/ ClearRuntimeFailures(ok)
       \/ ResetRuntime(ok)

\* One call at a time, by anybody, in any order: what the users of a router refine.
RouterSpec == RouterInit /\ [][RouterNext]_routerVars

(***************************************************************************)
(* Properties.                                                             *)
(***************************************************************************)

SavedState == [failed : [Tiers -> SUBSET Accounts],
               leases : [Tasks -> Lease \cup {NoLease}],
               active : Lease \cup {NoLease}]

\* Every variable has its type.
RouterTypeOK ==
  /\ health \in [Tiers -> SUBSET Accounts] \cup {Unreadable}
  /\ stateFile \in SavedState
  /\ up \in BOOLEAN
  /\ registry \in [Tiers -> Seq(Accounts)]
  /\ failed \in [Tiers -> SUBSET Accounts]
  /\ leases \in [Tasks -> Lease \cup {NoLease}]
  /\ active \in Lease \cup {NoLease}

\* No account is leased to two tasks, not even one under each model: neither in
\* memory nor in the state file a later process starts from.
OneLeasePerAccount ==
  \A table \in {leases, stateFile.leases} : \A s, t \in Tasks :
    s # t /\ table[s] # NoLease /\ table[t] # NoLease =>
      table[s].account # table[t].account

\* LeaderFailover reports READY while active_account is set: then some task does
\* hold a lease.
ReadyMeansLeased == active # NoLease => \E task \in Tasks : leases[task] # NoLease

=============================================================================
