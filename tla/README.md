# Verification of the AI agent controller

TLA+ modules, TLC runs and TLAPS proofs for the core of this repository: the code
that looks at a project and decides whether to work on it, leases models, plans,
executes worker output and changes files.
The modules are translated from the Python source; `PROJECT.json` maps every
definition to its lines.

To check a run: `tlc -workers 2 -config <run>.cfg <module>.tla`. To check the
proofs: `tlapm` on `ExecutionGateProofs.tla`, `CentralLeaderProofs.tla`,
`WorkerDispatchProofs.tla`, `GitMutationProofs.tla`, `TaskPlanProofs.tla`,
`OrchestrationProofs.tla`, `ProjectUnderstandingProofs.tla` and `LiveRebindProofs.tla`.

## The system

A task travels through a chain of Python objects in one process. State that
survives the process is in JSON files beside the code.

| Component | State it keeps | Operations | Talks to |
|---|---|---|---|
| Project understanding (`project_understanding_pipeline`, `project_scanner`, `project_state_classifier`, `specification_analyzer`, `current_state_analyzer`, `gap_compliance`, `context_builder`) | none; a scanner's records during one scan, a manifest file | `analyze`, `scan`, `save`, `classify` | reads the workspace; gives a context to the leader |
| Leader router (`leader_router`) | lease table, failed leaders, active leader; saved in `leader_router_state.json` | `acquire`, `release`, `fail_current_leader`, `mark_healthy`, `clear_runtime_failures`, `reset_runtime`, `snapshot` | reads `leader_health.json`, which the health checks write |
| Central leader (`central_leader`) | none; one lease per run | `prepare`, `plan`, `release` | router, transport |
| Plan decomposition (`plan_decomposer`) | none | `decompose` | leader's answer in, task graph out |
| Worker router (`worker_router`) | lease table, failed workers, one standby; `worker_router_state.json` | as the leader router, per role | worker health file |
| Worker dispatch (`worker_dispatch`) | none; leases of one plan | `assign_plan`, `release_all` | worker router |
| Worker execution (`worker_execution`, `terminal_executor`) | none | `execute` | checks the lease, starts a process in the sandbox |
| Process sandbox (`process_sandbox`) | none | `run` | starts a process with a group of its own, reads its output, ends it after a time |
| Independent validation, work product | none | `validate` | result in, verdict out |
| Execution authorization (`execution_authorization`) | a gate | `authorize`, `apply`, `rollback` | execution gate |
| Execution gate (`execution_gate`) | transaction state in `execution_gate_state.json`, checkpoints in `.agent_gate_checkpoints/`, the workspace files | `execute` | files, the tests |
| Git mutation control plane (`git_mutation_*`) | a lock file, the Git index and history, audit records | `execute`, `restore_git_mutation_result`, `rebind_live_git_mutation_result` | gate, sandbox, Git |
| Orchestration (`orchestration`) | none | `run` | all of the above, in order |

What is hard in it:

- *Failure in the middle.* Every save and every file operation may raise.
  Exceptions cross `try` statements with several handlers, and handlers do work
  that fails in turn (`ExecutionGate.execute`, `CanonicalOrchestrator.run`).
- *Concurrency.* The routers lock single calls, but a run makes several calls
  with a provider or a worker in between. A Git transaction is a dozen processes under
  a lock that only other executors know of. The gate locks nothing: each
  authorization boundary makes its own gate on one state file, and editors and
  tools write the same files. A scan walks a workspace that changes under it, and a
  result is rebound to a repository by four reads without the lock.
- *Restarts.* The routers load what a process left, with leases of runs that no
  longer exist. The gate starts from nothing. A Git process outlives the executor
  that started it, whose lock the system frees. A command's processes may outlive its
  time, and the call that waits for them.
- *Lists of words.* Whether a project is broken, stable or in conflict is decided by
  keys and words that are listed in several places and scored against each other.
- *Time.* Health information, leases and validated contents are checked first
  and used later.

The hazards, each at its line, are in `PROJECT.json`.

## What makes each component correct

- *Execution gate*: each outcome tells the truth about the files; originals can
  be found at every moment; a rollback is what the documents say; `execute` ends.
- *Routers*: an account is leased once; a lease belongs to a run that gives it
  back; failure is charged to the leader that was called, and it stays away;
  a lease in use survives the process in the state file.
- *Dispatch and orchestration*: all workers or none are assigned; all are given
  back; tasks run in dependency order; nothing is applied without a verdict
  about exactly those changes.
- *Git control plane*: one mutation at a time; a commit contains what was
  validated, or the workspace is as before; the audit record agrees with the
  history; evidence that is rebound was true of the repository.
- *Process sandbox*: a call returns after its time, or a process can be named that
  it cannot end; nobody in the group goes on after a reported timeout.
- *Project understanding*: what is there is recorded; a project is repaired on a
  confirmed failure and on nothing else; work starts alone only where the evidence is
  clear; what failed reaches the leader first.

## Modules

| Module | Contents |
|---|---|
| `GateTransaction` | abstract: what `execute` promises its caller |
| `ExecutionGate` | `execution_gate.py`: gates, workspace, state file, checkpoints, editors, crashes; implements `GateTransaction` |
| `ExecutionGateProofs` | its inductive invariant and theorems |
| `LeaderRouter` | `leader_router.py`: one router, its files, any callers |
| `CentralLeader` | `central_leader.py` and the leader's part of `orchestration.py`: several runs on a `LeaderRouter` |
| `CentralLeaderProofs` | invariants and theorems of both |
| `WorkerRouter` | `worker_router.py`: one router, its files, any callers |
| `WorkerDispatch` | `worker_dispatch.py`, the lease checks of `worker_execution.py` and the workers' part of `orchestration.py`: several runs on a `WorkerRouter` |
| `WorkerDispatchProofs` | invariants and theorems of both |
| `GitMutation` | `git_mutation_executor.py` and `workspace_mutation_lock.py`: several executors on one repository, Git processes, editors, other uses of Git, crashes |
| `GitMutationProofs` | its inductive invariant and theorems |
| `PlanExecution` | abstract: what `run` promises of a plan |
| `TaskPlan` | the search of `plan_decomposer.py` and the topological sorts of `worker_dispatch.py` and `orchestration.py` |
| `TaskPlanProofs` | lemmas: search and sort decide and order every plan |
| `Orchestration` | one call of `run` in `orchestration.py` on a `TaskPlan`, with `worker_execution.py`, `independent_validation.py`, `worker_work_product.py` and `execution_authorization.py` as stages; implements `PlanExecution` |
| `OrchestrationProofs` | its inductive invariant, theorems, and the refinement |
| `ProcessSandbox` | `run` of `process_sandbox.py` and the processes of one command |
| `LiveRebind` | `git_mutation_live_rebind.py` with `git_mutation_result_codec.py` and `git_mutation_attestation.py`: four Git processes in a `ProcessSandbox`, and others who use the repository |
| `LiveRebindProofs` | its inductive invariant and theorems |
| `ProjectFiles` | the files of a workspace, and what the analyzers read off a path |
| `ProjectStateClassifier` | `project_state_classifier.py` as operators on a manifest |
| `ProjectScanner` | one `ProjectScanner` on a workspace that others edit |
| `RequirementAnalysis` | the pure parts of `specification_analyzer.py`, `current_state_analyzer.py`, `gap_compliance.py` and `context_builder.py` |
| `ProjectUnderstanding` | `project_understanding_pipeline.py`: one `analyze()`, composed of the four above, and the leader's admission of its context |
| `ProjectUnderstandingProofs` | its inductive invariants and theorems |
| `MCExecutionGate`, `MCCentralLeader`, `MCWorkerDispatch`, `MCGitMutation`, `MCOrchestration`, `MCLiveRebind`, `MCProjectUnderstanding` | values for the runs |

### ExecutionGate

One step is one file operation, one save of the state file, one test run, or the
validation of one change. `pc[g]` is the place in `execute()`; `index[g]` is the
loop variable of its loops over the changes; `held[g]` is `checkpoint is not
None`; `recovering[g]` is being inside the generic handler. `mem[g]` is
`self.state`, and `disk` the file: `Saved` changes both, `SaveFailed` only the
first and then raises. `Throw` is the exception semantics of `execute()`: recovery
if a checkpoint is held, `SAFE_STOP` when recovery raises, otherwise out.
`Failing` says for which gates operations may raise and crashes may happen.

A text is a function from a few positions to fragments. The gate treats a text
only by counting and replacing `old_text`; whether a fragment occurs never, once
or more often is what distinguishes texts. `read_text` translates line ends and
the gate writes without translation, so that a replacement rewrites the line ends
of the whole file: `Newline` models it, in `Decoded` and `Replaced`. Files that
are missing or that do not decode are separate contents.

`original`, `touched` and `retestFailed` are history for the properties:
`touched[g]` are the files somebody other than `g` wrote since its `execute()`
began. No property says anything of those, because the gate overwrites them.

`GateTransaction` is one transaction as its caller sees it. `files` are as they were until it ends;
`goal` is what it may make of each target; `foreign` are the files others wrote. It ends with
all changes made, with none, or with `SAFE_STOP`; when somebody wrote a target (`Spoiled`), `REJECTED` and
`RAISED` say nothing of how far it came. Each file nobody else wrote is as before or has its change, also then and
after a `Crash`. `View`, `Goal` and `Status` map the gate to it: while `execute()` runs, its own
writes do not count. `GatesAreTransactions` says so of every gate. Orchestration's `GateApproves` and `GateFails`
are its `Approve` and its other ends: all of a task's changes, or any part of them.

A save is one step. Two processes saving at the very same moment use the same
temporary file name and could mix their records; this is below the model's grain.

### LeaderRouter and CentralLeader

Each router method holds the object's lock, so each is one action. Saving comes
last in every method: the parameter `ok` says whether it succeeds; if not, memory
is changed and the file is not. `Construct` is `__init__` with loading and
normalising: an unreadable state file counts as empty. A health report is, per
model, the set of accounts the file calls healthy and not failed; every method
that uses it reads the file first.

`CentralLeader` adds the runs. Between `Prepare`, the transport, `Verify`, the
work and `CleanUp` other runs, an operator (`Mark`, `Clear`, `Reset`), health
checks and restarts intervene. `AbandonLease` is the case that `release_all`
raises in the `finally` clause, so that the leader's release is not reached.
`robbed`, `orphaned` and `reported` are history.

### WorkerRouter and WorkerDispatch

`WorkerRouter` is built like `LeaderRouter`: one action per locked method, the save
last. `Acquire` takes the lease it makes as a parameter, which `Selected` determines:
the first available worker of the role's pool, or the first available standby while
the two standby fields are empty. A call that raises without effect is no step of the
router; `AcquireRaises` says when `acquire` does so.

`WorkerDispatch` has the runs. `Assign` is one turn of `assign_plan`'s loop, `Undo` one
of its exception handler, `ReleaseNext` one of `release_all`. Each may or may not find
the lease it is looking for, because between two calls other runs, the operator
(`Mark`, `Refresh`, `Fail`, `Reset`), health checks and restarts take the lock. A save
that fails in `acquire` leaves a lease that nobody holds (`Assign`, second branch); one
that fails in `release_all` leaves the rest of the assignments (`ReleaseRaises`).
`Prepare` is the adapter and `execute()` up to the checkpoint hook with the first
lookup of the lease, `Launch` the second lookup, `Finish` everything from the result to
the next task; each may raise, which leads to the `finally` clause (`ToRelease`).

Plans are given, in the order of `_topological_tasks`, with what `_validate_plan`
guarantees; that includes a task for the role `standby`, which `acquire` refuses.
`disturbed` and `orphaned` are history: the runs that were under way when an operator
took leases (and those that started beside them, because equal task ids let one run
release what another was given), and the tasks whose lease no run will give back.

### GitMutation

One step is one Git process with what the executor concludes from its output, or the
start of a process that changes the repository. `pc[t]` is the place in `execute()`,
or how the call ended: `refused` stands for a `GitMutationSafetyStop` or a stop of the
authorization or the policy, `failed` for every other exception. `snapshot()` is used three times;
`phase[t]` says for what, and its three processes are `ReadStatus`, `ReadBranch` and
the action that draws the conclusion (`Preflight`, `VerifyStagedTargets`,
`SnapshotAfter`), which reads HEAD. `LaunchAdd` and `LaunchCommit` start a process,
`GitAdd` and `GitCommit` are its end; between them the executor may crash, and the
process becomes an orphan. `Leave` is `__exit__` of the lock.

What Git does is modelled from how it is used, and is external: `git add` stages the
bytes of the files, all targets or none, and its return code is not looked at;
`git commit` commits the whole index on the branch that is checked out, fails if
nothing is staged, and may have committed when its time is up. A commit's identity is its
position in `commits`. Others may stage and unstage (`ForeignAdd`, `Unstage`), commit, take the branch to any commit with
`reset --hard` (`ForeignReset`), and switch to another branch (`Switch`): HEAD goes back as well as forth. `Past` are the commits there are at the start. A lock that Git itself keeps on the index shows as a
command without effect. Line ends are those of the bytes: a repository that converts
them on `git add` is not modelled; `TextOf` is what `read_text` makes of a file.
`ValidateFiles` is one step, because edits of different files commute with it.

`written` stands for the validated change being in the files, by whatever route;
a task may be executed again however it ended. `disturbed` (somebody who does not hold
the lock changed index or HEAD under it), `acted` (this call changed them) and `alone`
(the commit or the result belongs to an undisturbed call) are history. Nothing else
can be promised about a disturbed call: the commit takes whatever is staged
after the last verification, and a HEAD that others took back to an older commit
passes `ResolveCommit`, which asks only that it is another than before. `AuditIsLatest`
says of such calls no more than that the commit named has exactly the targets.

### TaskPlan, Orchestration and PlanExecution

`PlanExecution` says what a run promises: a plan is taken up only if its tasks can be
ordered, each task is completed once and after all it depends on, the run returns only
when every task is complete, and a failure stops it without taking anything back.

`TaskPlan` has the search and the sort, step by step. `stack` is Python's call stack
inside `_validate_dependencies`: each element is one call of `visit` with the
dependencies its loop has still to visit, the first one the loop over all tasks. The
set `visiting` is read off it. `VisitSeen`, `VisitEnter`, `VisitRaises` are the three ways into
`visit`, `VisitLeave` is its end, `Attest` the return of `decompose` with
`dag_valid` and what the dispatcher does before its sort. `Place` is one turn of Kahn's algorithm,
which the dispatcher runs at `pc = "dispatch"` and the coordinator again at `"order"`; the two
functions are the same but for their messages, and `Assigned` starts the second. Ids are
numbers, because all that the code does with them is to compare them; dependencies
are sets, because the decomposer removes duplicates and no order of theirs is used.

`Orchestration` follows one run. `spec`, `checkpoint`, `result` and `verdict` are the local
variables of the loop's body. `Prepare` is the adapter's proposal with
`_validate_worker_spec`; `Launch` and `Finish` are the two halves of `execute`; `Validate` is
`IndependentValidator.validate` with the hook's answer, `Record` the work product,
`GateApproves` and `GateFails` are `authorize` with the gate's answer. A stage that refuses
raises: its action has the conditions for going on, and `Raise` is always
possible, because at each of these places something that is not modelled here may raise as
well (leases, commands, roles, malformed answers). A path is a file with a way to spell it: `plain`,
`dotted` (`./a`), `indirect` (absolute or with `..`, yet inside) and `outside`; the four modules
that look at paths differ in what they take (`Inside`, `Relative`) and in whether they
compare the spelling (`ValidSpec`) or the file (`WorkProduct`, `Authorized`).

Two things in the code show in the model as guards that meet only one way. The work product
compares the stripped id of the verdict with the checkpoint's own (`SameCheckpoint`), so that a
checkpoint with a padded id never gets further. The authorization's
binding by `transaction_id` is for checkpoints without an id, which the validation has refused
before. `applied` is abstract: a task's changes in the files, all of them after an
approval, any part of them after another outcome of the gate, which is what `ExecutionGate` and its
first finding show. `witnessed` is history: what the hook has passed and what was true then.

### ProcessSandbox and LiveRebind

`ProcessSandbox` is `run()` on a POSIX system. `phase` is its place: `communicate` is the
first wait, `terminate` the moment after it timed out, `drain` the second wait, which has no
limit. The command is a set of processes with what matters for the waits: who is alive, in
the group that `start_new_session` made, holds the pipes, survives a SIGTERM (ignores, catches or
blocks it) or has one that ends it. `Main` is the process that was started; any process may start
others (`Spawn`), which inherit its group, its pipes and what SIGTERM does to it, or any of these not:
a caught signal, and often an ignored one, is as by default after `exec`. `Turn` lets go of the pipes,
leaves the group or changes what SIGTERM does; `Exit` is an end of its own. `escaped` is history:
those that the SIGTERM of a timeout was not sent to or did not end, and all they have
started since, which may well be ordinary processes in the group. `communicate()` returns when Main has ended and nobody holds the pipes (`Drained`).
`TimeUp` may come at any moment of the first wait, also when Main has ended and only the pipes are
still held. `Stop` stands for every check that refuses a command and for a launch that
fails. The processes an earlier command has left behind are not followed into the next one.

`LiveRebind` restores a record and rebinds it. A record is what the checks compare: its
identity, its attestation's, and whether it is well formed. `Restorable` and `Rebindable` are
the checks before the first process. Then `step` goes through the four reads, each a `Launch` of
the sandbox, a `Read` at some moment of its life, an end, and a `Judge`. Git ends with 0 only
when it has read; it may also fail, be cut off by the time, or leave children, and then its
output may be anything it had printed, nothing included. `Others` changes the
branch, HEAD and the cleanness of the repository. `trace` is history: the states of the
repository since the call began.

### ProjectFiles, ProjectScanner, ProjectStateClassifier, RequirementAnalysis, ProjectUnderstanding

A path is an atom. What the code finds out from its spelling (suffix, name, directory) are its
`Traits`; each analyzer has its own lists of names, so each list is a trait of its own. A file is
missing, a text, unreadable (too large, not UTF-8, not to be opened), a link to another path, or
a link out of the workspace. A text has the words that code is searched for and the lines that
requirements are taken from; a line is a heading or has a modal (`must not`), a subject and bullets.

`ProjectScanner` walks: `ListDirectory` is `os.walk` listing one directory and pruning
it, or passing over one that it cannot list (`unlisted`, history), `RecordFile` is one name being counted, resolved and classified. `files` counts the records of
each path, since two links to one file give two. `Edit` changes a file between any two of these
steps, so that directories come and go too. `FinishScan` is `detect_git` and the manifest: its
three commands may each fail, time out or not start. `SaveManifest` is `save()`, which the pipeline does
not call. `kept` (files that were there all the time) and `was` (paths that were a name, or stood
behind one) are history.

`ProjectStateClassifier` is `classify()`. A manifest's values have a type, as they have from
`json.load`: a boolean counts as an integer, a float says nothing to `_detect_bool` but counts
as a number of failures. Two lists of keys, for scores and for confirmation, stand apart as in
the code (`ScoreKeys`, `FailureKeys`). Scores are integers; the confidence, a rounded quotient, is
compared with its threshold without fractions (`Confident`).

`ProjectUnderstanding` runs the stages: `Discover` classifies and finds the documents,
`ReadDocument` and `ReadRecord` read one file each, again through links, `Conclude` compares and builds the
context, `AskLeader` is `_validate_context`. `ClassifyFile` is `classify_manifest_file` on any
manifest of `Manifests`. The documents are found in one step although the code walks for
them; a document that appears or disappears during that walk is one that does so before or after it, and
those below a directory that it cannot read are missed.
The authority fields of a context are constants of the builder. Paths are sorted twice, case-folded
here and as they are there; one `Rank` stands for both, since no property depends on the order among paths.

## Runs

| Run | Instance | Shows |
|---|---|---|
| `gate` | one failing and crashing gate, two files, three transactions, editor | `execute()` implements `GateTransaction`; all gate properties; `execute()` ends |
| `gate_rejected` | as `gate` | finding: `REJECTED` with a change applied |
| `gate_safe_stop` | as `gate`, no I/O failure | finding: `SAFE_STOP` overwritten |
| `leader` | two accounts, two tasks, two runs, two registries, failing saves, restarts | leases in memory and in the state file, blame, what a run's end leaves |
| `workers` | one coder, two standbys, two tasks, two runs, failing saves, restarts | leases in memory and in the state file, the standby, undo and release, what may be launched |
| `workers_released` | as `workers` | finding: leases survive a failing save in the `finally` clause |
| `git` | two tasks, two files, two branches, two earlier commits, two crashes or actions of others | what commits, results and the audit record say; stops; that `execute()` ends |
| `git_serialized` | as `git` | finding: a transaction runs beside a Git process of another |
| `orchestration` | every graph over three tasks, malformed plans; proposals, checkpoints, processes and verdicts of every kind | the run implements `PlanExecution`; what is refused, in which order tasks run, what is changed on whose word; search and sorts end |
| `understanding` | four workspaces of six files, two edits, any directories that cannot be listed, evidence of runs; about 500 manifest files | what a scan records, what a project is taken for, what the leader gets to see |
| `conflict_stops` | as `understanding` | finding: contradicting requirements do not stop the planning |
| `rebind` | ten records, two branches, two commits, two changes by others; Git with a child process, each surviving SIGTERM or not | what returned evidence says; what a timeout leaves; that waiting ends or has somebody to blame |

Bounds. *Files and changes*: two files make the shortest transaction that can stop
half way; the three transactions are a good one, one whose changes share a target
and one that leaves the workspace. *Texts*: two positions and four fragments give
texts in which the match occurs never, once and twice, with a Windows line end
beside it. *Edits* set each of these or delete the file, at any step. *One gate*: other
gates are foreign writers to it, except that they overwrite the state file and would share
its checkpoint directory if their transaction ids could be equal. That its
checkpoint and rollback do not depend on either is proved for any number of gates. *Leader*: two accounts and two runs let one run take the primary,
the other fall over, and a third acquisition find nothing; the failover model is
healthy on one account only; the second registry lacks an account that may be
leased or failed in the state file. *Workers*: one coder and two standbys make the
second task of a plan take the only standby there may be, and leave one that must not
be taken; the two plans use the same task ids in opposite orders, and one of them
fails half way in every state. The health file is all well or unreadable, since single
workers fail by `Mark` and `Fail`. The constraint `Bound` keeps the memory and the state
file from drifting apart by more than one change, and the failed workers to one; the
two runs are interchangeable (`EitherRun`), and no liveness is checked under that
symmetry. *Git*: one target is common to the two
tasks, one belongs to the second only, so that either may commit what the other has
left staged; the three edits are a line end that the text does not show, a deletion and a
task's own text. `MaxEvents` bounds crashes and actions of other programs together:
two are a crash and what the next transaction meets, or an action and its reversal;
the earlier of the two commits in `Past` is one to go back to, and changes a task's target;
retries are not bounded. *Plans*: three tasks have all the ways to
share a dependency or to close a cycle of two or three, with every order of the ids relative to
the graph, since all graphs are tried; a fourth task in an answer is one too many, and the
answers list the tasks in another order than that of their ids. Every stage of every task
takes each proposal, checkpoint and result, one of each kind that a guard distinguishes.
*Workspaces*: two documents, two sources of which one may be a link to the other, one file in an
excluded directory and one with a sensitive name are one of each kind the stages treat
differently; the four initial trees and two edits reach links, links out of the workspace,
directories that vanish before they are listed, and files that go between scan and reading.
`MaxFiles`, `MaxSpecification`, `MaxRequirements`, `MaxChars` and `MaxMatches` are the code's
own limits, small enough to be hit and missed by one. *Manifests* have up to two fields beside
the files, with a value of every type for each list of keys. *Rebind*: one child process is
enough to hold the pipe, leave the group, survive SIGTERM, or be started after it by a Git
process that survived it; `MaxEvents`
is two changes by others, one away from the recorded state and one back. There are no other counters.

Deadlock is checked in every run but `orchestration`, `understanding`, `conflict_stops` and
`rebind`, where one call ends.

## Fairness

`ExecutionGate!FairSpec`: weak fairness of `ExecuteStep(g)`. A running `execute()`
is an ordinary thread that never waits for anybody; the only call that could
last, the tests, is bounded by `TEST_TIMEOUT_SECONDS` (see the hazard at
`process_sandbox.py:179` for the assumption in this). Calls, edits, crashes are not
fair. `CentralLeader!FairSpec`: weak fairness of each run's own steps, for the same
reason; the transport has a timeout. `WorkerDispatch!FairSpec`: the same; the worker's
process has a timeout. `GitMutation!FairSpec`: weak fairness of each executor's own steps;
it waits only for Git processes, which have timeouts, and nobody waits for the lock.
`Orchestration!FairSpec`: weak fairness of the search and the sorts, which compute and wait for
nothing; none for the stages, whose hooks have no time limit. `LiveRebind!FairSpec`: weak
fairness of the caller (`Judge`), of the sandbox's own steps, time included, and of a process ending
on a SIGTERM that it does not survive (`SandboxFairness`). No process ends by itself for certain,
which is why `WaitEnds` lets a wait last while one that escaped the SIGTERM, or was started by such a
process, holds it up.

## What is proved

`ExecutionGateProofs`, for any number of gates, files, changes and texts, every
interleaving and failure: `Spec => []IInv`, and from it the type invariant and the
five theorems about outcomes and backups (`RejectedIsUntouched` among them, which no run checks by itself: it is
part of what `GatesAreTransactions` says).

`TypeOK` and the outcome properties are not inductive: what `APPROVED` promises
depends on how far the loops have come. `IInv` adds, for each gate,

- `Control`: which places hold a checkpoint, what has been validated so far
  (`Checked`: targets are distinct, and each text matched once), where the loop is;
- `Data`: before the apply loop nothing differs from `original` (`Pristine`); during
  it exactly the changes before `index` are applied (`AppliedBefore`); backups
  exist for the copied prefix, and once the checkpoint is held for all targets
  (`BackedUp`); during the restore the prefix is restored (`RestoredBefore`); the
  buffer is the replacement of the original text;
- `Result`: what each outcome promises, at the moment it is returned and after.

All of it is relative to `touched`, which only grows during `execute()`, so that a
step of another gate or an editor preserves it (`OtherGate`, `EditStep`). A gate's own
step is proved action by action; steps that touch no file go through `QuietStep`.

`ExecuteIsATransaction`: every gate refines `GateTransaction`, beside any other gates. On top of `IInv` it
needs that each file nobody else wrote is as it was or has its change (`Whole`), which holds at
every step and so at every crash, and that `SAFE_STOP` in the record of a gate at rest means that its last call raised
(`Stopped`). A step of `execute()` that goes on is a step of `Others`, since the view leaves out its own
writes; one that ends is matched with an end by its answer (`OwnIsTransaction`), where
`IInv'` says what the answer promises.

`ChangedIsOnRecord` is about one gate on a state file, which `OnRecordTheorem` has as its
hypothesis (a second gate overwrites the pointer). `OnRecord` strengthens it: from the manifest
to the last test memory and file both name the checkpoint, and from there to the end of the
restore the file does, or the files are as they were.

`ExecuteDescends` is what `ExecuteReturns` rests on: `StepsLeft(g)` counts the longest way from the
place and the loop's position to the end, through the failure of everything that can fail, at most
`6 * Len(tx[g]) + 21` (`ExecuteIsBounded`); each step of `g` makes it less and nobody makes it more.
Since a fair `ExecuteStep(g)` is taken as long as `g` runs, `execute()` ends for every number of gates
and changes. The last inference needs fairness and ENABLED and is not checked by the prover.

Its assumptions are those on the constants in `ExecutionGate` (paths inside and outside the
workspace are disjoint, the special contents are not texts, transactions are
sequences of changes, line-end translation maps fragments to fragments).

`CentralLeaderProofs`, for any accounts, tasks, runs, registries and health
reports, with failing saves and restarts, in three layers:

1. `RouterInv` is inductive for `RouterSpec`, that is for any callers: types,
   exclusive leases in memory *and* in the state file (a later process starts from
   it), and that an active leader means a lease. `CallKeeps` reduces each method to
   what it does to memory.
2. Every step of the runs, the process and the operator is a
   router call or none (`CallsTheRouter`, a lemma), so the runs inherit layer 1. `RunsInv` adds types, that a
   process that is down has no runs, that reported leaders are failed in the file
   and in memory, and `NoLeak`. No assumption on task ids.
3. With distinct task ids, `HoldsInv`: a busy run has the lease of its request or,
   after an operator's reset, none. `RunHoldsItsLease` alone is not inductive for
   `BlameIsRight`, which also speaks of robbed runs; `ReportedIsNotUsed` needs
   exclusivity from layer 1: another run's failure is about another account.
   `LeaseIsOnRecord` says the same of the state file: only the save of `Prepare` puts the
   lease there, and each later save, of whichever run, writes a table that has it.

The assumption on registries is what `validate_registry` enforces; that task ids
are distinct is stated as the hypothesis `DistinctTasks` of the theorems that need
it. Nothing in the code enforces it.

`WorkerDispatchProofs`, for any workers, roles, tasks, runs, plans, registries and
health reports, with failing saves and restarts and no assumption on task ids:

1. `RouterInv` is inductive for any callers: types, exclusive leases in memory and in
   the state file, and `Accounted`: the standby fields name the one standby lease of
   the table, or there is none. Loading keeps this for whatever part of the saved
   leases the new registry lets through (`ConstructKeeps`).
2. `Held` is what each run still has to release, as a set of pairs of task and lease.
   `Sound` relates it to the table: undisturbed, the sets are disjoint and agree with the
   table, and a lease in no set is orphaned. Adding a pair, losing a lease and giving
   back are lemmas about these values (`SoundGive`, `SoundLose`, `SoundTake`,
   `SoundTakeAll`); each action is shown to be one of them. `RunHoldsItsLeases` alone is
   not inductive: that another run's undo cannot hit the lease needs that the two runs
   hold different tasks, which needs that `acquire` refuses a task that has a lease.
   `Disturbance` says that an operator disturbs all runs or none.
3. Each step of the runs is a call of the router or none; from the two invariants follow the
   properties of the run. `LeasesAreOnRecord` takes an argument of its own: what is saved is the
   table of memory, which has what each undisturbed run holds.
4. `SavedLeasesAreReleased`, the converse of finding 3: if no save fails, then a run that ends without
   a restart leaves no lease but those that another run of an equal task id holds and will give
   back. `ReleasedInv` says that what `release_all` has been through is not orphaned; with `NoLeak` in
   the state after the last step this gives the holder. With one run at a time it is what the
   documentation says (`LoneRunReleases`).

`GitMutationProofs`, for any files, tasks, changes, branches and edits, any number of
crashes and actions of others: `Spec => []IInv`, and from it the six safety properties.
None of them is inductive, for each speaks of what a commit or a record is, and not of
how an executor gets there. `IInv` adds

- `PhaseInv` and `ActedInv`: which snapshot a place belongs to, and that nothing
  changed before the second;
- `IndexInv` and `HeadInv`, of an undisturbed holder of the lock: the index is HEAD's tree
  until `git add`, after it off the targets, and after the two verifications
  exactly the change (`Ready`); HEAD is the preflight's until the commit, and
  the call's own commit after it, newer than the preflight's HEAD and than what any result names;
- `OrderInv`, of any holder, disturbed or not: `commit_sha` names a commit, from `_persist_audit` on
  one that has exactly the targets, and the audit record is then about it;
- `RecordInv`: results and the record are about commits there are;
- `OrphanInv`: while a commit of a crashed executor is pending, the index is still `Ready`
  for it, and so the holder of the lock, if there is one, does not get past its preflight. This is
  what `CommitIsAuthorized` needs in place of serialization, which finding 4 shows
  does not hold.

`RepoStepKeeps` shows that commits stay, wherever HEAD goes; steps of
others keep the holder's part or disturb it (`OthersKeepHolder`, `OutsideStep`).
`HolderDescends` is to `ExecuteReturns` what `ExecuteDescends` is in the gate: `StepsLeft(t)` is read
off place and phase, it is between 1 and 20 while `t` holds the lock and 0 exactly when it does not.
Its assumptions are that the changes have targets and texts and that there is a branch.

`TaskPlanProofs` and `OrchestrationProofs`, for any set of ids, any answers, proposals,
checkpoints and results: `Spec => []IInv`, the type invariant, the three safety properties, and
`Spec => ExecutesPlan`. The argument about plans is in three parts of `PlanInv`:

- `SearchInv`: the visited tasks are closed under dependencies and can be ordered; the calls on the
  stack are a path, each with its other dependencies visited or still to come. When the
  search meets a task on the path, the tasks from there on are a set in which each depends on the
  next, so the plan cannot be ordered (`VisitRaisesInv`); when it ends, all
  tasks are visited, so it can. The code's search is thus sound and complete.
- `CountInv`: each count is the number of dependencies that are not placed, and
  `ready` is exactly the tasks that could come next. If none is ready and tasks are left, they would
  be a set in which each depends on another (`SortIsComplete`): an attested plan is never refused
  by a sort.
- `OrderInv`: a placed task was the least of those that could come next. From this
  follows `OrderIsFirst`, by comparing with another order at the first difference.

`LoopInv` ties `done` to the prefix of the order that the loop has passed, and `AppliedInv` carries
the hook's word from the validation to the gate: while a task is recorded or authorized there is a
witness for just the files of its proposal. The refinement maps `Attest` to `Accept`, the
record of a task to `Complete`, and the end of the `finally` clause to `Return` or `Raise`; all
else are stuttering steps. `PlanningDescends` bounds the search and the sorts for `PlanIsDecided`:
`Pending` are the dependencies still to be looked at, each of them once, and `WorkLeft` counts them and the tasks not
visited or not placed; a step takes one away or ends the search or the sort. The assumptions are that ids are positive numbers and finitely many, and the
types of the inputs.

`ProjectUnderstandingProofs`, for any files, directories, contents, edits, evidence, limits and manifests:

- `ScanIsComplete` from `ScanInv`: a file in `kept` is recorded, among the names of the
  listed directory, or below a directory still to be listed that leads to it (`Ahead`), unless a directory on
  its way could not be listed. That a directory on the
  way is entered needs that it is there when its parent is listed, which `kept` gives, and that
  `Above` has the chain of parents. Records are of paths in `was`, which edits only add to.
- `RepairIsConfirmed` and `StartIsUnambiguous` from `ClassInv`, which says that `classified` is
  the classification of some manifest. The first needs that the two lists of keys agree, so that
  without a confirmed failure REPAIR has no points and cannot be the first with the most; the
  second is arithmetic on scores and threshold.
- `FailedComesFirst` from `FailedInv`: entries and context are what the stages make of the
  requirements found. It needs that a failed one is a `GAP` whatever the texts say, that its priority
  is above that of every other status with its bonuses, and that both cuts take a prefix.
- `ContextFits` from `PlaceInv`: no two requirements are at one place, so that the order of the
  entries is total and the prefixes that the two cuts take have one size each. The cut by characters takes
  the longest prefix that fits with the note, which is compared with every longer one.

Its assumptions are those on the tree of directories and links in `ProjectFiles`, on the values
of manifests, that paths are ordered without ties (`RankAssumption`), and that sizes are natural
numbers (`SizesAssumption`).

`LiveRebindProofs`, for any repository states, records, processes and number of changes: `ReboundWasTrue`
from `IInv`, which says of each finished read that its fact was true at a moment in `trace`, in order,
and of the running one that what Main has printed, if it has read, was true no earlier than the last.
An outcome that is a result of code 0 means that Main has read, which is what `Trustworthy` adds to an
empty output. `TimeoutStopsTheGroup` from an invariant of its own (`GroupInv`): after the signal only those run that
escaped it or were started by one that did, since a process with a SIGTERM that ends it starts nothing more. `DrainIsWaitedOut` from the same
invariant: while nobody among those waited for has escaped, all of them have a SIGTERM that ends them,
and those waited for do not become more, whoever else starts processes; this is what `WaitEnds` rests on. It assumes that `Empty` is
not the output of a dirty status, and what a repository state is.

Only model-checked:

- the liveness properties (`ExecuteReturns` of both modules, `WaitEnds`, `PlanIsDecided`), since the
  provers do not reason about ENABLED. What is proved of each is that every step of the component
  brings the end nearer and no other step takes it back, for every value of the constants; that
  such steps are enabled until then is what TLC adds, with the absence of deadlock;
- the five findings, which are counterexamples. `SavedLeasesAreReleased` and `RejectedIsUntouched` prove
  under which condition the statements of the third and the first do hold.

## Findings

Five disagreements between documents and code, each a run whose single property
is violated; the quotations are in `PROJECT.json`.

1. A transaction whose second target was edited between validation and apply is
   `REJECTED` with its first change applied and the checkpoint left behind.
2. `SAFE_STOP` after a failed verification is overwritten when the handler's own
   retest passes.
3. A save that fails while the workers are released leaves the other workers leased
   after the run, without a run that would release them.
4. The mutation lock is the executor's, and its Git processes have sessions of their
   own: after a crash the next transaction runs beside `git add` or `git commit`.
5. Requirements that contradict each other are found after the project is classified, and
   planning begins.

Seen while modelling, without a run:

- `VERIFIED_AFTER_ROLLBACK` is saved before the verdict is looked at (`execution_gate.py:430`);
  a failing save of `SAFE_STOP` or a crash leaves it in the file.
- A leader whose transport fails ends the run although another leader is healthy
  (`central_leader.py:106`; `RUNTIME_CONNECTION_RESILIENCE.md:63` speaks of further routes).
- `os.replace` overwrites an edit made since the gate read the file (`execution_gate.py:360`);
  nothing promises otherwise.
- The dispatcher hands out standby leases that the execution boundary always refuses
  (`worker_execution.py:253`).
- The scanner's manifest has lists for `tests` and `notes` and no `dirty` under `git`: in the
  pipeline the classifier never sees a failure, a conflict or a count, and only `BUILD`,
  `MAINTAIN` and `UNKNOWN` can come out.
- `bullet_like` is tested after `_clean_candidate` has removed the bullet, so that a line under a
  requirements heading counts only with a second one (`specification_analyzer.py:207`).
- `max_requirements` of the specification analyzer raises at equality; requirements beyond
  `max_requirements` of the context builder are dropped without a note.
- `_assert_no_secrets` raises when a requirement or a path merely mentions a token or a password.
- "should x" beside "should not x" is no conflict, for `should` is not among the removed words.
- A commit is accepted if HEAD is another than before and the commit it names has exactly the targets
  (`git_mutation_executor.py:520`, whose message says that HEAD "did not advance"). When somebody takes the branch
  back to an older such commit after `git commit`, `execute` returns and records that one as its own, while
  `GIT_MUTATION_CONTROL_PLANE.md:77` says that "the post-commit `HEAD` must advance". The model has these steps;
  `AuditIsLatest` and `ResultIsOwnCommit` except calls that others disturbed.
- `os.walk` is called without `onerror` (`project_scanner.py:488`): a directory that cannot be listed, the
  root included, is passed over with all below it; `scan` returns as if it was empty, and nothing in the manifest tells.
- The four facts of a rebind are each true during the call, but not necessarily together.
- After a normal end of the command, a process that let go of the pipes goes on unnoticed.

## Plan

All modules of the plan are written: the gate with its abstract transaction, the routers and their
callers, plans and orchestration, the Git transaction, rebinding with the sandbox, project
understanding. Worth adding:

1. The same for a Git mutation: an abstract commit (the validated change at once, or index and
   history as before, or staged evidence), which `GitMutation` without interference refines.
2. Pure functions: the import of connections, the mutation policy, the registry's
   validation, the health checks' verdicts.

## Not modelled

- Provider transport and production runtime: network calls and composition. That a call answers or
  raises is modelled where it is called.
- Connections, registry and health checks: configuration input and offline tools. What
  `validate_registry` guarantees is an assumption; the health checks are environment.
- Terminal policy, workspace guard and secret redaction: predicates and substitutions on text;
  their verdicts are choices in the callers' models.
- Audits, benchmarks and smoke tests: offline tools that nothing depends on.
- Of the modelled parts: the Windows branch of the sandbox; symbolic links to directories, the
  scanner's summary and statistics, Arabic markers, redaction inside a context; the texts of
  rationales and messages; two processes that save one state file at the very same moment.
