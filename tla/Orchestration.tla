--------------------------- MODULE Orchestration ---------------------------
(***************************************************************************)
(* One call of CanonicalOrchestrator.run (src/orchestration.py): the plan, *)
(* then for each task in order the worker adapter's proposal, the worker's *)
(* process, the independent validation, the work product, the              *)
(* authorization and the execution gate.                                   *)
(*                                                                         *)
(* A stage hands its result to the next or raises: the action of a stage   *)
(* has what the code demands as its guard, and Raise stands for all that   *)
(* is not modelled here, the leases (WorkerDispatch, CentralLeader) and    *)
(* the inside of the gate (ExecutionGate) among it.                        *)
(***************************************************************************)
EXTENDS TaskPlan

CONSTANTS
  Files,
  Forms,         \* how a path is spelled, see Inside and Relative
  Specs,         \* what the adapter may propose for a task
  Checkpoints,   \* what the checkpoint hook may return
  Results,       \* how a process may end
  None

Path == [file : Files, form : Forms]
WorkerSpec == [changes : SUBSET Path, declared : SUBSET Path]
Checkpoint == [isolated : BOOLEAN, id : Nat \cup {None}, padded : BOOLEAN]
Result == [succeeded : BOOLEAN, truncated : BOOLEAN, timedOut : BOOLEAN]

\* What the validation hook says: that the task passed, and whether its evidence
\* names another task or worker.
Evidence == [passed : BOOLEAN, foreign : BOOLEAN]
Verdict == [checkpoint : Nat, files : SUBSET Files, foreign : BOOLEAN]

ASSUME SpecsAssumption == Specs \subseteq WorkerSpec
ASSUME CheckpointsAssumption == Checkpoints \subseteq Checkpoint
ASSUME ResultsAssumption == Results \subseteq Result
ASSUME NoneAssumption == None \notin Nat \cup WorkerSpec \cup Checkpoint \cup Result \cup Verdict

VARIABLES
  index,        \* the place in `order` of the task the loop is at
  spec, checkpoint, result, verdict,   \* of that task
  done,         \* the tasks with a record
  applied,      \* of each task, the files the gate has changed for it
  (* history, read by the properties only *)
  witnessed     \* what the hook has passed, and what it was shown

taskVars == <<spec, checkpoint, result, verdict>>
runVars == <<index, taskVars, done, applied, witnessed>>
vars == <<planVars, runVars>>

Stages == {"prepare", "execute", "running", "validate", "record", "authorize"}
Task == order[index]

Init ==
  /\ PlanInit
  /\ index = 1
  /\ spec = None /\ checkpoint = None /\ result = None /\ verdict = None
  /\ done = {} /\ applied = [t \in Ids |-> {}]
  /\ witnessed = {}

Goto(stage) == pc' = stage /\ UNCHANGED <<searchVars, sortVars>>

(***************************************************************************)
(* Paths.                                                                  *)
(***************************************************************************)

\* The validator and the work product resolve a path and want it inside the
\* workspace; the authorization wants it relative and without "..".
Inside(path) == path.form # "outside"
Relative(path) == path.form \in {"plain", "dotted"}
FilesOf(paths) == {path.file : path \in paths}

(***************************************************************************)
(* The loop.                                                               *)
(***************************************************************************)

\* assign_plan has leased a worker for every task; the coordinator sorts anew.
Assigned ==
  /\ pc = "assign" /\ pc' = "order"
  /\ StartSort
  /\ UNCHANGED <<searchVars, runVars>>

\* _validate_worker_spec
ValidSpec(s) ==
  /\ s.changes # {} => s.changes = s.declared
  /\ s.changes = {} => s.declared = {}

Prepare(s) ==
  /\ pc = "prepare" /\ Goto("execute")
  /\ ValidSpec(s)
  /\ spec' = s
  /\ UNCHANGED <<index, checkpoint, result, verdict, done, applied, witnessed>>

\* execute() up to the launch.
Launch(c) ==
  /\ pc = "execute" /\ Goto("running")
  /\ c.isolated
  /\ checkpoint' = c
  /\ UNCHANGED <<index, spec, result, verdict, done, applied, witnessed>>

Finish(r) ==
  /\ pc = "running" /\ Goto("validate")
  /\ ~r.timedOut
  /\ result' = r
  /\ UNCHANGED <<index, spec, checkpoint, verdict, done, applied, witnessed>>

\* What the hook is shown, with what it says.
Witness(e) ==
  [task |-> Task, checkpoint |-> checkpoint.id, files |-> FilesOf(spec.changes),
   succeeded |-> result.succeeded /\ ~result.truncated /\ ~result.timedOut,
   passed |-> e.passed, foreign |-> e.foreign]

\* Mutant: the evidence of a cut output is good enough.
ValidResultTruncated ==
  /\ checkpoint.isolated /\ checkpoint.id # None
  /\ ~result.timedOut
  /\ result.succeeded

\* _validate_result
ValidResult ==
  /\ checkpoint.isolated /\ checkpoint.id # None
  /\ ~result.timedOut /\ ~result.truncated
  /\ result.succeeded

Validate(e) ==
  /\ pc = "validate"
  /\ ValidResult
  /\ \A path \in spec.declared : Inside(path)
  /\ witnessed' = witnessed \cup {Witness(e)}
  /\ IF e.passed
       THEN /\ Goto("record")
            /\ verdict' = [checkpoint |-> checkpoint.id, files |-> FilesOf(spec.declared),
                           foreign |-> e.foreign]
       ELSE Goto("raised") /\ UNCHANGED verdict
  /\ UNCHANGED <<index, spec, checkpoint, result, done, applied>>

\* Mutant: the loop ends before the last task.
NextTaskShort ==
  /\ done' = done \cup {Task}
  /\ IF index + 1 < Len(order)
       THEN Goto("prepare") /\ index' = index + 1
       ELSE Goto("approved") /\ UNCHANGED index
  /\ spec' = None /\ checkpoint' = None /\ result' = None /\ verdict' = None

\* The task gets its record, and the loop goes on or is over.
NextTask ==
  /\ done' = done \cup {Task}
  /\ IF index < Len(order)
       THEN Goto("prepare") /\ index' = index + 1
       ELSE Goto("approved") /\ UNCHANGED index
  /\ spec' = None /\ checkpoint' = None /\ result' = None /\ verdict' = None

\* The verdict has the checkpoint's id, of which the validator has stripped the
\* padding; here it is compared to the id as it was.
SameCheckpoint == verdict.checkpoint = checkpoint.id /\ ~checkpoint.padded

\* from_validated_execution
WorkProduct ==
  /\ SameCheckpoint
  /\ \A path \in spec.declared \cup spec.changes : Inside(path)
  /\ FilesOf(spec.declared) = FilesOf(spec.changes)

\* A task without changes is complete with its work product.
Record ==
  /\ pc = "record"
  /\ WorkProduct
  /\ IF spec.changes = {}
       THEN NextTask
       ELSE Goto("authorize") /\ UNCHANGED <<index, taskVars, done>>
  /\ UNCHANGED <<applied, witnessed>>

\* authorize().  The binding by transaction_id is for checkpoints without an id,
\* and these do not come so far.
Authorized ==
  /\ ~verdict.foreign
  /\ checkpoint.isolated /\ checkpoint.id = verdict.checkpoint
  /\ \A path \in spec.changes : Relative(path)
  /\ FilesOf(spec.changes) = verdict.files

GateApproves ==
  /\ pc = "authorize"
  /\ Authorized
  /\ applied' = [applied EXCEPT ![Task] = FilesOf(spec.changes)]
  /\ NextTask
  /\ UNCHANGED witnessed

\* Any other status, or an exception: most often nothing is left of the changes,
\* but see GateRejectedLeavesNothingApplied.
GateFails ==
  /\ pc = "authorize" /\ Goto("raised")
  /\ Authorized
  /\ \E left \in SUBSET FilesOf(spec.changes) : applied' = [applied EXCEPT ![Task] = left]
  /\ UNCHANGED <<index, taskVars, done, witnessed>>

\* A stage refuses what it is given, or something outside this module raises.
Raise ==
  /\ pc \in {"answer", "assign"} \cup Stages
  /\ Goto("raised")
  /\ UNCHANGED runVars

(***************************************************************************)
(* The finally clause.  What release_all raises takes the place of the     *)
(* result.                                                                 *)
(***************************************************************************)

Release ==
  /\ pc \in {"approved", "raised"}
  /\ Goto(IF pc = "approved" THEN "returned" ELSE "failed")
  /\ UNCHANGED runVars

ReleaseRaises ==
  /\ pc \in {"approved", "raised"}
  /\ Goto("failed")
  /\ UNCHANGED runVars

Next ==
  \/ (\E answer \in Answers : Decompose(answer)) /\ UNCHANGED runVars
  \/ PlanStep /\ UNCHANGED runVars
  \/ Assigned
  \/ \E s \in Specs : Prepare(s)
  \/ \E c \in Checkpoints : Launch(c)
  \/ \E r \in Results : Finish(r)
  \/ \E e \in Evidence : Validate(e)
  \/ Record \/ GateApproves \/ GateFails
  \/ Raise \/ Release \/ ReleaseRaises

Spec == Init /\ [][Next]_vars

\* The search and the sorts compute and wait for nobody.
FairSpec == Spec /\ WF_vars(PlanStep /\ UNCHANGED runVars)

(***************************************************************************)
(* Properties.                                                             *)
(***************************************************************************)

Phases == {"answer", "visit", "dispatch", "assign", "order"} \cup Stages
            \cup {"approved", "raised", "returned", "failed"}

\* Every variable has its type, and a stage has what the stages before it made.
TypeOK ==
  /\ pc \in Phases
  /\ Tasks \subseteq Ids /\ edges \in [Tasks -> SUBSET Tasks]
  /\ stack \in Seq([task : Tasks \cup {Root}, left : SUBSET Tasks])
  /\ visited \subseteq Tasks /\ attested \in BOOLEAN
  /\ DOMAIN indegree \subseteq Tasks /\ indegree \in [DOMAIN indegree -> Nat]
  /\ ready \subseteq Tasks /\ order \in Seq(Tasks)
  /\ index \in Nat \ {0} /\ (pc \in Stages => index <= Len(order))
  /\ spec \in WorkerSpec \cup {None} /\ (pc \in Stages \ {"prepare"} => spec # None)
  /\ checkpoint \in Checkpoint \cup {None}
  /\ pc \in Stages \ {"prepare", "execute"} => checkpoint # None
  /\ result \in Result \cup {None}
  /\ pc \in Stages \ {"prepare", "execute", "running"} => result # None
  /\ verdict \in Verdict \cup {None}
  /\ pc \in {"record", "authorize"} => verdict # None
  /\ done \subseteq Tasks
  /\ applied \in [Ids -> SUBSET Files]
  /\ witnessed \subseteq [task : Tasks, checkpoint : Nat \cup {None}, files : SUBSET Files,
                          succeeded : BOOLEAN, passed : BOOLEAN, foreign : BOOLEAN]

\* A plan is taken up when it is attested.
TakenUp == IF attested THEN edges ELSE NoPlan
Status ==
  CASE pc = "returned" -> "approved"
    [] pc = "failed" -> "raised"
    [] OTHER -> IF attested THEN "working" ELSE "planning"

\* What run() promises of a plan.
Execution == INSTANCE PlanExecution WITH graph <- TakenUp, status <- Status

\* "Tasks execute in deterministic topological order" of a "task DAG": run() goes
\* through the leader's plan as PlanExecution says, without a step back or aside.
ExecutesPlan == Execution!Spec

\* Neither the search nor a sort refuses a plan whose tasks can be ordered: when a
\* run over such a plan fails, the search has attested it, and the sort has placed
\* every task or was not begun (before it the dispatcher looks at the roles).
OrderedPlanIsNotRefused ==
  pc \in {"raised", "failed"} /\ Tasks # {} /\ Execution!Acyclic(edges) =>
    attested /\ (DOMAIN indegree # {} => Len(order) = Cardinality(Tasks))

\* p lists the tasks, each one after all it depends on.
TopologicalOrder(p) ==
  /\ p \in [1..Cardinality(Tasks) -> Tasks]
  /\ \A i, j \in DOMAIN p : p[i] = p[j] => i = j
  /\ \A i \in DOMAIN p : edges[p[i]] \subseteq {p[j] : j \in 1..i-1}

\* "Deterministic": whatever the order of the answer, tasks are executed in the
\* topological order that comes first when ids are compared (the order stands from
\* the last sort on, and every task's loop begins at "prepare").
OrderIsFirst ==
  pc = "prepare" =>
    /\ TopologicalOrder(order)
    /\ \A p \in [1..Cardinality(Tasks) -> Tasks] : TopologicalOrder(p) =>
         \A i \in DOMAIN p :
           order[i] # p[i] => (\E j \in 1..i-1 : order[j] # p[j]) \/ order[i] < p[i]

\* The hook has passed the task under its checkpoint, after a process that
\* succeeded and was seen to its end; for a change it said nothing of others.
Validates(w, t) ==
  /\ w.task = t
  /\ w.passed /\ w.succeeded /\ w.checkpoint # None
  /\ w.files # {} => ~w.foreign

\* "No adapter output is treated as authorization": a file is changed for a task
\* only if the task's changes were validated, and a task has a record only if it
\* was validated and just the validated changes are in place.
OnlyValidatedIsApplied ==
  /\ \A t \in Ids : applied[t] # {} =>
       \E w \in witnessed : Validates(w, t) /\ applied[t] \subseteq w.files
  /\ \A t \in done : \E w \in witnessed : Validates(w, t) /\ applied[t] = w.files

\* Search and sort end, whatever the leader's plan is.
PlanIsDecided == [](pc \in {"visit", "dispatch", "order"} =>
                      <>(pc \in {"assign", "prepare", "raised"}))

=============================================================================
