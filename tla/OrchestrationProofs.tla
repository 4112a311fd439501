------------------------ MODULE OrchestrationProofs ------------------------
(***************************************************************************)
(* Proofs about Orchestration, for any answers, proposals, checkpoints and *)
(* results.  What concerns the plan alone is in TaskPlanProofs.            *)
(***************************************************************************)
EXTENDS Orchestration, TaskPlanProofs

Witnessed == [task : Tasks, checkpoint : Nat \cup {None}, files : SUBSET Files,
              succeeded : BOOLEAN, passed : BOOLEAN, foreign : BOOLEAN]

StageTypeOK ==
  /\ pc \in Phases
  /\ spec \in WorkerSpec \cup {None} /\ (pc \in Stages \ {"prepare"} => spec # None)
  /\ checkpoint \in Checkpoint \cup {None}
  /\ pc \in Stages \ {"prepare", "execute"} => checkpoint # None
  /\ result \in Result \cup {None}
  /\ pc \in Stages \ {"prepare", "execute", "running"} => result # None
  /\ verdict \in Verdict \cup {None}
  /\ pc \in {"record", "authorize"} => verdict # None
  /\ applied \in [Ids -> SUBSET Files]
  /\ witnessed \subseteq Witnessed

Ends == {"approved", "raised", "returned", "failed"}

\* The tasks with a record are those the loop has passed.
LoopInv ==
  /\ index \in Nat \ {0} /\ done \subseteq Tasks
  /\ pc \in Stages => index \in 1..Len(order) /\ done = Placed(index - 1)
  /\ pc \notin Stages \cup Ends => index = 1 /\ done = {}
  /\ pc \in {"approved", "returned"} => done = Tasks

\* The hook has passed what is in place, and what is about to be.
AppliedInv ==
  /\ OnlyValidatedIsApplied
  /\ pc \notin {"raised", "failed"} => \A t \in Ids \ done : applied[t] = {}
  /\ pc \in {"record", "authorize"} =>
       \E w \in witnessed :
         /\ w.task = Task /\ w.files = FilesOf(spec.changes)
         /\ w.passed /\ w.succeeded /\ w.checkpoint # None
         /\ w.foreign = verdict.foreign

IInv == PlanInv /\ StageTypeOK /\ LoopInv /\ AppliedInv

LEMMA InitInv == Init => IInv
<1> SUFFICES ASSUME Init PROVE IInv
  OBVIOUS
<1>1. PlanInv
  BY PlanInitInv DEF Init
<1>2. StageTypeOK
  BY DEF Init, PlanInit, StageTypeOK, Phases, Stages
<1>3. LoopInv
  BY DEF Init, PlanInit, LoopInv, Stages, Ends
<1>4. AppliedInv
  BY DEF Init, PlanInit, AppliedInv, OnlyValidatedIsApplied
<1>5. QED
  BY <1>1, <1>2, <1>3, <1>4 DEF IInv

\* The steps of the loop and of the finally clause, by what they do to pc.
LoopStep ==
  \/ \E s \in Specs : Prepare(s)
  \/ \E c \in Checkpoints : Launch(c)
  \/ \E r \in Results : Finish(r)
  \/ \E e \in Evidence : Validate(e)
  \/ Record \/ GateApproves \/ GateFails
  \/ Raise \/ Release \/ ReleaseRaises

LEMMA LoopStepKeepsPlan ==
  ASSUME LoopStep
  PROVE  /\ UNCHANGED <<searchVars, sortVars>>
         /\ pc \notin {"visit", "dispatch", "order", "returned", "failed"}
         /\ pc' \notin {"answer", "visit", "dispatch", "assign", "order"}
         /\ pc \in {"answer", "raised"} => pc' \in {"raised", "failed"}
<1> DEFINE Moves(from, to) ==
             UNCHANGED <<searchVars, sortVars>> /\ pc \in from /\ pc' \in to
<1>1. CASE (\E s \in Specs : Prepare(s)) \/ (\E c \in Checkpoints : Launch(c))
           \/ (\E r \in Results : Finish(r))
  <2>1. Moves(Stages, Stages)
    BY <1>1 DEF Prepare, Launch, Finish, Goto, Stages
  <2>2. QED
    BY <2>1 DEF Stages
<1>2. CASE (\E e \in Evidence : Validate(e)) \/ GateFails
  <2>1. Moves(Stages, Stages \cup {"raised"})
    BY <1>2 DEF Validate, GateFails, Goto, Stages
  <2>2. QED
    BY <2>1 DEF Stages
<1>3. CASE Record \/ GateApproves
  <2>1. Moves(Stages, Stages \cup {"approved"})
    BY <1>3 DEF Record, GateApproves, NextTask, Goto, Stages
  <2>2. QED
    BY <2>1 DEF Stages
<1>4. CASE Raise
  <2>1. Moves(Stages \cup {"answer", "assign"}, {"raised"})
    BY <1>4 DEF Raise, Goto
  <2>2. QED
    BY <2>1 DEF Stages
<1>5. CASE Release \/ ReleaseRaises
  <2>1. Moves({"approved", "raised"}, {"returned", "failed"}) /\ (pc = "raised" => pc' = "failed")
    BY <1>5 DEF Release, ReleaseRaises, Goto
  <2>2. QED
    BY <2>1
<1>6. QED
  BY <1>1, <1>2, <1>3, <1>4, <1>5 DEF LoopStep

\* The plan's invariant, over every step.
LEMMA NextKeepsPlan ==
  ASSUME PlanInv, [Next]_vars
  PROVE  PlanInv'
<1>1. CASE \E answer \in Answers : Decompose(answer)
  BY <1>1, DecomposeInv
<1>2. CASE PlanStep
  BY <1>2, PlanStepInv
<1>3. CASE Assigned
  BY <1>3, StartAgainInv DEF Assigned
<1>4. CASE LoopStep
  BY <1>4, LoopStepKeepsPlan, LaterInv
<1>5. CASE UNCHANGED vars
  BY <1>5, PlanUnchanged DEF vars
<1>6. QED
  BY <1>1, <1>2, <1>3, <1>4, <1>5 DEF Next, LoopStep

\* Every stage leaves what the next one needs.
LEMMA NextKeepsStageType ==
  ASSUME IInv, [Next]_vars
  PROVE  StageTypeOK'
<1>1. PlanInv /\ PlanTypeOK /\ StageTypeOK /\ LoopInv /\ PlanInv'
  BY NextKeepsPlan DEF IInv, PlanInv
<1>2. CASE \E answer \in Answers : Decompose(answer) /\ UNCHANGED runVars
  <2>1. pc = "answer" /\ pc' = "visit" /\ UNCHANGED runVars
    BY <1>2 DEF Decompose
  <2>2. witnessed' \subseteq Witnessed'
    <3>1. Tasks = {}
      BY <1>1, <2>1 DEF PlanInv, SearchInv, NoPlan, Tasks
    <3>2. witnessed = {}
      BY <1>1, <3>1 DEF StageTypeOK, Witnessed
    <3>3. QED
      BY <2>1, <3>2 DEF runVars
  <2>3. QED
    BY <1>1, <2>1, <2>2 DEF StageTypeOK, runVars, taskVars, Phases, Stages
<1>3. CASE PlanStep /\ UNCHANGED runVars
  <2>1. edges' = edges
    BY <1>3 DEF PlanStep, VisitSeen, VisitEnter, VisitRaises, VisitLeave, Attest, PlaceNext,
                Place, EndSort, searchVars
  <2>2. pc' \in {"visit", "raised", "dispatch", "assign", "order", "prepare"}
    BY <1>1, <1>3, EndSortInv
       DEF PlanStep, VisitSeen, VisitEnter, VisitRaises, VisitLeave, Attest, PlaceNext, Place
  <2>3. Witnessed' = Witnessed
    BY <2>1 DEF Witnessed, Tasks
  <2>4. QED
    BY <1>1, <1>3, <2>2, <2>3 DEF StageTypeOK, runVars, taskVars, Phases, Stages
<1>4. CASE Assigned
  <2>1. edges' = edges /\ pc' = "order" /\ UNCHANGED runVars
    BY <1>4 DEF Assigned, searchVars
  <2>2. Witnessed' = Witnessed
    BY <2>1 DEF Witnessed, Tasks
  <2>3. QED
    BY <1>1, <2>1, <2>2 DEF StageTypeOK, runVars, taskVars, Phases, Stages
<1>5. ASSUME LoopStep PROVE Witnessed' = Witnessed /\ order' = order /\ Tasks' = Tasks
  <2>1. UNCHANGED <<searchVars, sortVars>>
    BY <1>5, LoopStepKeepsPlan
  <2>2. QED
    BY <2>1 DEF Witnessed, Tasks, searchVars, sortVars
<1>6. ASSUME NEW s \in Specs, Prepare(s) PROVE StageTypeOK'
  <2>1. /\ pc = "prepare" /\ pc' = "execute" /\ spec' = s
        /\ UNCHANGED <<checkpoint, result, verdict, applied, witnessed>>
    BY <1>6 DEF Prepare, Goto
  <2>2. s \in WorkerSpec /\ s # None
    BY SpecsAssumption, NoneAssumption
  <2>3. Witnessed' = Witnessed
    BY <1>5, <1>6 DEF LoopStep
  <2>4. QED
    BY <1>1, <2>1, <2>2, <2>3 DEF StageTypeOK, Phases, Stages
<1>7. CASE \E c \in Checkpoints : Launch(c)
  BY <1>1, <1>5, <1>7, CheckpointsAssumption, NoneAssumption
     DEF LoopStep, Launch, Goto, StageTypeOK, Phases, Stages
<1>8. CASE \E r \in Results : Finish(r)
  BY <1>1, <1>5, <1>8, ResultsAssumption, NoneAssumption
     DEF LoopStep, Finish, Goto, StageTypeOK, Phases, Stages
<1>9. ASSUME NEW e \in Evidence, Validate(e) PROVE StageTypeOK'
  <2>1. /\ pc = "validate" /\ pc' \in {"record", "raised"}
        /\ witnessed' = witnessed \cup {Witness(e)}
        /\ UNCHANGED <<index, spec, checkpoint, result, done, applied>>
    BY <1>9 DEF Validate, Goto
  <2>2. Task \in Tasks
    BY <1>1, <2>1 DEF LoopInv, Stages, PlanTypeOK, Task
  <2>3. spec \in WorkerSpec /\ checkpoint \in Checkpoint /\ result \in Result
    BY <1>1, <2>1 DEF StageTypeOK, Stages
  <2>4. FilesOf(spec.changes) \subseteq Files /\ FilesOf(spec.declared) \subseteq Files
    BY <2>3 DEF FilesOf, WorkerSpec, Path
  <2>5. Witness(e) \in Witnessed
    BY <2>2, <2>3, <2>4 DEF Witness, Witnessed, Checkpoint, Result, Evidence
  <2>6. /\ verdict' \in Verdict \cup {None}
        /\ pc' = "record" => verdict' # None
    <3>1. CASE e.passed
      <4>1. pc' = "record" /\ checkpoint.id # None
            /\ verdict' = [checkpoint |-> checkpoint.id, files |-> FilesOf(spec.declared),
                            foreign |-> e.foreign]
        BY <1>9, <3>1 DEF Validate, Goto, ValidResult
      <4>2. verdict' \in Verdict
        BY <2>3, <2>4, <4>1 DEF Verdict, Checkpoint, Evidence
      <4>3. QED
        BY <4>2, NoneAssumption
    <3>2. CASE ~e.passed
      BY <1>1, <1>9, <3>2 DEF Validate, Goto, StageTypeOK
    <3>3. QED
      BY <3>1, <3>2
  <2>7. witnessed' \subseteq Witnessed'
    BY <1>1, <1>5, <1>9, <2>1, <2>5 DEF LoopStep, StageTypeOK
  <2>8. QED
    BY <1>1, <2>1, <2>6, <2>7 DEF StageTypeOK, Phases, Stages
<1>10. CASE Record
  <2>1. /\ pc = "record" /\ pc' \in {"prepare", "approved", "authorize"}
        /\ applied' = applied /\ witnessed' = witnessed
        /\ pc' # "authorize" => spec' = None /\ checkpoint' = None /\ result' = None /\ verdict' = None
        /\ pc' = "authorize" => UNCHANGED taskVars
    BY <1>10 DEF Record, NextTask, Goto
  <2>2. QED
    BY <1>1, <1>5, <1>10, <2>1 DEF LoopStep, StageTypeOK, Phases, Stages, taskVars
<1>11. ASSUME NEW left \in SUBSET FilesOf(spec.changes), pc = "authorize"
       PROVE  [applied EXCEPT ![Task] = left] \in [Ids -> SUBSET Files]
  <2>1. spec \in WorkerSpec
    BY <1>1, <1>11 DEF StageTypeOK, Stages
  <2>2. left \subseteq Files
    BY <2>1 DEF FilesOf, WorkerSpec, Path
  <2>3. QED
    BY <1>1, <2>2 DEF StageTypeOK
<1>12. CASE GateApproves
  <2>1. /\ pc = "authorize" /\ pc' \in {"prepare", "approved"}
        /\ applied' = [applied EXCEPT ![Task] = FilesOf(spec.changes)] /\ witnessed' = witnessed
        /\ spec' = None /\ checkpoint' = None /\ result' = None /\ verdict' = None
    BY <1>12 DEF GateApproves, NextTask, Goto
  <2>2. QED
    BY <1>1, <1>5, <1>11, <1>12, <2>1 DEF LoopStep, StageTypeOK, Phases, Stages
<1>13. CASE GateFails
  <2>1. /\ pc = "authorize" /\ pc' = "raised"
        /\ \E left \in SUBSET FilesOf(spec.changes) : applied' = [applied EXCEPT ![Task] = left]
        /\ witnessed' = witnessed /\ UNCHANGED taskVars
    BY <1>13 DEF GateFails, Goto
  <2>2. QED
    BY <1>1, <1>5, <1>11, <1>13, <2>1 DEF LoopStep, StageTypeOK, Phases, Stages, taskVars
<1>14. CASE Raise \/ Release \/ ReleaseRaises
  <2>1. pc' \in {"raised", "returned", "failed"} /\ UNCHANGED runVars
    BY <1>14 DEF Raise, Release, ReleaseRaises, Goto
  <2>2. QED
    BY <1>1, <1>5, <1>14, <2>1 DEF LoopStep, StageTypeOK, Phases, Stages, runVars, taskVars
<1>15. CASE UNCHANGED vars
  <2>1. pc' = pc /\ UNCHANGED runVars /\ Witnessed' = Witnessed
    BY <1>15 DEF vars, planVars, searchVars, Witnessed, Tasks
  <2>2. QED
    BY <1>1, <2>1 DEF StageTypeOK, runVars, taskVars
<1>16. QED
  BY <1>2, <1>3, <1>4, <1>6, <1>7, <1>8, <1>9, <1>10, <1>12, <1>13, <1>14, <1>15 DEF Next

(***************************************************************************)
(* The loop, and what the gate has changed.                                *)
(***************************************************************************)

\* What the steps of the loop leave of the plan.
LEMMA LoopFrame ==
  ASSUME IInv, LoopStep
  PROVE  /\ Tasks' = Tasks /\ order' = order /\ \A n : Placed(n)' = Placed(n)
         /\ index \in Nat \ {0} /\ done \subseteq Tasks
<1>1. UNCHANGED <<searchVars, sortVars>>
  BY LoopStepKeepsPlan
<1>2. QED
  BY <1>1 DEF IInv, LoopInv, searchVars, sortVars, Tasks, Placed

\* The task the loop is at has no record yet.
LEMMA TaskIsNew ==
  ASSUME IInv, pc \in Stages
  PROVE  /\ index \in 1..Len(order) /\ Len(order) \in Nat
         /\ Task \in Tasks /\ Task \in Ids /\ Task \notin done
         /\ done = Placed(index - 1) /\ OrderInv /\ OrderComplete
<1>1. PlanTypeOK /\ OrderInv /\ OrderComplete
  BY DEF IInv, PlanInv, SearchInv, SortInv, Stages
<1>2. index \in 1..Len(order) /\ done = Placed(index - 1)
  BY DEF IInv, LoopInv
<1>3. Len(order) \in Nat /\ \A i \in 1..Len(order) : order[i] \in Tasks
  BY <1>1, PlacedIsClosed
<1>4. Task \in Tasks /\ Task \in Ids
  BY <1>1, <1>2, <1>3 DEF Task, PlanTypeOK
<1>5. \A j \in 1..index - 1 : order[j] # order[index]
  BY <1>1, <1>2, <1>3 DEF OrderInv
<1>6. QED
  BY <1>1, <1>2, <1>3, <1>4, <1>5 DEF Placed, Task

LEMMA NextTaskKeepsLoop ==
  ASSUME IInv, pc \in Stages, NextTask
  PROVE  LoopInv'
<1>1. /\ index \in 1..Len(order) /\ Len(order) \in Nat /\ Task \in Tasks
      /\ done = Placed(index - 1) /\ done \subseteq Tasks /\ OrderComplete
  BY TaskIsNew DEF IInv, LoopInv
<1>2. /\ done' = done \cup {Task} /\ UNCHANGED <<searchVars, sortVars>>
      /\ index < Len(order) => pc' = "prepare" /\ index' = index + 1
      /\ ~(index < Len(order)) => pc' = "approved" /\ index' = index
  BY DEF NextTask, Goto
<1>3. Tasks' = Tasks /\ order' = order
  BY <1>2 DEF Tasks, searchVars, sortVars
<1>4. done' = {order[j] : j \in 1..index} /\ done' \subseteq Tasks
  BY <1>1, <1>2 DEF Placed, Task
<1>5. CASE index < Len(order)
  <2>1. done' = Placed(index - 1)'
    <3>1. index' - 1 = index
      BY <1>1, <1>2, <1>5
    <3>2. Placed(index - 1)' = {order[j] : j \in 1..index}
      BY <1>3, <3>1 DEF Placed
    <3>3. QED
      BY <1>4, <3>2
  <2>2. QED
    BY <1>1, <1>2, <1>3, <1>4, <1>5, <2>1 DEF LoopInv, Stages, Ends
<1>6. CASE ~(index < Len(order))
  <2>1. index = Len(order) /\ done' = Tasks
    BY <1>1, <1>4, <1>6 DEF OrderComplete, Placed
  <2>2. QED
    BY <1>1, <1>2, <1>3, <1>6, <2>1 DEF LoopInv, Stages, Ends
<1>7. QED
  BY <1>5, <1>6

\* Before the loop nothing is done, and the loop begins with the first task.
LEMMA NextKeepsLoop ==
  ASSUME IInv, [Next]_vars
  PROVE  LoopInv'
<1>1. PlanInv /\ PlanTypeOK /\ LoopInv /\ PlanInv'
  BY NextKeepsPlan DEF IInv, PlanInv
<1>2. ASSUME pc \notin Stages \cup Ends, pc' \notin Ends \ {"raised"}, UNCHANGED runVars
      PROVE  LoopInv'
  <2>1. index' = 1 /\ done' = {}
    BY <1>1, <1>2 DEF LoopInv, runVars
  <2>2. pc' \in Stages => index' \in 1..Len(order') /\ done' = Placed(index - 1)'
    <3>1. SUFFICES ASSUME pc' \in Stages
                   PROVE  index' \in 1..Len(order') /\ done' = Placed(index - 1)'
      OBVIOUS
    <3>2. Tasks' # {} /\ OrderComplete' /\ order' \in Seq(Tasks')
      BY <1>1, <3>1 DEF PlanInv, PlanTypeOK, SearchInv, SortInv, Stages
    <3>3. Len(order') \in Nat /\ Len(order') # 0
      BY <3>2 DEF OrderComplete, Placed
    <3>4. Placed(0)' = {}
      BY DEF Placed
    <3>5. QED
      BY <2>1, <3>3, <3>4
  <2>3. QED
    BY <1>2, <2>1, <2>2 DEF LoopInv, Stages, Ends
<1>3. CASE (\E answer \in Answers : Decompose(answer)) /\ UNCHANGED runVars
  BY <1>2, <1>3 DEF Decompose, Stages, Ends
<1>4. CASE PlanStep /\ UNCHANGED runVars
  <2>1. pc \in {"visit", "dispatch", "order"}
    BY <1>4 DEF PlanStep, VisitSeen, VisitEnter, VisitRaises, VisitLeave, Attest, PlaceNext,
                EndSort
  <2>2. pc' \in {"visit", "raised", "dispatch", "assign", "order", "prepare"}
    BY <1>1, <1>4, EndSortInv
       DEF PlanStep, VisitSeen, VisitEnter, VisitRaises, VisitLeave, Attest, PlaceNext, Place
  <2>3. QED
    BY <1>2, <1>4, <2>1, <2>2 DEF Stages, Ends
<1>5. CASE Assigned
  BY <1>2, <1>5 DEF Assigned, Stages, Ends
<1>6. CASE \/ \E s \in Specs : Prepare(s)
           \/ \E c \in Checkpoints : Launch(c)
           \/ \E r \in Results : Finish(r)
           \/ \E e \in Evidence : Validate(e)
           \/ GateFails
  <2>1. pc \in Stages /\ pc' \in Stages \cup {"raised"} /\ index' = index /\ done' = done
    BY <1>6 DEF Prepare, Launch, Finish, Validate, GateFails, Goto, Stages
  <2>2. QED
    BY <1>1, <1>6, <2>1, LoopFrame DEF LoopStep, LoopInv, Stages, Ends
<1>7. CASE Record \/ GateApproves
  <2>1. pc \in Stages
    BY <1>7 DEF Record, GateApproves, Stages
  <2>2. CASE NextTask
    BY <2>1, <2>2, NextTaskKeepsLoop
  <2>3. CASE pc' = "authorize" /\ index' = index /\ done' = done
    BY <1>1, <1>7, <2>1, <2>3, LoopFrame DEF LoopStep, LoopInv, Stages, Ends
  <2>4. QED
    BY <1>7, <2>2, <2>3 DEF Record, GateApproves, Goto
<1>8. CASE Raise \/ Release \/ ReleaseRaises
  <2>1. /\ pc' \in {"raised", "returned", "failed"} /\ (pc' = "returned" => pc = "approved")
        /\ index' = index /\ done' = done
    BY <1>8 DEF Raise, Release, ReleaseRaises, Goto, runVars
  <2>2. QED
    BY <1>1, <1>8, <2>1, LoopFrame DEF LoopStep, LoopInv, Stages, Ends
<1>9. CASE UNCHANGED vars
  <2>1. pc' = pc /\ index' = index /\ done' = done /\ edges' = edges /\ order' = order
    BY <1>9 DEF vars, planVars, searchVars, sortVars, runVars
  <2>2. QED
    BY <1>1, <2>1 DEF LoopInv, Placed, Tasks
<1>10. QED
  BY <1>3, <1>4, <1>5, <1>6, <1>7, <1>8, <1>9 DEF Next

\* Nothing is changed by a step that leaves what is in place and what is done.
LEMMA AppliedFrame ==
  ASSUME IInv, applied' = applied, done' = done, witnessed \subseteq witnessed',
         pc \in {"raised", "failed"} => pc' \in {"raised", "failed"},
         pc' \notin {"record", "authorize"}
  PROVE  AppliedInv'
<1>1. AppliedInv
  BY DEF IInv
<1>2. OnlyValidatedIsApplied'
  BY <1>1 DEF AppliedInv, OnlyValidatedIsApplied, Validates
<1>3. QED
  BY <1>1, <1>2 DEF AppliedInv

\* The record of a task whose change, if it has one, has just been made.
LEMMA RecordKeepsApplied ==
  ASSUME IInv, pc \in {"record", "authorize"}, NextTask, witnessed' = witnessed,
         applied' = [applied EXCEPT ![Task] = FilesOf(spec.changes)],
         FilesOf(spec.changes) # {} => ~verdict.foreign
  PROVE  AppliedInv'
<1>1. /\ AppliedInv /\ applied \in [Ids -> SUBSET Files]
      /\ done \subseteq Tasks /\ Tasks \subseteq Ids
  BY DEF IInv, StageTypeOK, LoopInv, PlanInv, PlanTypeOK
<1>2. Task \in Ids /\ Task \notin done
  BY TaskIsNew DEF Stages
<1>3. done' = done \cup {Task} /\ pc' \in {"prepare", "approved"}
  BY DEF NextTask, Goto
<1>4. PICK w \in witnessed : Validates(w, Task) /\ w.files = FilesOf(spec.changes)
  BY <1>1 DEF AppliedInv, Validates
<1>5. /\ applied'[Task] = w.files
      /\ \A t \in Ids \ {Task} : applied'[t] = applied[t]
  BY <1>1, <1>2, <1>4
<1>6. \A t \in Ids : applied'[t] # {} =>
        \E v \in witnessed : Validates(v, t) /\ applied'[t] \subseteq v.files
  BY <1>1, <1>4, <1>5 DEF AppliedInv, OnlyValidatedIsApplied
<1>7. \A t \in done \cup {Task} : \E v \in witnessed : Validates(v, t) /\ applied'[t] = v.files
  BY <1>1, <1>2, <1>4, <1>5 DEF AppliedInv, OnlyValidatedIsApplied
<1>8. OnlyValidatedIsApplied'
  BY <1>3, <1>6, <1>7 DEF OnlyValidatedIsApplied, Validates
<1>9. \A t \in Ids \ (done \cup {Task}) : applied'[t] = {}
  BY <1>1, <1>5 DEF AppliedInv
<1>10. QED
  BY <1>3, <1>8, <1>9 DEF AppliedInv

\* What the hook says becomes the witness of the task.
LEMMA ValidateKeepsApplied ==
  ASSUME IInv, NEW e \in Evidence, Validate(e)
  PROVE  AppliedInv'
<1>1. /\ pc = "validate" /\ UNCHANGED <<index, spec, checkpoint, result, done, applied>>
      /\ witnessed' = witnessed \cup {Witness(e)}
      /\ ValidResult
      /\ UNCHANGED <<searchVars, sortVars>>
  BY DEF Validate, Goto
<1>2. CASE ~e.passed
  <2>1. pc' = "raised"
    BY <1>2 DEF Validate, Goto
  <2>2. QED
    BY <1>1, <2>1, AppliedFrame
<1>3. CASE e.passed
  <2>1. /\ pc' = "record" /\ verdict'.foreign = e.foreign
    BY <1>3 DEF Validate, Goto
  <2>2. /\ Witness(e).task = Task /\ Witness(e).files = FilesOf(spec.changes)
        /\ Witness(e).foreign = e.foreign /\ Witness(e).passed
        /\ Witness(e).succeeded /\ Witness(e).checkpoint # None
    BY <1>1, <1>3 DEF Witness, ValidResult
  <2>3. Task' = Task /\ FilesOf(spec.changes)' = FilesOf(spec.changes)
    BY <1>1 DEF Task, FilesOf, sortVars
  <2>4. \E w \in witnessed' :
          /\ w.task = Task' /\ w.files = FilesOf(spec.changes)'
          /\ w.passed /\ w.succeeded /\ w.checkpoint # None
          /\ w.foreign = verdict'.foreign
    BY <1>1, <2>1, <2>2, <2>3
  <2>5. OnlyValidatedIsApplied'
    BY <1>1 DEF IInv, AppliedInv, OnlyValidatedIsApplied, Validates
  <2>6. \A t \in Ids \ done' : applied'[t] = {}
    BY <1>1 DEF IInv, AppliedInv
  <2>7. QED
    BY <2>4, <2>5, <2>6 DEF AppliedInv
<1>4. QED
  BY <1>2, <1>3

\* A change that fails leaves at most what was validated.
LEMMA GateFailsKeepsApplied ==
  ASSUME IInv, GateFails
  PROVE  AppliedInv'
<1>1. /\ pc = "authorize" /\ pc' = "raised" /\ ~verdict.foreign
      /\ done' = done /\ witnessed' = witnessed
  BY DEF GateFails, Authorized, Goto
<1>2. PICK left \in SUBSET FilesOf(spec.changes) : applied' = [applied EXCEPT ![Task] = left]
  BY DEF GateFails
<1>3. AppliedInv /\ applied \in [Ids -> SUBSET Files] /\ done \subseteq Tasks /\ Tasks \subseteq Ids
  BY DEF IInv, StageTypeOK, LoopInv, PlanInv, PlanTypeOK
<1>4. Task \in Ids /\ Task \notin done
  BY <1>1, TaskIsNew DEF Stages
<1>5. PICK w \in witnessed : Validates(w, Task) /\ w.files = FilesOf(spec.changes)
  BY <1>1, <1>3 DEF AppliedInv, Validates
<1>6. /\ applied'[Task] \subseteq w.files
      /\ \A t \in Ids \ {Task} : applied'[t] = applied[t]
  BY <1>2, <1>3, <1>4, <1>5
<1>7. \A t \in Ids : applied'[t] # {} =>
        \E v \in witnessed : Validates(v, t) /\ applied'[t] \subseteq v.files
  BY <1>3, <1>5, <1>6 DEF AppliedInv, OnlyValidatedIsApplied
<1>8. \A t \in done : \E v \in witnessed : Validates(v, t) /\ applied'[t] = v.files
  BY <1>3, <1>4, <1>6 DEF AppliedInv, OnlyValidatedIsApplied
<1>9. OnlyValidatedIsApplied'
  BY <1>1, <1>7, <1>8 DEF OnlyValidatedIsApplied, Validates
<1>10. QED
  BY <1>1, <1>9 DEF AppliedInv

LEMMA NextKeepsApplied ==
  ASSUME IInv, [Next]_vars
  PROVE  AppliedInv'
<1>1. CASE \/ (\E answer \in Answers : Decompose(answer)) /\ UNCHANGED runVars
           \/ PlanStep /\ UNCHANGED runVars
           \/ Assigned
  <2>1. UNCHANGED runVars /\ pc \in {"answer", "visit", "dispatch", "assign", "order"}
    BY <1>1 DEF Decompose, Assigned, PlanStep, VisitSeen, VisitEnter, VisitRaises, VisitLeave,
                Attest, PlaceNext, EndSort
  <2>2. pc' \notin {"record", "authorize"}
    <3>1. CASE PlanStep
      BY <2>1, <3>1, EndSortInv
         DEF IInv, PlanStep, VisitSeen, VisitEnter, VisitRaises, VisitLeave, Attest, PlaceNext,
             Place
    <3>2. QED
      BY <1>1, <3>1 DEF Decompose, Assigned
  <2>3. QED
    BY <2>1, <2>2, AppliedFrame DEF runVars
<1>2. CASE \/ \E s \in Specs : Prepare(s)
           \/ \E c \in Checkpoints : Launch(c)
           \/ \E r \in Results : Finish(r)
           \/ Raise \/ Release \/ ReleaseRaises
  <2>1. /\ applied' = applied /\ done' = done /\ witnessed' = witnessed
        /\ pc' \in {"execute", "running", "validate", "raised", "returned", "failed"}
        /\ pc \in {"raised", "failed"} => pc' = "failed"
    BY <1>2 DEF Prepare, Launch, Finish, Raise, Release, ReleaseRaises, Goto, runVars, Stages
  <2>2. QED
    BY <2>1, AppliedFrame
<1>3. CASE \E e \in Evidence : Validate(e)
  BY <1>3, ValidateKeepsApplied
<1>4. CASE Record
  <2>1. pc = "record" /\ witnessed' = witnessed /\ applied' = applied
    BY <1>4 DEF Record
  <2>2. /\ AppliedInv /\ applied \in [Ids -> SUBSET Files]
        /\ Task \in Ids /\ Task \notin done
    BY <2>1, TaskIsNew DEF IInv, StageTypeOK, Stages
  <2>3. CASE spec.changes = {}
    <3>1. NextTask
      BY <1>4, <2>3 DEF Record
    <3>2. FilesOf(spec.changes) = {} /\ applied[Task] = {}
      BY <2>1, <2>2, <2>3 DEF AppliedInv, FilesOf
    <3>3. applied' = [applied EXCEPT ![Task] = FilesOf(spec.changes)]
      BY <2>1, <2>2, <3>2
    <3>4. QED
      BY <2>1, <3>1, <3>2, <3>3, RecordKeepsApplied
  <2>4. CASE spec.changes # {}
    <3>1. /\ pc' = "authorize" /\ done' = done /\ index' = index /\ order' = order
          /\ spec' = spec /\ verdict' = verdict
      BY <1>4, <2>4 DEF Record, Goto, taskVars, sortVars
    <3>2. OnlyValidatedIsApplied'
      BY <2>1, <2>2, <3>1 DEF AppliedInv, OnlyValidatedIsApplied, Validates
    <3>3. QED
      BY <2>1, <2>2, <3>1, <3>2 DEF AppliedInv, Task, FilesOf
  <2>5. QED
    BY <2>3, <2>4
<1>5. CASE GateApproves
  BY <1>5, RecordKeepsApplied DEF GateApproves, Authorized
<1>6. CASE GateFails
  BY <1>6, GateFailsKeepsApplied
<1>7. CASE UNCHANGED vars
  BY <1>7 DEF IInv, AppliedInv, OnlyValidatedIsApplied, Validates, Task, FilesOf,
              vars, planVars, sortVars, searchVars, runVars, taskVars
<1>8. QED
  BY <1>1, <1>2, <1>3, <1>4, <1>5, <1>6, <1>7 DEF Next

(***************************************************************************)
(* The theorems.                                                           *)
(***************************************************************************)

\* The inductive invariant holds, whatever the leader, the adapter, the hooks and
\* the processes answer.
THEOREM Invariant == Spec => []IInv
<1>1. IInv /\ [Next]_vars => IInv'
  BY NextKeepsPlan, NextKeepsStageType, NextKeepsLoop, NextKeepsApplied DEF IInv
<1>2. QED
  BY <1>1, InitInv, PTL DEF Spec

\* The variables of a run have their types, and a stage has what it needs.
THEOREM TypeCorrect == Spec => []TypeOK
<1>1. IInv => TypeOK
  <2>1. SUFFICES ASSUME IInv PROVE TypeOK
    OBVIOUS
  <2>2. PlanTypeOK /\ StageTypeOK /\ LoopInv
    BY <2>1 DEF IInv, PlanInv
  <2>3. pc \in Stages => index <= Len(order)
    BY <2>1, TaskIsNew
  <2>4. QED
    BY <2>2, <2>3 DEF TypeOK, PlanTypeOK, StageTypeOK, LoopInv, Frame, Witnessed
<1>2. QED
  BY <1>1, Invariant, PTL

\* A plan whose tasks can be ordered passes the search and both sorts.
THEOREM OrderedPlanNotRefused == Spec => []OrderedPlanIsNotRefused
<1>1. IInv => OrderedPlanIsNotRefused
  <2>1. SUFFICES ASSUME IInv, pc \in {"raised", "failed"}, Tasks # {}, Execution!Acyclic(edges)
                 PROVE  attested /\ (DOMAIN indegree # {} => Len(order) = Cardinality(Tasks))
    BY DEF OrderedPlanIsNotRefused
  <2>2. Orderable(Tasks)
    BY <2>1 DEF Execution!Acyclic, Orderable, Tasks
  <2>3. attested
    BY <2>1, <2>2 DEF IInv, PlanInv, SearchInv
  <2>4. OrderComplete \/ DOMAIN indegree = {}
    BY <2>1, <2>3 DEF IInv, PlanInv, SortInv
  <2>5. QED
    BY <2>3, <2>4 DEF OrderComplete
<1>2. QED
  BY <1>1, Invariant, PTL

\* The tasks are executed in the first of the topological orders.
THEOREM OrderFirst == Spec => []OrderIsFirst
<1>1. ASSUME IInv, pc = "prepare" PROVE OrderIsFirst
  <2> DEFINE n == Cardinality(Tasks)
  <2>1. /\ PlanTypeOK /\ OrderInv /\ OrderComplete
        /\ Len(order) = n /\ n \in Nat
    BY <1>1, TaskIsNew DEF IInv, PlanInv, Stages, OrderComplete
  <2>2. order \in [1..n -> Tasks] /\ \A i \in 1..n : order[i] \in Nat
    BY <2>1, TasksAreFinite DEF PlanTypeOK
  <2>3. TopologicalOrder(order)
    BY <2>1, <2>2 DEF TopologicalOrder, OrderInv, Placed
  <2>4. ASSUME NEW p \in [1..n -> Tasks], TopologicalOrder(p), NEW i \in 1..n,
               order[i] # p[i], \A j \in 1..i-1 : order[j] = p[j]
        PROVE  order[i] < p[i]
    <3>1. {p[j] : j \in 1..i-1} = Placed(i-1)
      BY <2>4 DEF Placed
    <3>2. p[i] \notin Placed(i-1)
      BY <2>1, <2>4, <3>1 DEF TopologicalOrder
    <3>3. edges[p[i]] \subseteq Placed(i-1)
      BY <2>4, <3>1 DEF TopologicalOrder
    <3>4. order[i] <= p[i]
      BY <2>1, <2>4, <3>2, <3>3 DEF OrderInv
    <3>5. p[i] \in Nat
      BY <2>1, <2>4, TasksAreFinite
    <3>6. QED
      BY <2>2, <2>4, <3>4, <3>5
  <2>5. QED
    BY <2>3, <2>4 DEF OrderIsFirst
<1>2. IInv => OrderIsFirst
  BY <1>1 DEF OrderIsFirst
<1>3. QED
  BY <1>2, Invariant, PTL

\* No file is changed for a task, and no task gets a record, without a passing
\* validation of just that task and change.
THEOREM OnlyValidatedApplied == Spec => []OnlyValidatedIsApplied
<1>1. IInv => OnlyValidatedIsApplied
  BY DEF IInv, AppliedInv
<1>2. QED
  BY <1>1, Invariant, PTL

\* The status of a run while it is on.
OpenStatus == IF attested THEN "working" ELSE "planning"

\* A step that leaves the plan and the records is none of the promise.
LEMMA QuietStep ==
  ASSUME pc \notin {"returned", "failed"}, pc' \notin {"returned", "failed"},
         TakenUp' = TakenUp, attested' = attested, done' = done
  PROVE  UNCHANGED Execution!vars
<1>1. Status = OpenStatus
  BY Zenon DEF Status, OpenStatus
<1>2. Status' = OpenStatus'
  BY Zenon DEF Status, OpenStatus
<1>3. QED
  BY <1>1, <1>2 DEF Execution!vars, OpenStatus

\* The end of the search takes the plan up.
LEMMA AttestAccepts ==
  ASSUME IInv, IInv', Attest, UNCHANGED runVars
  PROVE  Execution!Accept
<1>1. /\ pc = "visit" /\ pc' \in {"raised", "dispatch"} /\ attested' = TRUE
      /\ edges' = edges /\ done' = done
  BY DEF Attest, runVars
<1>2. ~attested /\ visited' = Tasks' /\ VisitedInv'
  BY <1>1 DEF IInv, PlanInv, SearchInv
<1>3. Status = "planning"
  <2>1. Status = OpenStatus
    BY <1>1, Zenon DEF Status, OpenStatus
  <2>2. QED
    BY <1>2, <2>1 DEF OpenStatus
<1>4. Status' = "working"
  <2>1. pc' # "returned" /\ pc' # "failed"
    BY <1>1
  <2>2. Status' = OpenStatus'
    BY <2>1, Zenon DEF Status, OpenStatus
  <2>3. QED
    BY <1>1, <2>2 DEF OpenStatus
<1>5. TakenUp' = edges
  BY <1>1 DEF TakenUp
<1>6. Execution!Acyclic(edges)
  BY <1>1, <1>2 DEF VisitedInv, Orderable, Tasks, Execution!Acyclic
<1>7. edges \in UNION {[tasks -> SUBSET tasks] : tasks \in SUBSET Ids}
  BY DEF IInv, PlanInv, PlanTypeOK
<1>8. QED
  BY <1>1, <1>3, <1>4, <1>5, <1>6, <1>7 DEF Execution!Accept

\* The record of a task completes it.
LEMMA NextTaskCompletes ==
  ASSUME IInv, pc \in Stages, NextTask
  PROVE  \E t \in Ids : Execution!Complete(t)
<1>1. /\ Task \in Tasks /\ Task \in Ids /\ Task \notin done
      /\ done = Placed(index - 1) /\ OrderInv /\ index \in 1..Len(order)
  BY TaskIsNew
<1>2. attested
  BY DEF IInv, PlanInv, SearchInv, Stages
<1>3. edges[Task] \subseteq done
  BY <1>1 DEF OrderInv, Task
<1>4. /\ done' = done \cup {Task} /\ edges' = edges /\ attested' = attested
      /\ pc' \in {"prepare", "approved"}
  BY DEF NextTask, Goto, searchVars
<1>5. TakenUp = edges /\ TakenUp' = edges
  BY <1>2, <1>4 DEF TakenUp
<1>6. Status = OpenStatus
  <2>1. pc # "returned" /\ pc # "failed"
    BY DEF Stages
  <2>2. QED
    BY <2>1, Zenon DEF Status, OpenStatus
<1>7. Status' = OpenStatus'
  <2>1. pc' # "returned" /\ pc' # "failed"
    BY <1>4
  <2>2. QED
    BY <2>1, Zenon DEF Status, OpenStatus
<1>8. Status = "working" /\ Status' = "working"
  BY <1>2, <1>4, <1>6, <1>7 DEF OpenStatus
<1>9. Execution!Complete(Task)
  BY <1>1, <1>3, <1>4, <1>5, <1>8 DEF Execution!Complete, Tasks
<1>10. QED
  BY <1>1, <1>9

\* The finally clause returns from a complete plan, or raises.
LEMMA ReleaseEnds ==
  ASSUME IInv, Release \/ ReleaseRaises
  PROVE  Execution!Return \/ Execution!Raise
<1>1. /\ pc \in {"approved", "raised"} /\ pc' \in {"returned", "failed"}
      /\ pc' = "returned" => pc = "approved"
      /\ edges' = edges /\ attested' = attested /\ done' = done
  BY DEF Release, ReleaseRaises, Goto, searchVars, runVars
<1>2. pc = "approved" => attested /\ done = Tasks
  BY DEF IInv, PlanInv, SearchInv, LoopInv
<1>3. Status = OpenStatus
  <2>1. pc # "returned" /\ pc # "failed"
    BY <1>1
  <2>2. QED
    BY <2>1, Zenon DEF Status, OpenStatus
<1>4. TakenUp' = TakenUp
  BY <1>1 DEF TakenUp
<1>5. CASE pc' = "returned"
  <2>1. Status' = "approved"
    BY <1>5, Zenon DEF Status
  <2>2. Status = "working" /\ done = DOMAIN TakenUp
    BY <1>1, <1>2, <1>3, <1>5 DEF OpenStatus, TakenUp, Tasks
  <2>3. QED
    BY <1>1, <1>4, <2>1, <2>2 DEF Execution!Return
<1>6. CASE pc' = "failed"
  <2>1. Status' = "raised"
    BY <1>6, Zenon DEF Status
  <2>2. Status \in {"planning", "working"}
    BY <1>3 DEF OpenStatus
  <2>3. QED
    BY <1>1, <1>4, <2>1, <2>2 DEF Execution!Raise
<1>7. QED
  BY <1>1, <1>5, <1>6

LEMMA NextImplements ==
  ASSUME IInv, IInv', [Next]_vars
  PROVE  Execution!Next \/ UNCHANGED Execution!vars
<1>1. CASE (\E answer \in Answers : Decompose(answer)) /\ UNCHANGED runVars
  <2>1. /\ pc = "answer" /\ pc' = "visit" /\ attested' = attested /\ done' = done
    BY <1>1 DEF Decompose, runVars
  <2>2. ~attested
    BY <2>1 DEF IInv, PlanInv, SearchInv
  <2>3. TakenUp' = TakenUp
    BY <2>1, <2>2 DEF TakenUp
  <2>4. QED
    BY <2>1, <2>3, QuietStep
<1>2. CASE Attest /\ UNCHANGED runVars
  BY <1>2, AttestAccepts DEF Execution!Next
<1>3. ASSUME pc \notin {"returned", "failed"}, pc' \notin {"returned", "failed"},
             UNCHANGED searchVars \/ (edges' = edges /\ attested' = attested), done' = done
      PROVE  UNCHANGED Execution!vars
  BY <1>3, QuietStep DEF searchVars, TakenUp
<1>4. CASE PlanStep /\ ~Attest /\ UNCHANGED runVars
  <2>1. /\ pc \in {"visit", "dispatch", "order"} /\ edges' = edges /\ attested' = attested
        /\ done' = done
    BY <1>4 DEF PlanStep, VisitSeen, VisitEnter, VisitRaises, VisitLeave, PlaceNext, Place,
                EndSort, searchVars, runVars
  <2>2. pc' \notin {"returned", "failed"}
    BY <1>4, EndSortInv
       DEF IInv, PlanStep, VisitSeen, VisitEnter, VisitRaises, VisitLeave, PlaceNext, Place
  <2>3. QED
    BY <1>3, <2>1, <2>2
<1>5. CASE Assigned
  BY <1>3, <1>5 DEF Assigned, runVars
<1>6. CASE \/ \E s \in Specs : Prepare(s)
           \/ \E c \in Checkpoints : Launch(c)
           \/ \E r \in Results : Finish(r)
           \/ \E e \in Evidence : Validate(e)
           \/ GateFails \/ Raise
  <2>1. /\ pc \in Stages \cup {"answer", "assign"} /\ pc' \in Stages \cup {"raised"}
        /\ UNCHANGED searchVars /\ done' = done
    BY <1>6 DEF Prepare, Launch, Finish, Validate, GateFails, Raise, Goto, Stages, runVars
  <2>2. QED
    BY <1>3, <2>1 DEF Stages
<1>7. CASE Record \/ GateApproves
  <2>1. pc \in Stages
    BY <1>7 DEF Record, GateApproves, Stages
  <2>2. CASE NextTask
    BY <2>1, <2>2, NextTaskCompletes DEF Execution!Next
  <2>3. CASE pc' = "authorize" /\ done' = done /\ UNCHANGED searchVars
    BY <1>3, <2>1, <2>3 DEF Stages
  <2>4. QED
    BY <1>7, <2>2, <2>3 DEF Record, GateApproves, Goto
<1>8. CASE Release \/ ReleaseRaises
  BY <1>8, ReleaseEnds DEF Execution!Next
<1>9. CASE UNCHANGED vars
  BY <1>9, Zenon DEF vars, planVars, searchVars, runVars, Execution!vars, TakenUp, Status
<1>10. QED
  BY <1>1, <1>2, <1>4, <1>5, <1>6, <1>7, <1>8, <1>9 DEF Next

\* A run goes through its plan as PlanExecution says: it takes up only a plan that
\* can be ordered, completes each task once and after those it depends on, and
\* returns only with all of them.
THEOREM PlanIsExecuted == Spec => ExecutesPlan
<1>1. Init => Execution!Init
  <2>1. SUFFICES ASSUME Init PROVE Execution!Init
    OBVIOUS
  <2>2. pc # "returned" /\ pc # "failed" /\ ~attested /\ done = {}
    BY <2>1 DEF Init, PlanInit
  <2>3. Status = OpenStatus
    BY <2>2, Zenon DEF Status, OpenStatus
  <2>4. QED
    BY <2>2, <2>3 DEF OpenStatus, TakenUp, NoPlan, Execution!Init, Execution!NoPlan
<1>2. IInv /\ IInv' /\ [Next]_vars => [Execution!Next]_Execution!vars
  BY NextImplements
<1>3. QED
  BY <1>1, <1>2, Invariant, PTL DEF Spec, ExecutesPlan, Execution!Spec

(***************************************************************************)
(* The steps to a decision.                                                *)
(***************************************************************************)

\* plan_decomposer.py, worker_dispatch.py and orchestration.py: from the answer on, the
\* search and each sort have no more steps to take than the plan has tasks and
\* dependencies, and each step is one of these fewer.  It is what PlanIsDecided rests
\* on; and a plan that the search has attested is not refused by a sort.
THEOREM PlanningDescends == Spec => [][(pc \in Planning) => Progress]_vars
<1>1. ASSUME IInv, Next, pc \in Planning
      PROVE  Progress
  <2>1. PlanInv
    BY <1>1 DEF IInv
  <2>2. PlanStep
    BY <1>1 DEF Next, Planning, Decompose, Assigned, Prepare, Launch, Finish, Validate, Record,
      GateApproves, GateFails, Raise, Release, ReleaseRaises, Stages
  <2>3. QED
    BY <2>1, <2>2, PlanStepProgress
<1>2. IInv /\ [Next]_vars => [(pc \in Planning) => Progress]_vars
  BY <1>1
<1>3. QED
  BY <1>2, Invariant, PTL DEF Spec

=============================================================================
