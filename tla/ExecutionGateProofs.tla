------------------------ MODULE ExecutionGateProofs ------------------------
(***************************************************************************)
(* Proofs about ExecutionGate, for any number of gates, files and changes, *)
(* any texts, and every interleaving of gates, edits, failures and         *)
(* crashes.                                                                *)
(***************************************************************************)
EXTENDS ExecutionGate, TLAPS

Early    == {"start", "validate", "checkpoint", "copy", "manifest"}
Secured  == {"apply", "read", "write", "test", "testing", "judge", "startRollback",
             "rollback", "restore", "endRollback", "retest", "retesting", "rejudge",
             "safeStop"}
Restored == {"endRollback", "retest", "retesting", "rejudge"}
Loops    == {"validate", "copy", "read", "write", "restore"}

\* The first n changes have passed validation: their targets are distinct files
\* of the workspace, and each matched once in a text nobody else has written.
Checked(g, n) ==
  \A i \in 1..n :
    /\ tx[g][i].path \in Files
    /\ \A j \in 1..(i-1) : tx[g][j].path # tx[g][i].path
    /\ tx[g][i].path \notin touched[g] =>
         /\ original[g][tx[g][i].path] \in Text
         /\ MatchesOnce(original[g][tx[g][i].path], tx[g][i])

Pristine(g) == \A f \in Files \ touched[g] : content[f] = original[g][f]

OthersPristine(g) ==
  \A f \in Files \ touched[g] : f \notin Targets(g) => content[f] = original[g][f]

\* The first n targets are backed up.
BackedUp(g, n) ==
  \A i \in 1..n : tx[g][i].path \notin touched[g] =>
                    backup[g][tx[g][i].path] = original[g][tx[g][i].path]

\* The changes before k are applied, the others are not.
AppliedBefore(g, k) ==
  \A i \in 1..Len(tx[g]) : tx[g][i].path \notin touched[g] =>
    content[tx[g][i].path] =
      IF i < k THEN Replaced(original[g][tx[g][i].path], tx[g][i])
               ELSE original[g][tx[g][i].path]

\* The targets before k are restored.
RestoredBefore(g, k) ==
  \A i \in 1..Len(tx[g]) : i < k /\ tx[g][i].path \notin touched[g] =>
    content[tx[g][i].path] = original[g][tx[g][i].path]

Unshared(g) == Targets(g) \cap touched[g] = {}

Control(g) ==
  /\ pc[g] \notin Loops => index[g] = 1
  /\ pc[g] \in Loops \ {"validate"} => index[g] <= Len(tx[g])
  /\ pc[g] = "validate" =>
       (index[g] = 1 \/ index[g] <= Len(tx[g])) /\ Checked(g, index[g] - 1)
  /\ pc[g] \in Early => ~held[g]
  /\ pc[g] \in Secured \/ recovering[g] => held[g]
  /\ held[g] \/ pc[g] \in {"checkpoint", "copy", "manifest"} =>
       Len(tx[g]) >= 1 /\ Checked(g, Len(tx[g]))
  /\ pc[g] # "ready" => outcome[g] = "none"
  /\ pc[g] \in {"off", "ready"} => ~recovering[g]

Data(g) ==
  /\ pc[g] \in Early \cup Restored \cup {"apply"} => Pristine(g)
  /\ pc[g] = "reject" => (Unshared(g) \/ ~held[g] => Pristine(g))
  /\ pc[g] = "copy" => BackedUp(g, index[g] - 1)
  /\ held[g] \/ pc[g] = "manifest" => BackedUp(g, Len(tx[g]))
  /\ held[g] => OthersPristine(g)
  /\ pc[g] \in {"read", "write"} => AppliedBefore(g, index[g])
  /\ pc[g] = "write" /\ Current(g).path \notin touched[g] =>
       buffer[g] = Replaced(original[g][Current(g).path], Current(g))
  /\ pc[g] = "write" => buffer[g] \in Text
  /\ pc[g] \in {"test", "testing", "judge"} => AppliedBefore(g, Len(tx[g]) + 1)
  /\ pc[g] = "restore" => RestoredBefore(g, index[g])

Result(g) ==
  /\ outcome[g] = "APPROVED" =>
       held[g] /\ mem[g].lastTest = "passed" /\ AppliedBefore(g, Len(tx[g]) + 1)
  /\ outcome[g] = "ROLLED_BACK" =>
       /\ mem[g].lastTest = "passed" /\ mem[g].state = "VERIFIED_AFTER_ROLLBACK"
       /\ Pristine(g)
  /\ outcome[g] = "REJECTED" => (Unshared(g) => Pristine(g))
  /\ outcome[g] = "RAISED" => (Unshared(g) /\ mem[g].state # "SAFE_STOP" => Pristine(g))

GateInv(g) == Control(g) /\ Data(g) /\ Result(g)

IInv == TypeOK /\ \A g \in Gates : GateInv(g)

(***************************************************************************)
(* Type correctness of the pieces an action is made of.                    *)
(***************************************************************************)

\* Where control is inside a loop over the changes, there is a current change
\* and its target is a file of the workspace.
LEMMA CurrentIsTarget ==
  ASSUME TypeOK, NEW g \in Gates, Control(g), pc[g] \in Loops \ {"validate"}
  PROVE  /\ index[g] \in 1..Len(tx[g])
         /\ Current(g) \in Change
         /\ Current(g).path \in Files
         /\ Current(g).path \in Targets(g)
  <1>1. tx[g] \in Seq(Change) /\ index[g] \in Nat \ {0} /\ index[g] <= Len(tx[g])
    BY DEF TypeOK, Control
  <1>2. index[g] \in 1..Len(tx[g])
    BY <1>1
  <1>3. Checked(g, Len(tx[g]))
    BY DEF Control, Loops, Secured
  <1>4. index[g] \in DOMAIN tx[g] /\ Current(g) \in Change
    BY <1>1, <1>2 DEF Current
  <1>5. QED
    BY <1>2, <1>3, <1>4 DEF Checked, Current, Targets

\* Every way control moves leaves the control variables well typed.
LEMMA FlowTypes ==
  ASSUME TypeOK, NEW g \in Gates, NEW step \in Steps, NEW result \in Outcomes,
         Goto(g, step) \/ Advance(g, step) \/ Return(g, result) \/ Throw(g)
  PROVE  /\ pc' \in [Gates -> Steps]
         /\ index' \in [Gates -> Nat \ {0}]
         /\ recovering' \in [Gates -> BOOLEAN]
         /\ outcome' \in [Gates -> Outcomes]
  <1>1. CASE Goto(g, step)
    BY <1>1 DEF Goto, TypeOK
  <1>2. CASE Return(g, result)
    BY <1>2 DEF Return, TypeOK, Steps
  <1>3. CASE Advance(g, step)
    <2>1. CASE MoreChanges(g)
      <3>1. index[g] + 1 \in Nat \ {0}
        BY DEF TypeOK
      <3>2. QED
        BY <1>3, <2>1, <3>1 DEF Advance, TypeOK
    <2>2. CASE ~MoreChanges(g)
      BY <1>1, <1>3, <2>2 DEF Advance
    <2>3. QED
      BY <2>1, <2>2
  <1>4. CASE Throw(g)
    <2>1. "safeStop" \in Steps /\ "rollback" \in Steps /\ "ready" \in Steps /\ "RAISED" \in Outcomes
      BY DEF Steps, Outcomes
    <2>2. CASE Goto(g, "safeStop")
      BY <2>1, <2>2 DEF Goto, TypeOK
    <2>3. CASE Recover(g)
      BY <2>1, <2>3 DEF Recover, TypeOK
    <2>4. CASE Return(g, "RAISED")
      BY <2>1, <2>4 DEF Return, TypeOK
    <2>5. QED
      BY <1>4, <2>2, <2>3, <2>4, Zenon DEF Throw
  <1>5. QED
    BY <1>1, <1>2, <1>3, <1>4

\* A save of a well-typed record leaves memory and disk well typed.
LEMMA SaveTypes ==
  ASSUME TypeOK, NEW g \in Gates, NEW record \in GateRecord,
         Saved(g, record) \/ SaveFailed(g, record)
  PROVE  mem' \in [Gates -> GateRecord] /\ disk' \in GateRecord
  BY DEF Saved, SaveFailed, TypeOK

\* The records that the actions save.
LEMMA RecordTypes ==
  ASSUME TypeOK, NEW g \in Gates
  PROVE  /\ FreshRecord \in GateRecord
         /\ \A s \in GateStates : WithState(g, s) \in GateRecord
         /\ [mem[g] EXCEPT !.checkpoint = NoCheckpoint] \in GateRecord
         /\ [mem[g] EXCEPT !.checkpoint = NoCheckpoint, !.lastTest = "none"] \in GateRecord
         /\ [mem[g] EXCEPT !.checkpoint = NoCheckpoint, !.state = "APPROVED"] \in GateRecord
         /\ [mem[g] EXCEPT !.checkpoint = g] \in GateRecord
         /\ \A v \in {"passed", "failed"} : TestRecord(g, v) \in GateRecord
  <1>1. mem[g] \in GateRecord
    BY DEF TypeOK
  <1>2. QED
    BY <1>1 DEF FreshRecord, GateRecord, GateStates, WithState, TestRecord

\* Replacing a fragment of a text gives a text.
LEMMA ReplacedIsText ==
  ASSUME NEW text \in Text, NEW change \in Change
  PROVE  Replaced(text, change) \in Text
  BY TextsAssumption DEF Text, Change, Replaced, Decoded

(***************************************************************************)
(* Type correctness, action by action.  Control(g) is needed where the     *)
(* current target must be a file of the workspace.                         *)
(***************************************************************************)

\* The part of TypeOK about the files, the checkpoints and the arguments.
DataTypes ==
  /\ content \in [Files -> Content]
  /\ backup \in [Gates -> [Files -> Content]]
  /\ tx \in [Gates -> Seq(Change)]
  /\ buffer \in [Gates -> Text \cup {Missing}]
  /\ held \in [Gates -> BOOLEAN]
  /\ original \in [Gates -> [Files -> Content]]
  /\ touched \in [Gates -> SUBSET Files]
  /\ retestFailed \in [Gates -> BOOLEAN]

FlowOK ==
  /\ pc \in [Gates -> Steps]
  /\ index \in [Gates -> Nat \ {0}]
  /\ recovering \in [Gates -> BOOLEAN]
  /\ outcome \in [Gates -> Outcomes]

RecordsOK == mem \in [Gates -> GateRecord] /\ disk \in GateRecord

\* TypeOK is the conjunction of its three parts, ...
LEMMA TypeParts == TypeOK <=> DataTypes /\ FlowOK /\ RecordsOK
  BY DEF TypeOK, DataTypes, FlowOK, RecordsOK

\* ... and so is its primed form.
LEMMA TypePartsNext == TypeOK' <=> DataTypes' /\ FlowOK' /\ RecordsOK'
  BY DEF TypeOK, DataTypes, FlowOK, RecordsOK

\* A move of control keeps FlowOK; a save, or no change, keeps RecordsOK.
LEMMA FlowStep ==
  ASSUME TypeOK, NEW g \in Gates, NEW step \in Steps, NEW result \in Outcomes,
         Goto(g, step) \/ Advance(g, step) \/ Return(g, result) \/ Throw(g)
  PROVE  FlowOK'
  BY FlowTypes DEF FlowOK

\* A save of a well-typed record keeps RecordsOK, and so does no save.
LEMMA SaveStep ==
  ASSUME TypeOK, NEW g \in Gates, NEW record \in GateRecord,
         Saved(g, record) \/ SaveFailed(g, record) \/ UNCHANGED <<mem, disk>>
  PROVE  RecordsOK'
  <1>1. CASE Saved(g, record) \/ SaveFailed(g, record)
    BY <1>1, SaveTypes DEF RecordsOK
  <1>2. CASE UNCHANGED <<mem, disk>>
    BY <1>2 DEF RecordsOK, TypeOK
  <1>3. QED
    BY <1>1, <1>2

\* A save followed by a step, or by an exception, keeps both parts.
LEMMA SaveThenTypes ==
  ASSUME TypeOK, NEW g \in Gates, NEW record \in GateRecord, NEW step \in Steps,
         SaveThen(g, record, step)
  PROVE  FlowOK' /\ RecordsOK'
  <1>1. "RAISED" \in Outcomes
    BY DEF Outcomes
  <1>2. QED
    BY <1>1, FlowStep, SaveStep DEF SaveThen

\* A write of a content to a workspace file keeps the file types.
LEMMA WriteTypes ==
  ASSUME TypeOK, NEW g \in Gates, NEW f \in Files, NEW text \in Content, Write(g, f, text)
  PROVE  content' \in [Files -> Content] /\ touched' \in [Gates -> SUBSET Files]
  BY DEF TypeOK, Write

USE DEF Steps, Outcomes

\* Every step of execute() keeps the types.  Control and Data are needed where the
\* current target must be a workspace file and the buffer a text.
LEMMA TypeStep ==
  ASSUME TypeOK, NEW g \in Gates, Control(g), Data(g), ExecuteStep(g)
  PROVE  TypeOK'
<1>a. FlowOK /\ RecordsOK /\ DataTypes
  BY TypeParts, SMTT(40)
<1>b. /\ \A s \in GateStates : WithState(g, s) \in GateRecord
      /\ [mem[g] EXCEPT !.checkpoint = NoCheckpoint] \in GateRecord
      /\ [mem[g] EXCEPT !.checkpoint = NoCheckpoint, !.state = "APPROVED"] \in GateRecord
      /\ [mem[g] EXCEPT !.checkpoint = g] \in GateRecord
      /\ \A v \in {"passed", "failed"} : TestRecord(g, v) \in GateRecord
  BY RecordTypes
<1>1. CASE Start(g)
  <2>1. WithState(g, "VALIDATING") \in GateRecord
    BY <1>b DEF GateStates
  <2>2. FlowOK' /\ RecordsOK'
    BY <1>1, <2>1, SaveThenTypes DEF Start
  <2>3. DataTypes'
    BY <1>1, <1>a DEF Start, DataTypes, history
  <2>4. QED
    BY <2>2, <2>3, TypePartsNext
<1>2. CASE Validate(g)
  <2>1. FlowOK'
    BY <1>2, FlowStep DEF Validate
  <2>2. DataTypes' /\ RecordsOK'
    BY <1>2, <1>a DEF Validate, DataTypes, RecordsOK, history, durable
  <2>3. QED
    BY <2>1, <2>2, TypePartsNext
<1>3. CASE Reject(g)
  <2>1. WithState(g, "REJECTED") \in GateRecord
    BY <1>b DEF GateStates
  <2>2. FlowOK' /\ RecordsOK'
    BY <1>3, <2>1, FlowStep, SaveStep DEF Reject
  <2>3. DataTypes'
    BY <1>3, <1>a DEF Reject, DataTypes, history
  <2>4. QED
    BY <2>2, <2>3, TypePartsNext
<1>4. CASE StartCheckpoint(g)
  <2>1. WithState(g, "CHECKPOINTING") \in GateRecord
    BY <1>b DEF GateStates
  <2>2. FlowOK' /\ RecordsOK'
    BY <1>4, <2>1, SaveThenTypes DEF StartCheckpoint
  <2>3. DataTypes'
    BY <1>4, <1>a DEF StartCheckpoint, DataTypes, history
  <2>4. QED
    BY <2>2, <2>3, TypePartsNext
<1>5. CASE CopyBackup(g)
  <2>1. Current(g).path \in Files
    BY <1>5, CurrentIsTarget DEF CopyBackup, Loops
  <2>2. FlowOK'
    BY <1>5, FlowStep DEF CopyBackup
  <2>3. backup' \in [Gates -> [Files -> Content]]
    <3>1. content[Current(g).path] \in Content /\ NoBackups \in [Files -> Content]
      BY <1>a, <2>1 DEF DataTypes, NoBackups, Content
    <3>2. CASE backup' = [backup EXCEPT ![g] = NoBackups]
      BY <1>a, <3>1, <3>2 DEF DataTypes
    <3>3. CASE backup' = [backup EXCEPT ![g][Current(g).path] = content[Current(g).path]]
      BY <1>a, <2>1, <3>1, <3>3 DEF DataTypes
    <3>4. QED
      BY <1>5, <3>2, <3>3 DEF CopyBackup
  <2>4. DataTypes' /\ RecordsOK'
    BY <1>5, <1>a, <2>3 DEF CopyBackup, DataTypes, RecordsOK, history
  <2>5. QED
    BY <2>2, <2>4, TypePartsNext
<1>6. CASE WriteManifest(g)
  <2>1. FlowOK' /\ RecordsOK'
    BY <1>6, <1>b, FlowStep, SaveStep DEF WriteManifest, Fail
  <2>2. NoBackups \in [Files -> Content]
    BY DEF NoBackups, Content
  <2>3. DataTypes'
    BY <1>6, <1>a, <2>2 DEF WriteManifest, DataTypes, history
  <2>4. QED
    BY <2>1, <2>3, TypePartsNext
<1>7. CASE StartApply(g)
  <2>1. WithState(g, "APPLYING") \in GateRecord
    BY <1>b DEF GateStates
  <2>2. FlowOK' /\ RecordsOK'
    BY <1>7, <2>1, SaveThenTypes DEF StartApply
  <2>3. DataTypes'
    BY <1>7, <1>a DEF StartApply, DataTypes, history
  <2>4. QED
    BY <2>2, <2>3, TypePartsNext
<1>8. CASE ReadSource(g)
  <2>1. Current(g).path \in Files /\ Current(g) \in Change
    BY <1>8, CurrentIsTarget DEF ReadSource, Loops
  <2>2. FlowOK'
    <3>1. CASE UNCHANGED <<index, recovering, outcome>> /\ pc' = [pc EXCEPT ![g] = "write"]
      BY <3>1, <1>a DEF FlowOK
    <3>2. CASE Goto(g, "reject") \/ Throw(g)
      BY <3>2, FlowStep
    <3>3. QED
      BY <1>8, <3>1, <3>2 DEF ReadSource
  <2>3. buffer' \in [Gates -> Text \cup {Missing}]
    <3>1. CASE UNCHANGED buffer
      BY <3>1, <1>a DEF DataTypes
    <3>2. CASE /\ content[Current(g).path] \in Text
               /\ buffer' = [buffer EXCEPT ![g] = Replaced(content[Current(g).path], Current(g))]
      BY <3>2, <1>a, <2>1, ReplacedIsText DEF DataTypes
    <3>3. QED
      BY <1>8, <3>1, <3>2 DEF ReadSource
  <2>4. DataTypes' /\ RecordsOK'
    BY <1>8, <1>a, <2>3 DEF ReadSource, DataTypes, RecordsOK, history, durable
  <2>5. QED
    BY <2>2, <2>4, TypePartsNext
<1>9. CASE WriteTarget(g)
  <2>1. Current(g).path \in Files /\ Current(g) \in Change
    BY <1>9, CurrentIsTarget DEF WriteTarget, Loops
  <2>2. FlowOK'
    <3>1. CASE MoreChanges(g) /\ pc' = [pc EXCEPT ![g] = "read"]
               /\ index' = [index EXCEPT ![g] = @ + 1] /\ UNCHANGED <<recovering, outcome>>
      <4>1. index[g] + 1 \in Nat \ {0}
        BY <1>a DEF FlowOK
      <4>2. QED
        BY <3>1, <4>1, <1>a DEF FlowOK
    <3>2. CASE Goto(g, "test") \/ Throw(g)
      BY <3>2, FlowStep
    <3>3. QED
      BY <1>9, <3>1, <3>2 DEF WriteTarget, Fail
  <2>3. content' \in [Files -> Content] /\ touched' \in [Gates -> SUBSET Files]
    <3>1. CASE UNCHANGED <<content, touched>>
      BY <3>1, <1>a DEF DataTypes
    <3>2. CASE Write(g, Current(g).path, buffer[g])
      <4>1. buffer[g] \in Content
        BY <1>9 DEF WriteTarget, Data, Content
      <4>2. QED
        BY <3>2, <4>1, <2>1, WriteTypes
    <3>3. QED
      BY <1>9, <3>1, <3>2 DEF WriteTarget
  <2>4. DataTypes' /\ RecordsOK'
    BY <1>9, <1>a, <2>3 DEF WriteTarget, DataTypes, RecordsOK
  <2>5. QED
    BY <2>2, <2>4, TypePartsNext
<1>10. CASE StartTests(g)
  <2>1. WithState(g, "TESTING") \in GateRecord
    BY <1>b DEF GateStates
  <2>2. FlowOK' /\ RecordsOK'
    BY <1>10, <2>1, SaveThenTypes DEF StartTests
  <2>3. DataTypes'
    BY <1>10, <1>a DEF StartTests, DataTypes, history
  <2>4. QED
    BY <2>2, <2>3, TypePartsNext
<1>11. CASE RunTests(g)
  <2>1. FlowOK' /\ RecordsOK'
    <3>1. CASE Throw(g) /\ UNCHANGED <<mem, disk>>
      BY <3>1, <1>b, FlowStep, SaveStep
    <3>2. ASSUME NEW verdict \in {"passed", "failed"}, NEW step \in Steps,
                 SaveThen(g, TestRecord(g, verdict), step)
          PROVE  FlowOK' /\ RecordsOK'
      BY <3>2, <1>b, SaveThenTypes
    <3>3. QED
      BY <1>11, <3>1, <3>2 DEF RunTests, Fail
  <2>2. retestFailed' \in [Gates -> BOOLEAN]
    <3>1. CASE UNCHANGED retestFailed
      BY <3>1, <1>a DEF DataTypes
    <3>2. ASSUME NEW verdict \in {"passed", "failed"},
                 retestFailed' = [retestFailed EXCEPT ![g] =
                                   @ \/ (pc[g] = "retesting" /\ verdict = "failed")]
          PROVE  retestFailed' \in [Gates -> BOOLEAN]
      BY <3>2, <1>a DEF DataTypes
    <3>3. QED
      BY <1>11, <3>1, <3>2 DEF RunTests
  <2>3. DataTypes'
    BY <1>11, <1>a, <2>2 DEF RunTests, DataTypes
  <2>4. QED
    BY <2>1, <2>3, TypePartsNext
<1>12. CASE JudgeTests(g)
  <2>1. FlowOK' /\ RecordsOK'
    <3>1. CASE UNCHANGED <<mem, disk>> /\ Goto(g, "startRollback")
      BY <3>1, <1>b, FlowStep, SaveStep
    <3>2. CASE SaveAndReturn(g, [mem[g] EXCEPT !.checkpoint = NoCheckpoint,
                                               !.state = "APPROVED"], "APPROVED")
      BY <3>2, <1>b, FlowStep, SaveStep DEF SaveAndReturn
    <3>3. QED
      BY <1>12, <3>1, <3>2 DEF JudgeTests
  <2>2. DataTypes'
    BY <1>12, <1>a DEF JudgeTests, DataTypes, history
  <2>3. QED
    BY <2>1, <2>2, TypePartsNext
<1>13. CASE StartRollback(g)
  <2>1. WithState(g, "ROLLING_BACK") \in GateRecord
    BY <1>b DEF GateStates
  <2>2. FlowOK' /\ RecordsOK'
    BY <1>13, <2>1, SaveThenTypes DEF StartRollback
  <2>3. DataTypes'
    BY <1>13, <1>a DEF StartRollback, DataTypes, history
  <2>4. QED
    BY <2>2, <2>3, TypePartsNext
<1>14. CASE CheckBackups(g)
  <2>1. FlowOK'
    BY <1>14, FlowStep DEF CheckBackups
  <2>2. DataTypes' /\ RecordsOK'
    BY <1>14, <1>a DEF CheckBackups, DataTypes, RecordsOK, history, durable
  <2>3. QED
    BY <2>1, <2>2, TypePartsNext
<1>15. CASE RestoreFile(g)
  <2>1. Current(g).path \in Files
    BY <1>15, CurrentIsTarget DEF RestoreFile, Loops
  <2>2. FlowOK'
    BY <1>15, FlowStep DEF RestoreFile, Fail
  <2>3. content' \in [Files -> Content] /\ touched' \in [Gates -> SUBSET Files]
    <3>1. CASE UNCHANGED <<content, touched>>
      BY <3>1, <1>a DEF DataTypes
    <3>2. CASE Write(g, Current(g).path, backup[g][Current(g).path])
      BY <3>2, <2>1, <1>a, WriteTypes DEF DataTypes
    <3>3. QED
      BY <1>15, <3>1, <3>2 DEF RestoreFile
  <2>4. DataTypes' /\ RecordsOK'
    BY <1>15, <1>a, <2>3 DEF RestoreFile, DataTypes, RecordsOK
  <2>5. QED
    BY <2>2, <2>4, TypePartsNext
<1>16. CASE EndRollback(g)
  <2>1. FlowOK' /\ RecordsOK'
    BY <1>16, <1>b, SaveThenTypes DEF EndRollback
  <2>2. DataTypes'
    BY <1>16, <1>a DEF EndRollback, DataTypes, history
  <2>3. QED
    BY <2>1, <2>2, TypePartsNext
<1>17. CASE JudgeRollback(g)
  <2>1. WithState(g, "VERIFIED_AFTER_ROLLBACK") \in GateRecord
        /\ WithState(g, "SAFE_STOP") \in GateRecord
    BY <1>b DEF GateStates
  <2>2. FlowOK'
    BY <1>17, FlowStep DEF JudgeRollback, SaveAndReturn
  <2>3. RecordsOK'
    BY <1>17, <2>1, SaveStep DEF JudgeRollback, SaveAndReturn
  <2>4. DataTypes'
    BY <1>17, <1>a DEF JudgeRollback, DataTypes, history
  <2>5. QED
    BY <2>2, <2>3, <2>4, TypePartsNext
<1>18. CASE SafeStop(g)
  <2>1. WithState(g, "SAFE_STOP") \in GateRecord
    BY <1>b DEF GateStates
  <2>2. FlowOK' /\ RecordsOK'
    BY <1>18, <2>1, FlowStep, SaveStep DEF SafeStop
  <2>3. DataTypes'
    BY <1>18, <1>a DEF SafeStop, DataTypes, history
  <2>4. QED
    BY <2>2, <2>3, TypePartsNext
<1>19. QED
  BY <1>1, <1>2, <1>3, <1>4, <1>5, <1>6, <1>7, <1>8, <1>9, <1>10, <1>11, <1>12, <1>13,
     <1>14, <1>15, <1>16, <1>17, <1>18 DEF ExecuteStep

(***************************************************************************)
(* The invariant of the gate that takes the step.  Most steps are quiet:   *)
(* they change no file, no argument and no history, and leave every loop   *)
(* at its start.                                                           *)
(***************************************************************************)

Quiet(g) ==
  /\ UNCHANGED <<content, tx, touched, original>>
  /\ backup'[g] = backup[g]
  /\ held'[g] = held[g]

\* A quiet step keeps the invariant if what the next step relies on holds.
LEMMA QuietStep ==
  ASSUME TypeOK, NEW g \in Gates, GateInv(g), Quiet(g), index'[g] = 1,
         pc'[g] # "write",
         pc'[g] \in Early => ~held[g],
         pc'[g] \in Secured \/ recovering'[g] => held[g],
         pc'[g] \in {"checkpoint", "copy", "manifest"} =>
           Len(tx[g]) >= 1 /\ Checked(g, Len(tx[g])),
         pc'[g] # "ready" => outcome'[g] = "none",
         pc'[g] \in Early \cup Restored \cup {"apply", "read"} => Pristine(g),
         pc'[g] = "reject" => (Unshared(g) \/ ~held[g] => Pristine(g)),
         pc'[g] = "manifest" => BackedUp(g, Len(tx[g])),
         pc'[g] \in {"test", "testing", "judge"} => AppliedBefore(g, Len(tx[g]) + 1),
         pc'[g] \in {"off", "ready"} => ~recovering'[g],
         outcome'[g] = "APPROVED" =>
           held[g] /\ mem'[g].lastTest = "passed" /\ AppliedBefore(g, Len(tx[g]) + 1),
         outcome'[g] = "ROLLED_BACK" =>
           /\ mem'[g].lastTest = "passed" /\ mem'[g].state = "VERIFIED_AFTER_ROLLBACK"
           /\ Pristine(g),
         outcome'[g] = "REJECTED" => (Unshared(g) => Pristine(g)),
         outcome'[g] = "RAISED" =>
           (Unshared(g) /\ mem'[g].state # "SAFE_STOP" => Pristine(g))
  PROVE  GateInv(g)'
<1>1. /\ Pristine(g)' <=> Pristine(g)
      /\ OthersPristine(g)' <=> OthersPristine(g)
      /\ Unshared(g)' <=> Unshared(g)
      /\ Checked(g, Len(tx[g]))' <=> Checked(g, Len(tx[g]))
      /\ BackedUp(g, Len(tx[g]))' <=> BackedUp(g, Len(tx[g]))
      /\ AppliedBefore(g, Len(tx[g]) + 1)' <=> AppliedBefore(g, Len(tx[g]) + 1)
  BY DEF Quiet, Pristine, OthersPristine, Unshared, Checked, BackedUp, AppliedBefore, Targets
<1>2. Control(g)'
  <2>1. (held[g] \/ pc'[g] \in {"checkpoint", "copy", "manifest"}) =>
          Len(tx[g]) >= 1 /\ Checked(g, Len(tx[g]))
    BY DEF GateInv, Control
  <2>2. pc'[g] \in Loops \ {"validate"} =>
          held[g] \/ pc'[g] \in {"checkpoint", "copy", "manifest"}
    BY DEF Loops, Secured
  <2>3. Checked(g, index[g] - 1)'
    BY DEF Checked
  <2>4. QED
    BY <1>1, <2>1, <2>2, <2>3 DEF Control, Quiet
<1>3. Data(g)'
  <2>1. BackedUp(g, index[g] - 1)' /\ RestoredBefore(g, index[g])'
    BY DEF BackedUp, RestoredBefore
  <2>2. pc'[g] = "read" => AppliedBefore(g, index[g])'
    <3>1. SUFFICES ASSUME pc'[g] = "read"
                   PROVE  AppliedBefore(g, index[g])'
      OBVIOUS
    <3>2. Pristine(g) /\ Checked(g, Len(tx[g]))
      BY <3>1 DEF GateInv, Control, Secured
    <3>3. QED
      BY <3>2 DEF Pristine, Checked, AppliedBefore, Quiet
  <2>3. QED
    BY <1>1, <2>1, <2>2 DEF Data, GateInv, Quiet
<1>4. Result(g)'
  BY <1>1 DEF Result, Quiet
<1>5. QED
  BY <1>2, <1>3, <1>4 DEF GateInv

\* An exception, while the checkpoint is held or nothing is applied.
LEMMA QuietThrow ==
  ASSUME TypeOK, NEW g \in Gates, GateInv(g), Quiet(g), Throw(g),
         pc[g] # "ready", held[g] \/ Pristine(g)
  PROVE  GateInv(g)'
<1>1. outcome[g] = "none" /\ (recovering[g] => held[g])
  BY DEF GateInv, Control
<1>2. CASE Goto(g, "safeStop") /\ recovering[g]
  <2>1. pc'[g] = "safeStop" /\ index'[g] = 1 /\ outcome'[g] = "none" /\ held[g]
    BY <1>1, <1>2 DEF Goto, TypeOK
  <2>2. QED
    BY <2>1, QuietStep DEF Early, Secured, Restored
<1>3. CASE Recover(g) /\ held[g]
  <2>1. pc'[g] = "rollback" /\ index'[g] = 1 /\ outcome'[g] = "none" /\ held[g]
    BY <1>1, <1>3 DEF Recover, TypeOK
  <2>2. QED
    BY <2>1, QuietStep DEF Early, Secured, Restored
<1>4. CASE Return(g, "RAISED") /\ ~held[g]
  <2>1. pc'[g] = "ready" /\ index'[g] = 1 /\ outcome'[g] = "RAISED" /\ ~recovering'[g]
    BY <1>4 DEF Return, TypeOK
  <2>2. QED
    BY <1>4, <2>1, QuietStep DEF Early, Secured, Restored
<1>5. QED
  BY <1>1, <1>2, <1>3, <1>4, Zenon DEF Throw

\* Any other step to a place that is not a return.
LEMMA QuietGoto ==
  ASSUME TypeOK, NEW g \in Gates, GateInv(g), Quiet(g), NEW step \in Steps, Goto(g, step),
         pc[g] # "ready", step \notin {"write", "off", "ready"},
         step \in Early => ~held[g],
         step \in Secured => held[g],
         step \in {"checkpoint", "copy", "manifest"} =>
           Len(tx[g]) >= 1 /\ Checked(g, Len(tx[g])),
         step \in Early \cup Restored \cup {"apply", "read"} => Pristine(g),
         step = "reject" => (Unshared(g) \/ ~held[g] => Pristine(g)),
         step = "manifest" => BackedUp(g, Len(tx[g])),
         step \in {"test", "testing", "judge"} => AppliedBefore(g, Len(tx[g]) + 1)
  PROVE  GateInv(g)'
<1>1. outcome[g] = "none" /\ (recovering[g] => held[g])
  BY DEF GateInv, Control
<1>2. pc'[g] = step /\ index'[g] = 1 /\ outcome'[g] = "none" /\ (recovering'[g] => held[g])
  BY <1>1 DEF Goto, TypeOK
<1>3. QED
  BY <1>2, QuietStep

\* A return, with what its outcome promises.
LEMMA QuietReturn ==
  ASSUME TypeOK, NEW g \in Gates, GateInv(g), Quiet(g), NEW result \in Outcomes,
         Return(g, result),
         result = "APPROVED" =>
           held[g] /\ mem'[g].lastTest = "passed" /\ AppliedBefore(g, Len(tx[g]) + 1),
         result = "ROLLED_BACK" =>
           /\ mem'[g].lastTest = "passed" /\ mem'[g].state = "VERIFIED_AFTER_ROLLBACK"
           /\ Pristine(g),
         result = "REJECTED" => (Unshared(g) => Pristine(g)),
         result = "RAISED" =>
           (Unshared(g) /\ mem'[g].state # "SAFE_STOP" => Pristine(g))
  PROVE  GateInv(g)'
<1>1. pc'[g] = "ready" /\ index'[g] = 1 /\ outcome'[g] = result /\ ~recovering'[g]
  BY DEF Return, TypeOK
<1>2. QED
  BY <1>1, QuietStep DEF Early, Secured, Restored

\* The three forms in which a quiet step saves the state file.
LEMMA QuietSaveThen ==
  ASSUME TypeOK, NEW g \in Gates, GateInv(g), Quiet(g), NEW record, NEW step \in Steps,
         SaveThen(g, record, step),
         pc[g] # "ready", held[g] \/ Pristine(g), step \notin {"write", "off", "ready"},
         step \in Early => ~held[g],
         step \in Secured => held[g],
         step \in {"checkpoint", "copy", "manifest"} =>
           Len(tx[g]) >= 1 /\ Checked(g, Len(tx[g])),
         step \in Early \cup Restored \cup {"apply", "read"} => Pristine(g),
         step = "reject" => (Unshared(g) \/ ~held[g] => Pristine(g)),
         step = "manifest" => BackedUp(g, Len(tx[g])),
         step \in {"test", "testing", "judge"} => AppliedBefore(g, Len(tx[g]) + 1)
  PROVE  GateInv(g)'
  BY QuietGoto, QuietThrow DEF SaveThen

\* What GateInv(g) says where control is; read off Control and Data.
LEMMA WhereAt ==
  ASSUME NEW g \in Gates, GateInv(g)
  PROVE  /\ pc[g] \in Early \cup Restored \cup {"apply"} => Pristine(g)
         /\ pc[g] \in Early => ~held[g]
         /\ pc[g] \in Secured => held[g]
         /\ held[g] \/ pc[g] \in {"checkpoint", "copy", "manifest"} =>
              Len(tx[g]) >= 1 /\ Checked(g, Len(tx[g]))
         /\ pc[g] = "reject" => (Unshared(g) \/ ~held[g] => Pristine(g))
         /\ held[g] \/ pc[g] = "manifest" => BackedUp(g, Len(tx[g]))
         /\ held[g] => OthersPristine(g)
         /\ pc[g] \in {"read", "write"} => AppliedBefore(g, index[g])
         /\ pc[g] \in {"test", "testing", "judge"} => AppliedBefore(g, Len(tx[g]) + 1)
         /\ pc[g] = "restore" => RestoredBefore(g, index[g])
         /\ pc[g] # "ready" => outcome[g] = "none"
         /\ recovering[g] => held[g]
  BY DEF GateInv, Control, Data

\* Nothing is applied when validation starts.
LEMMA StepStart ==
  ASSUME TypeOK, NEW g \in Gates, GateInv(g), Start(g)
  PROVE  GateInv(g)'
<1>1. Quiet(g) /\ pc[g] = "start" /\ Pristine(g) /\ ~held[g]
  BY WhereAt DEF Start, Quiet, history, Early
<1>2. SaveThen(g, WithState(g, "VALIDATING"), "validate")
  BY DEF Start
<1>3. QED
  BY <1>1, <1>2, QuietSaveThen DEF Early, Secured, Restored

\* REJECTED is returned from where an unshared workspace is pristine.
LEMMA StepReject ==
  ASSUME TypeOK, NEW g \in Gates, GateInv(g), Reject(g)
  PROVE  GateInv(g)'
<1>1. Quiet(g) /\ pc[g] = "reject" /\ (Unshared(g) => Pristine(g))
  BY WhereAt DEF Reject, Quiet, history
<1>2. Return(g, "REJECTED") \/ Return(g, "RAISED")
  BY DEF Reject
<1>3. QED
  BY <1>1, <1>2, QuietReturn

\* Validation is complete when the checkpoint is started.
LEMMA StepStartCheckpoint ==
  ASSUME TypeOK, NEW g \in Gates, GateInv(g), StartCheckpoint(g)
  PROVE  GateInv(g)'
<1>1. /\ Quiet(g) /\ pc[g] = "checkpoint" /\ Pristine(g) /\ ~held[g]
      /\ Len(tx[g]) >= 1 /\ Checked(g, Len(tx[g]))
  BY WhereAt DEF StartCheckpoint, Quiet, history, Early
<1>2. SaveThen(g, WithState(g, "CHECKPOINTING"), "copy")
  BY DEF StartCheckpoint
<1>3. QED
  BY <1>1, <1>2, QuietSaveThen DEF Early, Secured, Restored

\* The checkpoint is held and nothing is applied when application starts.
LEMMA StepStartApply ==
  ASSUME TypeOK, NEW g \in Gates, GateInv(g), StartApply(g)
  PROVE  GateInv(g)'
<1>1. Quiet(g) /\ pc[g] = "apply" /\ Pristine(g) /\ held[g]
  BY WhereAt DEF StartApply, Quiet, history, Secured
<1>2. SaveThen(g, WithState(g, "APPLYING"), "read")
  BY DEF StartApply
<1>3. QED
  BY <1>1, <1>2, QuietSaveThen DEF Early, Secured, Restored

\* Tests run on the applied changes, or on the restored files.
LEMMA StepStartTests ==
  ASSUME TypeOK, NEW g \in Gates, GateInv(g), StartTests(g)
  PROVE  GateInv(g)'
<1>1. Quiet(g)
  BY DEF StartTests, Quiet, history
<1>2. CASE pc[g] = "test" /\ SaveThen(g, WithState(g, "TESTING"), "testing")
  <2>1. held[g] /\ AppliedBefore(g, Len(tx[g]) + 1)
    BY <1>2, WhereAt DEF Secured
  <2>2. QED
    BY <1>1, <1>2, <2>1, QuietSaveThen DEF Early, Secured, Restored
<1>3. CASE pc[g] = "retest" /\ SaveThen(g, WithState(g, "TESTING"), "retesting")
  <2>1. held[g] /\ Pristine(g)
    BY <1>3, WhereAt DEF Secured, Restored
  <2>2. QED
    BY <1>1, <1>3, <2>1, QuietSaveThen DEF Early, Secured, Restored
<1>4. QED
  BY <1>2, <1>3 DEF StartTests

\* A verdict leads to its judgement; a runner that raises leads to recovery.
LEMMA StepRunTests ==
  ASSUME TypeOK, NEW g \in Gates, GateInv(g), RunTests(g)
  PROVE  GateInv(g)'
<1>1. Quiet(g) /\ held[g] /\ pc[g] # "ready"
  BY WhereAt DEF RunTests, Quiet, Secured
<1>2. CASE Throw(g)
  BY <1>1, <1>2, QuietThrow
<1>3. ASSUME NEW record, pc[g] = "testing", SaveThen(g, record, "judge")
      PROVE  GateInv(g)'
  <2>1. AppliedBefore(g, Len(tx[g]) + 1)
    BY <1>3, WhereAt
  <2>2. QED
    BY <1>1, <1>3, <2>1, QuietSaveThen DEF Early, Secured, Restored
<1>4. ASSUME NEW record, pc[g] = "retesting", SaveThen(g, record, "rejudge")
      PROVE  GateInv(g)'
  <2>1. Pristine(g)
    BY <1>4, WhereAt DEF Restored
  <2>2. QED
    BY <1>1, <1>4, <2>1, QuietSaveThen DEF Early, Secured, Restored
<1>5. QED
  BY <1>2, <1>3, <1>4 DEF RunTests, Fail

\* APPROVED is returned with every change applied and the tests passed.
LEMMA StepJudgeTests ==
  ASSUME TypeOK, NEW g \in Gates, GateInv(g), JudgeTests(g)
  PROVE  GateInv(g)'
<1> DEFINE cleared == [mem[g] EXCEPT !.checkpoint = NoCheckpoint, !.state = "APPROVED"]
<1>1. Quiet(g) /\ pc[g] = "judge" /\ held[g] /\ AppliedBefore(g, Len(tx[g]) + 1)
  BY WhereAt DEF JudgeTests, Quiet, history, Secured
<1>2. CASE Goto(g, "startRollback")
  BY <1>1, <1>2, QuietGoto DEF Early, Secured, Restored
<1>3. CASE Saved(g, cleared) /\ Return(g, "APPROVED") /\ mem[g].lastTest = "passed"
  <2>1. mem'[g].lastTest = "passed"
    BY <1>3 DEF Saved, TypeOK, GateRecord
  <2>2. QED
    BY <1>1, <1>3, <2>1, QuietReturn
<1>4. CASE Throw(g)
  BY <1>1, <1>4, QuietThrow
<1>5. QED
  BY <1>2, <1>3, <1>4 DEF JudgeTests, SaveAndReturn

\* The rollback starts with the checkpoint held.
LEMMA StepStartRollback ==
  ASSUME TypeOK, NEW g \in Gates, GateInv(g), StartRollback(g)
  PROVE  GateInv(g)'
<1>1. Quiet(g) /\ pc[g] = "startRollback" /\ held[g]
  BY WhereAt DEF StartRollback, Quiet, history, Secured
<1>2. SaveThen(g, WithState(g, "ROLLING_BACK"), "rollback")
  BY DEF StartRollback
<1>3. QED
  BY <1>1, <1>2, QuietSaveThen DEF Early, Secured, Restored

\* No file is restored before every backup has been found.
LEMMA StepCheckBackups ==
  ASSUME TypeOK, NEW g \in Gates, GateInv(g), CheckBackups(g)
  PROVE  GateInv(g)'
<1>1. Quiet(g) /\ pc[g] = "rollback" /\ held[g]
  BY WhereAt DEF CheckBackups, Quiet, history, durable, Secured
<1>2. Goto(g, "restore") \/ Throw(g)
  BY DEF CheckBackups
<1>3. QED
  BY <1>1, <1>2, QuietGoto, QuietThrow DEF Early, Secured, Restored

\* The pointer to the checkpoint is dropped when every file is restored.
LEMMA StepEndRollback ==
  ASSUME TypeOK, NEW g \in Gates, GateInv(g), EndRollback(g)
  PROVE  GateInv(g)'
<1>1. Quiet(g) /\ pc[g] = "endRollback" /\ held[g] /\ Pristine(g)
  BY WhereAt DEF EndRollback, Quiet, history, Secured, Restored
<1>2. SaveThen(g, [mem[g] EXCEPT !.checkpoint = NoCheckpoint], "retest")
  BY DEF EndRollback
<1>3. QED
  BY <1>1, <1>2, QuietSaveThen DEF Early, Secured, Restored

\* ROLLED_BACK is returned with every file restored and the tests passed.
LEMMA StepJudgeRollback ==
  ASSUME TypeOK, NEW g \in Gates, GateInv(g), JudgeRollback(g)
  PROVE  GateInv(g)'
<1>1. Quiet(g) /\ pc[g] = "rejudge" /\ held[g] /\ Pristine(g)
  BY WhereAt DEF JudgeRollback, Quiet, history, Secured, Restored
<1>2. CASE Throw(g)
  BY <1>1, <1>2, QuietThrow
<1>3. CASE Return(g, "RAISED")
  BY <1>1, <1>3, QuietReturn
<1>4. CASE /\ Saved(g, WithState(g, "VERIFIED_AFTER_ROLLBACK"))
           /\ Return(g, "ROLLED_BACK") /\ mem[g].lastTest = "passed"
  <2>1. mem'[g].lastTest = "passed" /\ mem'[g].state = "VERIFIED_AFTER_ROLLBACK"
    BY <1>4 DEF Saved, WithState, TypeOK, GateRecord
  <2>2. QED
    BY <1>1, <1>4, <2>1, QuietReturn
<1>5. QED
  BY <1>2, <1>3, <1>4 DEF JudgeRollback, SaveAndReturn

\* An exception inside the handler ends in SAFE_STOP.
LEMMA StepSafeStop ==
  ASSUME TypeOK, NEW g \in Gates, GateInv(g), SafeStop(g)
  PROVE  GateInv(g)'
<1>1. Quiet(g) /\ Return(g, "RAISED")
  BY DEF SafeStop, Quiet, history
<1>2. mem'[g].state = "SAFE_STOP"
  BY DEF SafeStop, Saved, SaveFailed, WithState, TypeOK, GateRecord
<1>3. QED
  BY <1>1, <1>2, QuietReturn

\* Validation adds the current change to the checked ones.
LEMMA StepValidate ==
  ASSUME TypeOK, NEW g \in Gates, GateInv(g), Validate(g)
  PROVE  GateInv(g)'
<1>1. /\ Quiet(g) /\ pc[g] = "validate" /\ Pristine(g) /\ ~held[g] /\ outcome[g] = "none"
      /\ ~recovering[g]
  BY WhereAt DEF Validate, Quiet, history, durable, Early
<1>2. /\ index[g] \in Nat \ {0} /\ tx[g] \in Seq(Change) /\ touched[g] \subseteq Files
      /\ Checked(g, index[g] - 1) /\ (index[g] = 1 \/ index[g] <= Len(tx[g]))
  BY <1>1 DEF TypeOK, GateInv, Control
<1>3. CASE Goto(g, "reject")
  BY <1>1, <1>3, QuietGoto DEF Early, Secured, Restored
<1>4. ASSUME index[g] <= Len(tx[g]), ValidChange(g)
      PROVE  Checked(g, index[g])
  <2>1. tx[g][index[g]].path \notin touched[g] =>
          content[tx[g][index[g]].path] = original[g][tx[g][index[g]].path]
    BY <1>1, <1>4 DEF ValidChange, Current, Pristine
  <2>2. /\ tx[g][index[g]].path \in Files
        /\ \A j \in 1..(index[g] - 1) : tx[g][j].path # tx[g][index[g]].path
        /\ tx[g][index[g]].path \notin touched[g] =>
             /\ original[g][tx[g][index[g]].path] \in Text
             /\ MatchesOnce(original[g][tx[g][index[g]].path], tx[g][index[g]])
    BY <1>4, <2>1 DEF ValidChange, Current
  <2>3. \A i \in 1..index[g] : i \in 1..(index[g] - 1) \/ i = index[g]
    BY <1>2
  <2>4. QED
    BY <1>2, <2>2, <2>3 DEF Checked
<1>5. CASE /\ index[g] <= Len(tx[g]) /\ ValidChange(g)
           /\ ~MoreChanges(g) /\ Goto(g, "checkpoint")
  <2>1. index[g] = Len(tx[g])
    BY <1>2, <1>5 DEF MoreChanges
  <2>2. Len(tx[g]) >= 1 /\ Checked(g, Len(tx[g]))
    BY <1>2, <1>4, <1>5, <2>1
  <2>3. QED
    BY <1>1, <1>5, <2>2, QuietGoto DEF Early, Secured, Restored
<1>6. CASE /\ index[g] <= Len(tx[g]) /\ ValidChange(g) /\ MoreChanges(g)
           /\ index' = [index EXCEPT ![g] = @ + 1]
           /\ UNCHANGED <<pc, recovering, outcome>>
  <2>1. /\ index'[g] = index[g] + 1 /\ index'[g] <= Len(tx[g]) /\ pc'[g] = "validate"
        /\ index'[g] - 1 = index[g]
    BY <1>1, <1>2, <1>6 DEF TypeOK, MoreChanges
  <2>2. Checked(g, index[g])
    BY <1>4, <1>6
  <2>3. Checked(g, index[g] - 1)'
    BY <1>1, <2>1, <2>2 DEF Checked, Quiet
  <2>4. Control(g)'
    BY <1>1, <1>6, <2>1, <2>3 DEF Control, Quiet, Loops, Early, Secured
  <2>5. Pristine(g)'
    BY <1>1 DEF Pristine, Quiet
  <2>6. Data(g)'
    BY <1>1, <2>1, <2>5 DEF Data, Quiet, Early
  <2>7. Result(g)'
    BY <1>1, <1>6 DEF Result
  <2>8. QED
    BY <2>4, <2>6, <2>7 DEF GateInv
<1>7. CASE Throw(g)
  BY <1>1, <1>7, QuietThrow
<1>8. QED
  BY <1>3, <1>5, <1>6, <1>7 DEF Validate, Advance

\* A backup of a file nobody has written is a backup of its original text.
LEMMA StepCopyBackup ==
  ASSUME TypeOK, NEW g \in Gates, GateInv(g), CopyBackup(g)
  PROVE  GateInv(g)'
<1>1. /\ UNCHANGED <<content, tx, touched, original, held>>
      /\ pc[g] = "copy" /\ Pristine(g) /\ ~held[g] /\ outcome[g] = "none"
      /\ ~recovering[g] /\ Len(tx[g]) >= 1 /\ Checked(g, Len(tx[g]))
      /\ BackedUp(g, index[g] - 1)
  BY WhereAt DEF CopyBackup, history, Early, GateInv, Data
<1>2. /\ index[g] \in 1..Len(tx[g]) /\ Current(g).path \in Files
      /\ index[g] \in Nat /\ tx[g] \in Seq(Change)
  BY <1>1, CurrentIsTarget DEF Loops, GateInv, TypeOK
<1>3. Pristine(g)' /\ Checked(g, Len(tx[g]))'
  BY <1>1 DEF Pristine, Checked
<1>4. CASE Throw(g)
  <2>1. Return(g, "RAISED")
    BY <1>1, <1>4, Zenon DEF Throw
  <2>2. pc'[g] = "ready" /\ index'[g] = 1 /\ outcome'[g] = "RAISED" /\ ~recovering'[g]
    BY <2>1 DEF Return, TypeOK
  <2>3. QED
    BY <1>1, <1>3, <2>2 DEF GateInv, Control, Data, Result, Early, Restored, Secured, Loops
<1>5. CASE /\ backup' = [backup EXCEPT ![g][Current(g).path] = content[Current(g).path]]
           /\ Advance(g, "manifest")
  <2>1. \A f \in Files : backup'[g][f] = IF f = Current(g).path THEN content[f] ELSE backup[g][f]
    BY <1>2, <1>5 DEF TypeOK
  <2>2. \A i \in 1..index[g] : tx[g][i].path \notin touched[g] =>
          backup'[g][tx[g][i].path] = original[g][tx[g][i].path]
    <3>1. SUFFICES ASSUME NEW i \in 1..index[g], tx[g][i].path \notin touched[g]
                   PROVE  backup'[g][tx[g][i].path] = original[g][tx[g][i].path]
      OBVIOUS
    <3>2. i \in 1..Len(tx[g]) /\ tx[g][i].path \in Files
      BY <1>1, <1>2 DEF Checked
    <3>3. CASE tx[g][i].path = Current(g).path
      BY <1>1, <2>1, <3>1, <3>2, <3>3 DEF Pristine
    <3>4. CASE tx[g][i].path # Current(g).path
      <4>1. i \in 1..(index[g] - 1)
        BY <1>2, <3>4 DEF Current
      <4>2. QED
        BY <1>1, <2>1, <3>1, <3>2, <3>4, <4>1 DEF BackedUp
    <3>5. QED
      BY <3>3, <3>4
  <2>3. CASE MoreChanges(g)
    <3>1. /\ index'[g] = index[g] + 1 /\ index'[g] <= Len(tx[g]) /\ index'[g] - 1 = index[g]
          /\ UNCHANGED <<pc, recovering, outcome>>
      <4>1. index' = [index EXCEPT ![g] = @ + 1] /\ UNCHANGED <<pc, recovering, outcome>>
        BY <1>5, <2>3 DEF Advance
      <4>2. index'[g] = index[g] + 1
        BY <4>1 DEF TypeOK
      <4>3. Len(tx[g]) \in Nat /\ index[g] < Len(tx[g])
        BY <1>2, <2>3 DEF MoreChanges
      <4>4. QED
        BY <1>2, <4>1, <4>2, <4>3
    <3>2. BackedUp(g, index[g] - 1)'
      BY <1>1, <2>2, <3>1 DEF BackedUp
    <3>3. QED
      BY <1>1, <1>3, <3>1, <3>2
      DEF GateInv, Control, Data, Result, Early, Restored, Secured, Loops
  <2>4. CASE ~MoreChanges(g)
    <3>1. index[g] = Len(tx[g])
      BY <1>2, <2>4 DEF MoreChanges
    <3>2. pc'[g] = "manifest" /\ index'[g] = 1 /\ UNCHANGED <<recovering, outcome>>
      BY <1>5, <2>4 DEF Advance, Goto, TypeOK
    <3>3. BackedUp(g, Len(tx[g]))'
      BY <1>1, <2>2, <3>1 DEF BackedUp
    <3>4. QED
      BY <1>1, <1>3, <3>2, <3>3
      DEF GateInv, Control, Data, Result, Early, Restored, Secured, Loops
  <2>5. QED
    BY <2>3, <2>4
<1>6. QED
  BY <1>4, <1>5 DEF CopyBackup

\* From here on the local variable checkpoint is set and the backups are complete.
LEMMA StepWriteManifest ==
  ASSUME TypeOK, NEW g \in Gates, GateInv(g), WriteManifest(g)
  PROVE  GateInv(g)'
<1>1. /\ UNCHANGED <<content, tx, touched, original>>
      /\ pc[g] = "manifest" /\ Pristine(g) /\ ~held[g] /\ outcome[g] = "none"
      /\ ~recovering[g] /\ Len(tx[g]) >= 1 /\ Checked(g, Len(tx[g]))
      /\ BackedUp(g, Len(tx[g]))
  BY WhereAt DEF WriteManifest, history, Early
<1>2. Pristine(g)' /\ OthersPristine(g)' /\ Checked(g, Len(tx[g]))'
  BY <1>1 DEF Pristine, OthersPristine, Checked, Targets
<1>3. CASE Throw(g) /\ UNCHANGED held
  <2>1. Return(g, "RAISED")
    BY <1>1, <1>3, Zenon DEF Throw
  <2>2. pc'[g] = "ready" /\ index'[g] = 1 /\ outcome'[g] = "RAISED" /\ ~recovering'[g]
    BY <2>1 DEF Return, TypeOK
  <2>3. QED
    BY <1>1, <1>2, <1>3, <2>2 DEF GateInv, Control, Data, Result, Early, Restored, Secured, Loops
<1>4. CASE /\ Goto(g, "apply") /\ held' = [held EXCEPT ![g] = TRUE] /\ UNCHANGED backup
  <2>1. pc'[g] = "apply" /\ index'[g] = 1 /\ UNCHANGED <<recovering, outcome>> /\ held'[g]
    BY <1>4 DEF Goto, TypeOK
  <2>2. BackedUp(g, Len(tx[g]))'
    BY <1>1, <1>4 DEF BackedUp
  <2>3. QED
    BY <1>1, <1>2, <2>1, <2>2 DEF GateInv, Control, Data, Result, Early, Restored, Secured, Loops
<1>5. QED
  BY <1>3, <1>4 DEF WriteManifest, Fail

\* A source that nobody else wrote is the text that validation matched: the new
\* text is the original with the change applied, and rejection is not possible.
LEMMA StepReadSource ==
  ASSUME TypeOK, NEW g \in Gates, GateInv(g), ReadSource(g)
  PROVE  GateInv(g)'
<1> DEFINE f == Current(g).path
<1>1. /\ Quiet(g) /\ UNCHANGED mem /\ pc[g] = "read" /\ held[g] /\ outcome[g] = "none"
      /\ AppliedBefore(g, index[g]) /\ Checked(g, Len(tx[g])) /\ Len(tx[g]) >= 1
      /\ BackedUp(g, Len(tx[g])) /\ OthersPristine(g)
  BY WhereAt DEF ReadSource, Quiet, history, durable, Secured
<1>2. /\ index[g] \in 1..Len(tx[g]) /\ Current(g) \in Change
      /\ f \in Files /\ f \in Targets(g)
  BY <1>1, CurrentIsTarget DEF Loops, GateInv
<1>3. f \notin touched[g] =>
        /\ content[f] = original[g][f] /\ content[f] \in Text
        /\ MatchesOnce(content[f], Current(g))
  BY <1>1, <1>2 DEF AppliedBefore, Checked, Current
<1>4. CASE /\ content[f] \in Text
           /\ buffer' = [buffer EXCEPT ![g] = Replaced(content[f], Current(g))]
           /\ pc' = [pc EXCEPT ![g] = "write"]
           /\ UNCHANGED <<index, recovering, outcome>>
  <2>1. /\ pc'[g] = "write" /\ buffer'[g] = Replaced(content[f], Current(g))
        /\ buffer'[g] \in Text
    BY <1>2, <1>4, ReplacedIsText DEF TypeOK
  <2>2. /\ Checked(g, Len(tx[g]))' /\ BackedUp(g, Len(tx[g]))' /\ OthersPristine(g)'
        /\ AppliedBefore(g, index[g])'
    BY <1>1, <1>4 DEF Quiet, Checked, BackedUp, OthersPristine, AppliedBefore, Targets
  <2>3. Control(g)'
    BY <1>1, <1>2, <1>4, <2>1, <2>2 DEF Control, Quiet, Loops, Early, Secured
  <2>4. f' = f /\ (f \notin touched'[g] => buffer'[g] = Replaced(original[g][f], Current(g))')
    <3>1. Current(g)' = Current(g) /\ UNCHANGED <<touched, original>>
      BY <1>1, <1>4 DEF Quiet, Current
    <3>2. QED
      BY <1>3, <2>1, <3>1 DEF Replaced
  <2>5. Data(g)'
    BY <1>1, <2>1, <2>2, <2>4 DEF Data, Quiet, Early, Restored
  <2>6. Result(g)'
    BY <1>1, <1>4 DEF Result
  <2>7. QED
    BY <2>3, <2>5, <2>6 DEF GateInv
<1>5. CASE ~MatchesOnce(content[f], Current(g)) /\ Goto(g, "reject")
  <2>1. ~Unshared(g)
    BY <1>2, <1>3, <1>5 DEF Unshared
  <2>2. QED
    BY <1>1, <1>5, <2>1, QuietGoto DEF Early, Secured, Restored
<1>6. CASE Throw(g)
  BY <1>1, <1>6, QuietThrow
<1>7. QED
  BY <1>4, <1>5, <1>6 DEF ReadSource

\* Writing the current target applies its change and disturbs no other file.
LEMMA StepWriteTarget ==
  ASSUME TypeOK, NEW g \in Gates, GateInv(g), WriteTarget(g)
  PROVE  GateInv(g)'
<1> SUFFICES ASSUME NEW k \in Nat, k = index[g] + 1
             PROVE  GateInv(g)'
  BY DEF TypeOK
<1> DEFINE f == Current(g).path
<1>1. /\ UNCHANGED <<backup, tx, held, mem, original>>
      /\ pc[g] = "write" /\ held[g] /\ outcome[g] = "none"
      /\ AppliedBefore(g, index[g]) /\ Checked(g, Len(tx[g])) /\ Len(tx[g]) >= 1
      /\ BackedUp(g, Len(tx[g])) /\ OthersPristine(g)
  BY WhereAt DEF WriteTarget, Secured
<1>2. /\ index[g] \in 1..Len(tx[g]) /\ index[g] \in Nat /\ tx[g] \in Seq(Change)
      /\ f \in Files /\ f \in Targets(g)
  BY <1>1, CurrentIsTarget DEF Loops, GateInv, TypeOK
<1>3. f \notin touched[g] => buffer[g] = Replaced(original[g][f], Current(g))
  BY <1>1 DEF GateInv, Data
<1>4. CASE Throw(g) /\ UNCHANGED <<content, touched>>
  <2>1. Quiet(g)
    BY <1>1, <1>4 DEF Quiet
  <2>2. QED
    BY <1>1, <1>4, <2>1, QuietThrow
<1>5. CASE /\ Write(g, f, buffer[g])
           /\ \/ /\ MoreChanges(g) /\ pc' = [pc EXCEPT ![g] = "read"]
                 /\ index' = [index EXCEPT ![g] = @ + 1]
                 /\ UNCHANGED <<recovering, outcome>>
              \/ ~MoreChanges(g) /\ Goto(g, "test")
  <2>1. /\ touched'[g] = touched[g]
        /\ \A h \in Files : content'[h] = IF h = f THEN buffer[g] ELSE content[h]
    BY <1>2, <1>5 DEF Write, TypeOK
  <2>2. AppliedBefore(g, k)'
    <3>1. SUFFICES ASSUME NEW i \in 1..Len(tx[g]), tx[g][i].path \notin touched[g]
                   PROVE  content'[tx[g][i].path] =
                            IF i < k
                              THEN Replaced(original[g][tx[g][i].path], tx[g][i])
                              ELSE original[g][tx[g][i].path]
      BY <1>1, <2>1 DEF AppliedBefore, Replaced
    <3>2. tx[g][i].path \in Files
      BY <1>1 DEF Checked
    <3>3. CASE i = index[g]
      BY <1>2, <1>3, <2>1, <3>1, <3>2, <3>3 DEF Current
    <3>4. CASE i # index[g]
      <4>1. tx[g][i].path # f
        BY <1>1, <1>2, <3>4 DEF Checked, Current
      <4>2. (i < k) <=> (i < index[g])
        BY <1>2, <3>4
      <4>3. QED
        BY <1>1, <2>1, <3>1, <3>2, <4>1, <4>2 DEF AppliedBefore
    <3>5. QED
      BY <3>3, <3>4, SMTT(40)
  <2>3. Checked(g, Len(tx[g]))' /\ BackedUp(g, Len(tx[g]))'
    BY <1>1, <2>1 DEF Checked, BackedUp
  <2>4. OthersPristine(g)'
    BY <1>1, <1>2, <2>1 DEF OthersPristine, Targets
  <2>5. CASE MoreChanges(g) /\ pc' = [pc EXCEPT ![g] = "read"]
             /\ index' = [index EXCEPT ![g] = @ + 1] /\ UNCHANGED <<recovering, outcome>>
    <3>1. pc'[g] = "read" /\ index'[g] = index[g] + 1 /\ index'[g] <= Len(tx[g])
      BY <1>2, <2>5 DEF TypeOK, MoreChanges
    <3>2. AppliedBefore(g, index[g])'
      BY <2>2, <3>1 DEF AppliedBefore
    <3>3. Control(g)'
      BY <1>1, <2>3, <2>5, <3>1 DEF Control, Loops, Early, Secured
    <3>4. Data(g)'
      BY <1>1, <2>3, <2>4, <3>1, <3>2 DEF Data, Early, Restored
    <3>5. Result(g)'
      BY <1>1, <2>5 DEF Result
    <3>6. QED
      BY <3>3, <3>4, <3>5 DEF GateInv
  <2>6. CASE ~MoreChanges(g) /\ Goto(g, "test")
    <3>1. pc'[g] = "test" /\ index'[g] = 1 /\ UNCHANGED <<recovering, outcome>>
      BY <2>6 DEF Goto, TypeOK
    <3>2. index[g] = Len(tx[g])
      BY <1>2, <2>6 DEF MoreChanges
    <3>3. AppliedBefore(g, Len(tx[g]) + 1)'
      BY <1>1, <2>2, <3>2 DEF AppliedBefore
    <3>4. Control(g)'
      BY <1>1, <2>3, <3>1 DEF Control, Loops, Early, Secured
    <3>5. Data(g)'
      BY <1>1, <2>3, <2>4, <3>1, <3>3 DEF Data, Early, Restored
    <3>6. Result(g)'
      BY <1>1, <3>1 DEF Result
    <3>7. QED
      BY <3>4, <3>5, <3>6 DEF GateInv
  <2>7. QED
    BY <1>5, <2>5, <2>6
<1>6. QED
  BY <1>4, <1>5 DEF WriteTarget, Fail

\* Restoring the current target disturbs no other file; after the last one every
\* file is what it was.
LEMMA StepRestoreFile ==
  ASSUME TypeOK, NEW g \in Gates, GateInv(g), RestoreFile(g)
  PROVE  GateInv(g)'
<1> SUFFICES ASSUME NEW k \in Nat, k = index[g] + 1
             PROVE  GateInv(g)'
  BY DEF TypeOK
<1> DEFINE f == Current(g).path
<1>1. /\ UNCHANGED <<backup, tx, held, mem, original>>
      /\ pc[g] = "restore" /\ held[g] /\ outcome[g] = "none"
      /\ RestoredBefore(g, index[g]) /\ Checked(g, Len(tx[g])) /\ Len(tx[g]) >= 1
      /\ BackedUp(g, Len(tx[g])) /\ OthersPristine(g)
  BY WhereAt DEF RestoreFile, Secured
<1>2. /\ index[g] \in 1..Len(tx[g]) /\ index[g] \in Nat /\ tx[g] \in Seq(Change)
      /\ f \in Files /\ f \in Targets(g)
  BY <1>1, CurrentIsTarget DEF Loops, GateInv, TypeOK
<1>3. CASE Throw(g) /\ UNCHANGED <<content, touched>>
  <2>1. Quiet(g)
    BY <1>1, <1>3 DEF Quiet
  <2>2. QED
    BY <1>1, <1>3, <2>1, QuietThrow
<1>4. CASE Write(g, f, backup[g][f]) /\ Advance(g, "endRollback")
  <2>1. /\ touched'[g] = touched[g]
        /\ \A h \in Files : content'[h] = IF h = f THEN backup[g][f] ELSE content[h]
    BY <1>2, <1>4 DEF Write, TypeOK
  <2>2. RestoredBefore(g, k)'
    <3>1. SUFFICES ASSUME NEW i \in 1..Len(tx[g]), i < k,
                          tx[g][i].path \notin touched[g]
                   PROVE  content'[tx[g][i].path] = original[g][tx[g][i].path]
      BY <1>1, <2>1 DEF RestoredBefore
    <3>2. tx[g][i].path \in Files
      BY <1>1 DEF Checked
    <3>3. CASE tx[g][i].path = f
      BY <1>1, <2>1, <3>1, <3>2, <3>3 DEF BackedUp
    <3>4. CASE tx[g][i].path # f
      <4>1. i < index[g]
        BY <1>2, <3>1, <3>4 DEF Current
      <4>2. QED
        BY <1>1, <2>1, <3>1, <3>2, <3>4, <4>1 DEF RestoredBefore
    <3>5. QED
      BY <3>3, <3>4
  <2>3. Checked(g, Len(tx[g]))' /\ BackedUp(g, Len(tx[g]))'
    BY <1>1, <2>1 DEF Checked, BackedUp
  <2>4. OthersPristine(g)'
    BY <1>1, <1>2, <2>1 DEF OthersPristine, Targets
  <2>5. CASE MoreChanges(g)
    <3>1. index' = [index EXCEPT ![g] = @ + 1] /\ UNCHANGED <<pc, recovering, outcome>>
      BY <1>4, <2>5 DEF Advance
    <3>2. index'[g] = index[g] + 1 /\ index'[g] <= Len(tx[g])
      BY <1>2, <2>5, <3>1 DEF TypeOK, MoreChanges
    <3>3. RestoredBefore(g, index[g])'
      BY <2>2, <3>2 DEF RestoredBefore
    <3>4. Control(g)'
      BY <1>1, <2>3, <3>1, <3>2 DEF Control, Loops, Early, Secured
    <3>5. Data(g)'
      BY <1>1, <2>3, <2>4, <3>1, <3>3 DEF Data, Early, Restored
    <3>6. Result(g)'
      BY <1>1, <3>1 DEF Result
    <3>7. QED
      BY <3>4, <3>5, <3>6 DEF GateInv
  <2>6. CASE ~MoreChanges(g)
    <3>1. pc'[g] = "endRollback" /\ index'[g] = 1 /\ UNCHANGED <<recovering, outcome>>
      BY <1>4, <2>6 DEF Advance, Goto, TypeOK
    <3>2. index[g] = Len(tx[g])
      BY <1>2, <2>6 DEF MoreChanges
    <3>3. Pristine(g)'
      <4>1. SUFFICES ASSUME NEW h \in Files \ touched[g]
                     PROVE  content'[h] = original[g][h]
        BY <1>1, <2>1 DEF Pristine
      <4>2. CASE h \in Targets(g)
        <5>1. PICK i \in DOMAIN tx[g] : tx[g][i].path = h
          BY <4>2 DEF Targets
        <5>2. i \in 1..Len(tx[g]) /\ i < k
          BY <1>2, <3>2, <5>1
        <5>3. QED
          BY <1>1, <2>1, <2>2, <4>1, <5>1, <5>2 DEF RestoredBefore
      <4>3. CASE h \notin Targets(g)
        BY <1>1, <1>2, <2>1, <4>1, <4>3 DEF OthersPristine
      <4>4. QED
        BY <4>2, <4>3
    <3>4. Control(g)'
      BY <1>1, <2>3, <3>1 DEF Control, Loops, Early, Secured
    <3>5. Data(g)'
      BY <1>1, <2>3, <2>4, <3>1, <3>3 DEF Data, Early, Restored
    <3>6. Result(g)'
      BY <1>1, <3>1 DEF Result
    <3>7. QED
      BY <3>4, <3>5, <3>6 DEF GateInv
  <2>7. QED
    BY <2>5, <2>6
<1>5. QED
  BY <1>3, <1>4 DEF RestoreFile, Fail

\* Every step of execute() keeps the invariant of its gate.
LEMMA OwnStep ==
  ASSUME TypeOK, NEW g \in Gates, GateInv(g), ExecuteStep(g)
  PROVE  GateInv(g)'
  BY StepStart, StepValidate, StepReject, StepStartCheckpoint, StepCopyBackup,
     StepWriteManifest, StepStartApply, StepReadSource, StepWriteTarget, StepStartTests,
     StepRunTests, StepJudgeTests, StepStartRollback, StepCheckBackups, StepRestoreFile,
     StepEndRollback, StepJudgeRollback, StepSafeStop DEF ExecuteStep

\* A new gate object is idle and nothing is applied on its behalf.
LEMMA StepConstruct ==
  ASSUME TypeOK, NEW g \in Gates, GateInv(g), Construct(g)
  PROVE  GateInv(g)'
<1>1. Quiet(g) /\ pc[g] = "off" /\ outcome[g] = "none" /\ ~recovering[g]
  BY DEF Construct, Quiet, history, GateInv, Control
<1>2. pc'[g] = "ready" /\ index'[g] = 1 /\ outcome'[g] = "none" /\ ~recovering'[g]
  BY <1>1 DEF Construct, Goto, TypeOK
<1>3. QED
  BY <1>1, <1>2, QuietStep DEF Early, Secured, Restored

\* A call of execute() starts its history, so nothing is applied yet.
LEMMA StepBegin ==
  ASSUME TypeOK, NEW g \in Gates, GateInv(g), NEW changes, Begin(g, changes)
  PROVE  GateInv(g)'
<1>1. /\ original'[g] = content /\ touched'[g] = {} /\ ~held'[g] /\ content' = content
  BY DEF Begin, TypeOK
<1>2. Pristine(g)'
  BY <1>1 DEF Pristine
<1>3. pc[g] = "ready" /\ ~recovering[g] /\ index[g] = 1
  BY DEF Begin, GateInv, Control, Loops
<1>4. /\ pc'[g] \in {"start", "ready"} /\ index'[g] = 1 /\ ~recovering'[g]
      /\ pc'[g] = "start" => outcome'[g] = "none"
      /\ outcome'[g] \in {"none", "RAISED"}
  <2>1. CASE /\ pc' = [pc EXCEPT ![g] = "start"]
             /\ outcome' = [outcome EXCEPT ![g] = "none"]
             /\ UNCHANGED <<index, recovering>>
    BY <1>3, <2>1 DEF TypeOK
  <2>2. CASE Return(g, "RAISED")
    BY <1>3, <2>2 DEF Return, TypeOK
  <2>3. QED
    BY <2>1, <2>2 DEF Begin
<1>5. QED
  BY <1>1, <1>2, <1>4 DEF GateInv, Control, Data, Result, Early, Secured, Restored, Loops

\* After a crash there is no execute() to say anything about.
LEMMA StepCrash ==
  ASSUME TypeOK, NEW g \in Gates, Crash(g)
  PROVE  GateInv(g)'
<1>1. /\ pc'[g] = "off" /\ index'[g] = 1 /\ ~recovering'[g] /\ outcome'[g] = "none"
      /\ ~held'[g]
  BY DEF Crash, TypeOK
<1>2. QED
  BY <1>1 DEF GateInv, Control, Data, Result, Early, Secured, Restored, Loops

(***************************************************************************)
(* A gate that does not take the step.  Others reach it through the files  *)
(* only, and every file they write is in touched.                          *)
(***************************************************************************)

SameFlow(h) ==
  /\ pc'[h] = pc[h]
  /\ index'[h] = index[h]
  /\ recovering'[h] = recovering[h]
  /\ outcome'[h] = outcome[h]

SameData(h) ==
  /\ tx'[h] = tx[h]
  /\ buffer'[h] = buffer[h]
  /\ held'[h] = held[h]
  /\ backup'[h] = backup[h]
  /\ original'[h] = original[h]

ForeignWrites(h) ==
  /\ touched[h] \subseteq touched'[h]
  /\ \A f \in Files : content'[f] # content[f] => f \in touched'[h]

\* A gate whose variables do not change keeps its invariant: each conjunct only
\* speaks of files that are not in touched.
LEMMA OtherGate ==
  ASSUME NEW h \in Gates, GateInv(h), SameFlow(h), SameData(h), mem'[h] = mem[h],
         ForeignWrites(h)
  PROVE  GateInv(h)'
<1>1. /\ \A n : Checked(h, n) => Checked(h, n)'
      /\ Pristine(h) => Pristine(h)'
      /\ OthersPristine(h) => OthersPristine(h)'
      /\ Unshared(h)' => Unshared(h)
      /\ Current(h)' = Current(h)
  BY DEF Checked, Pristine, OthersPristine, Unshared, Targets, Current, SameFlow, SameData,
         ForeignWrites
<1>2. \A n : BackedUp(h, n) => BackedUp(h, n)'
  BY DEF BackedUp, SameData, ForeignWrites
<1>3. ASSUME Checked(h, Len(tx[h])), NEW n
      PROVE  /\ AppliedBefore(h, n) => AppliedBefore(h, n)'
             /\ RestoredBefore(h, n) => RestoredBefore(h, n)'
  <2>1. \A i \in 1..Len(tx[h]) : tx[h][i].path \in Files
    BY <1>3, SMTT(40) DEF Checked
  <2>2. AppliedBefore(h, n) => AppliedBefore(h, n)'
    BY <2>1 DEF AppliedBefore, SameData, ForeignWrites, Replaced
  <2>3. RestoredBefore(h, n) => RestoredBefore(h, n)'
    BY <2>1 DEF RestoredBefore, SameData, ForeignWrites
  <2>4. QED
    BY <2>2, <2>3
<1>4. Control(h)'
  BY <1>1 DEF GateInv, Control, SameFlow, SameData
<1>5. held[h] => Checked(h, Len(tx[h]))
  BY DEF GateInv, Control
<1>6. Data(h)'
  BY <1>1, <1>2, <1>3, <1>5, WhereAt
  DEF GateInv, Data, SameFlow, SameData, ForeignWrites, Replaced, Secured
<1>7. Result(h)'
  BY <1>1, <1>3, <1>5 DEF GateInv, Result, SameFlow, SameData
<1>8. QED
  BY <1>4, <1>6, <1>7 DEF GateInv

\* A move of control, a save and a write change nothing of another gate.
LEMMA FlowElse ==
  ASSUME TypeOK, NEW g \in Gates, NEW h \in Gates \ {g}, NEW step, NEW result,
         Goto(g, step) \/ Advance(g, step) \/ Return(g, result) \/ Throw(g)
  PROVE  SameFlow(h)
<1>1. CASE Goto(g, step)
  BY <1>1 DEF Goto, SameFlow, TypeOK
<1>2. CASE Return(g, result)
  BY <1>2 DEF Return, SameFlow, TypeOK
<1>3. CASE Advance(g, step)
  BY <1>1, <1>3 DEF Advance, SameFlow, TypeOK
<1>4. CASE Throw(g)
  <2>1. CASE Goto(g, "safeStop")
    BY <2>1 DEF Goto, SameFlow, TypeOK
  <2>2. CASE Recover(g)
    BY <2>2 DEF Recover, SameFlow, TypeOK
  <2>3. CASE Return(g, "RAISED")
    BY <2>3 DEF Return, SameFlow, TypeOK
  <2>4. QED
    BY <1>4, <2>1, <2>2, <2>3, Zenon DEF Throw
<1>5. QED
  BY <1>1, <1>2, <1>3, <1>4

\* A save of one gate leaves the memory of the others alone.
LEMMA SaveElse ==
  ASSUME TypeOK, NEW g \in Gates, NEW h \in Gates \ {g}, NEW record,
         Saved(g, record) \/ SaveFailed(g, record)
  PROVE  mem'[h] = mem[h]
  BY DEF Saved, SaveFailed, TypeOK

\* One gate's write is a foreign write of every other gate.
LEMMA WriteElse ==
  ASSUME TypeOK, NEW g \in Gates, NEW h \in Gates \ {g}, NEW f \in Files, NEW text,
         Write(g, f, text)
  PROVE  ForeignWrites(h)
  BY DEF Write, ForeignWrites, TypeOK

\* The same for a save followed by a step or an exception.
LEMMA SaveThenElse ==
  ASSUME TypeOK, NEW g \in Gates, NEW h \in Gates \ {g}, NEW record, NEW step,
         SaveThen(g, record, step)
  PROVE  SameFlow(h) /\ mem'[h] = mem[h]
  BY FlowElse, SaveElse DEF SaveThen

\* A step of execute() leaves another gate's variables alone.
LEMMA StepElse ==
  ASSUME TypeOK, NEW g \in Gates, GateInv(g), NEW h \in Gates \ {g}, ExecuteStep(g)
  PROVE  SameFlow(h) /\ SameData(h) /\ mem'[h] = mem[h] /\ ForeignWrites(h)
<1> USE DEF history, durable
<1>a. ASSUME UNCHANGED <<content, touched>>
      PROVE  ForeignWrites(h)
  BY <1>a DEF ForeignWrites
<1>1. ASSUME UNCHANGED <<content, backup, tx, buffer, held, history>>
      PROVE  SameData(h) /\ ForeignWrites(h)
  BY <1>1, <1>a DEF SameData
<1>2. CASE Start(g)
  BY <1>1, <1>2, SaveThenElse DEF Start
<1>3. CASE Validate(g)
  BY <1>1, <1>3, FlowElse DEF Validate
<1>4. CASE Reject(g)
  BY <1>1, <1>4, FlowElse, SaveElse DEF Reject
<1>5. CASE StartCheckpoint(g)
  BY <1>1, <1>5, SaveThenElse DEF StartCheckpoint
<1>6. CASE CopyBackup(g)
  <2>1. backup'[h] = backup[h]
    BY <1>6 DEF CopyBackup, TypeOK
  <2>2. QED
    BY <1>a, <1>6, <2>1, FlowElse DEF CopyBackup, SameData
<1>7. CASE WriteManifest(g)
  <2>1. backup'[h] = backup[h] /\ held'[h] = held[h]
    BY <1>7 DEF WriteManifest, TypeOK
  <2>2. SameFlow(h) /\ mem'[h] = mem[h]
    BY <1>7, FlowElse, SaveElse DEF WriteManifest, Fail
  <2>3. QED
    BY <1>a, <1>7, <2>1, <2>2 DEF WriteManifest, SameData
<1>8. CASE StartApply(g)
  BY <1>1, <1>8, SaveThenElse DEF StartApply
<1>9. CASE ReadSource(g)
  <2>1. buffer'[h] = buffer[h]
    BY <1>9 DEF ReadSource, TypeOK
  <2>2. SameFlow(h)
    <3>1. CASE pc' = [pc EXCEPT ![g] = "write"] /\ UNCHANGED <<index, recovering, outcome>>
      BY <3>1 DEF SameFlow, TypeOK
    <3>2. QED
      BY <1>9, <3>1, FlowElse DEF ReadSource
  <2>3. QED
    BY <1>a, <1>9, <2>1, <2>2 DEF ReadSource, SameData
<1>10. CASE WriteTarget(g)
  <2>1. buffer'[h] = buffer[h]
    BY <1>10 DEF WriteTarget, TypeOK
  <2>2. SameFlow(h)
    <3>1. CASE /\ pc' = [pc EXCEPT ![g] = "read"] /\ index' = [index EXCEPT ![g] = @ + 1]
               /\ UNCHANGED <<recovering, outcome>>
      BY <3>1 DEF SameFlow, TypeOK
    <3>2. QED
      BY <1>10, <3>1, FlowElse DEF WriteTarget, Fail
  <2>3. ForeignWrites(h)
    BY <1>a, <1>10, CurrentIsTarget, WriteElse DEF WriteTarget, GateInv, Loops
  <2>4. QED
    BY <1>10, <2>1, <2>2, <2>3 DEF WriteTarget, SameData
<1>11. CASE StartTests(g)
  BY <1>1, <1>11, SaveThenElse DEF StartTests
<1>12. CASE RunTests(g)
  <2>1. SameFlow(h) /\ mem'[h] = mem[h]
    BY <1>12, SaveThenElse, FlowElse DEF RunTests, Fail
  <2>2. QED
    BY <1>a, <1>12, <2>1 DEF RunTests, SameData
<1>13. CASE JudgeTests(g)
  BY <1>1, <1>13, FlowElse, SaveElse DEF JudgeTests, SaveAndReturn
<1>14. CASE StartRollback(g)
  BY <1>1, <1>14, SaveThenElse DEF StartRollback
<1>15. CASE CheckBackups(g)
  BY <1>1, <1>15, FlowElse DEF CheckBackups
<1>16. CASE RestoreFile(g)
  <2>1. SameFlow(h)
    BY <1>16, FlowElse DEF RestoreFile, Fail
  <2>2. ForeignWrites(h)
    BY <1>a, <1>16, CurrentIsTarget, WriteElse DEF RestoreFile, GateInv, Loops
  <2>3. QED
    BY <1>16, <2>1, <2>2 DEF RestoreFile, SameData
<1>17. CASE EndRollback(g)
  BY <1>1, <1>17, SaveThenElse DEF EndRollback
<1>18. CASE JudgeRollback(g)
  BY <1>1, <1>18, FlowElse, SaveElse DEF JudgeRollback, SaveAndReturn
<1>19. CASE SafeStop(g)
  BY <1>1, <1>19, FlowElse, SaveElse DEF SafeStop
<1>20. QED
  BY <1>2, <1>3, <1>4, <1>5, <1>6, <1>7, <1>8, <1>9, <1>10, <1>11, <1>12, <1>13, <1>14,
     <1>15, <1>16, <1>17, <1>18, <1>19 DEF ExecuteStep

(***************************************************************************)
(* The inductive invariant.                                                *)
(***************************************************************************)

\* The invariant holds initially: every process is off.
LEMMA InitIInv == Init => IInv
<1> SUFFICES ASSUME Init
             PROVE  IInv
  OBVIOUS
<1>1. TypeOK
  <2>1. FreshRecord \in GateRecord
    BY DEF FreshRecord, GateRecord, GateStates
  <2>2. NoBackups \in [Files -> Content] /\ content \in [Files -> Content]
    BY TextsAssumption DEF NoBackups, Content, Init
  <2>3. <<>> \in Seq(Change)
    OBVIOUS
  <2>4. QED
    BY <2>1, <2>2, <2>3 DEF Init, TypeOK
<1>2. ASSUME NEW g \in Gates
      PROVE  GateInv(g)
  <2>1. /\ pc[g] = "off" /\ index[g] = 1 /\ ~recovering[g] /\ outcome[g] = "none"
        /\ ~held[g]
    BY DEF Init
  <2>2. QED
    BY <2>1 DEF GateInv, Control, Data, Result, Early, Secured, Restored, Loops
<1>3. QED
  BY <1>1, <1>2 DEF IInv

\* Construct, Begin and Crash keep the types and leave the other gates alone.
LEMMA CallStep ==
  ASSUME TypeOK, NEW g \in Gates, GateInv(g),
         \/ Construct(g)
         \/ \E changes \in Transactions : Begin(g, changes)
         \/ Crash(g)
  PROVE  /\ TypeOK' /\ GateInv(g)'
         /\ \A h \in Gates \ {g} :
              SameFlow(h) /\ SameData(h) /\ mem'[h] = mem[h] /\ ForeignWrites(h)
<1>a. FlowOK /\ RecordsOK /\ DataTypes
  BY TypeParts
<1>1. CASE Construct(g)
  <2>1. FlowOK' /\ RecordsOK'
    BY <1>1, RecordTypes, FlowStep, SaveStep DEF Construct
  <2>2. DataTypes'
    BY <1>1, <1>a DEF Construct, DataTypes, history
  <2>3. ASSUME NEW h \in Gates \ {g}
        PROVE  SameFlow(h) /\ SameData(h) /\ mem'[h] = mem[h] /\ ForeignWrites(h)
    <3>1. SameFlow(h) /\ mem'[h] = mem[h]
      BY <1>1, FlowElse, SaveElse DEF Construct
    <3>2. QED
      BY <1>1, <3>1 DEF Construct, history, SameData, ForeignWrites
  <2>4. QED
    BY <1>1, <2>1, <2>2, <2>3, TypePartsNext, StepConstruct, SMTT(40)
<1>2. ASSUME NEW changes \in Transactions, Begin(g, changes)
      PROVE  /\ TypeOK' /\ GateInv(g)'
             /\ \A h \in Gates \ {g} :
                  SameFlow(h) /\ SameData(h) /\ mem'[h] = mem[h] /\ ForeignWrites(h)
  <2> DEFINE reset == [mem[g] EXCEPT !.checkpoint = NoCheckpoint, !.lastTest = "none"]
  <2>1. reset \in GateRecord /\ changes \in Seq(Change)
    BY RecordTypes, TransactionsAssumption
  <2>2. Saved(g, reset) \/ SaveFailed(g, reset)
    BY <1>2 DEF Begin
  <2>3. RecordsOK'
    BY <2>1, <2>2, SaveStep
  <2>4. ASSUME pc' = [pc EXCEPT ![g] = "start"], outcome' = [outcome EXCEPT ![g] = "none"],
               UNCHANGED <<index, recovering>>
        PROVE  FlowOK' /\ \A h \in Gates \ {g} : SameFlow(h)
    BY <1>a, <2>4 DEF FlowOK, SameFlow
  <2>5. FlowOK' /\ \A h \in Gates \ {g} : SameFlow(h)
    BY <1>2, <2>4, FlowStep, FlowElse DEF Begin
  <2>6. NoBackups \in [Files -> Content]
    BY DEF NoBackups, Content
  <2>7. DataTypes'
    BY <1>2, <1>a, <2>1, <2>6 DEF Begin, DataTypes
  <2>8. ASSUME NEW h \in Gates \ {g}
        PROVE  SameData(h) /\ mem'[h] = mem[h] /\ ForeignWrites(h)
    BY <1>2, <1>a, <2>2, SaveElse DEF Begin, DataTypes, SameData, ForeignWrites
  <2>9. QED
    BY <1>2, <2>3, <2>5, <2>7, <2>8, TypePartsNext, StepBegin, SMTT(40)
<1>3. CASE Crash(g)
  <2>1. FreshRecord \in GateRecord
    BY RecordTypes
  <2>2. TypeOK'
    BY <1>3, <2>1 DEF Crash, TypeOK, durable
  <2>3. ASSUME NEW h \in Gates \ {g}
        PROVE  SameFlow(h) /\ SameData(h) /\ mem'[h] = mem[h] /\ ForeignWrites(h)
    BY <1>3 DEF Crash, TypeOK, durable, SameFlow, SameData, ForeignWrites
  <2>4. QED
    BY <1>3, <2>2, <2>3, StepCrash, SMTT(40)
<1>4. QED
  BY <1>1, <1>2, <1>3

\* An edit keeps the types and every gate's invariant.
LEMMA EditStep ==
  ASSUME IInv, NEW f \in Files, NEW text \in ForeignContent, Edit(f, text)
  PROVE  IInv'
<1>1. text \in Content
  BY TransactionsAssumption
<1>2. TypeOK'
  BY <1>1 DEF IInv, Edit, TypeOK, control
<1>3. ASSUME NEW h \in Gates
      PROVE  GateInv(h)'
  <2>1. SameFlow(h) /\ SameData(h) /\ mem'[h] = mem[h]
    BY DEF Edit, control, SameFlow, SameData
  <2>2. ForeignWrites(h)
    BY DEF Edit, ForeignWrites, IInv, TypeOK
  <2>3. QED
    BY <2>1, <2>2, OtherGate DEF IInv
<1>4. QED
  BY <1>2, <1>3 DEF IInv

\* A step in which nothing happens.
LEMMA Stuttering ==
  ASSUME IInv, UNCHANGED vars
  PROVE  IInv'
<1>1. TypeOK'
  BY DEF IInv, TypeOK, vars, durable, control, history
<1>2. ASSUME NEW h \in Gates
      PROVE  GateInv(h)'
  <2>1. SameFlow(h) /\ SameData(h) /\ mem'[h] = mem[h] /\ ForeignWrites(h)
    BY DEF vars, durable, control, history, SameFlow, SameData, ForeignWrites
  <2>2. QED
    BY <2>1, OtherGate DEF IInv
<1>3. QED
  BY <1>1, <1>2 DEF IInv

\* Every step keeps the invariant.
LEMMA NextIInv == IInv /\ [Next]_vars => IInv'
<1> SUFFICES ASSUME IInv, [Next]_vars
             PROVE  IInv'
  OBVIOUS
<1>1. ASSUME NEW g \in Gates,
             \/ ExecuteStep(g)
             \/ Construct(g)
             \/ \E changes \in Transactions : Begin(g, changes)
             \/ Crash(g)
      PROVE  IInv'
  <2>1. TypeOK /\ GateInv(g)
    BY DEF IInv
  <2>2. /\ TypeOK' /\ GateInv(g)'
        /\ \A h \in Gates \ {g} :
             SameFlow(h) /\ SameData(h) /\ mem'[h] = mem[h] /\ ForeignWrites(h)
    <3>1. CASE ExecuteStep(g)
      <4>1. Control(g) /\ Data(g)
        BY <2>1 DEF GateInv
      <4>2. QED
        BY <2>1, <3>1, <4>1, TypeStep, OwnStep, StepElse
    <3>2. QED
      BY <1>1, <2>1, <3>1, CallStep
  <2>3. \A h \in Gates \ {g} : GateInv(h)'
    BY <2>2, OtherGate DEF IInv
  <2>4. QED
    BY <2>2, <2>3 DEF IInv
<1>2. QED
  BY <1>1, EditStep, Stuttering DEF Next

\* IInv holds in every reachable state.
THEOREM Invariance == Spec => []IInv
  BY InitIInv, NextIInv, PTL DEF Spec

(***************************************************************************)
(* The properties, for any number of gates, files and changes.             *)
(***************************************************************************)

\* Type correctness: no step of any interleaving leaves a variable outside its
\* type; a target is never left holding anything but a text the gate computed.
THEOREM TypeCorrect == Spec => []TypeOK
<1>1. IInv => TypeOK
  BY DEF IInv
<1>2. QED
  BY <1>1, Invariance, PTL

\* An execute() that returns APPROVED has seen the tests pass and has applied
\* every change, to every target that nobody else wrote.
THEOREM ApprovedTheorem == Spec => []ApprovedIsComplete
<1>1. IInv => ApprovedIsComplete
  <2>1. SUFFICES ASSUME IInv, NEW g \in Gates, outcome[g] = "APPROVED"
                 PROVE  /\ mem[g].lastTest = "passed"
                        /\ \A i \in DOMAIN tx[g] : tx[g][i].path \notin touched[g] =>
                             content[tx[g][i].path] =
                               Replaced(original[g][tx[g][i].path], tx[g][i])
    BY DEF ApprovedIsComplete
  <2>2. /\ mem[g].lastTest = "passed" /\ AppliedBefore(g, Len(tx[g]) + 1)
        /\ tx[g] \in Seq(Change)
    BY <2>1 DEF IInv, GateInv, Result, TypeOK
  <2>3. \A i \in DOMAIN tx[g] : i \in 1..Len(tx[g]) /\ i < Len(tx[g]) + 1
    BY <2>2
  <2>4. QED
    BY <2>2, <2>3 DEF AppliedBefore
<1>2. QED
  BY <1>1, Invariance, PTL

\* An execute() that returns ROLLED_BACK has restored every file that nobody else
\* wrote, and has seen the tests pass after that.
THEOREM RolledBackTheorem == Spec => []RolledBackIsRestored
<1>1. IInv => RolledBackIsRestored
  BY DEF IInv, GateInv, Result, Pristine, RolledBackIsRestored
<1>2. QED
  BY <1>1, Invariance, PTL

\* As long as nobody else writes a target, REJECTED means that nothing was applied.
THEOREM RejectedTheorem == Spec => []RejectedIsUntouched
<1>1. IInv => RejectedIsUntouched
  BY DEF IInv, GateInv, Result, Pristine, Unshared, RejectedIsUntouched
<1>2. QED
  BY <1>1, Invariance, PTL

\* As long as nobody else writes a target, an execute() that raises has restored
\* every file or says SAFE_STOP, whatever failed on the way.
THEOREM RaisedTheorem == Spec => []RaisedIsRestoredOrStopped
<1>1. IInv => RaisedIsRestoredOrStopped
  BY DEF IInv, GateInv, Result, Pristine, Unshared, RaisedIsRestoredOrStopped
<1>2. QED
  BY <1>1, Invariance, PTL

\* Write-ahead: while execute() runs, a file it has changed has its original text
\* in the checkpoint directory, also with other gates running in the workspace.
THEOREM BackedUpTheorem == Spec => []ChangedIsBackedUp
<1>1. IInv => ChangedIsBackedUp
  <2>1. SUFFICES ASSUME IInv, NEW g \in Gates, pc[g] \notin {"off", "ready"},
                        NEW f \in Files \ touched[g], content[f] # original[g][f]
                 PROVE  backup[g][f] = original[g][f]
    BY DEF ChangedIsBackedUp
  <2>2. GateInv(g) /\ tx[g] \in Seq(Change) /\ pc[g] \in Steps
    BY <2>1 DEF IInv, TypeOK
  <2>3. ~Pristine(g)
    BY <2>1 DEF Pristine
  <2>4. held[g]
    BY <2>1, <2>2, <2>3 DEF GateInv, Control, Data, Early, Secured
  <2>5. f \in Targets(g) /\ BackedUp(g, Len(tx[g]))
    BY <2>1, <2>2, <2>4 DEF GateInv, Data, OthersPristine
  <2>6. PICK i \in DOMAIN tx[g] : tx[g][i].path = f
    BY <2>5 DEF Targets
  <2>7. i \in 1..Len(tx[g])
    BY <2>2, <2>6
  <2>8. QED
    BY <2>1, <2>5, <2>6, <2>7 DEF BackedUp
<1>2. QED
  BY <1>1, Invariance, PTL

(***************************************************************************)
(* Where the checkpoint is recorded.  What one gate writes to STATE_FILE,  *)
(* another one overwrites, so this is about one gate per state file.       *)
(***************************************************************************)

Applying == {"apply", "read", "write", "test", "testing", "judge", "startRollback"}

\* The record names the checkpoint from the manifest to the end of the restore, or
\* the files are as they were.
OnRecord(g) ==
  /\ pc[g] \in Applying \/ (pc[g] = "reject" /\ held[g]) =>
       mem[g].checkpoint = g /\ disk.checkpoint = g
  /\ pc[g] \in {"rollback", "restore", "safeStop"} => disk.checkpoint = g \/ Pristine(g)

\* Where control can be after one step of execute().
LEMMA FlowFrom ==
  ASSUME TypeOK, NEW g \in Gates, Control(g), NEW step, NEW result
  PROVE  /\ Goto(g, step) => pc'[g] = step
         /\ Advance(g, step) => pc'[g] = pc[g] \/ pc'[g] = step
         /\ Return(g, result) => pc'[g] = "ready"
         /\ Throw(g) => pc'[g] \in {"safeStop", "rollback", "ready"}
         /\ Throw(g) /\ ~held[g] => pc'[g] = "ready"
<1>1. /\ Goto(g, step) => pc'[g] = step
      /\ Advance(g, step) => pc'[g] = pc[g] \/ pc'[g] = step
      /\ Return(g, result) => pc'[g] = "ready"
  BY DEF Goto, Advance, Return, TypeOK
<1>2. /\ Goto(g, "safeStop") => pc'[g] = "safeStop"
      /\ Recover(g) => pc'[g] = "rollback"
      /\ Return(g, "RAISED") => pc'[g] = "ready"
  BY DEF Goto, Recover, Return, TypeOK
<1>3. ASSUME Throw(g)
      PROVE  pc'[g] \in {"safeStop", "rollback", "ready"} /\ (~held[g] => pc'[g] = "ready")
  <2>1. recovering[g] => held[g]
    BY DEF Control
  <2>2. \/ recovering[g] /\ Goto(g, "safeStop")
        \/ held[g] /\ Recover(g)
        \/ ~held[g] /\ Return(g, "RAISED")
    BY <1>3, Zenon DEF Throw
  <2>3. QED
    BY <1>2, <2>1, <2>2
<1>4. QED
  BY <1>1, <1>3

\* A save of a record that names the checkpoint, or none at all, when both do.
LEMMA RecordNamed ==
  ASSUME TypeOK, NEW g \in Gates, mem[g].checkpoint = g, disk.checkpoint = g,
         NEW record, record.checkpoint = g,
         Saved(g, record) \/ SaveFailed(g, record) \/ UNCHANGED <<mem, disk>>
  PROVE  mem'[g].checkpoint = g /\ disk'.checkpoint = g
  BY DEF Saved, SaveFailed, TypeOK

\* The records saved while the changes are applied and tested name what self.state names.
LEMMA NamedRecords ==
  ASSUME TypeOK, NEW g \in Gates
  PROVE  /\ \A s : WithState(g, s).checkpoint = mem[g].checkpoint
         /\ \A v : TestRecord(g, v).checkpoint = mem[g].checkpoint
  BY DEF TypeOK, GateRecord, WithState, TestRecord

\* From the checkpoint to the decision about a rollback.
LEMMA RecordApplying ==
  ASSUME TypeOK, NEW g \in Gates, Control(g), OnRecord(g), pc[g] \in Applying,
         \/ StartApply(g) \/ ReadSource(g) \/ WriteTarget(g) \/ StartTests(g)
         \/ RunTests(g) \/ JudgeTests(g) \/ StartRollback(g)
  PROVE  OnRecord(g)'
<1>1. mem[g].checkpoint = g /\ disk.checkpoint = g
  BY DEF OnRecord
<1>2. ASSUME mem'[g].checkpoint = g, disk'.checkpoint = g
      PROVE  OnRecord(g)'
  BY <1>2 DEF OnRecord
<1>3. ASSUME NEW record, record.checkpoint = g,
             Saved(g, record) \/ SaveFailed(g, record) \/ UNCHANGED <<mem, disk>>
      PROVE  OnRecord(g)'
  BY <1>1, <1>2, <1>3, RecordNamed
<1>4. /\ \A s : WithState(g, s).checkpoint = g
      /\ \A v : TestRecord(g, v).checkpoint = g
  BY <1>1, NamedRecords
<1>5. CASE StartApply(g) \/ StartTests(g) \/ StartRollback(g)
  BY <1>3, <1>4, <1>5 DEF StartApply, StartTests, StartRollback, SaveThen
<1>6. CASE ReadSource(g) \/ WriteTarget(g)
  BY <1>1, <1>2, <1>6 DEF ReadSource, WriteTarget, durable
<1>7. CASE RunTests(g)
  BY <1>1, <1>2, <1>3, <1>4, <1>7 DEF RunTests, SaveThen
<1>8. CASE JudgeTests(g)
  <2> DEFINE cleared == [mem[g] EXCEPT !.checkpoint = NoCheckpoint, !.state = "APPROVED"]
  <2>1. CASE Saved(g, cleared) /\ Return(g, "APPROVED")
    BY <2>1, FlowFrom DEF OnRecord, Applying
  <2>2. CASE SaveFailed(g, cleared) /\ Throw(g)
    <3>1. disk' = disk /\ pc'[g] \in {"safeStop", "rollback", "ready"}
      BY <2>2, FlowFrom DEF SaveFailed
    <3>2. QED
      BY <1>1, <3>1 DEF OnRecord, Applying
  <2>3. CASE UNCHANGED <<mem, disk>>
    BY <1>1, <1>2, <2>3
  <2>4. QED
    BY <1>8, <2>1, <2>2, <2>3 DEF JudgeTests, SaveAndReturn
<1>9. QED
  BY <1>5, <1>6, <1>7, <1>8

\* From the first call of rollback() on, and in SAFE_STOP: nothing that is not on
\* record is applied.
LEMMA RecordRollingBack ==
  ASSUME TypeOK, NEW g \in Gates, GateInv(g), OnRecord(g),
         CheckBackups(g) \/ RestoreFile(g) \/ SafeStop(g)
  PROVE  OnRecord(g)'
<1>1. disk.checkpoint = g \/ Pristine(g)
  BY DEF OnRecord, CheckBackups, RestoreFile, SafeStop
<1>2. Control(g) /\ held[g] /\ BackedUp(g, Len(tx[g]))
  BY WhereAt DEF GateInv, CheckBackups, RestoreFile, SafeStop, Secured
<1>3. ASSUME pc'[g] \notin Applying \cup {"reject"}, disk'.checkpoint = g \/ Pristine(g)'
      PROVE  OnRecord(g)'
  BY <1>3 DEF OnRecord
<1>4. CASE CheckBackups(g)
  <2>1. pc'[g] \in {"restore", "safeStop", "rollback", "ready"}
    BY <1>2, <1>4, FlowFrom DEF CheckBackups
  <2>2. disk' = disk /\ Pristine(g)' <=> Pristine(g)
    BY <1>4 DEF CheckBackups, durable, history, Pristine
  <2>3. QED
    BY <1>1, <1>3, <2>1, <2>2, <1>4 DEF Applying, CheckBackups, durable, history, Pristine
<1>5. CASE RestoreFile(g)
  <2>1. pc'[g] \in {"restore", "endRollback", "safeStop", "rollback", "ready"}
    BY <1>2, <1>5, FlowFrom DEF RestoreFile, Fail
  <2>2. Pristine(g) => Pristine(g)'
    <3> DEFINE f == Current(g).path
    <3>1. index[g] \in 1..Len(tx[g]) /\ f \in Files
      BY <1>2, <1>5, CurrentIsTarget DEF RestoreFile, Loops
    <3>2. f \notin touched[g] => backup[g][f] = original[g][f]
      BY <1>2, <3>1 DEF BackedUp, Current
    <3>3. touched'[g] = touched[g] /\ original' = original
      BY <1>5 DEF RestoreFile, Write, TypeOK
    <3>4. content' = content \/ content' = [content EXCEPT ![f] = backup[g][f]]
      BY <1>5 DEF RestoreFile, Write
    <3>5. content \in [Files -> Content]
      BY DEF TypeOK
    <3>6. QED
      BY <3>2, <3>3, <3>4, <3>5 DEF Pristine
  <2>3. disk' = disk
    BY <1>5 DEF RestoreFile
  <2>4. QED
    BY <1>1, <1>3, <2>1, <2>2, <2>3 DEF Applying
<1>6. CASE SafeStop(g)
  BY <1>2, <1>3, <1>6, FlowFrom DEF SafeStop, OnRecord, Applying
<1>7. QED
  BY <1>4, <1>5, <1>6

\* Every other step of execute(): before the manifest no checkpoint is held, and after
\* the restore the files are as they were.
LEMMA RecordElsewhere ==
  ASSUME TypeOK, NEW g \in Gates, GateInv(g), OnRecord(g), ExecuteStep(g),
         pc[g] \notin Applying \cup {"rollback", "restore", "safeStop"}
  PROVE  OnRecord(g)'
<1>1. Control(g)
  BY DEF GateInv
<1>2. ASSUME pc'[g] \in Early \cup Restored \cup {"off", "ready"}
      PROVE  OnRecord(g)'
  BY <1>2 DEF OnRecord, Early, Restored, Applying
<1>3. CASE Start(g) \/ Validate(g) \/ StartCheckpoint(g) \/ CopyBackup(g)
  <2>1. ~held[g] /\ held' = held
    BY <1>3, WhereAt DEF Start, Validate, StartCheckpoint, CopyBackup, Early
  <2>2. pc'[g] \in Early \cup {"reject", "ready"}
    BY <1>1, <1>3, <2>1, FlowFrom
    DEF Start, Validate, StartCheckpoint, CopyBackup, SaveThen, Early
  <2>3. QED
    BY <2>1, <2>2 DEF OnRecord, Early, Applying
<1>4. CASE WriteManifest(g)
  <2> DEFINE record == [mem[g] EXCEPT !.checkpoint = g]
  <2>1. ~held[g]
    BY <1>4, WhereAt DEF WriteManifest, Early
  <2>2. CASE Saved(g, record)  /\ Goto(g, "apply")
    <3>1. record.checkpoint = g
      BY DEF TypeOK, GateRecord
    <3>2. mem'[g].checkpoint = g /\ disk'.checkpoint = g
      BY <2>2, <3>1 DEF Saved, TypeOK
    <3>3. QED
      BY <3>2 DEF OnRecord
  <2>3. CASE Throw(g)
    BY <1>1, <1>2, <2>1, <2>3, FlowFrom
  <2>4. QED
    BY <1>4, <2>2, <2>3 DEF WriteManifest, Fail
<1>5. CASE Reject(g)
  BY <1>1, <1>2, <1>5, FlowFrom DEF Reject
<1>6. CASE StartTests(g) \/ RunTests(g) \/ EndRollback(g) \/ JudgeRollback(g)
  <2>1. pc[g] \in Restored
    BY <1>6 DEF StartTests, RunTests, EndRollback, JudgeRollback, Applying, Restored
  <2>2. Pristine(g)'
    BY <1>6, <2>1, WhereAt
    DEF StartTests, RunTests, EndRollback, JudgeRollback, history, Pristine
  <2>3. pc'[g] \in Restored \cup {"safeStop", "rollback", "ready"}
    BY <1>1, <1>6, <2>1, FlowFrom
    DEF StartTests, RunTests, EndRollback, JudgeRollback, SaveThen, SaveAndReturn, Fail,
        Restored
  <2>4. QED
    BY <2>2, <2>3 DEF OnRecord, Restored, Applying
<1>7. QED
  BY <1>3, <1>4, <1>5, <1>6
  DEF ExecuteStep, StartApply, ReadSource, WriteTarget, JudgeTests, StartRollback,
      CheckBackups, RestoreFile, SafeStop, Applying

\* Every step of execute() keeps its gate on record.
LEMMA RecordStep ==
  ASSUME TypeOK, NEW g \in Gates, GateInv(g), OnRecord(g), ExecuteStep(g)
  PROVE  OnRecord(g)'
<1>1. CASE pc[g] \notin Applying \cup {"rollback", "restore", "safeStop"}
  BY <1>1, RecordElsewhere
<1>2. CASE pc[g] \in Applying
  <2>1. \/ StartApply(g) \/ ReadSource(g) \/ WriteTarget(g) \/ StartTests(g)
        \/ RunTests(g) \/ JudgeTests(g) \/ StartRollback(g)
    BY <1>2
    DEF ExecuteStep, Applying, Start, Validate, Reject, StartCheckpoint, CopyBackup,
        WriteManifest, CheckBackups, RestoreFile, EndRollback, JudgeRollback, SafeStop
  <2>2. QED
    BY <1>2, <2>1, RecordApplying DEF GateInv
<1>3. CASE pc[g] \in {"rollback", "restore", "safeStop"}
  <2>1. CheckBackups(g) \/ RestoreFile(g) \/ SafeStop(g)
    BY <1>3
    DEF ExecuteStep, Start, Validate, Reject, StartCheckpoint, CopyBackup, WriteManifest,
        StartApply, ReadSource, WriteTarget, StartTests, RunTests, JudgeTests,
        StartRollback, EndRollback, JudgeRollback
  <2>2. QED
    BY <2>1, RecordRollingBack
<1>4. QED
  BY <1>1, <1>2, <1>3

\* With one gate per STATE_FILE, a reader of the file finds the checkpoint of whatever
\* is applied, also when the process has just crashed or a save has just failed.
THEOREM OnRecordTheorem ==
  ASSUME \A g, h \in Gates : g = h
  PROVE  Spec => []ChangedIsOnRecord
<1> DEFINE Inv == IInv /\ \A g \in Gates : OnRecord(g)
<1>1. Init => Inv
  <2>1. Init => \A g \in Gates : OnRecord(g)
    BY DEF Init, OnRecord, Applying
  <2>2. QED
    BY <2>1, InitIInv
<1>2. Inv /\ [Next]_vars => Inv'
  <2> SUFFICES ASSUME Inv, [Next]_vars, NEW g \in Gates
               PROVE  OnRecord(g)'
    BY NextIInv
  <2>1. TypeOK /\ GateInv(g) /\ OnRecord(g)
    BY DEF IInv
  <2>2. CASE ExecuteStep(g)
    BY <2>1, <2>2, RecordStep
  <2>3. CASE Construct(g) \/ (\E changes \in Transactions : Begin(g, changes)) \/ Crash(g)
    <3>1. pc'[g] \in {"off", "ready", "start"}
      BY <2>1, <2>3 DEF Construct, Begin, Crash, Goto, Return, TypeOK
    <3>2. QED
      BY <3>1 DEF OnRecord, Applying
  <2>4. CASE \E f \in Files, text \in ForeignContent : Edit(f, text)
    BY <2>1, <2>4 DEF Edit, control, OnRecord, Pristine, TypeOK
  <2>5. CASE UNCHANGED vars
    BY <2>1, <2>5 DEF vars, durable, control, history, OnRecord, Pristine
  <2>6. QED
    BY <2>2, <2>3, <2>4, <2>5 DEF Next
<1>3. Inv => ChangedIsOnRecord
  <2> SUFFICES ASSUME Inv, NEW g \in Gates, pc[g] \notin {"off", "ready"}, ~Pristine(g)
               PROVE  disk.checkpoint = g
    BY DEF ChangedIsOnRecord, Pristine
  <2>1. GateInv(g) /\ OnRecord(g) /\ pc[g] \in Steps
    BY DEF IInv, TypeOK
  <2>2. pc[g] \in Applying \cup {"rollback", "restore", "safeStop"} \/ (pc[g] = "reject" /\ held[g])
    BY <2>1, WhereAt DEF Early, Restored, Applying
  <2>3. QED
    BY <2>1, <2>2 DEF OnRecord, Applying
<1>4. QED
  BY <1>1, <1>2, <1>3, PTL DEF Spec

(***************************************************************************)
(* How many steps execute() has left.  This is the part of ExecuteReturns  *)
(* that needs no fairness: a running execute() cannot take infinitely many *)
(* steps, whatever fails and whoever writes the files.                     *)
(***************************************************************************)

Idle == {"off", "ready"}

\* The longest way to a return, for n changes of which `rest` are still to do in a loop,
\* not counting what the generic exception handler adds.
StepsAt(step, n, rest) ==
  CASE step \in {"reject", "safeStop"} -> 1
    [] step = "rejudge"       -> 2
    [] step = "retesting"     -> 3
    [] step = "retest"        -> 4
    [] step = "endRollback"   -> 5
    [] step = "restore"       -> 5 + rest
    [] step = "rollback"      -> 6 + n
    [] step = "startRollback" -> 7 + n
    [] step = "judge"         -> 8 + n
    [] step = "testing"       -> 9 + n
    [] step = "test"          -> 10 + n
    [] step = "write"         -> 9 + n + 2 * rest
    [] step = "read"          -> 10 + n + 2 * rest
    [] step = "apply"         -> 11 + 3 * n
    [] step = "manifest"      -> 12 + 3 * n
    [] step = "copy"          -> 12 + 3 * n + rest
    [] step = "checkpoint"    -> 13 + 4 * n
    [] step = "validate"      -> 13 + 4 * n + rest
    [] step = "start"         -> 14 + 5 * n

\* The handler runs once: its rollback, the tests, their judgement.
StepsLeft(g) ==
  IF pc[g] \in Idle THEN 0
  ELSE StepsAt(pc[g], Len(tx[g]), Len(tx[g]) + 1 - index[g])
       + IF recovering[g] THEN 0 ELSE 7 + Len(tx[g])

Descends(g) == StepsLeft(g)' \in 0 .. StepsLeft(g) - 1

\* The current change is one of the changes, or validation looks for a first one.
LEMMA LoopIndex ==
  ASSUME TypeOK, NEW g \in Gates, Control(g), pc[g] \notin Idle
  PROVE  /\ Len(tx[g]) \in Nat /\ index[g] \in Nat \ {0}
         /\ pc[g] \in Loops \ {"validate"} => index[g] <= Len(tx[g])
         /\ pc[g] = "validate" => index[g] <= Len(tx[g]) \/ index[g] = 1
         /\ pc[g] \in {"checkpoint", "copy", "manifest"} \cup Secured => Len(tx[g]) >= 1
         /\ pc[g] \notin Loops => index[g] = 1
  BY DEF TypeOK, Control

\* The value at each place, for the provers.
LEMMA StepsAtValues == \A n, rest :
  /\ StepsAt("reject", n, rest) = 1
  /\ StepsAt("safeStop", n, rest) = 1
  /\ StepsAt("rejudge", n, rest) = 2
  /\ StepsAt("retesting", n, rest) = 3
  /\ StepsAt("retest", n, rest) = 4
  /\ StepsAt("endRollback", n, rest) = 5
  /\ StepsAt("restore", n, rest) = 5 + rest
  /\ StepsAt("rollback", n, rest) = 6 + n
  /\ StepsAt("startRollback", n, rest) = 7 + n
  /\ StepsAt("judge", n, rest) = 8 + n
  /\ StepsAt("testing", n, rest) = 9 + n
  /\ StepsAt("test", n, rest) = 10 + n
  /\ StepsAt("write", n, rest) = 9 + n + 2 * rest
  /\ StepsAt("read", n, rest) = 10 + n + 2 * rest
  /\ StepsAt("apply", n, rest) = 11 + 3 * n
  /\ StepsAt("manifest", n, rest) = 12 + 3 * n
  /\ StepsAt("copy", n, rest) = 12 + 3 * n + rest
  /\ StepsAt("checkpoint", n, rest) = 13 + 4 * n
  /\ StepsAt("validate", n, rest) = 13 + 4 * n + rest
  /\ StepsAt("start", n, rest) = 14 + 5 * n
  BY DEF StepsAt

\* A step is left wherever execute() is, and more than one where it can raise.
LEMMA StepsAtRange ==
  ASSUME NEW step \in Steps \ Idle, NEW n \in Nat, NEW rest \in 0..n
  PROVE  /\ StepsAt(step, n, rest) \in 1 .. 5 * n + 14
         /\ step \notin {"reject", "safeStop"} => StepsAt(step, n, rest) > 1
<1>1. CASE step \in {"reject", "safeStop", "rejudge", "retesting", "retest", "endRollback"}
  BY <1>1, StepsAtValues
<1>2. CASE step \in {"rollback", "startRollback", "judge", "testing", "test"}
  BY <1>2, StepsAtValues
<1>3. CASE step \in {"restore", "write", "read", "copy", "validate"}
  <2>1. 2 * rest \in Nat /\ 2 * rest <= 2 * n
    OBVIOUS
  <2>2. QED
    BY <1>3, <2>1, StepsAtValues
<1>4. CASE step \in {"apply", "manifest", "checkpoint", "start"}
  BY <1>4, StepsAtValues
<1>5. QED
  BY <1>1, <1>2, <1>3, <1>4 DEF Idle

\* The same of a gate that executes.
LEMMA StepsAtBounds ==
  ASSUME TypeOK, NEW g \in Gates, Control(g), pc[g] \notin Idle
  PROVE  LET left == StepsAt(pc[g], Len(tx[g]), Len(tx[g]) + 1 - index[g]) IN
         /\ left \in 1 .. 5 * Len(tx[g]) + 14
         /\ pc[g] \notin {"reject", "safeStop"} => left > 1
<1>1. pc[g] \in Steps \ Idle
  BY DEF TypeOK
<1>2. Len(tx[g]) \in Nat /\ Len(tx[g]) + 1 - index[g] \in 0..Len(tx[g])
  BY LoopIndex DEF Loops
<1>3. QED
  BY <1>1, <1>2, StepsAtRange

\* A jump to a place nearer to the return.
LEMMA GotoDescends ==
  ASSUME TypeOK, NEW g \in Gates, Control(g), pc[g] \notin Idle,
         NEW step \in Steps, Goto(g, step), tx'[g] = tx[g],
         LET n == Len(tx[g]) IN StepsAt(step, n, n) < StepsAt(pc[g], n, n + 1 - index[g]),
         StepsAt(step, Len(tx[g]), Len(tx[g])) \in Nat
  PROVE  Descends(g)
<1> DEFINE n == Len(tx[g])
           handler == IF recovering[g] THEN 0 ELSE 7 + n
<1>1. pc'[g] = step /\ index'[g] = 1 /\ recovering'[g] = recovering[g]
  BY DEF Goto, TypeOK
<1>2. n \in Nat /\ handler \in Nat
  BY LoopIndex
<1>3. StepsAt(pc[g], n, n + 1 - index[g]) \in 1 .. 5 * n + 14
  BY StepsAtBounds
<1>4. StepsLeft(g) = StepsAt(pc[g], n, n + 1 - index[g]) + handler
  BY DEF StepsLeft
<1>5. CASE step \in Idle
  BY <1>1, <1>2, <1>3, <1>4, <1>5 DEF StepsLeft, Descends
<1>6. CASE step \notin Idle
  <2>1. StepsLeft(g)' = StepsAt(step, n, n) + handler
    BY <1>1, <1>6 DEF StepsLeft
  <2>2. QED
    BY <1>2, <1>3, <1>4, <2>1 DEF Descends
<1>7. QED
  BY <1>5, <1>6

\* A return ends the count.
LEMMA ReturnDescends ==
  ASSUME TypeOK, NEW g \in Gates, Control(g), pc[g] \notin Idle, NEW result, Return(g, result)
  PROVE  Descends(g)
<1>1. StepsLeft(g)' = 0
  BY DEF Return, TypeOK, StepsLeft, Idle
<1>2. StepsLeft(g) \in Nat /\ StepsLeft(g) > 0
  BY LoopIndex, StepsAtBounds DEF StepsLeft
<1>3. QED
  BY <1>1, <1>2 DEF Descends

\* The handler is entered at most once, and what it raises is the end.
LEMMA ThrowDescends ==
  ASSUME TypeOK, NEW g \in Gates, Control(g), pc[g] \notin Idle,
         pc[g] \notin {"reject", "safeStop"}, Throw(g), tx'[g] = tx[g]
  PROVE  Descends(g)
<1> DEFINE n == Len(tx[g])
<1>1. CASE Goto(g, "safeStop")
  <2>1. StepsAt("safeStop", n, n) = 1
    BY StepsAtValues
  <2>2. QED
    BY <1>1, <2>1, GotoDescends, StepsAtBounds
<1>2. CASE Recover(g) /\ ~recovering[g]
  <2>1. pc'[g] = "rollback" /\ recovering'[g]
    BY <1>2 DEF Recover, TypeOK
  <2>2. StepsLeft(g)' = 6 + n
    BY <2>1, LoopIndex, StepsAtValues DEF StepsLeft, Idle
  <2>3. StepsLeft(g) >= 1 + 7 + n /\ n \in Nat /\ StepsLeft(g) \in Nat
    BY <1>2, LoopIndex, StepsAtBounds DEF StepsLeft
  <2>4. QED
    BY <2>2, <2>3 DEF Descends
<1>3. CASE Return(g, "RAISED")
  BY <1>3, ReturnDescends
<1>4. QED
  BY <1>1, <1>2, <1>3, Zenon DEF Throw

\* A save before a step, or before an exception.
LEMMA SaveThenDescends ==
  ASSUME TypeOK, NEW g \in Gates, Control(g), pc[g] \notin Idle,
         pc[g] \notin {"reject", "safeStop"}, tx'[g] = tx[g],
         NEW record, NEW step \in Steps, SaveThen(g, record, step),
         LET n == Len(tx[g]) IN StepsAt(step, n, n) < StepsAt(pc[g], n, n + 1 - index[g]),
         StepsAt(step, Len(tx[g]), Len(tx[g])) \in Nat
  PROVE  Descends(g)
  BY GotoDescends, ThrowDescends DEF SaveThen

\* The next change of a loop, or what follows the loop.
LEMMA AdvanceDescends ==
  ASSUME TypeOK, NEW g \in Gates, Control(g), pc[g] \in {"validate", "copy", "restore"},
         tx'[g] = tx[g], NEW step \in Steps, Advance(g, step),
         LET n == Len(tx[g]) IN StepsAt(step, n, n) < StepsAt(pc[g], n, n + 1 - index[g]),
         StepsAt(step, Len(tx[g]), Len(tx[g])) \in Nat
  PROVE  Descends(g)
<1> DEFINE n == Len(tx[g])
<1>1. CASE MoreChanges(g)
  <2>1. index'[g] = index[g] + 1 /\ pc'[g] = pc[g] /\ recovering'[g] = recovering[g]
    BY <1>1 DEF Advance, TypeOK
  <2> DEFINE rest == n + 1 - index[g]
             next == n + 1 - (index[g] + 1)
  <2>2. rest \in Nat /\ next \in Nat /\ next < rest /\ n \in Nat
    BY <1>1, LoopIndex, SMTT(40) DEF MoreChanges, Idle
  <2>3. /\ StepsAt(pc[g], n, next) < StepsAt(pc[g], n, rest)
        /\ StepsAt(pc[g], n, next) \in Nat
        /\ StepsAt(pc[g], n, rest) \in Nat
    <3> HIDE DEF rest, next
    <3>1. CASE pc[g] = "validate"
      BY <2>2, <3>1, StepsAtValues, SMTT(40)
    <3>2. CASE pc[g] = "copy"
      BY <2>2, <3>2, StepsAtValues, SMTT(40)
    <3>3. CASE pc[g] = "restore"
      BY <2>2, <3>3, StepsAtValues
    <3>4. QED
      BY <3>1, <3>2, <3>3
  <2>4. QED
    BY <2>1, <2>2, <2>3 DEF StepsLeft, Descends, Idle
<1>2. CASE ~MoreChanges(g)
  BY <1>2, GotoDescends DEF Advance, Idle
<1>3. QED
  BY <1>1, <1>2

\* Every step of execute() brings it nearer to its return: loops advance, a raised
\* exception enters the handler once, and nothing is tried a second time.
LEMMA StepDescends ==
  ASSUME TypeOK, NEW g \in Gates, Control(g), ExecuteStep(g)
  PROVE  pc[g] \notin Idle /\ Descends(g)
<1> DEFINE n == Len(tx[g])
           here == StepsAt(pc[g], n, n + 1 - index[g])
<1>a. pc[g] \notin Idle /\ tx' = tx
  BY DEF ExecuteStep, Start, Validate, Reject, StartCheckpoint, CopyBackup, WriteManifest,
         StartApply, ReadSource, WriteTarget, StartTests, RunTests, JudgeTests,
         StartRollback, CheckBackups, RestoreFile, EndRollback, JudgeRollback, SafeStop,
         Idle
<1>b. /\ n \in Nat /\ index[g] \in Nat \ {0}
      /\ pc[g] \in Loops => index[g] <= n \/ index[g] = 1
      /\ pc[g] \in {"copy", "write", "restore"} => index[g] <= n
      /\ pc[g] \notin Loops => index[g] = 1
  BY <1>a, LoopIndex DEF Loops
<1> HIDE DEF n
<1>1. CASE Start(g)
  <2>1. StepsAt("validate", n, n) < here /\ StepsAt("validate", n, n) \in Nat
    BY <1>1, <1>b, StepsAtValues DEF Start
  <2>2. QED
    BY <1>1, <1>a, <2>1, SaveThenDescends DEF Start, n
<1>2. CASE Validate(g)
  <2>1. StepsAt("checkpoint", n, n) \in Nat /\ StepsAt("reject", n, n) \in Nat
    BY <1>b, StepsAtValues
  <2>2. /\ index[g] <= n => StepsAt("checkpoint", n, n) < here
        /\ StepsAt("reject", n, n) < here
    <3> DEFINE rest == n + 1 - index[g]
    <3>1. rest \in Nat /\ (index[g] <= n => rest >= 1) /\ pc[g] = "validate"
      BY <1>2, <1>b DEF Validate, Loops
    <3> HIDE DEF rest
    <3>2. here = 13 + 4 * n + rest
      BY <3>1, StepsAtValues DEF rest
    <3>3. QED
      BY <1>b, <3>1, <3>2, StepsAtValues
  <2>3. CASE index[g] <= n /\ Advance(g, "checkpoint")
    BY <1>2, <1>a, <2>1, <2>2, <2>3, AdvanceDescends DEF Validate, n
  <2>4. CASE Goto(g, "reject")
    BY <1>a, <2>1, <2>2, <2>4, GotoDescends DEF n
  <2>5. CASE Throw(g)
    BY <1>2, <1>a, <2>5, ThrowDescends DEF Validate
  <2>6. QED
    BY <1>2, <2>3, <2>4, <2>5 DEF Validate, n
<1>3. CASE Reject(g)
  BY <1>3, <1>a, ReturnDescends DEF Reject
<1>4. CASE StartCheckpoint(g)
  <2>1. StepsAt("copy", n, n) < here /\ StepsAt("copy", n, n) \in Nat
    BY <1>4, <1>b, StepsAtValues DEF StartCheckpoint, Loops
  <2>2. QED
    BY <1>4, <1>a, <2>1, SaveThenDescends DEF StartCheckpoint, n
<1>5. CASE CopyBackup(g)
  <2>1. StepsAt("manifest", n, n) < here /\ StepsAt("manifest", n, n) \in Nat
    BY <1>5, <1>b, StepsAtValues DEF CopyBackup
  <2>2. QED
    BY <1>5, <1>a, <2>1, AdvanceDescends, ThrowDescends DEF CopyBackup, n
<1>6. CASE WriteManifest(g)
  <2>1. StepsAt("apply", n, n) < here /\ StepsAt("apply", n, n) \in Nat
    BY <1>6, <1>b, StepsAtValues DEF WriteManifest
  <2>2. QED
    BY <1>6, <1>a, <2>1, GotoDescends, ThrowDescends DEF WriteManifest, Fail, n
<1>7. CASE StartApply(g)
  <2>1. n >= 1
    BY <1>7, <1>a, LoopIndex DEF StartApply, Secured, n
  <2>2. StepsAt("read", n, n) < here /\ StepsAt("read", n, n) \in Nat
    BY <1>7, <1>b, <2>1, StepsAtValues DEF StartApply
  <2>3. QED
    BY <1>7, <1>a, <2>2, SaveThenDescends DEF StartApply, n
<1>8. CASE ReadSource(g)
  <2>1. StepsAt("reject", n, n) < here /\ StepsAt("reject", n, n) \in Nat
    BY <1>8, <1>b, StepsAtValues DEF ReadSource, Loops
  <2>2. CASE pc' = [pc EXCEPT ![g] = "write"] /\ UNCHANGED <<index, recovering>>
    <3>1. /\ pc'[g] = "write" /\ index'[g] = index[g] /\ recovering'[g] = recovering[g]
          /\ pc[g] = "read"
      BY <1>8, <2>2 DEF ReadSource, TypeOK
    <3>2. n + 1 - index[g] \in Nat
      BY <1>b, <3>1 DEF Loops
    <3>3. StepsAt("write", n, n + 1 - index[g]) < here
          /\ StepsAt("write", n, n + 1 - index[g]) \in Nat /\ here \in Nat
      BY <1>b, <3>1, <3>2, StepsAtValues
    <3>4. QED
      BY <1>a, <1>b, <3>1, <3>3 DEF StepsLeft, Descends, Idle, n
  <2>3. QED
    BY <1>8, <1>a, <2>1, <2>2, GotoDescends, ThrowDescends DEF ReadSource, n
<1>9. CASE WriteTarget(g)
  <2>1. StepsAt("test", n, n) < here /\ StepsAt("test", n, n) \in Nat
    BY <1>9, <1>b, StepsAtValues DEF WriteTarget
  <2>2. CASE /\ MoreChanges(g)
             /\ pc' = [pc EXCEPT ![g] = "read"] /\ index' = [index EXCEPT ![g] = @ + 1]
             /\ UNCHANGED recovering
    <3>1. /\ pc'[g] = "read" /\ index'[g] = index[g] + 1 /\ recovering'[g] = recovering[g]
          /\ pc[g] = "write"
      BY <1>9, <2>2 DEF WriteTarget, TypeOK
    <3>2. index[g] + 1 <= n
      BY <1>b, <2>2 DEF MoreChanges, n
    <3> DEFINE next == n + 1 - (index[g] + 1)
    <3>3. next \in Nat /\ n + 1 - index[g] = next + 1
      BY <1>b, <3>2
    <3>4. StepsAt("read", n, next) < here /\ StepsAt("read", n, next) \in Nat /\ here \in Nat
      <4> HIDE DEF next
      <4>1. QED
        BY <1>b, <3>1, <3>3, StepsAtValues
    <3>5. QED
      BY <1>a, <1>b, <3>1, <3>4 DEF StepsLeft, Descends, Idle, n
  <2>3. QED
    BY <1>9, <1>a, <2>1, <2>2, GotoDescends, ThrowDescends DEF WriteTarget, Fail, n
<1>10. CASE StartTests(g)
  <2>1. CASE pc[g] = "test" /\ SaveThen(g, WithState(g, "TESTING"), "testing")
    <3>1. StepsAt("testing", n, n) < here /\ StepsAt("testing", n, n) \in Nat
      BY <2>1, <1>b, StepsAtValues
    <3>2. QED
      BY <2>1, <1>a, <3>1, SaveThenDescends DEF n
  <2>2. CASE pc[g] = "retest" /\ SaveThen(g, WithState(g, "TESTING"), "retesting")
    <3>1. StepsAt("retesting", n, n) < here /\ StepsAt("retesting", n, n) \in Nat
      BY <2>2, <1>b, StepsAtValues
    <3>2. QED
      BY <2>2, <1>a, <3>1, SaveThenDescends DEF n
  <2>3. QED
    BY <1>10, <2>1, <2>2 DEF StartTests
<1>11. CASE RunTests(g)
  <2>1. /\ pc[g] = "testing" => StepsAt("judge", n, n) < here
        /\ pc[g] = "retesting" => StepsAt("rejudge", n, n) < here
        /\ StepsAt("judge", n, n) \in Nat /\ StepsAt("rejudge", n, n) \in Nat
    BY <1>b, StepsAtValues
  <2>2. QED
    BY <1>11, <1>a, <2>1, SaveThenDescends, ThrowDescends DEF RunTests, Fail, n
<1>12. CASE JudgeTests(g)
  <2>1. StepsAt("startRollback", n, n) < here /\ StepsAt("startRollback", n, n) \in Nat
    BY <1>12, <1>b, StepsAtValues DEF JudgeTests
  <2>2. QED
    BY <1>12, <1>a, <2>1, GotoDescends, ReturnDescends, ThrowDescends
    DEF JudgeTests, SaveAndReturn, n
<1>13. CASE StartRollback(g)
  <2>1. StepsAt("rollback", n, n) < here /\ StepsAt("rollback", n, n) \in Nat
    BY <1>13, <1>b, StepsAtValues DEF StartRollback
  <2>2. QED
    BY <1>13, <1>a, <2>1, SaveThenDescends DEF StartRollback, n
<1>14. CASE CheckBackups(g)
  <2>1. StepsAt("restore", n, n) < here /\ StepsAt("restore", n, n) \in Nat
    BY <1>14, <1>b, StepsAtValues DEF CheckBackups
  <2>2. QED
    BY <1>14, <1>a, <2>1, GotoDescends, ThrowDescends DEF CheckBackups, n
<1>15. CASE RestoreFile(g)
  <2>1. StepsAt("endRollback", n, n) < here /\ StepsAt("endRollback", n, n) \in Nat
    BY <1>15, <1>b, StepsAtValues DEF RestoreFile
  <2>2. QED
    BY <1>15, <1>a, <2>1, AdvanceDescends, ThrowDescends DEF RestoreFile, Fail, n
<1>16. CASE EndRollback(g)
  <2>1. StepsAt("retest", n, n) < here /\ StepsAt("retest", n, n) \in Nat
    BY <1>16, <1>b, StepsAtValues DEF EndRollback
  <2>2. QED
    BY <1>16, <1>a, <2>1, SaveThenDescends DEF EndRollback, n
<1>17. CASE JudgeRollback(g)
  BY <1>17, <1>a, ReturnDescends, ThrowDescends DEF JudgeRollback, SaveAndReturn
<1>18. CASE SafeStop(g)
  BY <1>18, <1>a, ReturnDescends DEF SafeStop
<1>19. QED
  BY <1>a, <1>1, <1>2, <1>3, <1>4, <1>5, <1>6, <1>7, <1>8, <1>9, <1>10, <1>11, <1>12,
     <1>13, <1>14, <1>15, <1>16, <1>17, <1>18 DEF ExecuteStep

\* However long its change list, execute() never has more than this many steps to go:
\* no failure and no foreign write makes a transaction longer than its change list says.
THEOREM ExecuteIsBounded ==
  Spec => [](\A g \in Gates : StepsLeft(g) \in 0 .. 6 * Len(tx[g]) + 21)
<1>1. ASSUME IInv, NEW g \in Gates
      PROVE  StepsLeft(g) \in 0 .. 6 * Len(tx[g]) + 21
  <2>1. TypeOK /\ Control(g) /\ Len(tx[g]) \in Nat
    BY <1>1 DEF IInv, GateInv, TypeOK
  <2>2. CASE pc[g] \in Idle
    BY <2>1, <2>2 DEF StepsLeft
  <2>3. CASE pc[g] \notin Idle
    BY <2>1, <2>3, StepsAtBounds DEF StepsLeft
  <2>4. QED
    BY <2>2, <2>3
<1>2. IInv => \A g \in Gates : StepsLeft(g) \in 0 .. 6 * Len(tx[g]) + 21
  BY <1>1
<1>3. QED
  BY <1>2, Invariance, PTL

\* Each step of a running execute() leaves it fewer, and whatever else happens, a
\* crash, an edit or a step of another gate, leaves it no more.
THEOREM ExecuteDescends ==
  Spec => [][\A g \in Gates : pc[g] \notin Idle =>
               /\ ExecuteStep(g) => StepsLeft(g)' < StepsLeft(g)
               /\ StepsLeft(g)' <= StepsLeft(g)]_vars
<1> DEFINE Down(g) == /\ ExecuteStep(g) => StepsLeft(g)' < StepsLeft(g)
                      /\ StepsLeft(g)' <= StepsLeft(g)
<1>1. ASSUME IInv, [Next]_vars, NEW g \in Gates, pc[g] \notin Idle
      PROVE  Down(g)
  <2>1. TypeOK /\ GateInv(g) /\ Control(g) /\ Len(tx[g]) \in Nat
    BY <1>1 DEF IInv, GateInv, TypeOK
  <2>2. StepsLeft(g) \in Nat /\ StepsLeft(g) > 0
    BY <1>1, <2>1, StepsAtBounds DEF StepsLeft
  <2>3. CASE ExecuteStep(g)
    BY <2>1, <2>2, <2>3, StepDescends DEF Descends
  <2>4. ASSUME SameFlow(g), SameData(g)
        PROVE  StepsLeft(g)' <= StepsLeft(g)
    BY <2>2, <2>4 DEF SameFlow, SameData, StepsLeft
  <2>5. ASSUME NEW h \in Gates \ {g},
               \/ ExecuteStep(h) \/ Construct(h) \/ Crash(h)
               \/ \E changes \in Transactions : Begin(h, changes)
        PROVE  StepsLeft(g)' <= StepsLeft(g)
    <3>1. GateInv(h)
      BY <1>1 DEF IInv
    <3>2. QED
      BY <2>1, <2>4, <2>5, <3>1, StepElse, CallStep
  <2>6. CASE Crash(g)
    BY <2>1, <2>2, <2>6 DEF Crash, TypeOK, StepsLeft, Idle
  <2>7. ASSUME \E f \in Files, text \in ForeignContent : Edit(f, text)
        PROVE  StepsLeft(g)' <= StepsLeft(g)
    <3>1. SameFlow(g) /\ SameData(g)
      BY <2>7 DEF Edit, control, SameFlow, SameData
    <3>2. QED
      BY <2>4, <3>1
  <2>8. ASSUME UNCHANGED vars
        PROVE  StepsLeft(g)' <= StepsLeft(g)
    <3>1. SameFlow(g) /\ SameData(g)
      BY <2>8 DEF vars, durable, control, history, SameFlow, SameData
    <3>2. QED
      BY <2>4, <3>1
  <2>9. ~Construct(g) /\ ~(\E changes \in Transactions : Begin(g, changes))
    BY <1>1 DEF Construct, Begin, Idle
  <2>10. ~ExecuteStep(g) => StepsLeft(g)' <= StepsLeft(g)
    BY <1>1, <2>5, <2>6, <2>7, <2>8, <2>9 DEF Next
  <2>11. QED
    BY <2>3, <2>10
<1>2. IInv /\ [Next]_vars => \A g \in Gates : pc[g] \notin Idle => Down(g)
  BY <1>1
<1>3. QED
  BY <1>2, Invariance, PTL DEF Spec


(***************************************************************************)
(* execute() as a transaction.                                             *)
(***************************************************************************)

\* A file that nobody else wrote is as it was, or has its change.
Whole(g) == \A f \in Files \ touched[g] : content[f] = original[g][f] \/ content[f] \in Goal(g)[f]

\* SAFE_STOP stays on record only until the next call that can save.
Stopped(g) == pc[g] = "ready" /\ mem[g].state = "SAFE_STOP" => outcome[g] = "RAISED"

WholeInv == \A g \in Gates : Whole(g) /\ Stopped(g)

\* A change that matched makes its target's new content.
LEMMA GoalOf ==
  ASSUME NEW g \in Gates, NEW i \in DOMAIN tx[g], tx[g][i].path \in Files,
         original[g][tx[g][i].path] \in Text
  PROVE  Replaced(original[g][tx[g][i].path], tx[g][i]) \in Goal(g)[tx[g][i].path]
  BY DEF Goal

\* What others do spoils only what they touch.
LEMMA OthersLeaveWhole ==
  ASSUME NEW g \in Gates, SameFlow(g), SameData(g), mem'[g] = mem[g], ForeignWrites(g)
  PROVE  /\ Goal(g)' = Goal(g) /\ Status(g)' = Status(g)
         /\ Whole(g) => Whole(g)'
         /\ Stopped(g) => Stopped(g)'
<1>1. Goal(g)' = Goal(g)
  BY DEF SameData, Goal, Replaced, Decoded
<1>2. Status(g)' = Status(g)
  BY DEF SameFlow, Status, Answer
<1>3. Whole(g) => Whole(g)'
  BY <1>1 DEF SameData, ForeignWrites, Whole
<1>4. Stopped(g) => Stopped(g)'
  BY DEF SameFlow, Stopped
<1>. QED BY <1>1, <1>2, <1>3, <1>4

\* A step of execute() leaves its arguments and the history of its files alone.
LEMMA OwnFrame ==
  ASSUME TypeOK, NEW g \in Gates, ExecuteStep(g)
  PROVE  /\ pc[g] \notin Idle
         /\ tx'[g] = tx[g] /\ original'[g] = original[g] /\ touched'[g] = touched[g]
         /\ pc[g] \notin {"write", "restore"} => content' = content
<1> USE DEF Idle
<1>1. CASE WriteTarget(g)
  BY <1>1 DEF WriteTarget, Write, Fail, TypeOK
<1>2. CASE RestoreFile(g)
  BY <1>2 DEF RestoreFile, Write, Fail, TypeOK
<1>3. CASE Start(g) \/ Validate(g) \/ Reject(g) \/ StartCheckpoint(g) \/ CopyBackup(g)
           \/ WriteManifest(g) \/ StartApply(g) \/ ReadSource(g)
  BY <1>3 DEF Start, Validate, Reject, StartCheckpoint, CopyBackup, WriteManifest, StartApply,
              ReadSource, durable, history
<1>4. CASE StartTests(g) \/ RunTests(g) \/ JudgeTests(g) \/ StartRollback(g) \/ CheckBackups(g)
           \/ EndRollback(g) \/ JudgeRollback(g) \/ SafeStop(g)
  BY <1>4 DEF StartTests, RunTests, JudgeTests, StartRollback, CheckBackups, EndRollback,
              JudgeRollback, SafeStop, durable, history
<1>. QED BY <1>1, <1>2, <1>3, <1>4 DEF ExecuteStep


\* What a step of execute() may leave: it goes on, or has told how it ended.
Ends(g) == \/ pc'[g] \notin Idle
           \/ /\ pc'[g] = "ready" /\ outcome'[g] \in Outcomes \ {"none"}
              /\ mem'[g].state = "SAFE_STOP" => outcome'[g] = "RAISED"

\* Inside the call, or back with RAISED: where a move of control leads.
LEMMA MovesEnd ==
  ASSUME TypeOK, NEW g \in Gates, pc[g] \notin Idle, NEW step \in Steps \ Idle
  PROVE  /\ Goto(g, step) => Ends(g)
         /\ Advance(g, step) => Ends(g)
         /\ Throw(g) => Ends(g)
         /\ Return(g, "RAISED") => Ends(g)
         /\ \A record : SaveThen(g, record, step) => Ends(g)
<1>1. Goto(g, step) \/ Goto(g, "safeStop") \/ Recover(g) => pc'[g] \notin Idle
  BY DEF Goto, Recover, TypeOK, Idle
<1>2. Return(g, "RAISED") => Ends(g)
  BY DEF Return, TypeOK, Ends
<1>3. Advance(g, step) => Ends(g)
  BY <1>1 DEF Advance, Ends
<1>4. Throw(g) => Ends(g)
  <2>1. Throw(g) => Goto(g, "safeStop") \/ Recover(g) \/ Return(g, "RAISED")
    BY Zenon DEF Throw
  <2>. QED BY <1>1, <1>2, <2>1 DEF Ends
<1>5. \A record : SaveThen(g, record, step) => Ends(g)
  BY <1>1, <1>4 DEF SaveThen, Ends
<1>. QED BY <1>1, <1>2, <1>3, <1>4, <1>5 DEF Ends

\* A save and a return, with another state than SAFE_STOP on record.
LEMMA AnswersEnd ==
  ASSUME TypeOK, NEW g \in Gates, NEW record \in GateRecord, record.state # "SAFE_STOP",
         NEW result \in Outcomes \ {"none"},
         Saved(g, record) \/ SaveFailed(g, record), Return(g, result)
  PROVE  Ends(g)
<1>1. mem'[g] = record
  BY DEF Saved, SaveFailed, TypeOK
<1>2. pc'[g] = "ready" /\ outcome'[g] = result
  BY DEF Return, TypeOK
<1>. QED BY <1>1, <1>2 DEF Ends

\* A step of execute() goes on or answers; a SAFE_STOP on record means that it raised.
LEMMA OwnEnds ==
  ASSUME TypeOK, NEW g \in Gates, ExecuteStep(g)
  PROVE  Ends(g)
<1>a. pc[g] \notin Idle
  BY OwnFrame
<1>b. \A step \in Steps \ Idle :
        /\ Goto(g, step) => Ends(g)
        /\ Advance(g, step) => Ends(g)
        /\ \A record : SaveThen(g, record, step) => Ends(g)
  BY <1>a, MovesEnd
<1>c. (Throw(g) => Ends(g)) /\ (Fail(g) => Ends(g)) /\ (Return(g, "RAISED") => Ends(g))
  <2>1. "write" \in Steps \ Idle
    BY DEF Idle
  <2>. QED BY <1>a, <2>1, MovesEnd DEF Fail
<1>d. \A s \in GateStates : WithState(g, s) \in GateRecord /\ WithState(g, s).state = s
  BY DEF TypeOK, WithState, GateRecord
<1>1. CASE Start(g) \/ StartCheckpoint(g) \/ StartApply(g) \/ StartTests(g)
           \/ StartRollback(g) \/ EndRollback(g)
  BY <1>1, <1>b DEF Start, StartCheckpoint, StartApply, StartTests, StartRollback, EndRollback, Idle
<1>2. CASE Validate(g) \/ CheckBackups(g) \/ RestoreFile(g) \/ CopyBackup(g)
  BY <1>2, <1>b, <1>c DEF Validate, CheckBackups, RestoreFile, CopyBackup, Idle
<1>3. CASE Reject(g)
  <2>1. \E result \in {"REJECTED", "RAISED"} :
          /\ Return(g, result)
          /\ Saved(g, WithState(g, "REJECTED")) \/ SaveFailed(g, WithState(g, "REJECTED"))
    BY <1>3 DEF Reject
  <2>. QED BY <2>1, <1>d, AnswersEnd DEF GateStates
<1>4. CASE WriteManifest(g)
  BY <1>4, <1>b, <1>c DEF WriteManifest, Idle
<1>5. CASE ReadSource(g)
  <2>1. CASE pc' = [pc EXCEPT ![g] = "write"]
    BY <2>1 DEF TypeOK, Ends, Idle
  <2>. QED BY <1>5, <2>1, <1>b, <1>c DEF ReadSource, Idle
<1>6. CASE WriteTarget(g)
  <2>1. CASE pc' = [pc EXCEPT ![g] = "read"]
    BY <2>1 DEF TypeOK, Ends, Idle
  <2>. QED BY <1>6, <2>1, <1>b, <1>c DEF WriteTarget, Idle
<1>7. CASE RunTests(g)
  <2>1. "judge" \in Steps \ Idle /\ "rejudge" \in Steps \ Idle
    BY DEF Idle
  <2>. QED BY <1>7, <2>1, <1>b, <1>c DEF RunTests
<1>8. CASE JudgeTests(g)
  <2> DEFINE cleared == [mem[g] EXCEPT !.checkpoint = NoCheckpoint, !.state = "APPROVED"]
  <2>1. cleared \in GateRecord /\ cleared.state = "APPROVED"
    BY DEF TypeOK, GateRecord, GateStates
  <2>2. CASE Saved(g, cleared) /\ Return(g, "APPROVED")
    BY <2>1, <2>2, AnswersEnd
  <2>3. \/ SaveAndReturn(g, cleared, "APPROVED")
        \/ Goto(g, "startRollback")
    BY <1>8 DEF JudgeTests
  <2>. QED BY <2>2, <2>3, <1>b, <1>c DEF SaveAndReturn, Idle
<1>9. CASE JudgeRollback(g)
  <2> DEFINE record == WithState(g, "VERIFIED_AFTER_ROLLBACK")
             result == IF recovering[g] THEN "RAISED" ELSE "ROLLED_BACK"
  <2>1. record \in GateRecord /\ record.state # "SAFE_STOP" /\ result \in Outcomes \ {"none"}
    BY <1>d DEF GateStates
  <2>2. CASE Saved(g, record) /\ Return(g, result)
    BY <2>1, <2>2, AnswersEnd
  <2>3. SaveAndReturn(g, record, result) \/ Return(g, "RAISED") \/ Throw(g)
    BY <1>9 DEF JudgeRollback
  <2>. QED BY <2>2, <2>3, <1>c DEF SaveAndReturn
<1>10. CASE SafeStop(g)
  BY <1>10, <1>c DEF SafeStop
<1>. QED
  BY <1>1, <1>2, <1>3, <1>4, <1>5, <1>6, <1>7, <1>8, <1>9, <1>10 DEF ExecuteStep


\* A file is written with its change, or with its backup.
LEMMA OwnKeepsWhole ==
  ASSUME TypeOK, NEW g \in Gates, GateInv(g), Whole(g), ExecuteStep(g)
  PROVE  Goal(g)' = Goal(g) /\ Whole(g)'
<1>a. /\ tx'[g] = tx[g] /\ original'[g] = original[g] /\ touched'[g] = touched[g]
      /\ pc[g] \notin {"write", "restore"} => content' = content
  BY OwnFrame
<1>b. Goal(g)' = Goal(g)
  BY <1>a DEF Goal, Replaced, Decoded
<1>c. ASSUME content' = content PROVE Whole(g)'
  BY <1>a, <1>b, <1>c DEF Whole
<1>g. (\A f \in Files \ touched[g] : content'[f] = original[g][f] \/ content'[f] \in Goal(g)[f]) => Whole(g)'
  BY <1>a, <1>b, Zenon DEF Whole
<1>d. ASSUME pc[g] \in {"write", "restore"}
      PROVE  /\ index[g] \in DOMAIN tx[g] /\ Current(g).path \in Files
             /\ held[g] /\ Checked(g, Len(tx[g])) /\ index[g] \in 1..Len(tx[g])
  <2>1. /\ index[g] \in 1..Len(tx[g]) /\ Current(g).path \in Files
    BY <1>d, CurrentIsTarget DEF GateInv, Loops
  <2>2. held[g] /\ Checked(g, Len(tx[g]))
    BY <1>d, WhereAt DEF Secured
  <2>. QED BY <2>1, <2>2 DEF TypeOK
<1>1. ASSUME NEW text, content' = [content EXCEPT ![Current(g).path] = text],
             pc[g] \in {"write", "restore"},
             Current(g).path \notin touched[g] =>
               \/ text = original[g][Current(g).path]
               \/ text \in Goal(g)[Current(g).path]
      PROVE  Whole(g)'
  <2>1. \A f \in Files : content'[f] = IF f = Current(g).path THEN text ELSE content[f]
    BY <1>1 DEF TypeOK
  <2>2. ASSUME NEW f \in Files \ touched[g]
        PROVE  content'[f] = original[g][f] \/ content'[f] \in Goal(g)[f]
    <3>1. CASE f = Current(g).path
      BY <1>1, <2>1, <2>2, <3>1
    <3>2. CASE f # Current(g).path
      <4>1. content'[f] = content[f]
        BY <2>1, <3>2
      <4>. QED BY <2>2, <4>1 DEF Whole
    <3>. QED BY <3>1, <3>2
  <2>. QED BY <1>g, <2>2
<1>2. CASE WriteTarget(g)
  <2>1. pc[g] = "write" /\ \/ content' = content
                           \/ content' = [content EXCEPT ![Current(g).path] = buffer[g]]
    BY <1>2 DEF WriteTarget, Write
  <2>2. ASSUME Current(g).path \notin touched[g]
        PROVE  buffer[g] \in Goal(g)[Current(g).path]
    <3>1. buffer[g] = Replaced(original[g][Current(g).path], Current(g))
      BY <2>1, <2>2 DEF GateInv, Data
    <3>2. original[g][Current(g).path] \in Text
      BY <1>d, <2>1, <2>2 DEF Checked, Current
    <3>. QED BY <1>d, <2>1, <3>1, <3>2, GoalOf DEF Current
  <2>. QED BY <1>b, <1>c, <1>1, <2>1, <2>2
<1>3. CASE RestoreFile(g)
  <2>1. pc[g] = "restore"
        /\ \/ content' = content
           \/ content' = [content EXCEPT ![Current(g).path] = backup[g][Current(g).path]]
    BY <1>3 DEF RestoreFile, Write
  <2>2. Current(g).path \notin touched[g] =>
          backup[g][Current(g).path] = original[g][Current(g).path]
    BY <1>d, <2>1, WhereAt DEF BackedUp, Current
  <2>. QED BY <1>b, <1>c, <1>1, <2>1, <2>2
<1>4. CASE ~WriteTarget(g) /\ ~RestoreFile(g)
  <2>1. content' = content
    BY <1>4
    DEF ExecuteStep, Start, Validate, Reject, StartCheckpoint, CopyBackup, WriteManifest, StartApply,
        ReadSource, StartTests, RunTests, JudgeTests, StartRollback, CheckBackups, EndRollback,
        JudgeRollback, SafeStop, durable
  <2>. QED BY <1>b, <1>c, <2>1
<1>. QED BY <1>b, <1>2, <1>3, <1>4

\* So do a start, a call and a crash, which begin with the files as they are.
LEMMA CallKeepsWhole ==
  ASSUME TypeOK, NEW g \in Gates, GateInv(g), Whole(g), Stopped(g),
         \/ Construct(g)
         \/ \E changes \in Transactions : Begin(g, changes)
         \/ Crash(g)
  PROVE  Whole(g)' /\ Stopped(g)'
<1>1. CASE Construct(g)
  <2>1. UNCHANGED <<content, tx, original, touched>> /\ mem'[g] = FreshRecord
    BY <1>1 DEF Construct, history, Saved, TypeOK
  <2>2. Goal(g)' = Goal(g)
    BY <2>1 DEF Goal, Replaced, Decoded
  <2>. QED BY <2>1, <2>2 DEF Whole, Stopped, FreshRecord
<1>2. ASSUME NEW changes \in Transactions, Begin(g, changes)
      PROVE  Whole(g)' /\ Stopped(g)'
  <2>1. content' = content /\ original'[g] = content
    BY <1>2 DEF Begin, TypeOK
  <2>2. pc'[g] = "start" \/ outcome'[g] = "RAISED"
    BY <1>2 DEF Begin, Return, TypeOK
  <2>. QED BY <2>1, <2>2 DEF Whole, Stopped
<1>3. CASE Crash(g)
  <2>1. content' = content /\ original'[g] = content /\ pc'[g] = "off"
    BY <1>3 DEF Crash, durable, TypeOK
  <2>. QED BY <2>1 DEF Whole, Stopped
<1>. QED BY <1>1, <1>2, <1>3

\* A step is one of a gate, which the others see through the files only, or an edit.
LEMMA WhoSteps ==
  ASSUME IInv, [Next]_vars, NEW g \in Gates
  PROVE  \/ ExecuteStep(g)
         \/ Construct(g) \/ (\E changes \in Transactions : Begin(g, changes)) \/ Crash(g)
         \/ SameFlow(g) /\ SameData(g) /\ mem'[g] = mem[g] /\ ForeignWrites(g)
<1> DEFINE Elsewhere == SameFlow(g) /\ SameData(g) /\ mem'[g] = mem[g] /\ ForeignWrites(g)
<1>1. ASSUME NEW h \in Gates \ {g}, ExecuteStep(h) PROVE Elsewhere
  BY <1>1, StepElse DEF IInv
<1>2. ASSUME NEW h \in Gates \ {g},
             \/ Construct(h)
             \/ \E changes \in Transactions : Begin(h, changes)
             \/ Crash(h)
      PROVE  Elsewhere
  <2>1. TypeOK /\ GateInv(h)
    BY DEF IInv
  <2>2. \A q \in Gates \ {h} : SameFlow(q) /\ SameData(q) /\ mem'[q] = mem[q] /\ ForeignWrites(q)
    BY <1>2, <2>1, CallStep
  <2>. QED BY <2>2
<1>3. ASSUME NEW f \in Files, NEW text \in ForeignContent, Edit(f, text) PROVE Elsewhere
  BY <1>3 DEF Edit, control, IInv, TypeOK, SameFlow, SameData, ForeignWrites
<1>4. CASE UNCHANGED vars
  BY <1>4 DEF vars, durable, control, history, SameFlow, SameData, ForeignWrites
<1>. QED BY <1>1, <1>2, <1>3, <1>4 DEF Next

\* Whoever takes the step, every gate keeps it.
LEMMA WholeInvStep ==
  ASSUME IInv, WholeInv, [Next]_vars
  PROVE  WholeInv'
<1> SUFFICES ASSUME NEW g \in Gates
             PROVE  Whole(g)' /\ Stopped(g)'
  BY DEF WholeInv
<1>a. TypeOK /\ GateInv(g) /\ Whole(g) /\ Stopped(g)
  BY DEF IInv, WholeInv
<1>1. CASE ExecuteStep(g)
  <2>1. Whole(g)'
    BY <1>a, <1>1, OwnKeepsWhole
  <2>2. Ends(g)
    BY <1>a, <1>1, OwnEnds
  <2>. QED BY <2>1, <2>2 DEF Ends, Stopped, Idle
<1>2. CASE Construct(g) \/ (\E changes \in Transactions : Begin(g, changes)) \/ Crash(g)
  BY <1>a, <1>2, CallKeepsWhole
<1>3. CASE SameFlow(g) /\ SameData(g) /\ mem'[g] = mem[g] /\ ForeignWrites(g)
  BY <1>a, <1>3, OthersLeaveWhole
<1>. QED BY <1>1, <1>2, <1>3, WhoSteps


\* What others write is all that the caller sees of their steps.
LEMMA ElsewhereIsOthers ==
  ASSUME NEW g \in Gates, SameFlow(g), SameData(g), mem'[g] = mem[g], ForeignWrites(g)
  PROVE  Transaction(g)!Others
<1>1. Goal(g)' = Goal(g) /\ Status(g)' = Status(g)
  BY OthersLeaveWhole
<1>2. \A f \in Files \ touched'[g] : View(g)'[f] = View(g)[f]
  BY DEF View, SameFlow, SameData, ForeignWrites
<1>. QED
  BY <1>1, <1>2 DEF Transaction!Others, Transaction!AsBefore, ForeignWrites

\* While execute() runs, the caller sees nothing of it but on the files that somebody
\* else has written; when it ends, the files are what its answer says.
LEMMA OwnIsTransaction ==
  ASSUME TypeOK, NEW g \in Gates, GateInv(g), GateInv(g)', Whole(g)', ExecuteStep(g),
         Goal(g)' = Goal(g)
  PROVE  Transaction(g)!Others \/ Transaction(g)!End
<1>a. /\ pc[g] \notin Idle /\ tx'[g] = tx[g] /\ original'[g] = original[g]
      /\ touched'[g] = touched[g] /\ touched[g] \subseteq Files
  BY OwnFrame DEF TypeOK
<1>b. Status(g) = "running" /\ \A f \in Files \ touched[g] : View(g)[f] = original[g][f]
  BY <1>a DEF Status, View, Idle
<1>1. CASE pc'[g] \notin Idle
  <2>1. Status(g)' = "running" /\ \A f \in Files \ touched[g] : View(g)'[f] = original[g][f]
    BY <1>a, <1>1 DEF Status, View, Idle
  <2>. QED
    BY <1>a, <1>b, <2>1 DEF Transaction!Others, Transaction!AsBefore
<1>2. CASE pc'[g] \in Idle
  <2>1. pc'[g] = "ready" /\ outcome'[g] \in {"APPROVED", "REJECTED", "ROLLED_BACK", "RAISED"}
    BY <1>2, OwnEnds DEF Ends
  <2>2. /\ Status(g)' = Answer(g)'
        /\ \A f \in Files \ touched[g] : View(g)'[f] = content'[f]
    BY <2>1 DEF Status, View
  <2>3. \A f \in Files \ touched[g] :
          Transaction(g)!AsBefore(f) <=> content'[f] = original[g][f]
    BY <1>b, <2>2 DEF Transaction!AsBefore
  <2>4. \A f \in Files \ touched[g] :
          Transaction(g)!AsBefore(f) \/ Transaction(g)!Changed(f)
    <3>1. ASSUME NEW f \in Files \ touched[g], content'[f] \in Goal(g)[f]
          PROVE  Transaction(g)!Changed(f)
      BY <2>2, <3>1 DEF Transaction!Changed, Transaction!Target
    <3>2. \A f \in Files \ touched[g] : content'[f] = original[g][f] \/ content'[f] \in Goal(g)[f]
      BY <1>a DEF Whole
    <3>. QED BY <2>3, <3>1, <3>2
  <2>5. Pristine(g)' => \A f \in Files \ touched[g] : Transaction(g)!AsBefore(f)
    BY <1>a, <2>3 DEF Pristine
  <2>6. CASE outcome'[g] = "APPROVED"
    <3>1. /\ held'[g] /\ AppliedBefore(g, Len(tx[g]) + 1)' /\ OthersPristine(g)'
          /\ Checked(g, Len(tx[g]))'
      BY <1>a, <2>6 DEF GateInv, Result, Data, Control
    <3>2. Status(g)' = "APPROVED"
      BY <2>2, <2>6 DEF Answer
    <3>3. ASSUME NEW f \in Files \ touched[g]
          PROVE  Transaction(g)!Changed(f)
      <4>1. CASE f \in Targets(g)
        <5>1. PICK i \in 1..Len(tx[g]) : tx[g][i].path = f
          BY <4>1 DEF Targets, TypeOK
        <5>2. content'[f] = Replaced(original[g][f], tx[g][i])
          <6>1. i < Len(tx[g]) + 1 /\ i \in 1..Len(tx'[g]) /\ f \notin touched'[g]
            BY <1>a
          <6>2. tx'[g][i].path = f
            BY <1>a, <5>1
          <6>3. content'[f] = IF i < Len(tx[g]) + 1 THEN Replaced(original[g][f], tx[g][i])
                                                    ELSE original[g][f]
            BY <1>a, <3>1, <6>1, <6>2 DEF AppliedBefore
          <6>. QED BY <6>1, <6>3
        <5>3. original[g][f] \in Text
          BY <1>a, <3>1, <5>1 DEF Checked
        <5>4. i \in DOMAIN tx[g]
          BY DEF TypeOK
        <5>5. content'[f] \in Goal(g)[f]
          BY <5>1, <5>2, <5>3, <5>4, GoalOf
        <5>. QED BY <2>2, <5>5 DEF Transaction!Changed, Transaction!Target
      <4>2. CASE f \notin Targets(g)
        <5>1. Goal(g)[f] = {}
          BY <4>2 DEF Goal, Targets
        <5>2. content'[f] = original[g][f]
          BY <1>a, <3>1, <4>2 DEF OthersPristine, Targets
        <5>. QED BY <2>3, <5>1, <5>2 DEF Transaction!Changed, Transaction!Target
      <4>. QED BY <4>1, <4>2
    <3>. QED
      BY <1>a, <1>b, <3>2, <3>3 DEF Transaction!End, Transaction!Approve, Transaction!Own
  <2>7. CASE outcome'[g] = "ROLLED_BACK"
    <3>1. Pristine(g)' /\ Status(g)' = "ROLLED_BACK"
      BY <2>2, <2>7 DEF GateInv, Result, Answer
    <3>. QED
      BY <1>a, <1>b, <2>5, <3>1 DEF Transaction!End, Transaction!GiveUp, Transaction!Own
  <2>8. CASE outcome'[g] = "RAISED" /\ mem'[g].state = "SAFE_STOP"
    <3>1. Status(g)' = "SAFE_STOP"
      BY <2>2, <2>8 DEF Answer
    <3>. QED
      BY <1>a, <1>b, <2>4, <3>1 DEF Transaction!End, Transaction!SafeStop, Transaction!Own
  <2>9. CASE outcome'[g] = "REJECTED" \/ (outcome'[g] = "RAISED" /\ mem'[g].state # "SAFE_STOP")
    <3>1. Status(g)' \in {"REJECTED", "RAISED"}
      BY <2>2, <2>9 DEF Answer
    <3>2. CASE Unshared(g)
      <4>1. Unshared(g)'
        BY <1>a, <3>2 DEF Unshared, Targets
      <4>2. Pristine(g)'
        BY <2>9, <4>1 DEF GateInv, Result
      <4>. QED
        BY <1>a, <1>b, <2>5, <3>1, <4>2 DEF Transaction!End, Transaction!GiveUp, Transaction!Own
    <3>3. CASE ~Unshared(g)
      <4>1. PICK f \in Targets(g) \cap touched[g] : TRUE
        BY <3>3 DEF Unshared
      <4>2. Goal(g)[f] # {}
        <5>1. PICK i \in DOMAIN tx[g] : tx[g][i].path = f
          BY <4>1 DEF Targets
        <5>2. f \in Files
          BY <1>a, <4>1
        <5>. QED BY <5>1, <5>2 DEF Goal
      <4>. QED
        BY <1>a, <1>b, <2>4, <3>1, <4>1, <4>2
        DEF Transaction!End, Transaction!Spoiled, Transaction!Own, Transaction!Target
    <3>. QED BY <3>2, <3>3
  <2>. QED BY <2>1, <2>6, <2>7, <2>8, <2>9
<1>. QED BY <1>1, <1>2

\* A construction, a call and a crash are those of the transaction.
LEMMA CallIsTransaction ==
  ASSUME TypeOK, NEW g \in Gates, GateInv(g), Whole(g), Stopped(g),
         \/ Construct(g)
         \/ \E changes \in Transactions : Begin(g, changes)
         \/ Crash(g)
  PROVE  Transaction(g)!Construct \/ Transaction(g)!Begin \/ Transaction(g)!Crash
<1>1. CASE Construct(g)
  <2>1. /\ UNCHANGED <<content, tx, original, touched>>
        /\ pc[g] = "off" /\ pc'[g] = "ready" /\ outcome'[g] = "none"
    BY <1>1 DEF Construct, history, Goto, TypeOK, GateInv, Control
  <2>2. Goal(g)' = Goal(g)
    BY <2>1 DEF Goal, Replaced, Decoded
  <2>3. View(g)' = View(g)
    BY <2>1 DEF View
  <2>4. Status(g) = "off" /\ Status(g)' = "idle"
    BY <2>1 DEF Status, Answer
  <2>. QED BY <2>1, <2>2, <2>3, <2>4 DEF Transaction!Construct
<1>2. ASSUME NEW changes \in Transactions, Begin(g, changes)
      PROVE  Transaction(g)!Begin
  <2>a. mem'[g].state = mem[g].state
    <3> DEFINE reset == [mem[g] EXCEPT !.checkpoint = NoCheckpoint, !.lastTest = "none"]
    <3>1. reset.state = mem[g].state
      BY DEF TypeOK, GateRecord
    <3>2. mem' = [mem EXCEPT ![g] = reset]
      BY <1>2 DEF Begin, Saved, SaveFailed
    <3>. QED BY <3>1, <3>2 DEF TypeOK
  <2>1. /\ pc[g] = "ready" /\ content' = content /\ original'[g] = content /\ touched'[g] = {}
        /\ mem'[g].state = mem[g].state
        /\ pc'[g] = "start" \/ (pc'[g] = "ready" /\ outcome'[g] = "RAISED")
    BY <1>2, <2>a DEF Begin, Return, TypeOK
  <2>2. View(g)' = View(g)
    BY <2>1 DEF View
  <2>3. Status(g) \in Transaction(g)!Idle
    BY <2>1 DEF Status, Answer, Transaction!Idle, TypeOK
  <2>4. CASE pc'[g] = "start"
    <3>1. Status(g)' = "running"
      BY <2>4 DEF Status
    <3>. QED BY <2>1, <2>2, <2>3, <3>1 DEF Transaction!Begin
  <2>5. CASE pc'[g] = "ready" /\ outcome'[g] = "RAISED"
    <3>1. Status(g)' = IF mem[g].state = "SAFE_STOP" THEN "SAFE_STOP" ELSE "RAISED"
      BY <2>1, <2>5 DEF Status, Answer
    <3>2. mem[g].state = "SAFE_STOP" => Status(g) = "SAFE_STOP"
      BY <2>1 DEF Stopped, Status, Answer
    <3>. QED BY <2>1, <2>2, <2>3, <3>1, <3>2 DEF Transaction!Begin
  <2>. QED BY <2>1, <2>4, <2>5
<1>3. CASE Crash(g)
  <2>1. /\ content' = content /\ touched'[g] = {} /\ pc[g] # "off" /\ pc'[g] = "off"
    BY <1>3 DEF Crash, durable, TypeOK
  <2>2. Status(g) # "off" /\ Status(g)' = "off"
    BY <2>1 DEF Status, Answer, TypeOK
  <2>3. \A f \in Files : View(g)'[f] = content[f]
    BY <2>1 DEF View
  <2>4. CASE pc[g] = "ready"
    <3>1. \A f \in Files : View(g)[f] = content[f]
      BY <2>4 DEF View
    <3>. QED BY <2>1, <2>2, <2>3, <3>1 DEF Transaction!Crash, Transaction!AsBefore, Transaction!Own
  <2>5. CASE pc[g] # "ready"
    <3>1. Status(g) = "running" /\ \A f \in Files \ touched[g] : View(g)[f] = original[g][f]
      BY <2>1, <2>5 DEF Status, View
    <3>2. ASSUME NEW f \in Files \ touched[g]
          PROVE  Transaction(g)!AsBefore(f) \/ Transaction(g)!Changed(f)
      BY <2>3, <3>1 DEF Whole, Transaction!AsBefore, Transaction!Changed, Transaction!Target
    <3>. QED BY <2>1, <2>2, <3>1, <3>2 DEF Transaction!Crash, Transaction!Own
  <2>. QED BY <2>4, <2>5
<1>. QED BY <1>1, <1>2, <1>3

\* Every gate is a transaction to its caller, beside any number of other gates, editors,
\* failures and crashes: all of its changes are made or none, or it says SAFE_STOP, or
\* somebody else wrote a target, and no file is ever left half changed.
THEOREM ExecuteIsATransaction == Spec => GatesAreTransactions
<1>1. Init => (\A g \in Gates : Transaction(g)!Init) /\ WholeInv
  BY DEF Init, Transaction!Init, Status, WholeInv, Whole, Stopped
<1>2. IInv /\ WholeInv /\ [Next]_vars => WholeInv'
  BY WholeInvStep
<1>3. IInv /\ IInv' /\ WholeInv /\ WholeInv' /\ [Next]_vars
        => [\A g \in Gates : [Transaction(g)!Next]_(Transaction(g)!vars)]_vars
  <2> SUFFICES ASSUME IInv, IInv', WholeInv, WholeInv', [Next]_vars, NEW g \in Gates
               PROVE  Transaction(g)!Next
    OBVIOUS
  <2>a. /\ TypeOK /\ GateInv(g) /\ GateInv(g)' /\ Whole(g) /\ Whole(g)' /\ Stopped(g)
    BY DEF IInv, WholeInv
  <2>1. CASE ExecuteStep(g)
    <3>1. Goal(g)' = Goal(g)
      BY <2>a, <2>1, OwnKeepsWhole
    <3>. QED BY <2>a, <2>1, <3>1, OwnIsTransaction DEF Transaction!Next
  <2>2. CASE Construct(g) \/ (\E changes \in Transactions : Begin(g, changes)) \/ Crash(g)
    BY <2>a, <2>2, CallIsTransaction DEF Transaction!Next
  <2>3. CASE SameFlow(g) /\ SameData(g) /\ mem'[g] = mem[g] /\ ForeignWrites(g)
    BY <2>3, ElsewhereIsOthers DEF Transaction!Next
  <2>. QED BY <2>1, <2>2, <2>3, WhoSteps
<1>. QED
  BY <1>1, <1>2, <1>3, Invariance, PTL DEF Spec, GatesAreTransactions

=============================================================================
