--------------------------- MODULE ExecutionGate ---------------------------
(***************************************************************************)
(* The transaction of src/execution_gate.py: validate, checkpoint, apply,  *)
(* test, approve or roll back.  Each gate is one ExecutionGate object in a *)
(* process of its own.  Gates share the workspace files and the one        *)
(* STATE_FILE, nothing locks either, and editors, tools and other gates    *)
(* may write a file between any two steps.                                 *)
(*                                                                         *)
(* A step of the model is one file operation or one save of the state      *)
(* file.  Any of them may fail with an exception, the tests may pass, fail *)
(* or not start, and a process may crash between two steps.                *)
(*                                                                         *)
(* A text is a function from positions to fragments: what the gate does    *)
(* with a text depends only on how often old_text occurs in it.  A         *)
(* checkpoint and a rollback copy bytes, but read_text translates line     *)
(* ends: Newline is what a fragment is read as.                            *)
(***************************************************************************)
EXTENDS Naturals, Sequences, FiniteSets

CONSTANTS
  Gates,          \* ExecutionGate objects, one per process
  Failing,        \* the gates whose file operations may raise and that may crash
  Files,          \* paths that resolve inside the workspace
  OutsidePaths,   \* paths that WorkspaceGuard.resolve refuses
  Positions,      \* positions of a text
  Fragments,      \* what can stand at a position
  Newline,        \* what each fragment is read as
  InitialTexts,   \* what the files hold at first
  Missing,        \* content of a path at which no regular file is
  Undecodable,    \* content of a file that is not UTF-8
  NoCheckpoint,   \* the null checkpoint pointer
  Transactions,   \* the change lists execute() is called with
  ForeignContent  \* what editors and tools leave at a path

Text    == [Positions -> Fragments]
Content == Text \cup {Missing, Undecodable}
Change  == [path : Files \cup OutsidePaths, old : Fragments, new : Fragments]

ASSUME TransactionsAssumption ==
  /\ Transactions \subseteq Seq(Change)
  /\ ForeignContent \subseteq Content
  /\ Failing \subseteq Gates
ASSUME TextsAssumption ==
  /\ Newline \in [Fragments -> Fragments]
  /\ InitialTexts \subseteq Text
ASSUME DistinctAssumption ==
  /\ Missing \notin Text \cup {Undecodable}
  /\ Undecodable \notin Text
  /\ NoCheckpoint \notin Gates
  /\ Files \cap OutsidePaths = {}

GateStates == {"IDLE", "VALIDATING", "CHECKPOINTING", "APPLYING", "TESTING",
               "ROLLING_BACK", "APPROVED", "REJECTED",
               "VERIFIED_AFTER_ROLLBACK", "SAFE_STOP"}

\* The part of self.state that a later step or a reader of STATE_FILE uses.
GateRecord == [state      : GateStates,
               checkpoint : Gates \cup {NoCheckpoint},
               lastTest   : {"none", "passed", "failed"}]

FreshRecord == [state |-> "IDLE", checkpoint |-> NoCheckpoint, lastTest |-> "none"]

Steps == {"off", "ready", "start", "validate", "checkpoint", "copy", "manifest",
          "apply", "read", "write", "test", "testing", "judge", "reject",
          "startRollback", "rollback", "restore", "endRollback",
          "retest", "retesting", "rejudge", "safeStop"}

Outcomes == {"none", "APPROVED", "REJECTED", "ROLLED_BACK", "RAISED"}

VARIABLES
  (* shared and durable *)
  content,        \* the workspace files
  disk,           \* STATE_FILE
  backup,         \* CHECKPOINT_ROOT: each gate's checkpoint directory
  (* one process each, lost in a crash *)
  pc,             \* the next step of the gate
  tx,             \* the argument of execute()
  index,          \* the change or file a loop is at
  buffer,         \* new_text between read_text and os.replace
  held,           \* the local variable checkpoint is not None
  recovering,     \* inside the generic exception handler
  mem,            \* self.state
  outcome,        \* how the last execute() ended
  (* history, read by the properties only *)
  original,       \* the workspace when execute() began
  touched,        \* files written by somebody else since then
  retestFailed    \* a test run after a rollback of this execute() failed

durable == <<content, disk, backup>>
control == <<pc, index, recovering, outcome>>
history == <<original, touched, retestFailed>>
vars    == <<durable, control, tx, buffer, held, mem, history>>

(***************************************************************************)
(* Texts.                                                                  *)
(***************************************************************************)

\* read_text(encoding="utf-8", errors="strict")
Decoded(text) == [p \in Positions |-> Newline[text[p]]]

\* current_text.count(old_text)
Occurrences(text, old) == Cardinality({p \in Positions : Decoded(text)[p] = old})

\* current_text.replace(old_text, new_text, 1), with one occurrence of old_text.
\* It is written without translation, so all of the file gets the read line ends.
Replaced(text, change) ==
  [p \in Positions |-> IF Decoded(text)[p] = change.old THEN change.new ELSE Decoded(text)[p]]

MatchesOnce(text, change) == Occurrences(text, change.old) = 1

NoBackups == [f \in Files |-> Missing]

Current(g) == tx[g][index[g]]
Targets(g) == {tx[g][i].path : i \in DOMAIN tx[g]}

(***************************************************************************)
(* Control flow of execute().                                              *)
(***************************************************************************)

Goto(g, step) ==
  /\ pc' = [pc EXCEPT ![g] = step]
  /\ index' = [index EXCEPT ![g] = 1]
  /\ UNCHANGED <<recovering, outcome>>

\* Mutant: every loop ends one change early.
MoreChangesShort(g) == index[g] + 1 < Len(tx[g])

MoreChanges(g) == index[g] < Len(tx[g])

\* The next change of a loop over the changes, or what follows the loop.
Advance(g, step) ==
  IF MoreChanges(g)
    THEN /\ index' = [index EXCEPT ![g] = @ + 1]
         /\ UNCHANGED <<pc, recovering, outcome>>
    ELSE Goto(g, step)

Return(g, result) ==
  /\ pc' = [pc EXCEPT ![g] = "ready"]
  /\ index' = [index EXCEPT ![g] = 1]
  /\ recovering' = [recovering EXCEPT ![g] = FALSE]
  /\ outcome' = [outcome EXCEPT ![g] = result]

\* Into the generic exception handler, whose first call is rollback().
Recover(g) ==
  /\ pc' = [pc EXCEPT ![g] = "rollback"]
  /\ index' = [index EXCEPT ![g] = 1]
  /\ recovering' = [recovering EXCEPT ![g] = TRUE]
  /\ UNCHANGED outcome

\* Mutant: an exception inside the handler leaves without SAFE_STOP.
ThrowUnguarded(g) ==
  IF held[g] /\ ~recovering[g] THEN Recover(g) ELSE Return(g, "RAISED")

\* Mutant: the handler retries the rollback until it succeeds.
ThrowRetrying(g) == IF held[g] THEN Recover(g) ELSE Return(g, "RAISED")

\* An exception other than ValidationError and WorkspaceViolation: recovery if
\* a checkpoint is held, SAFE_STOP if recovery itself raises.
Throw(g) ==
  CASE recovering[g]              -> Goto(g, "safeStop")
    [] ~recovering[g] /\ held[g]  -> Recover(g)
    [] ~recovering[g] /\ ~held[g] -> Return(g, "RAISED")

\* An operation on a workspace or checkpoint file, or the test runner, raises.
Fail(g) == g \in Failing /\ Throw(g)

WithState(g, s) == [mem[g] EXCEPT !.state = s]

\* _save_state: os.replace either happens or the call raises.  The object has
\* the new value in both cases.
Saved(g, record)      == mem' = [mem EXCEPT ![g] = record] /\ disk' = record
SaveFailed(g, record) == /\ g \in Failing
                         /\ mem' = [mem EXCEPT ![g] = record]
                         /\ UNCHANGED disk

\* A save followed by `step`; a failing one raises.
SaveThen(g, record, step) == \/ Saved(g, record) /\ Goto(g, step)
                             \/ SaveFailed(g, record) /\ Throw(g)

\* A save followed by a return; a failing one raises.
SaveAndReturn(g, record, result) == \/ Saved(g, record) /\ Return(g, result)
                                    \/ SaveFailed(g, record) /\ Throw(g)

\* A gate's write to a file is foreign to every other gate.
Write(g, f, text) ==
  /\ content' = [content EXCEPT ![f] = text]
  /\ touched' = [h \in Gates |-> IF h = g THEN touched[h] ELSE touched[h] \cup {f}]

(***************************************************************************)
(* Construction and the start of execute().                                *)
(***************************************************************************)

\* __init__: a new object overwrites whatever STATE_FILE holds.
Construct(g) ==
  /\ pc[g] = "off"
  /\ Saved(g, FreshRecord)
  /\ Goto(g, "ready")
  /\ UNCHANGED <<content, backup, tx, buffer, held, history>>

\* The reset and its save stand before the try: a failing save just raises.
Begin(g, changes) ==
  LET reset == [mem[g] EXCEPT !.checkpoint = NoCheckpoint, !.lastTest = "none"] IN
  /\ pc[g] = "ready"
  /\ tx' = [tx EXCEPT ![g] = changes]
  /\ held' = [held EXCEPT ![g] = FALSE]
  /\ backup' = [backup EXCEPT ![g] = NoBackups]
  /\ original' = [original EXCEPT ![g] = content]
  /\ touched' = [touched EXCEPT ![g] = {}]
  /\ retestFailed' = [retestFailed EXCEPT ![g] = FALSE]
  /\ \/ /\ Saved(g, reset)
        /\ pc' = [pc EXCEPT ![g] = "start"]
        /\ outcome' = [outcome EXCEPT ![g] = "none"]
        /\ UNCHANGED <<index, recovering>>
     \/ SaveFailed(g, reset) /\ Return(g, "RAISED")
  /\ UNCHANGED <<content, buffer>>

Start(g) ==
  /\ pc[g] = "start"
  /\ SaveThen(g, WithState(g, "VALIDATING"), "validate")
  /\ UNCHANGED <<content, backup, tx, buffer, held, history>>

(***************************************************************************)
(* 1. Validate.                                                            *)
(***************************************************************************)

\* Mutant: two changes may have the same target.
ValidChangeAlone(g) ==
  /\ Current(g).path \in Files
  /\ content[Current(g).path] \in Text
  /\ MatchesOnce(content[Current(g).path], Current(g))

ValidChange(g) ==
  /\ Current(g).path \in Files
  /\ content[Current(g).path] \in Text
  /\ MatchesOnce(content[Current(g).path], Current(g))
  /\ \A i \in 1 .. index[g] - 1 : tx[g][i].path # Current(g).path

\* What is neither accepted nor refused cannot be read, or is gone between
\* exists() and read_text(): any other exception.
Validate(g) ==
  LET more == index[g] <= Len(tx[g]) IN
  /\ pc[g] = "validate"
  /\ \/ more /\ ValidChange(g) /\ Advance(g, "checkpoint")
     \/ ~(more /\ ValidChange(g)) /\ Goto(g, "reject")
     \/ /\ more /\ Current(g).path \in Files
        /\ content[Current(g).path] = Missing \/ g \in Failing
        /\ Throw(g)
  /\ UNCHANGED <<durable, tx, buffer, held, mem, history>>

\* The ValidationError and WorkspaceViolation handlers: no rollback.
Reject(g) ==
  /\ pc[g] = "reject"
  /\ \/ Saved(g, WithState(g, "REJECTED")) /\ Return(g, "REJECTED")
     \/ SaveFailed(g, WithState(g, "REJECTED")) /\ Return(g, "RAISED")
  /\ UNCHANGED <<content, backup, tx, buffer, held, history>>

(***************************************************************************)
(* 2. Checkpoint.                                                          *)
(***************************************************************************)

StartCheckpoint(g) ==
  /\ pc[g] = "checkpoint"
  /\ SaveThen(g, WithState(g, "CHECKPOINTING"), "copy")
  /\ UNCHANGED <<content, backup, tx, buffer, held, history>>

\* A failing copy removes the whole directory before the exception leaves.
CopyBackup(g) ==
  LET f == Current(g).path IN
  /\ pc[g] = "copy"
  /\ \/ /\ content[f] # Missing
        /\ backup' = [backup EXCEPT ![g][f] = content[f]]
        /\ Advance(g, "manifest")
     \/ /\ content[f] = Missing \/ g \in Failing
        /\ backup' = [backup EXCEPT ![g] = NoBackups]
        /\ Throw(g)
  /\ UNCHANGED <<content, disk, tx, buffer, held, mem, history>>

\* Mutant: the clean-up of a failed checkpoint stands in a finally clause.
WriteManifestFinally(g) ==
  /\ pc[g] = "manifest"
  /\ SaveThen(g, [mem[g] EXCEPT !.checkpoint = g], "apply")
  /\ held' = [held EXCEPT ![g] = TRUE]
  /\ backup' = [backup EXCEPT ![g] = NoBackups]
  /\ UNCHANGED <<content, tx, buffer, history>>

WriteManifest(g) ==
  LET record == [mem[g] EXCEPT !.checkpoint = g] IN
  /\ pc[g] = "manifest"
  /\ \/ /\ Saved(g, record) /\ Goto(g, "apply")
        /\ held' = [held EXCEPT ![g] = TRUE]
        /\ UNCHANGED backup
     \/ /\ SaveFailed(g, record) \/ UNCHANGED <<mem, disk>>
        /\ Fail(g)
        /\ backup' = [backup EXCEPT ![g] = NoBackups]
        /\ UNCHANGED held
  /\ UNCHANGED <<content, tx, buffer, history>>

(***************************************************************************)
(* 3. Apply.                                                               *)
(***************************************************************************)

StartApply(g) ==
  /\ pc[g] = "apply"
  /\ SaveThen(g, WithState(g, "APPLYING"), "read")
  /\ UNCHANGED <<content, backup, tx, buffer, held, history>>

\* read_text, the second count of old_text, and the replacement.  A source that
\* changed is a ValidationError; one that cannot be read (it is gone, it is not
\* UTF-8, the read fails) is any other exception.
ReadSource(g) ==
  LET text == content[Current(g).path] IN
  /\ pc[g] = "read"
  /\ \/ /\ text \in Text
        /\ MatchesOnce(text, Current(g))
        /\ buffer' = [buffer EXCEPT ![g] = Replaced(text, Current(g))]
        /\ pc' = [pc EXCEPT ![g] = "write"]
        /\ UNCHANGED <<index, recovering, outcome>>
     \/ text \in Text /\ ~MatchesOnce(text, Current(g)) /\ Goto(g, "reject") /\ UNCHANGED buffer
     \/ (text \notin Text \/ g \in Failing) /\ Throw(g) /\ UNCHANGED buffer
  /\ UNCHANGED <<durable, tx, held, mem, history>>

\* The temporary file replaces the target whatever the target holds by now.
WriteTarget(g) ==
  /\ pc[g] = "write"
  /\ \/ /\ Write(g, Current(g).path, buffer[g])
        /\ IF MoreChanges(g)
             THEN /\ pc' = [pc EXCEPT ![g] = "read"]
                  /\ index' = [index EXCEPT ![g] = @ + 1]
                  /\ UNCHANGED <<recovering, outcome>>
             ELSE Goto(g, "test")
     \/ Fail(g) /\ UNCHANGED <<content, touched>>
  /\ buffer' = [buffer EXCEPT ![g] = Missing]
  /\ UNCHANGED <<disk, backup, tx, held, mem, original, retestFailed>>

(***************************************************************************)
(* 4. Tests, in the transaction and after a rollback.                      *)
(***************************************************************************)

StartTests(g) ==
  /\ \/ pc[g] = "test" /\ SaveThen(g, WithState(g, "TESTING"), "testing")
     \/ pc[g] = "retest" /\ SaveThen(g, WithState(g, "TESTING"), "retesting")
  /\ UNCHANGED <<content, backup, tx, buffer, held, history>>

\* run_tests stores the verdict together with final_state, before its caller
\* has looked at the verdict.  A timeout is a failed run; a runner that cannot
\* be built or started raises.
TestRecord(g, verdict) ==
  [mem[g] EXCEPT !.lastTest = verdict,
                 !.state = IF pc[g] = "retesting" THEN "VERIFIED_AFTER_ROLLBACK"
                                                  ELSE "TESTING"]

RunTests(g) ==
  /\ pc[g] \in {"testing", "retesting"}
  /\ \/ \E verdict \in {"passed", "failed"} :
          /\ SaveThen(g, TestRecord(g, verdict),
                      IF pc[g] = "testing" THEN "judge" ELSE "rejudge")
          /\ retestFailed' = [retestFailed EXCEPT ![g] =
                                @ \/ (pc[g] = "retesting" /\ verdict = "failed")]
     \/ Fail(g) /\ UNCHANGED <<mem, disk, retestFailed>>
  /\ UNCHANGED <<content, backup, tx, buffer, held, original, touched>>

\* 5A and the decision for 5B.
JudgeTests(g) ==
  LET cleared == [mem[g] EXCEPT !.checkpoint = NoCheckpoint, !.state = "APPROVED"] IN
  /\ pc[g] = "judge"
  /\ IF mem[g].lastTest = "passed"
       THEN SaveAndReturn(g, cleared, "APPROVED")
       ELSE Goto(g, "startRollback") /\ UNCHANGED <<mem, disk>>
  /\ UNCHANGED <<content, backup, tx, buffer, held, history>>

(***************************************************************************)
(* 5B. Roll back, and 6. verify the rollback.  Both the main path and the  *)
(* exception handler come through here.                                    *)
(***************************************************************************)

\* Mutant: the pointer to the checkpoint is dropped before the files are restored.
StartRollbackForgetting(g) ==
  /\ pc[g] = "startRollback"
  /\ SaveThen(g, [mem[g] EXCEPT !.state = "ROLLING_BACK", !.checkpoint = NoCheckpoint],
              "rollback")
  /\ UNCHANGED <<content, backup, tx, buffer, held, history>>

StartRollback(g) ==
  /\ pc[g] = "startRollback"
  /\ SaveThen(g, WithState(g, "ROLLING_BACK"), "rollback")
  /\ UNCHANGED <<content, backup, tx, buffer, held, history>>

\* The manifest is read and every backup looked for before the first restore.
CheckBackups(g) ==
  /\ pc[g] = "rollback"
  /\ \/ (\A f \in Targets(g) : backup[g][f] # Missing) /\ Goto(g, "restore")
     \/ /\ (\E f \in Targets(g) : backup[g][f] = Missing) \/ g \in Failing
        /\ Throw(g)
  /\ UNCHANGED <<durable, tx, buffer, held, mem, history>>

\* Mutant: the loop over the files stops after the first one.
RestoreFirstFile(g) ==
  /\ pc[g] = "restore"
  /\ Write(g, Current(g).path, backup[g][Current(g).path])
  /\ Goto(g, "endRollback")
  /\ UNCHANGED <<disk, backup, tx, buffer, held, mem, original, retestFailed>>

RestoreFile(g) ==
  LET f == Current(g).path IN
  /\ pc[g] = "restore"
  /\ \/ Write(g, f, backup[g][f]) /\ Advance(g, "endRollback")
     \/ Fail(g) /\ UNCHANGED <<content, touched>>
  /\ UNCHANGED <<disk, backup, tx, buffer, held, mem, original, retestFailed>>

EndRollback(g) ==
  /\ pc[g] = "endRollback"
  /\ SaveThen(g, [mem[g] EXCEPT !.checkpoint = NoCheckpoint], "retest")
  /\ UNCHANGED <<content, backup, tx, buffer, held, history>>

\* In the main path a failed verification raises GateError after SAFE_STOP is
\* saved, which the generic handler of the same try statement catches.
JudgeRollback(g) ==
  /\ pc[g] = "rejudge"
  /\ IF mem[g].lastTest = "passed"
       THEN SaveAndReturn(g, WithState(g, "VERIFIED_AFTER_ROLLBACK"),
                          IF recovering[g] THEN "RAISED" ELSE "ROLLED_BACK")
       ELSE \/ /\ Saved(g, WithState(g, "SAFE_STOP"))
               /\ IF recovering[g] THEN Return(g, "RAISED") ELSE Throw(g)
            \/ SaveFailed(g, WithState(g, "SAFE_STOP")) /\ Throw(g)
  /\ UNCHANGED <<content, backup, tx, buffer, held, history>>

\* The innermost handler; the original exception is raised either way.
SafeStop(g) ==
  /\ pc[g] = "safeStop"
  /\ Saved(g, WithState(g, "SAFE_STOP")) \/ SaveFailed(g, WithState(g, "SAFE_STOP"))
  /\ Return(g, "RAISED")
  /\ UNCHANGED <<content, backup, tx, buffer, held, history>>

(***************************************************************************)
(* The environment.                                                        *)
(***************************************************************************)

\* An editor, a tool or a person writes or removes a file.
Edit(f, text) ==
  /\ content' = [content EXCEPT ![f] = text]
  /\ touched' = [g \in Gates |-> touched[g] \cup {f}]
  /\ UNCHANGED <<disk, backup, control, tx, buffer, held, mem, original, retestFailed>>

\* The process ends between two steps; files and checkpoint directories stay.
Crash(g) ==
  /\ pc[g] # "off" /\ g \in Failing
  /\ pc' = [pc EXCEPT ![g] = "off"]
  /\ index' = [index EXCEPT ![g] = 1]
  /\ recovering' = [recovering EXCEPT ![g] = FALSE]
  /\ outcome' = [outcome EXCEPT ![g] = "none"]
  /\ held' = [held EXCEPT ![g] = FALSE]
  /\ mem' = [mem EXCEPT ![g] = FreshRecord]
  /\ buffer' = [buffer EXCEPT ![g] = Missing]
  /\ tx' = [tx EXCEPT ![g] = <<>>]
  /\ original' = [original EXCEPT ![g] = content]
  /\ touched' = [touched EXCEPT ![g] = {}]
  /\ retestFailed' = [retestFailed EXCEPT ![g] = FALSE]
  /\ UNCHANGED durable

Init ==
  /\ content \in [Files -> InitialTexts]
  /\ disk = FreshRecord
  /\ backup = [g \in Gates |-> NoBackups]
  /\ pc = [g \in Gates |-> "off"]
  /\ tx = [g \in Gates |-> <<>>]
  /\ index = [g \in Gates |-> 1]
  /\ buffer = [g \in Gates |-> Missing]
  /\ held = [g \in Gates |-> FALSE]
  /\ recovering = [g \in Gates |-> FALSE]
  /\ mem = [g \in Gates |-> FreshRecord]
  /\ outcome = [g \in Gates |-> "none"]
  /\ original = [g \in Gates |-> content]
  /\ touched = [g \in Gates |-> {}]
  /\ retestFailed = [g \in Gates |-> FALSE]

\* What execute() does once it is called.
ExecuteStep(g) ==
  \/ Start(g)
  \/ Validate(g)
  \/ Reject(g)
  \/ StartCheckpoint(g)
  \/ CopyBackup(g)
  \/ WriteManifest(g)
  \/ StartApply(g)
  \/ ReadSource(g)
  \/ WriteTarget(g)
  \/ StartTests(g)
  \/ RunTests(g)
  \/ JudgeTests(g)
  \/ StartRollback(g)
  \/ CheckBackups(g)
  \/ RestoreFile(g)
  \/ EndRollback(g)
  \/ JudgeRollback(g)
  \/ SafeStop(g)

Next ==
  \/ \E g \in Gates :
       \/ Construct(g)
       \/ \E changes \in Transactions : Begin(g, changes)
       \/ ExecuteStep(g)
       \/ Crash(g)
  \/ \E f \in Files, text \in ForeignContent : Edit(f, text)

Spec == Init /\ [][Next]_vars

\* A running execute() is a thread the operating system schedules.  Nothing is
\* promised of callers, editors and crashes.  A test run ends: it passes, fails
\* or is killed after TEST_TIMEOUT_SECONDS.
FairSpec == Spec /\ \A g \in Gates : WF_vars(ExecuteStep(g))

(***************************************************************************)
(* Properties.                                                             *)
(***************************************************************************)

\* Every variable has its type; in particular a change never turns a file into
\* something that is not a text, and a buffered new text is a text.
TypeOK ==
  /\ content \in [Files -> Content]
  /\ disk \in GateRecord
  /\ backup \in [Gates -> [Files -> Content]]
  /\ pc \in [Gates -> Steps]
  /\ tx \in [Gates -> Seq(Change)]
  /\ index \in [Gates -> Nat \ {0}]
  /\ buffer \in [Gates -> Text \cup {Missing}]
  /\ held \in [Gates -> BOOLEAN]
  /\ recovering \in [Gates -> BOOLEAN]
  /\ mem \in [Gates -> GateRecord]
  /\ outcome \in [Gates -> Outcomes]
  /\ original \in [Gates -> [Files -> Content]]
  /\ touched \in [Gates -> SUBSET Files]
  /\ retestFailed \in [Gates -> BOOLEAN]

\* An execute() that returns APPROVED has run the tests to a pass, and every
\* target nobody else wrote holds its original text, with the line ends it is read
\* with and its change applied.
ApprovedIsComplete ==
  \A g \in Gates : outcome[g] = "APPROVED" =>
    /\ mem[g].lastTest = "passed"
    /\ \A i \in DOMAIN tx[g] : tx[g][i].path \notin touched[g] =>
         content[tx[g][i].path] = Replaced(original[g][tx[g][i].path], tx[g][i])

\* An execute() that returns ROLLED_BACK has the tests passing again, and every
\* file nobody else wrote is what it was when execute() was called.
RolledBackIsRestored ==
  \A g \in Gates : outcome[g] = "ROLLED_BACK" =>
    /\ mem[g].lastTest = "passed" /\ mem[g].state = "VERIFIED_AFTER_ROLLBACK"
    /\ \A f \in Files \ touched[g] : content[f] = original[g][f]

\* As long as nobody else writes the targets, REJECTED means that nothing was
\* applied: validation refuses every list whose application could stop half way.
RejectedIsUntouched ==
  \A g \in Gates :
    outcome[g] = "REJECTED" /\ Targets(g) \cap touched[g] = {} =>
      \A f \in Files \ touched[g] : content[f] = original[g][f]

\* As long as nobody else writes the targets, an execute() that raises has
\* restored every file, or says SAFE_STOP.
RaisedIsRestoredOrStopped ==
  \A g \in Gates :
    /\ outcome[g] = "RAISED" /\ Targets(g) \cap touched[g] = {}
    /\ mem[g].state # "SAFE_STOP"
    => \A f \in Files \ touched[g] : content[f] = original[g][f]

\* Write-ahead: while execute() runs, so also at the moment of a crash, a file
\* it has changed has its original text in the checkpoint directory.
ChangedIsBackedUp ==
  \A g \in Gates : pc[g] \notin {"off", "ready"} =>
    \A f \in Files \ touched[g] :
      content[f] # original[g][f] => backup[g][f] = original[g][f]

\* With one gate per STATE_FILE, the persisted state names that checkpoint for
\* as long, so that the originals can be found after a crash.
ChangedIsOnRecord ==
  \A g \in Gates : pc[g] \notin {"off", "ready"} =>
    \A f \in Files \ touched[g] :
      content[f] # original[g][f] => disk.checkpoint = g

\* execute() returns or raises, whatever fails and whoever writes the files.
ExecuteReturns ==
  \A g \in Gates : pc[g] \notin {"off", "ready"} ~> pc[g] \in {"off", "ready"}

(***************************************************************************)
(* execute() as a transaction.                                             *)
(***************************************************************************)

\* While execute() runs, what it has done itself does not count.
View(g) == [f \in Files |-> IF pc[g] \in {"off", "ready"} \/ f \in touched[g]
                              THEN content[f] ELSE original[g][f]]

\* A file that is not a text can only stay what it is.
Goal(g) ==
  [f \in Files |->
     {IF original[g][f] \in Text THEN Replaced(original[g][f], tx[g][i]) ELSE original[g][f] :
        i \in {j \in DOMAIN tx[g] : tx[g][j].path = f}}]

\* What the caller is told: how the call ended, and the state on record.
Answer(g) ==
  CASE outcome[g] = "none" -> "idle"
    [] outcome[g] = "RAISED" /\ mem[g].state = "SAFE_STOP" -> "SAFE_STOP"
    [] OTHER -> outcome[g]
Status(g) ==
  CASE pc[g] = "off" -> "off"
    [] pc[g] = "ready" -> Answer(g)
    [] OTHER -> "running"

Transaction(g) == INSTANCE GateTransaction WITH
  files <- View(g), goal <- Goal(g), foreign <- touched[g], status <- Status(g)

\* "Each mutating task is an independent ExecutionGate transaction": whoever else
\* writes the files and whatever fails, its changes are made all together or not at
\* all.  If they are not, it says SAFE_STOP, or a target was written by somebody
\* else; and no file that nobody else wrote is left with anything but its original
\* text or its change, even by a crash.
GatesAreTransactions ==
  /\ \A g \in Gates : Transaction(g)!Init
  /\ [][\A g \in Gates : [Transaction(g)!Next]_(Transaction(g)!vars)]_vars

(***************************************************************************)
(* What the documentation says, and the code does not do.                  *)
(***************************************************************************)

\* The pipeline ends in "Approve OR Rollback" once changes are applied: after
\* REJECTED no file that only this gate wrote differs from its original.
RejectedLeavesNothingApplied ==
  \A g \in Gates : outcome[g] = "REJECTED" =>
    \A f \in Files \ touched[g] : content[f] = original[g][f]

\* "If rollback verification fails: SAFE_STOP": an execute() whose tests failed
\* after its rollback ends in SAFE_STOP.
FailedVerificationIsSafeStop ==
  \A g \in Gates : pc[g] = "ready" /\ retestFailed[g] => mem[g].state = "SAFE_STOP"

=============================================================================
