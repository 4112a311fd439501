---------------------------- MODULE GitMutation ----------------------------
(***************************************************************************)
(* The mutation transaction of src/git_mutation_executor.py under the lock *)
(* of src/workspace_mutation_lock.py, on one repository.                   *)
(*                                                                         *)
(* execute() runs one Git process after the other.  A step is one of these *)
(* processes, with what the executor concludes from its output, or the     *)
(* start of one that changes the repository.  Other programs (an editor, a *)
(* person's Git, a hook) act between any two steps.  A process started by  *)
(* an executor survives it: it has a session of its own, while the lock is *)
(* the executor's and is freed by the system when the executor dies.       *)
(*                                                                         *)
(* A file's content is a value; TextOf is what read_text makes of it, with *)
(* line ends translated.  NoFile is the content of a path where there is   *)
(* no regular file that decodes.  Ignored files, among them the audit      *)
(* record, are not in File.                                                *)
(***************************************************************************)
EXTENDS Naturals, Sequences

CONSTANTS
  File, Content, NoFile,
  TextOf,         \* content as read_text returns it
  Branch,
  Task,
  Change,         \* of each task, its targets and their validated new_text
  NoTask,         \* nobody, or somebody who is not an executor
  NoResult,
  Past,           \* the trees of the commits there are before the first call
  Edits,          \* what an editor may write: pairs of a file and a content
  MaxEvents       \* bound: crashes and actions of other programs

Tree == [File -> Content \cup {NoFile}]
Targets(t) == DOMAIN Change[t]

ASSUME ContentAssumption ==
  /\ NoFile \notin Content
  /\ TextOf \in [Content \cup {NoFile} -> Content \cup {NoFile}]
  /\ Past \in Seq(Tree) /\ Past # <<>>
  /\ Edits \subseteq File \X (Content \cup {NoFile})
\* A FileChange has a text, and an authorized task at least one target.
ASSUME ChangeAssumption ==
  \A t \in Task : /\ Targets(t) \subseteq File /\ Targets(t) # {}
                  /\ Change[t] \in [Targets(t) -> Content]
ASSUME TaskAssumption == NoTask \notin Task
ASSUME BranchAssumption == Branch # {}
ASSUME BoundAssumption == MaxEvents \in Nat

Snapshot == [staged : SUBSET File, changed : SUBSET File, branch : Branch, head : Nat]
Point    == [branch : Branch, head : Nat]
Result   == [task : Task, before : Point, after : Point, sha : Nat, alone : BOOLEAN]
\* The parent of a root commit is 0.
Commit   == [tree : Tree, parent : Nat, by : Task \cup {NoTask}, alone : BOOLEAN]
Orphan   == [task : Task, command : {"add", "commit"}, alone : BOOLEAN]

VARIABLES
  worktree, index,   \* the files, and what is staged
  commits,           \* the commits of the repository; an identity is a position
  tip, branch,       \* the branches, and the one checked out
  lock,              \* who holds the workspace mutation lock
  pc,                \* of each task, the place in execute(), or how it ended
  phase,             \* which snapshot is being taken
  seen, before,      \* the snapshot being taken, and what is kept of the preflight's
  sha,               \* commit_sha
  audit,             \* git_mutation_state.json
  result,            \* what execute() returned
  orphans,           \* Git processes whose executor has crashed
  events,            \* crashes and actions of other programs so far
  disturbed,         \* history: index or HEAD was changed by others under the lock
  acted              \* history: the latest execute() changed index or HEAD

repo    == <<worktree, index, commits, tip, branch>>
history == <<disturbed, acted>>
locals  == <<phase, seen, before, sha, history>>
outputs == <<audit, result>>
vars    == <<repo, lock, pc, locals, outputs, orphans, events>>

SnapshotPlaces == {"status", "branch", "head"}
Inside == SnapshotPlaces \cup {"files", "recheck", "add", "adding", "evidence", "commit",
                               "committing", "resolve", "show", "audit", "unlock"}
Callable == {"written", "refused", "failed", "crashed", "verified"}
Places   == Inside \cup Callable \cup {"idle"}

HEAD     == tip[branch]
HeadTree == commits[HEAD].tree

\* What git status reports: staged paths, untracked ones among them, and paths
\* that differ between the files and the index.
Staged  == {f \in File : \/ index[f] # HeadTree[f]
                         \/ index[f] = NoFile /\ worktree[f] # NoFile}
Changed == {f \in File : worktree[f] # index[f]}

\* The paths that git show lists for a commit: all of them for a root commit.
PathsOf(id) ==
  LET parent == commits[id].parent IN
  {f \in File : commits[id].tree[f] # IF parent = 0 THEN NoFile ELSE commits[parent].tree[f]}

SomeBranch == CHOOSE b \in Branch : TRUE
NoPoint    == [branch |-> SomeBranch, head |-> 0]
NoSnapshot == [staged |-> {}, changed |-> {}, branch |-> SomeBranch, head |-> 0]

(***************************************************************************)
(* Control.                                                                *)
(***************************************************************************)

Goto(t, place) == pc' = [pc EXCEPT ![t] = place]

\* __exit__ of the lock; the call's variables are gone.
Leave(t, outcome) ==
  /\ Goto(t, outcome)
  /\ lock' = NoTask
  /\ phase' = [phase EXCEPT ![t] = "before"]
  /\ seen' = [seen EXCEPT ![t] = NoSnapshot]
  /\ before' = [before EXCEPT ![t] = NoPoint]
  /\ sha' = [sha EXCEPT ![t] = 0]
  /\ disturbed' = disturbed \ {t} /\ acted' = acted \ {t}

\* On to a place, or out of execute() with an exception.
Check(t, guard, place, outcome) ==
  IF guard THEN Goto(t, place) /\ UNCHANGED <<lock, locals>>
           ELSE Leave(t, outcome)

(***************************************************************************)
(* execute().                                                              *)
(***************************************************************************)

\* The caller has written the validated change to the files.
Write(t) ==
  /\ pc[t] = "idle"
  /\ worktree' = [f \in File |-> IF f \in Targets(t) THEN Change[t][f] ELSE worktree[f]]
  /\ Goto(t, "written")
  /\ UNCHANGED <<index, commits, tip, branch, lock, locals, outputs, orphans, events>>

\* Authorization, the policy and the lock let the call in, for the first time
\* or again.
Execute(t) ==
  /\ pc[t] \in Callable
  /\ lock = NoTask /\ lock' = t
  /\ Goto(t, "status")
  /\ UNCHANGED <<repo, locals, outputs, orphans, events>>

\* Mutant: an executor that did not get the lock releases it.
RefuseReleasing(t) ==
  /\ pc[t] \in Callable
  /\ Goto(t, "refused")
  /\ lock' = NoTask
  /\ UNCHANGED <<repo, locals, outputs, orphans, events>>

\* One of them raises, the lock above all when another executor holds it.
Refuse(t) ==
  /\ pc[t] \in Callable
  /\ Goto(t, "refused")
  /\ UNCHANGED <<repo, lock, locals, outputs, orphans, events>>

\* Reads leave everything outside the executor alone.
Reading == UNCHANGED <<repo, outputs, orphans, events>>

\* snapshot(): git status, then git branch, then git rev-parse.
ReadStatus(t) ==
  /\ pc[t] = "status"
  /\ seen' = [seen EXCEPT ![t] = [NoSnapshot EXCEPT !.staged = Staged, !.changed = Changed]]
  /\ Goto(t, "branch")
  /\ UNCHANGED <<lock, phase, before, sha, history>> /\ Reading

ReadBranch(t) ==
  /\ pc[t] = "branch"
  /\ seen' = [seen EXCEPT ![t].branch = branch]
  /\ Goto(t, "head")
  /\ UNCHANGED <<lock, phase, before, sha, history>> /\ Reading

\* Mutant: staged changes are left to the verification after git add.
PreflightWorktree(t) ==
  /\ pc[t] = "head" /\ phase[t] = "before"
  /\ IF seen[t].changed \subseteq Targets(t)
       THEN /\ before' = [before EXCEPT ![t] = [branch |-> seen[t].branch, head |-> HEAD]]
            /\ Goto(t, "files")
            /\ UNCHANGED <<lock, phase, seen, sha, history>>
       ELSE Leave(t, "refused")
  /\ Reading

\* _preflight
Preflight(t) ==
  /\ pc[t] = "head" /\ phase[t] = "before"
  /\ IF seen[t].staged = {} /\ seen[t].changed \subseteq Targets(t)
       THEN /\ before' = [before EXCEPT ![t] = [branch |-> seen[t].branch, head |-> HEAD]]
            /\ Goto(t, "files")
            /\ UNCHANGED <<lock, phase, seen, sha, history>>
       ELSE Leave(t, "refused")
  /\ Reading

\* _validate_target_files and _validate_change_contents
ValidateFiles(t) ==
  /\ pc[t] = "files"
  /\ Check(t, \A f \in Targets(t) : worktree[f] # NoFile /\ TextOf[worktree[f]] = Change[t][f],
           "recheck", "refused")
  /\ Reading

\* HEAD is what it was.
RecheckHead(t) ==
  /\ pc[t] = "recheck"
  /\ Check(t, before[t].head = HEAD, "add", "refused")
  /\ Reading

\* git add is started, or the policy or the sandbox refuses to.
LaunchAdd(t) ==
  /\ pc[t] = "add"
  /\ \/ Goto(t, "adding") /\ UNCHANGED <<lock, locals>>
     \/ Leave(t, "refused")
     \/ Leave(t, "failed")
  /\ Reading

\* git add of the targets: all of them, or none if one is unknown.
Add(t) ==
  /\ \A f \in Targets(t) : index[f] # NoFile \/ worktree[f] # NoFile
  /\ index' = [f \in File |-> IF f \in Targets(t) THEN worktree[f] ELSE index[f]]
  /\ UNCHANGED <<worktree, commits, tip, branch>>

\* git commit of whatever is staged.
CommitIndex(t, alone) ==
  /\ index # HeadTree
  /\ commits' = Append(commits, [tree |-> index, parent |-> HEAD, by |-> t, alone |-> alone])
  /\ tip' = [tip EXCEPT ![branch] = Len(commits) + 1]
  /\ UNCHANGED <<worktree, index, branch>>

\* git add ends.  Its return code is not looked at.
GitAdd(t) ==
  /\ pc[t] = "adding"
  /\ \/ Add(t) /\ acted' = acted \cup {t}
     \/ UNCHANGED <<repo, acted>>
  /\ phase' = [phase EXCEPT ![t] = "staged"]
  /\ Goto(t, "status")
  /\ UNCHANGED <<lock, seen, before, sha, disturbed, outputs, orphans, events>>

\* _verify_staged_targets
VerifyStagedTargets(t) ==
  /\ pc[t] = "head" /\ phase[t] = "staged"
  /\ Check(t, seen[t].staged = Targets(t), "evidence", "failed")
  /\ Reading

\* Mutant: names are enough.
VerifyStagedNames(t) ==
  /\ pc[t] = "evidence"
  /\ Check(t, \A f \in Targets(t) : index[f] # NoFile, "commit", "failed")
  /\ Reading

\* _verify_staged_contents
VerifyStagedContents(t) ==
  /\ pc[t] = "evidence"
  /\ Check(t, \A f \in Targets(t) : index[f] = Change[t][f], "commit", "failed")
  /\ Reading

\* Mutant: a stop of the policy is passed on as it is.
LaunchCommitUnconverted(t) ==
  /\ pc[t] = "commit"
  /\ \/ Goto(t, "committing") /\ UNCHANGED <<lock, locals>>
     \/ Leave(t, "refused")
  /\ Reading

\* git commit is started; a stop of the policy or the sandbox is converted.
LaunchCommit(t) ==
  /\ pc[t] = "commit"
  /\ \/ Goto(t, "committing") /\ UNCHANGED <<lock, locals>>
     \/ Leave(t, "failed")
  /\ Reading

\* git commit ends.  It may have committed and yet fail: its time was up while
\* a hook was running.
GitCommit(t) ==
  /\ pc[t] = "committing"
  /\ \/ /\ CommitIndex(t, t \notin disturbed)
        /\ \/ /\ phase' = [phase EXCEPT ![t] = "after"]
              /\ Goto(t, "status")
              /\ acted' = acted \cup {t}
              /\ UNCHANGED <<lock, seen, before, sha, disturbed>>
           \/ Leave(t, "failed")
     \/ Leave(t, "failed") /\ UNCHANGED repo
  /\ UNCHANGED <<outputs, orphans, events>>

\* The last snapshot, and commit_sha.
SnapshotAfter(t) ==
  /\ pc[t] = "head" /\ phase[t] = "after"
  /\ seen' = [seen EXCEPT ![t].head = HEAD]
  /\ Goto(t, "resolve")
  /\ UNCHANGED <<lock, phase, before, sha, history>> /\ Reading

\* _verify_post_commit, up to the inspection of the commit.
ResolveCommit(t) ==
  /\ pc[t] = "resolve"
  /\ IF /\ seen[t].staged = {} /\ seen[t].changed = {}
        /\ seen[t].head # before[t].head
        /\ seen[t].head = HEAD
       THEN /\ sha' = [sha EXCEPT ![t] = HEAD]
            /\ Goto(t, "show")
            /\ UNCHANGED <<lock, phase, seen, before, history>>
       ELSE Leave(t, "failed")
  /\ Reading

\* Mutant: the lock is free before the record is written.
ShowCommitUnlocking(t) ==
  /\ pc[t] = "show"
  /\ IF PathsOf(sha[t]) = Targets(t)
       THEN Goto(t, "audit") /\ lock' = NoTask /\ UNCHANGED locals
       ELSE Leave(t, "failed")
  /\ Reading

\* verify_exact_target_set of the commit; the attestation repeats what is known.
ShowCommit(t) ==
  /\ pc[t] = "show"
  /\ Check(t, PathsOf(sha[t]) = Targets(t), "audit", "failed")
  /\ Reading

\* alone is history.
ResultOf(t) ==
  [task |-> t, before |-> before[t], sha |-> sha[t],
   after |-> [branch |-> seen[t].branch, head |-> seen[t].head], alone |-> t \notin disturbed]

\* _persist_audit: write a temporary file and replace; both may raise.
PersistAudit(t) ==
  /\ pc[t] = "audit"
  /\ \/ audit' = ResultOf(t) /\ Goto(t, "unlock") /\ UNCHANGED <<lock, locals, result>>
     \/ Leave(t, "failed") /\ UNCHANGED outputs
  /\ UNCHANGED <<repo, orphans, events>>

Return(t) ==
  /\ pc[t] = "unlock"
  /\ result' = [result EXCEPT ![t] = ResultOf(t)]
  /\ Leave(t, "verified")
  /\ UNCHANGED <<repo, audit, orphans, events>>

\* Mutant: evidence that is missing is asked for again.
EvidenceRetried(t) ==
  /\ pc[t] \in SnapshotPlaces \cup {"recheck", "evidence", "resolve", "show"}
  /\ Goto(t, IF pc[t] \in SnapshotPlaces THEN "status" ELSE pc[t])
  /\ UNCHANGED <<lock, locals>> /\ Reading

\* A Git process that reads fails, runs out of time, or says what cannot be
\* parsed; a detached HEAD is no branch.
EvidenceFails(t) ==
  /\ pc[t] \in SnapshotPlaces \cup {"recheck", "evidence", "resolve", "show"}
  /\ Leave(t, "failed")
  /\ Reading

(***************************************************************************)
(* Crashes and other programs.                                             *)
(***************************************************************************)

Event == events < MaxEvents /\ events' = events + 1

Command(place) == IF place = "adding" THEN "add" ELSE "commit"

\* The executor's process ends; the system frees the lock, and a Git process
\* that changes the repository goes on.
Crash(t) ==
  /\ pc[t] \in Inside /\ Event
  /\ orphans' = IF pc[t] \in {"adding", "committing"}
       THEN orphans \cup {[task |-> t, command |-> Command(pc[t]), alone |-> t \notin disturbed]}
       ELSE orphans
  /\ Leave(t, "crashed")
  /\ UNCHANGED <<repo, outputs>>

\* Somebody changes index or HEAD beside the holder of the lock and the orphans.
Disturb(others) ==
  /\ disturbed' = disturbed \cup ({lock} \ {NoTask})
  /\ orphans' = {[o EXCEPT !.alone = FALSE] : o \in others}
  /\ UNCHANGED <<lock, pc, phase, seen, before, sha, acted, outputs>>

\* Such a process ends, with or without success.
OrphanEnds(o) ==
  \/ /\ IF o.command = "add" THEN Add(o.task) ELSE CommitIndex(o.task, o.alone)
     /\ Disturb(orphans \ {o})
     /\ UNCHANGED events
  \/ /\ orphans' = orphans \ {o}
     /\ UNCHANGED <<repo, lock, pc, locals, outputs, events>>

Edit(f, content) ==
  /\ Event /\ worktree[f] # content
  /\ worktree' = [worktree EXCEPT ![f] = content]
  /\ UNCHANGED <<index, commits, tip, branch, lock, pc, locals, outputs, orphans>>

ForeignAdd(f) ==
  /\ index[f] # worktree[f]
  /\ Event /\ Disturb(orphans)
  /\ index' = [index EXCEPT ![f] = worktree[f]]
  /\ UNCHANGED <<worktree, commits, tip, branch>>

ForeignCommit == Event /\ Disturb(orphans) /\ CommitIndex(NoTask, FALSE)

\* git reset: the recovery that the executor leaves to somebody else.
Unstage ==
  /\ index # HeadTree
  /\ Event /\ Disturb(orphans)
  /\ index' = HeadTree
  /\ UNCHANGED <<worktree, commits, tip, branch>>

\* git reset --hard takes the files that are or were tracked to the commit.
ResetFiles(tree) ==
  [f \in File |-> IF tree[f] # NoFile \/ index[f] # NoFile THEN tree[f] ELSE worktree[f]]

\* git reset --hard to any commit, an older one, too.
ForeignReset(id) ==
  LET tree == commits[id].tree IN
  /\ index' = tree /\ worktree' = ResetFiles(tree)
  /\ Event /\ Disturb(orphans)
  /\ tip' = [tip EXCEPT ![branch] = id]
  /\ UNCHANGED <<commits, branch>>

\* git switch to another branch, which may be older.  Git keeps what is staged or
\* edited, and refuses if it would have to overwrite it.
Switch(b) ==
  LET tree  == commits[tip[b]].tree
      taken == {f \in File : tree[f] # HeadTree[f] /\ tree[f] # index[f]} IN
  /\ b # branch
  /\ \A f \in taken : index[f] = HeadTree[f] /\ worktree[f] = index[f]
  /\ Event /\ Disturb(orphans)
  /\ branch' = b
  /\ index' = [f \in File |-> IF f \in taken THEN tree[f] ELSE index[f]]
  /\ worktree' = [f \in File |-> IF f \in taken THEN tree[f] ELSE worktree[f]]
  /\ UNCHANGED <<commits, tip>>

Init ==
  /\ commits = [i \in DOMAIN Past |->
                  [tree |-> Past[i], parent |-> i - 1, by |-> NoTask, alone |-> FALSE]]
  /\ branch = SomeBranch /\ tip = [b \in Branch |-> Len(Past)]
  /\ worktree = HeadTree /\ index = HeadTree
  /\ lock = NoTask
  /\ pc = [t \in Task |-> "idle"]
  /\ phase = [t \in Task |-> "before"]
  /\ seen = [t \in Task |-> NoSnapshot] /\ before = [t \in Task |-> NoPoint]
  /\ sha = [t \in Task |-> 0]
  /\ audit = NoResult /\ result = [t \in Task |-> NoResult]
  /\ orphans = {} /\ events = 0
  /\ disturbed = {} /\ acted = {}

ExecuteStep(t) ==
  \/ ReadStatus(t) \/ ReadBranch(t) \/ Preflight(t) \/ ValidateFiles(t) \/ RecheckHead(t)
  \/ LaunchAdd(t) \/ GitAdd(t) \/ VerifyStagedTargets(t) \/ VerifyStagedContents(t)
  \/ LaunchCommit(t) \/ GitCommit(t) \/ SnapshotAfter(t) \/ ResolveCommit(t) \/ ShowCommit(t)
  \/ PersistAudit(t) \/ Return(t) \/ EvidenceFails(t)

ForeignStep ==
  \/ \E edit \in Edits : Edit(edit[1], edit[2])
  \/ \E f \in File : ForeignAdd(f)
  \/ ForeignCommit \/ Unstage
  \/ \E id \in DOMAIN commits : ForeignReset(id)
  \/ \E b \in Branch : Switch(b)

Next ==
  \/ \E t \in Task : Write(t) \/ Execute(t) \/ Refuse(t) \/ ExecuteStep(t) \/ Crash(t)
  \/ \E o \in orphans : OrphanEnds(o)
  \/ ForeignStep

Spec == Init /\ [][Next]_vars

\* The executor is a thread that waits only for Git processes, and the sandbox
\* ends those when their time is up.
FairSpec == Spec /\ \A t \in Task : WF_vars(ExecuteStep(t))

(***************************************************************************)
(* Properties.                                                             *)
(***************************************************************************)

\* Every variable has its type, and whoever is inside execute() holds the lock.
TypeOK ==
  /\ worktree \in Tree /\ index \in Tree
  /\ commits \in Seq(Commit)
  /\ \A id \in DOMAIN commits : commits[id].parent \in {0} \cup DOMAIN commits
  /\ branch \in Branch /\ tip \in [Branch -> DOMAIN commits]
  /\ lock \in Task \cup {NoTask}
  /\ pc \in [Task -> Places]
  /\ \A t \in Task : pc[t] \in Inside <=> lock = t
  /\ phase \in [Task -> {"before", "staged", "after"}]
  /\ seen \in [Task -> Snapshot] /\ before \in [Task -> Point]
  /\ sha \in [Task -> Nat]
  /\ audit \in Result \cup {NoResult}
  /\ result \in [Task -> Result \cup {NoResult}]
  /\ orphans \subseteq Orphan
  /\ events \in 0..MaxEvents
  /\ disturbed \subseteq {lock} \ {NoTask} /\ acted \subseteq {lock} \ {NoTask}

\* A commit changes exactly the targets of its task, to the validated texts: no
\* edit, no other task, no leftover of an earlier failure gets in, and this also
\* holds of commits whose executor then failed or had crashed.  Only a change of
\* the index by somebody who does not take the lock can break it.
CommitIsAuthorized ==
  \A id \in DOMAIN commits : LET t == commits[id].by IN
    t # NoTask /\ commits[id].alone =>
      /\ PathsOf(id) = Targets(t)
      /\ \A f \in Targets(t) : commits[id].tree[f] = Change[t][f]

\* A result that execute() returns is about the call's own commit, which follows
\* the HEAD of its preflight.
ResultIsOwnCommit ==
  \A t \in Task : result[t] # NoResult /\ result[t].alone =>
    /\ commits[result[t].sha].by = t
    /\ commits[result[t].sha].parent = result[t].before.head
    /\ result[t].before.branch = result[t].after.branch

\* The audit record, which all tasks overwrite, is about a commit of exactly its
\* targets.  Unless somebody who does not take the lock changed index or HEAD during
\* the call, that commit is newer than the HEAD of the preflight, and no task was ever
\* told of a newer one.  If somebody did, the code accepts an older one, too: it only
\* asks that HEAD is another than before.
AuditIsLatest ==
  audit # NoResult =>
    /\ PathsOf(audit.sha) = Targets(audit.task)
    /\ audit.alone =>
         /\ audit.before.head < audit.sha
         /\ \A t \in Task : result[t] # NoResult => result[t].sha <= audit.sha

\* A call that ends with a SafetyStop has changed neither index nor history.
StopLeavesNothing ==
  [][\A t \in Task : pc'[t] = "refused" => t \notin acted]_vars

\* "Staged evidence is intentionally preserved": what is staged when a task takes
\* the lock is not staged over, whichever task left it there.
EvidenceIsKept ==
  [][\A t \in Task : pc[t] = "adding" /\ pc'[t] = "status" /\ t \notin disturbed =>
       \A f \in File : index[f] # HeadTree[f] => index'[f] = index[f]]_vars

\* Whatever other tasks and programs do, execute() ends and frees the lock.
ExecuteReturns == lock # NoTask ~> lock = NoTask

(***************************************************************************)
(* What the documentation says, and the code does not do.                  *)
(***************************************************************************)

\* "The existing mutation critical section remains serialized across independent
\* processes": no Git process that changes the repository for one task runs while
\* another task holds the lock.
TransactionsAreSerialized == orphans # {} => lock = NoTask

=============================================================================
