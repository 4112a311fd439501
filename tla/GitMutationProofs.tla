------------------------- MODULE GitMutationProofs -------------------------
(***************************************************************************)
(* Proofs about GitMutation, for any files, tasks, changes, branches and   *)
(* edits, and any number of crashes and actions of other programs.         *)
(***************************************************************************)
EXTENDS GitMutation, SequenceTheorems, TLAPS

Preparing == {"files", "recheck", "add", "adding"}
Showing   == {"show", "audit", "unlock"}

\* The phases a place may belong to.
Fits(place, p) ==
  /\ place \in Preparing => p = "before"
  /\ place \in {"evidence", "commit", "committing"} => p = "staged"
  /\ place \in {"resolve"} \cup Showing => p = "after"
  /\ place \notin Inside => p = "before"

PhaseInv == \A t \in Task : Fits(pc[t], phase[t])

ActedInv == \A t \in acted : phase[t] # "before"

\* The index differs from HEAD exactly by the change of a task.
Ready(t) ==
  /\ \A f \in File \ Targets(t) : index[f] = HeadTree[f]
  /\ \A f \in Targets(t) : index[f] = Change[t][f] /\ index[f] # HeadTree[f]

\* What an undisturbed holder of the lock may rely on in the index.
IndexInv(t) ==
  /\ phase[t] = "before" /\ pc[t] \in {"branch", "head"} /\ seen[t].staged = {} =>
       index = HeadTree
  /\ pc[t] \in Preparing => index = HeadTree
  /\ phase[t] = "staged" => \A f \in File \ Targets(t) : index[f] = HeadTree[f]
  /\ phase[t] = "staged" /\ pc[t] \in {"branch", "head"} =>
       \A f \in seen[t].staged : index[f] # HeadTree[f] \/ index[f] = NoFile
  /\ pc[t] = "evidence" =>
       \A f \in Targets(t) : index[f] # HeadTree[f] \/ index[f] = NoFile
  /\ pc[t] \in {"commit", "committing"} => Ready(t)

\* And in HEAD.
HeadInv(t) ==
  /\ pc[t] = "head" => seen[t].branch = branch
  /\ pc[t] \in Preparing \/ phase[t] = "staged" => before[t] = [branch |-> branch, head |-> HEAD]
  /\ phase[t] = "after" => /\ before[t].branch = branch
                           /\ commits[HEAD].by = t
                           /\ commits[HEAD].parent = before[t].head
                           /\ before[t].head < HEAD
                           /\ \A s \in Task : result[s] # NoResult => result[s].sha <= HEAD
  /\ pc[t] \in {"resolve"} \cup Showing => seen[t].branch = branch
  /\ pc[t] \in Showing => sha[t] = HEAD

\* What holds of the holder, disturbed or not.
OrderInv(t) ==
  /\ pc[t] \in Showing => sha[t] \in DOMAIN commits
  /\ pc[t] \in {"audit", "unlock"} => PathsOf(sha[t]) = Targets(t)
  /\ pc[t] = "unlock" => audit.sha = sha[t]

HolderInv ==
  \A t \in Task : lock = t => /\ OrderInv(t)
                              /\ t \notin disturbed => IndexInv(t) /\ HeadInv(t)

\* A commit left by a crashed executor still commits that executor's change:
\* until the index changes, no other transaction passes its preflight.
OrphanInv ==
  \A o \in orphans : o.command = "commit" /\ o.alone =>
    /\ Ready(o.task)
    /\ \A t \in Task : lock = t => /\ t \notin disturbed
                                   /\ pc[t] \in SnapshotPlaces /\ phase[t] = "before"

\* Results are about commits that exist.
RecordInv ==
  /\ audit # NoResult => audit.sha \in DOMAIN commits
  /\ \A t \in Task : result[t] # NoResult => result[t].sha \in DOMAIN commits

IInv ==
  /\ TypeOK
  /\ PhaseInv /\ ActedInv
  /\ HolderInv /\ OrphanInv /\ RecordInv
  /\ CommitIsAuthorized /\ ResultIsOwnCommit /\ AuditIsLatest

(***************************************************************************)
(* Types.                                                                  *)
(***************************************************************************)

RepoTypeOK ==
  /\ worktree \in Tree /\ index \in Tree
  /\ commits \in Seq(Commit)
  /\ \A id \in DOMAIN commits : commits[id].parent \in {0} \cup DOMAIN commits
  /\ branch \in Branch /\ tip \in [Branch -> DOMAIN commits]

ControlTypeOK ==
  /\ lock \in Task \cup {NoTask}
  /\ pc \in [Task -> Places]
  /\ \A t \in Task : pc[t] \in Inside <=> lock = t
  /\ phase \in [Task -> {"before", "staged", "after"}]
  /\ seen \in [Task -> Snapshot] /\ before \in [Task -> Point]
  /\ sha \in [Task -> Nat]
  /\ disturbed \subseteq {lock} \ {NoTask} /\ acted \subseteq {lock} \ {NoTask}

OutputTypeOK ==
  /\ audit \in Result \cup {NoResult}
  /\ result \in [Task -> Result \cup {NoResult}]

EventTypeOK == orphans \subseteq Orphan /\ events \in 0..MaxEvents

\* TypeOK, taken apart.
LEMMA TypeParts ==
  TypeOK <=> RepoTypeOK /\ ControlTypeOK /\ OutputTypeOK /\ EventTypeOK
  BY DEF TypeOK, RepoTypeOK, ControlTypeOK, OutputTypeOK, EventTypeOK

\* A branch exists, and the values of variables nobody has set have their types.
LEMMA EmptyTypes ==
  SomeBranch \in Branch /\ NoPoint \in Point /\ NoSnapshot \in Snapshot
<1>1. SomeBranch \in Branch
  BY BranchAssumption DEF SomeBranch
<1>2. QED
  BY <1>1 DEF NoPoint, Point, NoSnapshot, Snapshot

\* HEAD is a commit, and its files are a tree.
LEMMA HeadTypes ==
  ASSUME RepoTypeOK
  PROVE  /\ HEAD \in DOMAIN commits /\ HEAD \in Nat /\ HEAD \in 1..Len(commits)
         /\ HeadTree \in Tree
         /\ Len(commits) \in Nat /\ DOMAIN commits = 1..Len(commits)
<1>1. commits \in Seq(Commit) /\ HEAD \in DOMAIN commits
  BY DEF RepoTypeOK, HEAD
<1>2. Len(commits) \in Nat /\ DOMAIN commits = 1..Len(commits)
  BY <1>1
<1>3. commits[HEAD] \in Commit
  BY <1>1, <1>2
<1>4. QED
  BY <1>1, <1>2, <1>3 DEF HeadTree, Commit

LEMMA CommitTypes ==
  ASSUME RepoTypeOK, NEW id \in DOMAIN commits
  PROVE  commits[id] \in Commit /\ commits[id].tree \in Tree
<1>1. commits \in Seq(Commit) /\ DOMAIN commits = 1..Len(commits)
  BY HeadTypes DEF RepoTypeOK
<1>2. commits[id] \in Commit
  BY <1>1
<1>3. QED
  BY <1>2 DEF Commit

\* What is in the index and the files is part of the tree of files.
LEMMA StatusTypes ==
  Staged \in SUBSET File /\ Changed \in SUBSET File
  BY DEF Staged, Changed

\* A task's own texts are contents.
LEMMA ChangeTypes ==
  ASSUME NEW t \in Task
  PROVE  /\ Targets(t) \subseteq File /\ Targets(t) # {}
         /\ \A f \in Targets(t) : Change[t][f] \in Content /\ Change[t][f] # NoFile
  BY ChangeAssumption, ContentAssumption DEF Targets

(***************************************************************************)
(* The repository: commits stay, wherever HEAD goes.                       *)
(***************************************************************************)

\* The commits stay; branches may move among them, back as well as on.
KeepsHistory ==
  /\ worktree' \in Tree /\ index' \in Tree
  /\ branch' \in Branch /\ tip' \in [Branch -> DOMAIN commits]
  /\ UNCHANGED commits

\* All that any step does to the repository.
RepoStep ==
  \/ KeepsHistory
  \/ \E t \in Task \cup {NoTask}, alone \in BOOLEAN : CommitIndex(t, alone)

Grows ==
  /\ \A id \in DOMAIN commits : /\ id \in DOMAIN commits'
                                /\ commits'[id] = commits[id]
                                /\ PathsOf(id)' = PathsOf(id)
  /\ HEAD' \in Nat

\* Commits and their parents stay, so what a commit changes stays.
LEMMA PathsStay ==
  ASSUME RepoTypeOK,
         \A id \in DOMAIN commits : id \in DOMAIN commits' /\ commits'[id] = commits[id]
  PROVE  \A id \in DOMAIN commits : PathsOf(id)' = PathsOf(id)
<1> TAKE id \in DOMAIN commits
<1>1. commits[id].parent = 0 \/ commits[id].parent \in DOMAIN commits
  BY DEF RepoTypeOK
<1>2. /\ commits'[id] = commits[id]
      /\ commits[id].parent = 0
           \/ commits'[commits[id].parent] = commits[commits[id].parent]
  BY <1>1
<1>3. QED
  BY <1>2 DEF PathsOf

\* git commit appends a commit whose parent is HEAD, and HEAD moves to it.
LEMMA CommitStep ==
  ASSUME RepoTypeOK, NEW t \in Task \cup {NoTask}, NEW alone \in BOOLEAN, CommitIndex(t, alone)
  PROVE  /\ DOMAIN commits' = 1..(Len(commits) + 1)
         /\ HEAD' = Len(commits) + 1
         /\ commits'[Len(commits) + 1] =
              [tree |-> index, parent |-> HEAD, by |-> t, alone |-> alone]
         /\ \A id \in DOMAIN commits : id \in DOMAIN commits' /\ commits'[id] = commits[id]
         /\ commits' \in Seq(Commit)
         /\ branch' = branch /\ index' = index /\ worktree' = worktree
<1> DEFINE c == [tree |-> index, parent |-> HEAD, by |-> t, alone |-> alone]
<1>1. commits \in Seq(Commit) /\ index \in Tree /\ branch \in Branch
      /\ tip \in [Branch -> DOMAIN commits]
  BY DEF RepoTypeOK
<1>2. c \in Commit
  BY <1>1, HeadTypes DEF Commit
<1>3. commits' = Append(commits, c) /\ tip' = [tip EXCEPT ![branch] = Len(commits) + 1]
      /\ branch' = branch /\ index' = index /\ worktree' = worktree
  BY DEF CommitIndex
<1>4. HEAD' = Len(commits) + 1
  BY <1>1, <1>3 DEF HEAD
<1> HIDE DEF c
<1>5. /\ DOMAIN commits' = 1..(Len(commits) + 1)
      /\ commits'[Len(commits) + 1] = c
      /\ \A id \in 1..Len(commits) : commits'[id] = commits[id]
      /\ commits' \in Seq(Commit)
  BY <1>1, <1>2, <1>3, AppendProperties
<1>6. DOMAIN commits = 1..Len(commits) /\ Len(commits) \in Nat
  BY HeadTypes
<1>7. QED
  BY <1>3, <1>4, <1>5, <1>6 DEF c

\* Every step keeps the repository's types and lets its history grow.
LEMMA RepoStepKeeps ==
  ASSUME RepoTypeOK, RepoStep
  PROVE  RepoTypeOK' /\ Grows
<1>1. CASE KeepsHistory
  <2>1. RepoTypeOK'
    BY <1>1 DEF KeepsHistory, RepoTypeOK
  <2>2. HEAD' \in DOMAIN commits /\ DOMAIN commits \subseteq Nat
    BY <1>1, HeadTypes DEF KeepsHistory, HEAD
  <2>3. \A id \in DOMAIN commits : id \in DOMAIN commits' /\ commits'[id] = commits[id]
    BY <1>1 DEF KeepsHistory
  <2>4. QED
    BY <2>1, <2>2, <2>3, PathsStay DEF Grows
<1>2. CASE \E t \in Task \cup {NoTask}, alone \in BOOLEAN : CommitIndex(t, alone)
  <2>1. PICK t \in Task \cup {NoTask}, alone \in BOOLEAN : CommitIndex(t, alone)
    BY <1>2
  <2>2. /\ DOMAIN commits' = 1..(Len(commits) + 1)
        /\ HEAD' = Len(commits) + 1
        /\ commits'[Len(commits) + 1] =
             [tree |-> index, parent |-> HEAD, by |-> t, alone |-> alone]
        /\ \A id \in DOMAIN commits : id \in DOMAIN commits' /\ commits'[id] = commits[id]
        /\ commits' \in Seq(Commit)
        /\ branch' = branch /\ index' = index /\ worktree' = worktree
    BY <2>1, CommitStep
  <2>3. /\ HEAD \in 1..Len(commits) /\ Len(commits) \in Nat
        /\ DOMAIN commits = 1..Len(commits)
    BY HeadTypes
  <2>4. \A id \in DOMAIN commits' : commits'[id].parent \in {0} \cup DOMAIN commits'
    <3> TAKE id \in DOMAIN commits'
    <3>1. CASE id = Len(commits) + 1
      <4>1. commits'[id].parent = HEAD
        BY <3>1, <2>2
      <4>2. QED
        BY <4>1, <2>2, <2>3
    <3>2. CASE id # Len(commits) + 1
      <4>1. id \in DOMAIN commits
        BY <3>2, <2>2, <2>3
      <4>2. commits[id].parent \in {0} \cup DOMAIN commits /\ commits'[id] = commits[id]
        BY <4>1, <2>2 DEF RepoTypeOK
      <4>3. QED
        BY <4>2, <2>2
    <3>3. QED
      BY <3>1, <3>2
  <2>5. tip' \in [Branch -> DOMAIN commits']
    <3>1. tip' = [tip EXCEPT ![branch] = Len(commits) + 1]
      BY <2>1 DEF CommitIndex
    <3>2. \A b \in Branch : tip[b] \in DOMAIN commits'
      BY <2>2 DEF RepoTypeOK
    <3>3. Len(commits) + 1 \in DOMAIN commits'
      BY <2>2, <2>3
    <3>4. QED
      BY <3>1, <3>2, <3>3 DEF RepoTypeOK
  <2>6. RepoTypeOK'
    BY <2>2, <2>4, <2>5 DEF RepoTypeOK
  <2>7. HEAD' \in Nat
    BY <2>2, <2>3
  <2>8. QED
    BY <2>2, <2>6, <2>7, PathsStay DEF Grows
<1>3. QED
  BY <1>1, <1>2 DEF RepoStep

\* git add leaves a tree in the index.
LEMMA AddKeepsHistory ==
  ASSUME RepoTypeOK, NEW t \in Task, Add(t)
  PROVE  KeepsHistory
<1>1. worktree \in Tree /\ index \in Tree
  BY DEF RepoTypeOK
<1>2. index' \in Tree
  BY <1>1 DEF Add, Tree
<1>3. QED
  BY <1>1, <1>2 DEF Add, KeepsHistory, RepoTypeOK

LEMMA ReadingKeepsHistory ==
  ASSUME RepoTypeOK, UNCHANGED repo
  PROVE  KeepsHistory
  BY DEF RepoTypeOK, KeepsHistory, repo

\* No step does anything else to the repository.
LEMMA ExecuteRepo ==
  ASSUME TypeOK, NEW t \in Task, ExecuteStep(t)
  PROVE  RepoStep
<1> RepoTypeOK /\ disturbed \subseteq {lock} \ {NoTask}
  BY TypeParts DEF ControlTypeOK
<1>1. CASE GitAdd(t)
  BY <1>1, AddKeepsHistory, ReadingKeepsHistory DEF GitAdd, RepoStep, repo
<1>2. CASE GitCommit(t)
  <2>1. (t \notin disturbed) \in BOOLEAN
    OBVIOUS
  <2>2. CASE CommitIndex(t, t \notin disturbed)
    BY <2>1, <2>2 DEF RepoStep
  <2>3. CASE UNCHANGED repo
    BY <2>3, ReadingKeepsHistory DEF RepoStep
  <2>4. QED
    BY <1>2, <2>2, <2>3 DEF GitCommit
<1>3. CASE PersistAudit(t) \/ Return(t)
  BY <1>3, ReadingKeepsHistory DEF PersistAudit, Return, RepoStep
<1>4. CASE ~GitAdd(t) /\ ~GitCommit(t) /\ ~PersistAudit(t) /\ ~Return(t)
  <2>1. Reading
    BY <1>4 DEF ExecuteStep, ReadStatus, ReadBranch, Preflight, ValidateFiles, RecheckHead,
      LaunchAdd, VerifyStagedTargets, VerifyStagedContents, LaunchCommit, SnapshotAfter,
      ResolveCommit, ShowCommit, EvidenceFails
  <2>2. QED
    BY <2>1, ReadingKeepsHistory DEF Reading, RepoStep
<1>5. QED
  BY <1>1, <1>2, <1>3, <1>4

LEMMA ForeignRepo ==
  ASSUME TypeOK, ForeignStep
  PROVE  RepoStep
<1> RepoTypeOK
  BY TypeParts
<1>1. worktree \in Tree /\ index \in Tree /\ HeadTree \in Tree
  BY HeadTypes DEF RepoTypeOK
<1>2. CASE \E edit \in Edits : Edit(edit[1], edit[2])
  <2>1. PICK edit \in Edits : Edit(edit[1], edit[2])
    BY <1>2
  <2>2. edit[1] \in File /\ edit[2] \in Content \cup {NoFile}
    BY ContentAssumption
  <2>3. worktree' \in Tree
    BY <1>1, <2>1, <2>2 DEF Edit, Tree
  <2>4. QED
    BY <1>1, <2>1, <2>3 DEF Edit, KeepsHistory, RepoStep, RepoTypeOK
<1>3. CASE \E f \in File : ForeignAdd(f)
  <2>1. PICK f \in File : ForeignAdd(f)
    BY <1>3
  <2>2. index' \in Tree
    BY <1>1, <2>1 DEF ForeignAdd, Tree
  <2>3. QED
    BY <1>1, <2>1, <2>2 DEF ForeignAdd, KeepsHistory, RepoStep, RepoTypeOK
<1>4. CASE ForeignCommit
  BY <1>4 DEF ForeignCommit, RepoStep
<1>5. CASE Unstage
  BY <1>1, <1>5 DEF Unstage, KeepsHistory, RepoStep, RepoTypeOK
<1>6. CASE \E id \in DOMAIN commits : ForeignReset(id)
  <2>1. PICK id \in DOMAIN commits : ForeignReset(id)
    BY <1>6
  <2>2. commits[id].tree \in Tree
    BY CommitTypes
  <2>3. ResetFiles(commits[id].tree) \in Tree
    BY <1>1, <2>2 DEF ResetFiles, Tree
  <2>4. index' \in Tree /\ worktree' \in Tree
    BY <1>1, <2>1, <2>2, <2>3 DEF ForeignReset
  <2>5. tip' \in [Branch -> DOMAIN commits] /\ UNCHANGED <<commits, branch>>
    BY <2>1 DEF ForeignReset, RepoTypeOK
  <2>6. QED
    BY <2>4, <2>5 DEF KeepsHistory, RepoStep, RepoTypeOK
<1>7. CASE \E b \in Branch : Switch(b)
  <2>1. PICK b \in Branch : Switch(b)
    BY <1>7
  <2>2. commits[tip[b]].tree \in Tree
    BY CommitTypes DEF RepoTypeOK
  <2>3. index' \in Tree /\ worktree' \in Tree
    BY <1>1, <2>1, <2>2 DEF Switch, Tree
  <2>4. tip' \in [Branch -> DOMAIN commits] /\ branch' \in Branch /\ UNCHANGED commits
    BY <2>1 DEF Switch, RepoTypeOK
  <2>5. QED
    BY <2>3, <2>4 DEF KeepsHistory, RepoStep
<1>8. QED
  BY <1>2, <1>3, <1>4, <1>5, <1>6, <1>7 DEF ForeignStep

LEMMA NextRepo ==
  ASSUME TypeOK, Next
  PROVE  RepoStep
<1> RepoTypeOK /\ orphans \subseteq Orphan
  BY TypeParts DEF EventTypeOK
<1>1. CASE \E t \in Task : Write(t)
  <2>1. PICK t \in Task : Write(t)
    BY <1>1
  <2>2. \A f \in Targets(t) : Change[t][f] \in Content
    BY ChangeTypes
  <2>3. worktree' \in Tree
    BY <2>1, <2>2 DEF Write, Tree, RepoTypeOK
  <2>4. QED
    BY <2>1, <2>3 DEF Write, RepoTypeOK, KeepsHistory, RepoStep
<1>2. CASE \E t \in Task : Execute(t) \/ Refuse(t) \/ Crash(t)
  BY <1>2, ReadingKeepsHistory DEF Execute, Refuse, Crash, RepoStep
<1>3. CASE \E t \in Task : ExecuteStep(t)
  BY <1>3, ExecuteRepo
<1>4. CASE \E o \in orphans : OrphanEnds(o)
  <2>1. PICK o \in orphans : OrphanEnds(o)
    BY <1>4
  <2>2. o.task \in Task /\ o.alone \in BOOLEAN
    BY DEF Orphan
  <2>3. CASE Add(o.task)
    BY <2>2, <2>3, AddKeepsHistory DEF RepoStep
  <2>4. CASE CommitIndex(o.task, o.alone)
    BY <2>2, <2>4 DEF RepoStep
  <2>5. CASE UNCHANGED repo
    BY <2>5, ReadingKeepsHistory DEF RepoStep
  <2>6. QED
    BY <2>1, <2>3, <2>4, <2>5 DEF OrphanEnds
<1>5. CASE ForeignStep
  BY <1>5, ForeignRepo
<1>6. QED
  BY <1>1, <1>2, <1>3, <1>4, <1>5 DEF Next

(***************************************************************************)
(* The control state: whoever is inside execute() holds the lock.          *)
(***************************************************************************)

\* The holder of the lock, inside execute(), goes to another place inside.
LEMMA StayTypes ==
  ASSUME ControlTypeOK, NEW t \in Task, pc[t] \in Inside, NEW place \in Inside,
         Goto(t, place), lock' = lock,
         phase' \in [Task -> {"before", "staged", "after"}],
         seen' \in [Task -> Snapshot], before' \in [Task -> Point], sha' \in [Task -> Nat],
         disturbed' = disturbed, acted' \in {acted, acted \cup {t}}
  PROVE  ControlTypeOK'
<1>1. lock = t /\ t # NoTask
  BY TaskAssumption DEF ControlTypeOK
<1>2. pc' = [pc EXCEPT ![t] = place] /\ place \in Places
  BY DEF Goto, Places
<1>3. pc' \in [Task -> Places]
  BY <1>2 DEF ControlTypeOK
<1>4. \A s \in Task : pc'[s] \in Inside <=> lock' = s
  <2> TAKE s \in Task
  <2>1. CASE s = t
    BY <2>1, <1>1, <1>2 DEF ControlTypeOK
  <2>2. CASE s # t
    BY <2>2, <1>1, <1>2 DEF ControlTypeOK
  <2>3. QED
    BY <2>1, <2>2
<1>5. disturbed' \subseteq {lock'} \ {NoTask} /\ acted' \subseteq {lock'} \ {NoTask}
  BY <1>1 DEF ControlTypeOK
<1>6. QED
  BY <1>3, <1>4, <1>5 DEF ControlTypeOK

\* Or leaves execute().
LEMMA LeaveTypes ==
  ASSUME ControlTypeOK, NEW t \in Task, pc[t] \in Inside, NEW outcome \in Callable,
         Leave(t, outcome)
  PROVE  ControlTypeOK'
<1>1. lock = t /\ t # NoTask /\ lock' = NoTask
  BY TaskAssumption DEF ControlTypeOK, Leave
<1>2. pc' = [pc EXCEPT ![t] = outcome] /\ outcome \in Places /\ outcome \notin Inside
  BY DEF Goto, Leave, Places, Callable, Inside, SnapshotPlaces
<1>3. pc' \in [Task -> Places]
  BY <1>2 DEF ControlTypeOK
<1>4. \A s \in Task : pc'[s] \in Inside <=> lock' = s
  <2> TAKE s \in Task
  <2>1. CASE s = t
    BY <2>1, <1>1, <1>2 DEF ControlTypeOK
  <2>2. CASE s # t
    BY <2>2, <1>1, <1>2, TaskAssumption DEF ControlTypeOK
  <2>3. QED
    BY <2>1, <2>2
<1>5. disturbed' = {} /\ acted' = {}
  BY <1>1 DEF ControlTypeOK, Leave
<1>6. /\ phase' \in [Task -> {"before", "staged", "after"}]
      /\ seen' \in [Task -> Snapshot] /\ before' \in [Task -> Point] /\ sha' \in [Task -> Nat]
  BY EmptyTypes DEF Leave, ControlTypeOK
<1>7. QED
  BY <1>1, <1>3, <1>4, <1>5, <1>6 DEF ControlTypeOK

\* A step of somebody else, who may only disturb the holder.
LEMMA OutsideTypes ==
  ASSUME ControlTypeOK, UNCHANGED <<lock, pc, phase, seen, before, sha, acted>>,
         disturbed' \in {disturbed, disturbed \cup ({lock} \ {NoTask})}
  PROVE  ControlTypeOK'
  BY DEF ControlTypeOK

\* A check inside execute().
LEMMA CheckTypes ==
  ASSUME ControlTypeOK, NEW t \in Task, pc[t] \in Inside, NEW guard,
         NEW place \in Inside, NEW outcome \in Callable, Check(t, guard, place, outcome)
  PROVE  ControlTypeOK'
<1>1. CASE guard
  <2>1. Goto(t, place) /\ UNCHANGED <<lock, locals>>
    BY <1>1 DEF Check
  <2>2. UNCHANGED <<lock, phase, seen, before, sha, disturbed, acted>>
    BY <2>1 DEF locals, history
  <2>3. QED
    BY <2>1, <2>2, StayTypes DEF ControlTypeOK
<1>2. CASE ~guard
  BY <1>2, LeaveTypes DEF Check
<1>3. QED
  BY <1>1, <1>2

LEMMA ExecuteControl ==
  ASSUME TypeOK, NEW t \in Task, ExecuteStep(t)
  PROVE  ControlTypeOK'
<1> RepoTypeOK /\ ControlTypeOK
  BY TypeParts
<1> USE DEF Inside, SnapshotPlaces, Callable
<1>1. HEAD \in Nat /\ branch \in Branch
  BY HeadTypes DEF RepoTypeOK
<1>2. seen[t] \in Snapshot
  BY DEF ControlTypeOK
<1>3. CASE ReadStatus(t)
  <2>1. [NoSnapshot EXCEPT !.staged = Staged, !.changed = Changed] \in Snapshot
    <3>1. Staged \in SUBSET File /\ Changed \in SUBSET File
      BY StatusTypes
    <3> HIDE DEF Staged, Changed
    <3>2. QED
      BY <3>1, EmptyTypes DEF NoSnapshot, Snapshot
  <2>2. seen' \in [Task -> Snapshot]
    BY <1>3, <2>1 DEF ReadStatus, ControlTypeOK
  <2>3. QED
    BY <1>3, <2>2, StayTypes DEF ReadStatus, ControlTypeOK, history
<1>4. CASE ReadBranch(t)
  <2>1. [seen[t] EXCEPT !.branch = branch] \in Snapshot
    BY <1>1, <1>2 DEF Snapshot
  <2>2. seen' = [seen EXCEPT ![t] = [seen[t] EXCEPT !.branch = branch]]
    BY <1>4 DEF ReadBranch
  <2>3. seen' \in [Task -> Snapshot]
    BY <2>1, <2>2 DEF ControlTypeOK
  <2>4. QED
    BY <1>4, <2>3, StayTypes DEF ReadBranch, ControlTypeOK, history
<1>5. CASE Preflight(t)
  <2>1. CASE seen[t].staged = {} /\ seen[t].changed \subseteq Targets(t)
    <3>1. [branch |-> seen[t].branch, head |-> HEAD] \in Point
      BY <1>1, <1>2 DEF Snapshot, Point
    <3>2. before' = [before EXCEPT ![t] = [branch |-> seen[t].branch, head |-> HEAD]]
      BY <1>5, <2>1 DEF Preflight
    <3>3. before' \in [Task -> Point]
      BY <3>1, <3>2 DEF ControlTypeOK
    <3>4. QED
      BY <1>5, <2>1, <3>3, StayTypes DEF Preflight, ControlTypeOK, history
  <2>2. QED
    BY <1>5, <2>1, LeaveTypes DEF Preflight
<1>6. CASE ValidateFiles(t)
  BY <1>6, CheckTypes DEF ValidateFiles
<1>7. CASE RecheckHead(t)
  BY <1>7, CheckTypes DEF RecheckHead
<1>8. CASE LaunchAdd(t)
  <2>1. CASE Goto(t, "adding") /\ UNCHANGED <<lock, locals>>
    BY <1>8, <2>1, StayTypes DEF LaunchAdd, ControlTypeOK, locals, history
  <2>2. QED
    BY <1>8, <2>1, LeaveTypes DEF LaunchAdd
<1>9. CASE GitAdd(t)
  <2>1. phase' \in [Task -> {"before", "staged", "after"}]
    BY <1>9 DEF GitAdd, ControlTypeOK
  <2>2. QED
    BY <1>9, <2>1, StayTypes DEF GitAdd, ControlTypeOK
<1>10. CASE VerifyStagedTargets(t)
  BY <1>10, CheckTypes DEF VerifyStagedTargets
<1>11. CASE VerifyStagedContents(t)
  BY <1>11, CheckTypes DEF VerifyStagedContents
<1>12. CASE LaunchCommit(t)
  <2>1. CASE Goto(t, "committing") /\ UNCHANGED <<lock, locals>>
    BY <1>12, <2>1, StayTypes DEF LaunchCommit, ControlTypeOK, locals, history
  <2>2. QED
    BY <1>12, <2>1, LeaveTypes DEF LaunchCommit
<1>13. CASE GitCommit(t)
  <2>1. CASE Leave(t, "failed")
    BY <1>13, <2>1, LeaveTypes DEF GitCommit
  <2>2. CASE /\ phase' = [phase EXCEPT ![t] = "after"]
             /\ Goto(t, "status")
             /\ acted' = acted \cup {t}
             /\ UNCHANGED <<lock, seen, before, sha, disturbed>>
    <3>1. phase' \in [Task -> {"before", "staged", "after"}]
      BY <2>2 DEF ControlTypeOK
    <3>2. QED
      BY <1>13, <2>2, <3>1, StayTypes DEF GitCommit, ControlTypeOK
  <2>3. QED
    BY <1>13, <2>1, <2>2 DEF GitCommit
<1>14. CASE SnapshotAfter(t)
  <2>1. [seen[t] EXCEPT !.head = HEAD] \in Snapshot
    BY <1>1, <1>2 DEF Snapshot
  <2>2. seen' = [seen EXCEPT ![t] = [seen[t] EXCEPT !.head = HEAD]]
    BY <1>14 DEF SnapshotAfter
  <2>3. seen' \in [Task -> Snapshot]
    BY <2>1, <2>2 DEF ControlTypeOK
  <2>4. QED
    BY <1>14, <2>3, StayTypes DEF SnapshotAfter, ControlTypeOK, history
<1>15. CASE ResolveCommit(t)
  <2>1. CASE Leave(t, "failed")
    BY <1>15, <2>1, LeaveTypes DEF ResolveCommit
  <2>2. CASE /\ sha' = [sha EXCEPT ![t] = HEAD]
             /\ Goto(t, "show")
             /\ UNCHANGED <<lock, phase, seen, before, history>>
    <3>1. sha' \in [Task -> Nat]
      BY <1>1, <2>2 DEF ControlTypeOK
    <3>2. QED
      BY <1>15, <2>2, <3>1, StayTypes DEF ResolveCommit, ControlTypeOK, history
  <2>3. QED
    BY <1>15, <2>1, <2>2 DEF ResolveCommit
<1>16. CASE ShowCommit(t)
  BY <1>16, CheckTypes DEF ShowCommit
<1>17. CASE PersistAudit(t)
  <2>1. CASE Goto(t, "unlock") /\ UNCHANGED <<lock, locals>>
    BY <1>17, <2>1, StayTypes DEF PersistAudit, ControlTypeOK, locals, history
  <2>2. QED
    BY <1>17, <2>1, LeaveTypes DEF PersistAudit
<1>18. CASE Return(t)
  BY <1>18, LeaveTypes DEF Return
<1>19. CASE EvidenceFails(t)
  BY <1>19, LeaveTypes DEF EvidenceFails
<1>20. QED
  BY <1>3, <1>4, <1>5, <1>6, <1>7, <1>8, <1>9, <1>10, <1>11, <1>12, <1>13, <1>14, <1>15,
     <1>16, <1>17, <1>18, <1>19 DEF ExecuteStep

LEMMA NextControl ==
  ASSUME TypeOK, Next
  PROVE  ControlTypeOK'
<1> RepoTypeOK /\ ControlTypeOK
  BY TypeParts
<1>1. CASE \E t \in Task : Write(t) \/ Refuse(t)
  <2>1. PICK t \in Task : Write(t) \/ Refuse(t)
    BY <1>1
  <2>2. pc[t] \notin Inside /\ lock # t
    BY <2>1 DEF Write, Refuse, ControlTypeOK, Callable, Inside, SnapshotPlaces
  <2>3. /\ UNCHANGED <<lock, phase, seen, before, sha, disturbed, acted>>
        /\ \E place \in {"written", "refused"} : pc' = [pc EXCEPT ![t] = place]
    BY <2>1 DEF Write, Refuse, Goto, locals, history
  <2>4. PICK place \in {"written", "refused"} : pc' = [pc EXCEPT ![t] = place]
    BY <2>3
  <2>5. place \in Places /\ place \notin Inside
    BY DEF Places, Inside, Callable, SnapshotPlaces
  <2>6. pc' \in [Task -> Places] /\ \A s \in Task : pc'[s] \in Inside <=> lock = s
    BY <2>2, <2>4, <2>5 DEF ControlTypeOK
  <2>7. QED
    BY <2>3, <2>6 DEF ControlTypeOK
<1>2. CASE \E t \in Task : Execute(t)
  <2>1. PICK t \in Task : Execute(t)
    BY <1>2
  <2>2. /\ UNCHANGED <<phase, seen, before, sha, disturbed, acted>>
        /\ pc' = [pc EXCEPT ![t] = "status"] /\ lock = NoTask /\ lock' = t
    BY <2>1 DEF Execute, Goto, locals, history
  <2>3. pc' \in [Task -> Places] /\ "status" \in Inside
    BY <2>2 DEF ControlTypeOK, Places, Inside, SnapshotPlaces
  <2>4. \A s \in Task : pc'[s] \in Inside <=> lock' = s
    BY <2>2, <2>3, TaskAssumption DEF ControlTypeOK
  <2>5. disturbed' = {} /\ acted' = {}
    BY <2>2 DEF ControlTypeOK
  <2>6. QED
    BY <2>2, <2>3, <2>4, <2>5 DEF ControlTypeOK
<1>3. CASE \E t \in Task : ExecuteStep(t)
  BY <1>3, ExecuteControl
<1>4. CASE \E t \in Task : Crash(t)
  BY <1>4, LeaveTypes DEF Crash, Callable
<1>5. CASE \E o \in orphans : OrphanEnds(o)
  BY <1>5, OutsideTypes DEF OrphanEnds, Disturb, locals, history
<1>6. CASE ForeignStep
  BY <1>6, OutsideTypes DEF ForeignStep, Edit, ForeignAdd, ForeignCommit, Unstage,
    ForeignReset, Switch, Disturb, locals, history
<1>7. QED
  BY <1>1, <1>2, <1>3, <1>4, <1>5, <1>6 DEF Next

(***************************************************************************)
(* What is recorded, and what crashed executors have left.                 *)
(***************************************************************************)

LEMMA ResultTypes ==
  ASSUME ControlTypeOK, NEW t \in Task
  PROVE  ResultOf(t) \in Result
<1>1. seen[t] \in Snapshot /\ before[t] \in Point /\ sha[t] \in Nat
  BY DEF ControlTypeOK
<1>2. [branch |-> seen[t].branch, head |-> seen[t].head] \in Point
  BY <1>1 DEF Snapshot, Point
<1>3. QED
  BY <1>1, <1>2 DEF ResultOf, Result

\* Only two actions of execute() write results.
LEMMA NextOutputs ==
  ASSUME Next
  PROVE  \/ UNCHANGED <<audit, result>>
         \/ \E t \in Task : PersistAudit(t)
         \/ \E t \in Task : Return(t)
<1>1. ASSUME NEW t \in Task, ExecuteStep(t), ~PersistAudit(t), ~Return(t)
      PROVE  UNCHANGED <<audit, result>>
  <2>1. UNCHANGED outputs
    BY <1>1 DEF ExecuteStep, ReadStatus, ReadBranch, Preflight, ValidateFiles, RecheckHead,
      LaunchAdd, GitAdd, VerifyStagedTargets, VerifyStagedContents, LaunchCommit, GitCommit,
      SnapshotAfter, ResolveCommit, ShowCommit, EvidenceFails, Reading
  <2>2. QED
    BY <2>1 DEF outputs
<1>2. ASSUME NEW t \in Task, Write(t) \/ Execute(t) \/ Refuse(t) \/ Crash(t)
      PROVE  UNCHANGED <<audit, result>>
  BY <1>2 DEF Write, Execute, Refuse, Crash, outputs
<1>3. ASSUME NEW o \in orphans, OrphanEnds(o)
      PROVE  UNCHANGED <<audit, result>>
  BY <1>3 DEF OrphanEnds, Disturb, outputs
<1>4. ASSUME ForeignStep
      PROVE  UNCHANGED <<audit, result>>
  BY <1>4 DEF ForeignStep, Edit, ForeignAdd, ForeignCommit, Unstage, ForeignReset, Switch,
    Disturb, outputs
<1>5. QED
  BY <1>1, <1>2, <1>3, <1>4 DEF Next

LEMMA NextOutputTypes ==
  ASSUME TypeOK, Next
  PROVE  OutputTypeOK'
<1> ControlTypeOK /\ OutputTypeOK
  BY TypeParts
<1>1. CASE UNCHANGED <<audit, result>>
  BY <1>1 DEF OutputTypeOK
<1>2. CASE \E t \in Task : PersistAudit(t)
  BY <1>2, ResultTypes DEF PersistAudit, OutputTypeOK, outputs
<1>3. CASE \E t \in Task : Return(t)
  <2>1. PICK t \in Task : Return(t)
    BY <1>3
  <2>2. result' = [result EXCEPT ![t] = ResultOf(t)] /\ audit' = audit
    BY <2>1 DEF Return
  <2>3. ResultOf(t) \in Result
    BY ResultTypes
  <2> HIDE DEF Result, ResultOf
  <2>4. QED
    BY <2>2, <2>3 DEF OutputTypeOK
<1>4. QED
  BY <1>1, <1>2, <1>3, NextOutputs

LEMMA EventTypes ==
  ASSUME events \in 0..MaxEvents, Event
  PROVE  events' \in 0..MaxEvents
  BY BoundAssumption DEF Event

\* Orphans are left by a crash, and are told when somebody else interferes.
LEMMA DisturbTypes ==
  ASSUME NEW others, others \subseteq Orphan, Disturb(others)
  PROVE  orphans' \subseteq Orphan
<1>1. ASSUME NEW o \in others
      PROVE  [o EXCEPT !.alone = FALSE] \in Orphan
  BY <1>1 DEF Orphan
<1>2. QED
  BY <1>1 DEF Disturb

LEMMA NextEvents ==
  ASSUME TypeOK, Next
  PROVE  EventTypeOK'
<1> ControlTypeOK /\ orphans \subseteq Orphan /\ events \in 0..MaxEvents
  BY TypeParts DEF EventTypeOK
<1>1. ASSUME NEW t \in Task, ExecuteStep(t)
      PROVE  UNCHANGED <<orphans, events>>
  BY <1>1 DEF ExecuteStep, ReadStatus, ReadBranch, Preflight, ValidateFiles, RecheckHead,
    LaunchAdd, GitAdd, VerifyStagedTargets, VerifyStagedContents, LaunchCommit, GitCommit,
    SnapshotAfter, ResolveCommit, ShowCommit, PersistAudit, Return, EvidenceFails, Reading
<1>2. ASSUME NEW t \in Task, Write(t) \/ Execute(t) \/ Refuse(t)
      PROVE  UNCHANGED <<orphans, events>>
  BY <1>2 DEF Write, Execute, Refuse
<1>3. ASSUME NEW t \in Task, Crash(t)
      PROVE  EventTypeOK'
  <2> DEFINE o == [task |-> t, command |-> Command(pc[t]), alone |-> t \notin disturbed]
  <2>1. o \in Orphan
    <3>1. Command(pc[t]) \in {"add", "commit"}
      BY DEF Command
    <3>2. (t \notin disturbed) \in BOOLEAN
      OBVIOUS
    <3>3. QED
      BY <3>1, <3>2 DEF Orphan
  <2>2. orphans' \in {orphans, orphans \cup {o}} /\ Event
    BY <1>3 DEF Crash
  <2> HIDE DEF o
  <2>3. QED
    BY <2>1, <2>2, EventTypes DEF EventTypeOK
<1>4. ASSUME NEW o \in orphans, OrphanEnds(o)
      PROVE  EventTypeOK'
  <2>1. CASE Disturb(orphans \ {o}) /\ UNCHANGED events
    <3>1. orphans \ {o} \subseteq Orphan
      OBVIOUS
    <3>2. QED
      BY <2>1, <3>1, DisturbTypes DEF EventTypeOK
  <2>2. CASE orphans' = orphans \ {o} /\ UNCHANGED events
    BY <2>2 DEF EventTypeOK
  <2>3. QED
    BY <1>4, <2>1, <2>2 DEF OrphanEnds
<1>5. ASSUME ForeignStep
      PROVE  EventTypeOK'
  <2>1. Event /\ (Disturb(orphans) \/ UNCHANGED orphans)
    BY <1>5 DEF ForeignStep, Edit, ForeignAdd, ForeignCommit, Unstage, ForeignReset, Switch
  <2>2. QED
    BY <2>1, EventTypes, DisturbTypes DEF EventTypeOK
<1>6. QED
  BY <1>1, <1>2, <1>3, <1>4, <1>5 DEF Next, EventTypeOK

(***************************************************************************)
(* Type correctness, and mutual exclusion with it.                         *)
(***************************************************************************)

LEMMA InitTypes == Init => TypeOK
<1> SUFFICES ASSUME Init
             PROVE  TypeOK
  OBVIOUS
<1>1. Len(Past) \in Nat \ {0} /\ DOMAIN Past = 1..Len(Past)
      /\ \A i \in 1..Len(Past) : Past[i] \in Tree
  BY ContentAssumption
<1>2. commits \in Seq(Commit) /\ DOMAIN commits = 1..Len(Past)
      /\ \A i \in 1..Len(Past) : commits[i].tree = Past[i] /\ commits[i].parent = i - 1
  <2> DEFINE c(i) == [tree |-> Past[i], parent |-> i - 1, by |-> NoTask, alone |-> FALSE]
  <2>1. commits = [i \in 1..Len(Past) |-> c(i)]
    BY <1>1 DEF Init
  <2>2. \A i \in 1..Len(Past) : c(i) \in Commit
    BY <1>1 DEF Commit
  <2>3. \A i \in 1..Len(Past) : c(i).tree = Past[i] /\ c(i).parent = i - 1
    OBVIOUS
  <2> HIDE DEF c
  <2>4. QED
    BY <2>1, <2>2, <2>3, <1>1
<1>3. RepoTypeOK
  <2>1. HEAD = Len(Past) /\ HeadTree \in Tree
    BY <1>1, <1>2, EmptyTypes DEF Init, HEAD, HeadTree
  <2>2. \A id \in DOMAIN commits : commits[id].parent \in {0} \cup DOMAIN commits
    BY <1>1, <1>2
  <2>3. tip \in [Branch -> DOMAIN commits]
    BY <1>1, <1>2 DEF Init
  <2>4. QED
    BY <1>2, <2>1, <2>2, <2>3, EmptyTypes DEF Init, RepoTypeOK
<1>4. ControlTypeOK
  BY EmptyTypes, TaskAssumption
     DEF Init, ControlTypeOK, Places, Inside, SnapshotPlaces
<1>5. OutputTypeOK /\ EventTypeOK
  BY BoundAssumption DEF Init, OutputTypeOK, EventTypeOK
<1>6. QED
  BY <1>3, <1>4, <1>5, TypeParts

LEMMA NextTypes == TypeOK /\ [Next]_vars => TypeOK'
<1> SUFFICES ASSUME TypeOK, [Next]_vars
             PROVE  TypeOK'
  OBVIOUS
<1>1. CASE Next
  <2>1. RepoTypeOK' /\ ControlTypeOK' /\ OutputTypeOK' /\ EventTypeOK'
    BY <1>1, NextRepo, RepoStepKeeps, NextControl, NextOutputTypes, NextEvents, TypeParts
  <2>2. QED
    BY <2>1 DEF TypeOK, RepoTypeOK, ControlTypeOK, OutputTypeOK, EventTypeOK
<1>2. CASE UNCHANGED vars
  BY <1>2 DEF TypeOK, vars, repo, locals, history, outputs
<1>3. QED
  BY <1>1, <1>2

\* Whatever crashes and whoever else changes the repository, every variable has
\* its type and at most the holder of the lock is inside execute().
THEOREM TypeCorrect == Spec => []TypeOK
<1>1. Init => TypeOK
  BY InitTypes
<1>2. TypeOK /\ [Next]_vars => TypeOK'
  BY NextTypes
<1>3. QED
  BY <1>1, <1>2, PTL DEF Spec

(***************************************************************************)
(* Phases.                                                                 *)
(***************************************************************************)

\* The holder of the lock stays inside; it changes the repository only when a
\* new phase starts.
LEMMA StayPhase ==
  ASSUME TypeOK, PhaseInv, ActedInv, NEW t \in Task, pc[t] \in Inside,
         NEW place \in Inside, NEW p \in {"before", "staged", "after"}, Goto(t, place),
         phase' = [phase EXCEPT ![t] = p], Fits(place, p),
         acted' \in {acted, acted \cup {t}},
         t \in acted' => p # "before"
  PROVE  PhaseInv' /\ ActedInv'
<1> ControlTypeOK /\ lock = t
  BY TypeParts DEF ControlTypeOK
<1>1. pc' = [pc EXCEPT ![t] = place] /\ pc \in [Task -> Places]
      /\ phase \in [Task -> {"before", "staged", "after"}]
  BY DEF Goto, ControlTypeOK
<1>2. \A s \in Task : Fits(pc'[s], phase'[s])
  BY <1>1 DEF PhaseInv
<1>3. acted' \subseteq {t}
  BY DEF ControlTypeOK
<1>4. phase'[t] = p
  BY <1>1
<1>5. QED
  BY <1>2, <1>3, <1>4 DEF PhaseInv, ActedInv

LEMMA LeavePhase ==
  ASSUME TypeOK, PhaseInv, NEW t \in Task, pc[t] \in Inside, NEW outcome \in Callable,
         Leave(t, outcome)
  PROVE  PhaseInv' /\ ActedInv'
<1> ControlTypeOK /\ lock = t
  BY TypeParts DEF ControlTypeOK
<1>1. acted' = {}
  BY DEF ControlTypeOK, Leave
<1>2. pc' = [pc EXCEPT ![t] = outcome] /\ phase' = [phase EXCEPT ![t] = "before"]
  BY DEF Leave, Goto
<1>3. Fits(outcome, "before")
  BY DEF Fits, Callable, Preparing, Showing
<1>4. \A s \in Task : Fits(pc'[s], phase'[s])
  BY <1>2, <1>3 DEF PhaseInv, ControlTypeOK
<1>5. QED
  BY <1>1, <1>4 DEF PhaseInv, ActedInv

\* The holder stays inside, in the same phase.
LEMMA SamePhase ==
  ASSUME TypeOK, PhaseInv, ActedInv, NEW t \in Task, pc[t] \in Inside,
         NEW place \in Inside, Goto(t, place), UNCHANGED <<phase, acted>>,
         Fits(place, phase[t])
  PROVE  PhaseInv' /\ ActedInv'
<1>1. phase \in [Task -> {"before", "staged", "after"}]
  BY TypeParts DEF ControlTypeOK
<1>2. phase' = [phase EXCEPT ![t] = phase[t]] /\ phase[t] \in {"before", "staged", "after"}
  BY <1>1
<1>3. t \in acted' => phase[t] # "before"
  BY DEF ActedInv
<1>4. QED
  BY <1>2, <1>3, StayPhase

LEMMA CheckPhase ==
  ASSUME TypeOK, PhaseInv, ActedInv, NEW t \in Task, pc[t] \in Inside, NEW guard,
         NEW place \in Inside, NEW outcome \in Callable, Check(t, guard, place, outcome),
         Fits(place, phase[t])
  PROVE  PhaseInv' /\ ActedInv'
<1>1. CASE guard
  BY <1>1, SamePhase DEF Check, locals, history
<1>2. CASE ~guard
  BY <1>2, LeavePhase DEF Check
<1>3. QED
  BY <1>1, <1>2

LEMMA ExecutePhase ==
  ASSUME TypeOK, PhaseInv, ActedInv, NEW t \in Task, ExecuteStep(t)
  PROVE  PhaseInv' /\ ActedInv'
<1> USE DEF Inside, SnapshotPlaces, Callable
<1>1. Fits(pc[t], phase[t])
  BY DEF PhaseInv
<1> USE DEF Fits, Preparing, Showing
<1>3. CASE ReadStatus(t)
  BY <1>1, <1>3, SamePhase DEF ReadStatus, history
<1>4. CASE ReadBranch(t)
  BY <1>1, <1>4, SamePhase DEF ReadBranch, history
<1>5. CASE Preflight(t)
  BY <1>1, <1>5, SamePhase, LeavePhase DEF Preflight, history
<1>6. CASE ValidateFiles(t)
  BY <1>1, <1>6, CheckPhase DEF ValidateFiles
<1>7. CASE RecheckHead(t)
  BY <1>1, <1>7, CheckPhase DEF RecheckHead
<1>8. CASE LaunchAdd(t)
  BY <1>1, <1>8, SamePhase, LeavePhase DEF LaunchAdd, locals, history
<1>9. CASE GitAdd(t)
  BY <1>9, StayPhase DEF GitAdd
<1>10. CASE VerifyStagedTargets(t)
  BY <1>1, <1>10, CheckPhase DEF VerifyStagedTargets
<1>11. CASE VerifyStagedContents(t)
  BY <1>1, <1>11, CheckPhase DEF VerifyStagedContents
<1>12. CASE LaunchCommit(t)
  BY <1>1, <1>12, SamePhase, LeavePhase DEF LaunchCommit, locals, history
<1>13. CASE GitCommit(t)
  <2>1. CASE Leave(t, "failed")
    BY <1>13, <2>1, LeavePhase DEF GitCommit
  <2>2. CASE /\ phase' = [phase EXCEPT ![t] = "after"]
             /\ Goto(t, "status")
             /\ acted' = acted \cup {t}
    BY <1>13, <2>2, StayPhase DEF GitCommit
  <2>3. QED
    BY <1>13, <2>1, <2>2 DEF GitCommit
<1>14. CASE SnapshotAfter(t)
  BY <1>1, <1>14, SamePhase DEF SnapshotAfter, history
<1>15. CASE ResolveCommit(t)
  BY <1>1, <1>15, SamePhase, LeavePhase DEF ResolveCommit, history
<1>16. CASE ShowCommit(t)
  BY <1>1, <1>16, CheckPhase DEF ShowCommit
<1>17. CASE PersistAudit(t)
  BY <1>1, <1>17, SamePhase, LeavePhase DEF PersistAudit, locals, history
<1>18. CASE Return(t)
  BY <1>18, LeavePhase DEF Return
<1>19. CASE EvidenceFails(t)
  BY <1>19, LeavePhase DEF EvidenceFails
<1>20. QED
  BY <1>3, <1>4, <1>5, <1>6, <1>7, <1>8, <1>9, <1>10, <1>11, <1>12, <1>13, <1>14, <1>15,
     <1>16, <1>17, <1>18, <1>19 DEF ExecuteStep

LEMMA NextPhase ==
  ASSUME TypeOK, PhaseInv, ActedInv, Next
  PROVE  PhaseInv' /\ ActedInv'
<1> ControlTypeOK
  BY TypeParts
<1>1. CASE \E t \in Task : Write(t) \/ Refuse(t) \/ Execute(t)
  <2>1. PICK t \in Task : Write(t) \/ Refuse(t) \/ Execute(t)
    BY <1>1
  <2>2. /\ pc[t] \in Callable \cup {"idle"} /\ UNCHANGED <<phase, acted>>
        /\ \E place \in {"written", "refused", "status"} : pc' = [pc EXCEPT ![t] = place]
    BY <2>1 DEF Write, Refuse, Execute, Goto, locals, history
  <2>3. PICK place \in {"written", "refused", "status"} : pc' = [pc EXCEPT ![t] = place]
    BY <2>2
  <2>4. phase[t] = "before"
    BY <2>2 DEF PhaseInv, Fits, Callable, Inside, SnapshotPlaces
  <2>5. Fits(place, "before")
    BY DEF Fits, Preparing, Showing
  <2>6. \A s \in Task : Fits(pc'[s], phase'[s])
    BY <2>2, <2>3, <2>4, <2>5 DEF PhaseInv, ControlTypeOK
  <2>7. QED
    BY <2>2, <2>6 DEF PhaseInv, ActedInv
<1>2. CASE \E t \in Task : ExecuteStep(t)
  BY <1>2, ExecutePhase
<1>3. CASE \E t \in Task : Crash(t)
  BY <1>3, LeavePhase DEF Crash, Callable
<1>4. CASE \E o \in orphans : OrphanEnds(o)
  <2>1. UNCHANGED <<pc, phase, acted>>
    BY <1>4 DEF OrphanEnds, Disturb, locals, history
  <2>2. QED
    BY <2>1 DEF PhaseInv, ActedInv
<1>5. CASE ForeignStep
  <2>1. UNCHANGED <<pc, phase, acted>>
    BY <1>5 DEF ForeignStep, Edit, ForeignAdd, ForeignCommit, Unstage, ForeignReset, Switch,
      Disturb, locals, history
  <2>2. QED
    BY <2>1 DEF PhaseInv, ActedInv
<1>6. QED
  BY <1>1, <1>2, <1>3, <1>4, <1>5 DEF Next

(***************************************************************************)
(* What the holder of the lock may rely on.                                *)
(***************************************************************************)

\* With the lock free, there is no holder.
LEMMA NoHolder ==
  ASSUME lock' = NoTask
  PROVE  HolderInv'
  BY TaskAssumption DEF HolderInv

LEMMA OneHolder ==
  ASSUME NEW t \in Task, lock' = t, OrderInv(t)',
         t \notin disturbed' => IndexInv(t)' /\ HeadInv(t)'
  PROVE  HolderInv'
  BY DEF HolderInv

\* What does not change when the index and the history do not.
LEMMA SameRepo ==
  ASSUME UNCHANGED <<index, commits, tip, branch>>
  PROVE  /\ HEAD' = HEAD /\ HeadTree' = HeadTree
         /\ \A id : PathsOf(id)' = PathsOf(id)
         /\ \A t \in Task : Ready(t)' <=> Ready(t)
<1>1. HEAD' = HEAD
  BY DEF HEAD
<1>2. HeadTree' = HeadTree
  BY <1>1 DEF HeadTree
<1>3. \A id : PathsOf(id)' = PathsOf(id)
  BY DEF PathsOf
<1>4. \A t \in Task : Ready(t)' <=> Ready(t)
  BY <1>2 DEF Ready
<1>5. QED
  BY <1>1, <1>2, <1>3, <1>4

\* Steps of others keep it, or disturb the holder.
LEMMA OthersKeepHolder ==
  ASSUME TypeOK, HolderInv, NEW t \in Task, lock = t, lock' = t,
         pc'[t] = pc[t], UNCHANGED <<phase, seen, before, sha, audit, result>>, Grows,
         \/ UNCHANGED <<index, commits, tip, branch, disturbed>>
         \/ t \in disturbed'
  PROVE  HolderInv'
<1>1. OrderInv(t) /\ (t \notin disturbed => IndexInv(t) /\ HeadInv(t))
  BY DEF HolderInv
<1>2. OrderInv(t)'
  <2>1. pc[t] \in Showing => sha[t] \in DOMAIN commits'
    BY <1>1 DEF OrderInv, Grows
  <2>2. pc[t] \in {"audit", "unlock"} => PathsOf(sha[t])' = Targets(t)
    <3>1. ASSUME pc[t] \in {"audit", "unlock"}
          PROVE  PathsOf(sha[t])' = Targets(t)
      <4>1. sha[t] \in DOMAIN commits /\ PathsOf(sha[t]) = Targets(t)
        BY <1>1, <3>1 DEF OrderInv, Showing
      <4>2. \A id \in DOMAIN commits : PathsOf(id)' = PathsOf(id)
        BY DEF Grows
      <4>3. QED
        BY <4>1, <4>2 DEF PathsOf
    <3>2. QED
      BY <3>1
  <2>3. QED
    BY <1>1, <2>1, <2>2 DEF OrderInv
<1>3. ASSUME t \notin disturbed'
      PROVE  IndexInv(t)' /\ HeadInv(t)'
  <2>1. UNCHANGED <<index, commits, tip, branch, disturbed>>
    BY <1>3
  <2>2. HEAD' = HEAD /\ HeadTree' = HeadTree /\ (Ready(t)' <=> Ready(t))
    BY <2>1, SameRepo
  <2>3. IndexInv(t) /\ HeadInv(t)
    BY <1>1, <1>3, <2>1
  <2>4. QED
    BY <2>1, <2>2, <2>3 DEF IndexInv, HeadInv
<1>4. QED
  BY <1>2, <1>3, OneHolder

\* What a step of the holder that only reads has before and after it.
LEMMA ReadingHolder ==
  ASSUME TypeOK, PhaseInv, HolderInv, NEW t \in Task, pc[t] \in Inside, lock' = lock,
         NEW place, Goto(t, place), UNCHANGED <<repo, disturbed, result>>
  PROVE  /\ lock = t /\ lock' = t /\ pc'[t] = place /\ Fits(pc[t], phase[t])
         /\ HEAD' = HEAD /\ HeadTree' = HeadTree /\ index' = index /\ branch' = branch
         /\ commits' = commits /\ (Ready(t)' <=> Ready(t))
         /\ disturbed' = disturbed /\ result' = result
         /\ \A id : PathsOf(id)' = PathsOf(id)
         /\ OrderInv(t)
         /\ t \notin disturbed => IndexInv(t) /\ HeadInv(t)
<1>1. lock = t /\ pc'[t] = place
  BY TypeParts DEF ControlTypeOK, Goto
<1>2. UNCHANGED <<worktree, index, commits, tip, branch>>
  BY DEF repo
<1>3. OrderInv(t) /\ (t \notin disturbed => IndexInv(t) /\ HeadInv(t))
  BY <1>1 DEF HolderInv
<1>4. QED
  BY <1>1, <1>2, <1>3, SameRepo DEF PhaseInv

\* snapshot() learns what is staged, which branch is checked out, and HEAD.
LEMMA ReadStatusHolder ==
  ASSUME TypeOK, PhaseInv, HolderInv, NEW t \in Task, ReadStatus(t)
  PROVE  HolderInv'
<1>1. /\ pc[t] = "status" /\ lock' = lock /\ Goto(t, "branch")
      /\ UNCHANGED <<repo, disturbed, result, phase, before, sha>>
  BY DEF ReadStatus, Reading, history, outputs
<1>2. /\ lock = t /\ lock' = t /\ pc'[t] = "branch"
      /\ HEAD' = HEAD /\ HeadTree' = HeadTree /\ index' = index /\ branch' = branch
      /\ commits' = commits /\ disturbed' = disturbed
      /\ OrderInv(t)
      /\ t \notin disturbed => IndexInv(t) /\ HeadInv(t)
  BY <1>1, ReadingHolder DEF Inside, SnapshotPlaces
<1>3. seen'[t].staged = Staged
  <2>1. seen' = [seen EXCEPT ![t] = [NoSnapshot EXCEPT !.staged = Staged, !.changed = Changed]]
    BY DEF ReadStatus
  <2> HIDE DEF Staged, Changed
  <2>2. [NoSnapshot EXCEPT !.staged = Staged, !.changed = Changed].staged = Staged
    BY DEF NoSnapshot
  <2>3. QED
    BY <2>1, <2>2, TypeParts DEF ControlTypeOK
<1>4. OrderInv(t)'
  BY <1>1, <1>2 DEF OrderInv, Preparing, Showing
<1>5. ASSUME t \notin disturbed'
      PROVE  IndexInv(t)'
  <2>1. Staged = {} => index = HeadTree
    <3>1. index \in Tree /\ HeadTree \in Tree
      BY TypeParts, HeadTypes DEF RepoTypeOK
    <3>2. QED
      BY <3>1 DEF Staged, Tree
  <2>2. \A f \in Staged : index[f] # HeadTree[f] \/ index[f] = NoFile
    BY DEF Staged
  <2>3. phase[t] = "staged" => \A f \in File \ Targets(t) : index[f] = HeadTree[f]
    BY <1>2, <1>5 DEF IndexInv
  <2> HIDE DEF Staged
  <2>4. QED
    BY <1>1, <1>2, <1>3, <2>1, <2>2, <2>3 DEF IndexInv, Preparing
<1>6. ASSUME t \notin disturbed'
      PROVE  HeadInv(t)'
  BY <1>1, <1>2, <1>6 DEF HeadInv, Preparing, Showing
<1>7. QED
  BY <1>2, <1>4, <1>5, <1>6, OneHolder

LEMMA ReadBranchHolder ==
  ASSUME TypeOK, PhaseInv, HolderInv, NEW t \in Task, ReadBranch(t)
  PROVE  HolderInv'
<1>1. /\ pc[t] = "branch" /\ lock' = lock /\ Goto(t, "head")
      /\ UNCHANGED <<repo, disturbed, result, phase, before, sha>>
  BY DEF ReadBranch, Reading, history, outputs
<1>2. /\ lock = t /\ lock' = t /\ pc'[t] = "head"
      /\ HEAD' = HEAD /\ HeadTree' = HeadTree /\ index' = index /\ branch' = branch
      /\ commits' = commits /\ disturbed' = disturbed
      /\ OrderInv(t)
      /\ t \notin disturbed => IndexInv(t) /\ HeadInv(t)
  BY <1>1, ReadingHolder DEF Inside, SnapshotPlaces
<1>3. seen'[t].staged = seen[t].staged /\ seen'[t].branch = branch
  <2>1. seen' = [seen EXCEPT ![t] = [seen[t] EXCEPT !.branch = branch]]
    BY DEF ReadBranch
  <2>2. seen \in [Task -> Snapshot] /\ seen[t] \in Snapshot
    BY TypeParts DEF ControlTypeOK
  <2>3. seen'[t] = [seen[t] EXCEPT !.branch = branch]
    BY <2>1, <2>2
  <2>4. QED
    BY <2>2, <2>3 DEF Snapshot
<1>4. OrderInv(t)'
  BY <1>1, <1>2 DEF OrderInv, Preparing, Showing
<1>5. ASSUME t \notin disturbed'
      PROVE  IndexInv(t)'
  BY <1>1, <1>2, <1>3, <1>5 DEF IndexInv, Preparing
<1>6. ASSUME t \notin disturbed'
      PROVE  HeadInv(t)'
  BY <1>1, <1>2, <1>3, <1>6 DEF HeadInv, Preparing, Showing
<1>7. QED
  BY <1>2, <1>4, <1>5, <1>6, OneHolder

LEMMA PreflightHolder ==
  ASSUME TypeOK, PhaseInv, HolderInv, NEW t \in Task, Preflight(t)
  PROVE  HolderInv'
<1>1. CASE seen[t].staged = {} /\ seen[t].changed \subseteq Targets(t)
  <2>1. /\ pc[t] = "head" /\ phase[t] = "before" /\ lock' = lock /\ Goto(t, "files")
        /\ UNCHANGED <<repo, disturbed, result, phase, seen, sha>>
    BY <1>1 DEF Preflight, Reading, history, outputs
  <2>2. /\ lock = t /\ lock' = t /\ pc'[t] = "files"
        /\ HEAD' = HEAD /\ HeadTree' = HeadTree /\ index' = index /\ branch' = branch
        /\ commits' = commits /\ disturbed' = disturbed
        /\ OrderInv(t)
        /\ t \notin disturbed => IndexInv(t) /\ HeadInv(t)
    BY <2>1, ReadingHolder DEF Inside, SnapshotPlaces
  <2>3. before'[t] = [branch |-> seen[t].branch, head |-> HEAD]
    <3>1. before' = [before EXCEPT ![t] = [branch |-> seen[t].branch, head |-> HEAD]]
      BY <1>1 DEF Preflight
    <3>2. QED
      BY <3>1, TypeParts DEF ControlTypeOK
  <2>4. HEAD \in Nat
    BY TypeParts, HeadTypes
  <2>5. OrderInv(t)'
    BY <2>1, <2>2, <2>3, <2>4 DEF OrderInv, Preparing, Showing
  <2>6. ASSUME t \notin disturbed'
        PROVE  IndexInv(t)'
    BY <1>1, <2>1, <2>2, <2>6 DEF IndexInv, Preparing
  <2>7. ASSUME t \notin disturbed'
        PROVE  HeadInv(t)'
    BY <2>1, <2>2, <2>3, <2>7 DEF HeadInv, Preparing, Showing
  <2>8. QED
    BY <2>2, <2>5, <2>6, <2>7, OneHolder
<1>2. QED
  BY <1>1, NoHolder DEF Preflight, Leave

\* The steps from the preflight to git add keep what the preflight has found.
LEMMA PreparingHolder ==
  ASSUME TypeOK, PhaseInv, HolderInv, NEW t \in Task, pc[t] \in Preparing,
         NEW place \in Preparing, Goto(t, place), UNCHANGED <<lock, repo, locals, outputs>>
  PROVE  HolderInv'
<1>1. pc[t] \in Inside /\ UNCHANGED <<lock, repo, phase, seen, before, sha, disturbed, result>>
  BY DEF Preparing, Inside, SnapshotPlaces, locals, history, outputs
<1>2. /\ lock = t /\ lock' = t /\ pc'[t] = place /\ Fits(pc[t], phase[t])
      /\ HEAD' = HEAD /\ HeadTree' = HeadTree /\ index' = index /\ branch' = branch
      /\ commits' = commits /\ disturbed' = disturbed
      /\ OrderInv(t)
      /\ t \notin disturbed => IndexInv(t) /\ HeadInv(t)
  BY <1>1, ReadingHolder
<1>3. phase[t] = "before"
  BY <1>2 DEF Fits
<1>4. OrderInv(t)'
  BY <1>1, <1>2, <1>3 DEF OrderInv, Preparing, Showing
<1>5. ASSUME t \notin disturbed'
      PROVE  IndexInv(t)'
  BY <1>1, <1>2, <1>3, <1>5 DEF IndexInv, Preparing
<1>6. ASSUME t \notin disturbed'
      PROVE  HeadInv(t)'
  BY <1>1, <1>2, <1>3, <1>6 DEF HeadInv, Preparing, Showing
<1>7. QED
  BY <1>2, <1>4, <1>5, <1>6, OneHolder

\* git add starts the next phase, with nothing but targets staged.
LEMMA GitAddHolder ==
  ASSUME TypeOK, PhaseInv, HolderInv, NEW t \in Task, GitAdd(t)
  PROVE  HolderInv'
<1>1. /\ pc[t] = "adding" /\ pc' = [pc EXCEPT ![t] = "status"]
      /\ UNCHANGED <<lock, seen, before, sha, disturbed, result>>
      /\ phase' = [phase EXCEPT ![t] = "staged"]
      /\ UNCHANGED <<commits, tip, branch>>
      /\ \A f \in File \ Targets(t) : index'[f] = index[f]
  <2>1. GitAdd(t)
    OBVIOUS
  <2>2. Add(t) \/ UNCHANGED repo
    BY <2>1 DEF GitAdd
  <2>3. CASE Add(t)
    BY <2>3, <2>1 DEF GitAdd, Add, Goto, outputs
  <2>4. CASE UNCHANGED repo
    BY <2>4, <2>1 DEF GitAdd, repo, Goto, outputs
  <2>5. QED
    BY <2>2, <2>3, <2>4
<1>2. ControlTypeOK
  BY TypeParts
<1>3. pc[t] \in Inside /\ lock = t /\ lock' = t
  BY <1>1, <1>2 DEF Inside, ControlTypeOK
<1>4. pc'[t] = "status" /\ phase'[t] = "staged"
  BY <1>1, <1>2 DEF ControlTypeOK
<1>5. OrderInv(t) /\ (t \notin disturbed => IndexInv(t) /\ HeadInv(t))
  BY <1>3 DEF HolderInv
<1>6. HEAD' = HEAD
  BY <1>1 DEF HEAD
<1>7. HeadTree' = HeadTree
  BY <1>1, <1>6 DEF HeadTree
<1>8. OrderInv(t)'
  BY <1>1, <1>4, <1>5, <1>6 DEF OrderInv, Preparing, Showing
<1>9. ASSUME t \notin disturbed'
      PROVE  IndexInv(t)'
  <2>1. index = HeadTree
    BY <1>1, <1>5, <1>9 DEF IndexInv, Preparing
  <2>2. \A f \in File \ Targets(t) : index'[f] = HeadTree'[f]
    BY <1>1, <1>7, <2>1
  <2>3. QED
    BY <1>4, <2>2 DEF IndexInv, Preparing
<1>10. ASSUME t \notin disturbed'
       PROVE  HeadInv(t)'
  <2>1. before[t] = [branch |-> branch, head |-> HEAD]
    BY <1>1, <1>5, <1>10 DEF HeadInv, Preparing
  <2>2. QED
    BY <1>1, <1>4, <1>6, <2>1 DEF HeadInv, Preparing, Showing
<1>11. QED
  BY <1>3, <1>8, <1>9, <1>10, OneHolder

\* The two verifications after git add establish that the index is ready.
LEMMA VerifyStagedHolder ==
  ASSUME TypeOK, PhaseInv, HolderInv, NEW t \in Task,
         \/ VerifyStagedTargets(t) \/ VerifyStagedContents(t) \/ LaunchCommit(t)
  PROVE  HolderInv'
<1>1. CASE lock' = NoTask
  BY <1>1, NoHolder
<1>2. CASE lock' # NoTask
  <2>1. UNCHANGED <<lock, repo, locals, outputs>>
    BY <1>2 DEF VerifyStagedTargets, VerifyStagedContents, LaunchCommit, Check, Leave, Reading
  <2>2. \/ /\ pc[t] = "head" /\ phase[t] = "staged" /\ Goto(t, "evidence")
           /\ seen[t].staged = Targets(t)
        \/ /\ pc[t] = "evidence" /\ Goto(t, "commit")
           /\ \A f \in Targets(t) : index[f] = Change[t][f]
        \/ pc[t] = "commit" /\ Goto(t, "committing")
    BY <1>2 DEF VerifyStagedTargets, VerifyStagedContents, LaunchCommit, Check, Leave
  <2>3. PICK place \in {"evidence", "commit", "committing"} : Goto(t, place)
    BY <2>2
  <2>4. pc[t] \in Inside
        /\ UNCHANGED <<lock, repo, phase, seen, before, sha, disturbed, result>>
    BY <2>1, <2>2 DEF Inside, SnapshotPlaces, locals, history, outputs
  <2>5. /\ lock = t /\ lock' = t /\ pc'[t] = place /\ Fits(pc[t], phase[t])
        /\ HEAD' = HEAD /\ HeadTree' = HeadTree /\ index' = index /\ branch' = branch
        /\ commits' = commits /\ (Ready(t)' <=> Ready(t)) /\ disturbed' = disturbed
        /\ OrderInv(t)
        /\ t \notin disturbed => IndexInv(t) /\ HeadInv(t)
    BY <2>3, <2>4, ReadingHolder
  <2>6. phase[t] = "staged"
    BY <2>2, <2>5 DEF Fits
  <2>7. OrderInv(t)'
    BY <2>4, <2>5, <2>6 DEF OrderInv, Preparing, Showing
  <2>8. ASSUME t \notin disturbed'
        PROVE  IndexInv(t)'
    <3>1. IndexInv(t)
      BY <2>5, <2>8
    <3>2. \A f \in File \ Targets(t) : index[f] = HeadTree[f]
      BY <2>6, <3>1 DEF IndexInv
    <3>3. \/ pc'[t] = "evidence" /\ \A f \in Targets(t) : index[f] # HeadTree[f] \/ index[f] = NoFile
          \/ pc'[t] \in {"commit", "committing"} /\ Ready(t)
      <4>1. CASE /\ pc[t] = "head" /\ phase[t] = "staged" /\ Goto(t, "evidence")
                 /\ seen[t].staged = Targets(t)
        BY <4>1, <3>1, TypeParts DEF IndexInv, Goto, ControlTypeOK
      <4>2. CASE /\ pc[t] = "evidence" /\ Goto(t, "commit")
                 /\ \A f \in Targets(t) : index[f] = Change[t][f]
        <5>1. \A f \in Targets(t) : index[f] # HeadTree[f] \/ index[f] = NoFile
          BY <4>2, <3>1 DEF IndexInv
        <5>2. \A f \in Targets(t) : Change[t][f] # NoFile
          BY ChangeTypes
        <5>3. Ready(t)
          BY <3>2, <4>2, <5>1, <5>2 DEF Ready
        <5>4. QED
          BY <4>2, <5>3, TypeParts DEF Goto, ControlTypeOK
      <4>3. CASE pc[t] = "commit" /\ Goto(t, "committing")
        BY <4>3, <3>1, TypeParts DEF IndexInv, Goto, ControlTypeOK
      <4>4. QED
        BY <2>2, <4>1, <4>2, <4>3
    <3>4. QED
      BY <2>4, <2>5, <2>6, <3>2, <3>3 DEF IndexInv, Preparing
  <2>9. ASSUME t \notin disturbed'
        PROVE  HeadInv(t)'
    BY <2>4, <2>5, <2>6, <2>9 DEF HeadInv, Preparing, Showing
  <2>10. QED
    BY <2>5, <2>7, <2>8, <2>9, OneHolder
<1>3. QED
  BY <1>1, <1>2

\* A commit that its executor goes on from is HEAD, right after the preflight's, and
\* newer than that and than any result.
LEMMA GitCommitHolder ==
  ASSUME TypeOK, PhaseInv, HolderInv, RecordInv, NEW t \in Task, GitCommit(t)
  PROVE  HolderInv'
<1>1. CASE Leave(t, "failed")
  BY <1>1, NoHolder DEF Leave
<1>2. CASE ~Leave(t, "failed")
  <2>1. /\ pc[t] = "committing" /\ pc' = [pc EXCEPT ![t] = "status"]
        /\ CommitIndex(t, t \notin disturbed)
        /\ phase' = [phase EXCEPT ![t] = "after"]
        /\ UNCHANGED <<lock, seen, before, sha, disturbed, result>>
    BY <1>2 DEF GitCommit, Goto, outputs
  <2>2. ControlTypeOK /\ RepoTypeOK
    BY TypeParts
  <2>3. pc[t] \in Inside /\ lock = t /\ lock' = t
    BY <2>1, <2>2 DEF Inside, ControlTypeOK
  <2>4. pc'[t] = "status" /\ phase'[t] = "after"
    BY <2>1, <2>2 DEF ControlTypeOK
  <2>5. /\ OrderInv(t) /\ (t \notin disturbed => IndexInv(t) /\ HeadInv(t))
        /\ Fits(pc[t], phase[t])
    BY <2>3 DEF HolderInv, PhaseInv
  <2>6. phase[t] = "staged"
    BY <2>1, <2>5 DEF Fits
  <2>7. /\ HEAD' = Len(commits) + 1 /\ branch' = branch
        /\ commits'[HEAD'] = [tree |-> index, parent |-> HEAD, by |-> t,
                              alone |-> t \notin disturbed]
    <3>1. (t \notin disturbed) \in BOOLEAN
      OBVIOUS
    <3>2. QED
      BY <2>1, <2>2, <3>1, CommitStep
  <2>8. before'[t] = before[t] /\ before[t].head \in Nat
    BY <2>1, <2>2 DEF ControlTypeOK, Point
  <2>9. OrderInv(t)'
    BY <2>4 DEF OrderInv, Showing
  <2>10. ASSUME t \notin disturbed'
         PROVE  IndexInv(t)'
    BY <2>4 DEF IndexInv, Preparing
  <2>11. ASSUME t \notin disturbed'
         PROVE  HeadInv(t)'
    <3>1. before[t] = [branch |-> branch, head |-> HEAD]
      BY <2>1, <2>5, <2>6, <2>11 DEF HeadInv
    <3>2. /\ before'[t].branch = branch' /\ commits'[HEAD'].by = t
          /\ commits'[HEAD'].parent = before'[t].head
      BY <2>7, <2>8, <3>1
    <3>3. HEAD \in 1..Len(commits) /\ Len(commits) \in Nat /\ DOMAIN commits = 1..Len(commits)
      BY <2>2, HeadTypes
    <3>4. before'[t].head < HEAD'
      BY <2>7, <2>8, <3>1, <3>3
    <3>5. \A s \in Task : result[s] # NoResult => result[s].sha \in 1..Len(commits)
      BY <3>3 DEF RecordInv
    <3>6. \A s \in Task : result'[s] # NoResult => result'[s].sha <= HEAD'
      BY <2>1, <2>7, <3>3, <3>5
    <3>7. QED
      BY <2>4, <3>2, <3>4, <3>6 DEF HeadInv, Preparing, Showing
  <2>12. QED
    BY <2>3, <2>9, <2>10, <2>11, OneHolder
<1>3. QED
  BY <1>1, <1>2

LEMMA SnapshotAfterHolder ==
  ASSUME TypeOK, PhaseInv, HolderInv, NEW t \in Task, SnapshotAfter(t)
  PROVE  HolderInv'
<1>1. /\ pc[t] = "head" /\ phase[t] = "after" /\ lock' = lock /\ Goto(t, "resolve")
      /\ UNCHANGED <<repo, disturbed, result, phase, before, sha>>
  BY DEF SnapshotAfter, Reading, history, outputs
<1>2. /\ lock = t /\ lock' = t /\ pc'[t] = "resolve"
      /\ HEAD' = HEAD /\ HeadTree' = HeadTree /\ index' = index /\ branch' = branch
      /\ commits' = commits /\ disturbed' = disturbed
      /\ OrderInv(t)
      /\ t \notin disturbed => IndexInv(t) /\ HeadInv(t)
  BY <1>1, ReadingHolder DEF Inside, SnapshotPlaces
<1>3. seen'[t].branch = seen[t].branch
  <2>1. seen' = [seen EXCEPT ![t] = [seen[t] EXCEPT !.head = HEAD]]
    BY DEF SnapshotAfter
  <2>2. seen \in [Task -> Snapshot] /\ seen[t] \in Snapshot
    BY TypeParts DEF ControlTypeOK
  <2>3. seen'[t] = [seen[t] EXCEPT !.head = HEAD]
    BY <2>1, <2>2
  <2>4. QED
    BY <2>2, <2>3 DEF Snapshot
<1>4. OrderInv(t)'
  BY <1>1, <1>2 DEF OrderInv, Preparing, Showing
<1>5. ASSUME t \notin disturbed'
      PROVE  IndexInv(t)'
  BY <1>1, <1>2 DEF IndexInv, Preparing
<1>6. ASSUME t \notin disturbed'
      PROVE  HeadInv(t)'
  BY <1>1, <1>2, <1>3, <1>6 DEF HeadInv, Preparing, Showing
<1>7. QED
  BY <1>2, <1>4, <1>5, <1>6, OneHolder

\* commit_sha is HEAD.
LEMMA ResolveHolder ==
  ASSUME TypeOK, PhaseInv, HolderInv, NEW t \in Task, ResolveCommit(t)
  PROVE  HolderInv'
<1>1. CASE Leave(t, "failed")
  BY <1>1, NoHolder DEF Leave
<1>2. CASE ~Leave(t, "failed")
  <2>1. /\ pc[t] = "resolve" /\ lock' = lock /\ Goto(t, "show")
        /\ UNCHANGED <<repo, disturbed, result, phase, seen, before>>
        /\ sha' = [sha EXCEPT ![t] = HEAD]
    BY <1>2 DEF ResolveCommit, Reading, history, outputs
  <2>2. /\ lock = t /\ lock' = t /\ pc'[t] = "show" /\ Fits(pc[t], phase[t])
        /\ HEAD' = HEAD /\ HeadTree' = HeadTree /\ index' = index /\ branch' = branch
        /\ commits' = commits /\ disturbed' = disturbed /\ result' = result
        /\ OrderInv(t)
        /\ t \notin disturbed => IndexInv(t) /\ HeadInv(t)
    BY <2>1, ReadingHolder DEF Inside, SnapshotPlaces
  <2>3. phase[t] = "after"
    BY <2>1, <2>2 DEF Fits
  <2>4. sha'[t] = HEAD
    BY <2>1, TypeParts DEF ControlTypeOK
  <2>5. HEAD \in DOMAIN commits
    BY TypeParts, HeadTypes
  <2>6. OrderInv(t)'
    BY <2>2, <2>4, <2>5 DEF OrderInv
  <2>7. ASSUME t \notin disturbed'
        PROVE  IndexInv(t)'
    BY <2>1, <2>2, <2>3 DEF IndexInv, Preparing
  <2>8. ASSUME t \notin disturbed'
        PROVE  HeadInv(t)'
    BY <2>1, <2>2, <2>3, <2>4, <2>8 DEF HeadInv, Preparing, Showing
  <2>9. QED
    BY <2>2, <2>6, <2>7, <2>8, OneHolder
<1>3. QED
  BY <1>1, <1>2

LEMMA ShowHolder ==
  ASSUME TypeOK, PhaseInv, HolderInv, NEW t \in Task, ShowCommit(t)
  PROVE  HolderInv'
<1>1. CASE PathsOf(sha[t]) = Targets(t)
  <2>1. /\ pc[t] = "show" /\ lock' = lock /\ Goto(t, "audit")
        /\ UNCHANGED <<repo, disturbed, result, phase, seen, before, sha>>
    BY <1>1 DEF ShowCommit, Check, Reading, locals, history, outputs
  <2>2. /\ lock = t /\ lock' = t /\ pc'[t] = "audit" /\ Fits(pc[t], phase[t])
        /\ HEAD' = HEAD /\ HeadTree' = HeadTree /\ index' = index /\ branch' = branch
        /\ commits' = commits /\ disturbed' = disturbed /\ result' = result
        /\ \A id : PathsOf(id)' = PathsOf(id)
        /\ OrderInv(t)
        /\ t \notin disturbed => IndexInv(t) /\ HeadInv(t)
    BY <2>1, ReadingHolder DEF Inside, SnapshotPlaces
  <2>3. phase[t] = "after"
    BY <2>1, <2>2 DEF Fits, Showing
  <2>4. PathsOf(sha[t])' = Targets(t)
    <3>1. sha'[t] = sha[t] /\ commits' = commits
      BY <2>1, <2>2
    <3>2. QED
      BY <1>1, <3>1 DEF PathsOf
  <2>5. OrderInv(t)'
    BY <2>1, <2>2, <2>3, <2>4 DEF OrderInv, Preparing, Showing
  <2>6. ASSUME t \notin disturbed'
        PROVE  IndexInv(t)'
    BY <2>1, <2>2, <2>3 DEF IndexInv, Preparing
  <2>7. ASSUME t \notin disturbed'
        PROVE  HeadInv(t)'
    BY <2>1, <2>2, <2>3, <2>7 DEF HeadInv, Preparing, Showing
  <2>8. QED
    BY <2>2, <2>5, <2>6, <2>7, OneHolder
<1>2. CASE PathsOf(sha[t]) # Targets(t)
  BY <1>2, NoHolder DEF ShowCommit, Check, Leave
<1>3. QED
  BY <1>1, <1>2

LEMMA PersistHolder ==
  ASSUME TypeOK, PhaseInv, HolderInv, NEW t \in Task, PersistAudit(t)
  PROVE  HolderInv'
<1>1. CASE Leave(t, "failed")
  BY <1>1, NoHolder DEF Leave
<1>2. CASE ~Leave(t, "failed")
  <2>1. /\ pc[t] = "audit" /\ lock' = lock /\ Goto(t, "unlock") /\ audit' = ResultOf(t)
        /\ UNCHANGED <<repo, disturbed, result, phase, seen, before, sha>>
    BY <1>2 DEF PersistAudit, locals, history
  <2>2. /\ lock = t /\ lock' = t /\ pc'[t] = "unlock" /\ Fits(pc[t], phase[t])
        /\ HEAD' = HEAD /\ HeadTree' = HeadTree /\ index' = index /\ branch' = branch
        /\ commits' = commits /\ disturbed' = disturbed /\ result' = result
        /\ OrderInv(t)
        /\ t \notin disturbed => IndexInv(t) /\ HeadInv(t)
    BY <2>1, ReadingHolder DEF Inside, SnapshotPlaces
  <2>3. phase[t] = "after"
    BY <2>1, <2>2 DEF Fits, Showing
  <2>4. PathsOf(sha[t])' = Targets(t)
    <3>1. PathsOf(sha[t]) = Targets(t)
      BY <2>1, <2>2 DEF OrderInv
    <3>2. sha'[t] = sha[t] /\ commits' = commits
      BY <2>1, <2>2
    <3>3. QED
      BY <3>1, <3>2 DEF PathsOf
  <2>5. audit'.sha = sha'[t]
    BY <2>1 DEF ResultOf
  <2>6. OrderInv(t)'
    BY <2>1, <2>2, <2>3, <2>4, <2>5 DEF OrderInv, Preparing, Showing
  <2>7. ASSUME t \notin disturbed'
        PROVE  IndexInv(t)'
    BY <2>1, <2>2, <2>3 DEF IndexInv, Preparing
  <2>8. ASSUME t \notin disturbed'
        PROVE  HeadInv(t)'
    BY <2>1, <2>2, <2>3, <2>8 DEF HeadInv, Preparing, Showing
  <2>9. QED
    BY <2>2, <2>6, <2>7, <2>8, OneHolder
<1>3. QED
  BY <1>1, <1>2

LEMMA ExecuteHolder ==
  ASSUME TypeOK, PhaseInv, HolderInv, RecordInv, NEW t \in Task, ExecuteStep(t), Grows
  PROVE  HolderInv'
<1>1. CASE ReadStatus(t)
  BY <1>1, ReadStatusHolder
<1>2. CASE ReadBranch(t)
  BY <1>2, ReadBranchHolder
<1>3. CASE Preflight(t)
  BY <1>3, PreflightHolder
<1>4. CASE ValidateFiles(t) \/ RecheckHead(t) \/ LaunchAdd(t)
  <2>1. CASE lock' = NoTask
    BY <2>1, NoHolder
  <2>2. CASE lock' # NoTask
    <3>1. /\ pc[t] \in Preparing /\ UNCHANGED <<lock, repo, locals, outputs>>
          /\ \E place \in {"recheck", "add", "adding"} : Goto(t, place)
      BY <1>4, <2>2
         DEF ValidateFiles, RecheckHead, LaunchAdd, Check, Leave, Reading, Preparing
    <3>2. QED
      BY <3>1, PreparingHolder DEF Preparing
  <2>3. QED
    BY <2>1, <2>2
<1>5. CASE GitAdd(t)
  BY <1>5, GitAddHolder
<1>6. CASE VerifyStagedTargets(t) \/ VerifyStagedContents(t) \/ LaunchCommit(t)
  BY <1>6, VerifyStagedHolder
<1>7. CASE GitCommit(t)
  BY <1>7, GitCommitHolder
<1>8. CASE SnapshotAfter(t)
  BY <1>8, SnapshotAfterHolder
<1>9. CASE ResolveCommit(t)
  BY <1>9, ResolveHolder
<1>10. CASE ShowCommit(t)
  BY <1>10, ShowHolder
<1>11. CASE PersistAudit(t)
  BY <1>11, PersistHolder
<1>12. CASE Return(t) \/ EvidenceFails(t)
  BY <1>12, NoHolder DEF Return, EvidenceFails, Leave
<1>13. QED
  BY <1>1, <1>2, <1>3, <1>4, <1>5, <1>6, <1>7, <1>8, <1>9, <1>10, <1>11, <1>12
     DEF ExecuteStep

\* Other programs and the processes of crashed executors leave the holder as it
\* is, and disturb it if they change the index or the history.
LEMMA OutsideStep ==
  ASSUME TypeOK, ForeignStep \/ \E o \in orphans : OrphanEnds(o)
  PROVE  /\ UNCHANGED <<lock, pc, phase, seen, before, sha, acted, audit, result>>
         /\ \/ UNCHANGED <<index, commits, tip, branch, disturbed>> /\ orphans' \subseteq orphans
            \/ /\ disturbed' = disturbed \cup ({lock} \ {NoTask})
               /\ \A o \in orphans' : ~o.alone
<1>1. ASSUME NEW others, Disturb(others), others \subseteq orphans
      PROVE  /\ UNCHANGED <<lock, pc, phase, seen, before, sha, acted, audit, result>>
             /\ disturbed' = disturbed \cup ({lock} \ {NoTask})
             /\ \A o \in orphans' : ~o.alone
  <2>1. ASSUME NEW o \in others
        PROVE  ~[o EXCEPT !.alone = FALSE].alone
    BY <1>1, <2>1, TypeParts DEF EventTypeOK, Orphan
  <2>2. QED
    BY <1>1, <2>1 DEF Disturb, outputs
<1>2. CASE ForeignStep
  <2>1. CASE Disturb(orphans)
    BY <1>1, <2>1
  <2>2. CASE ~Disturb(orphans)
    BY <1>2, <2>2 DEF ForeignStep, Edit, ForeignAdd, ForeignCommit, Unstage,
      ForeignReset, Switch, locals, history, outputs
  <2>3. QED
    BY <2>1, <2>2
<1>3. CASE \E o \in orphans : OrphanEnds(o)
  <2>1. PICK o \in orphans : OrphanEnds(o)
    BY <1>3
  <2>2. orphans \ {o} \subseteq orphans
    OBVIOUS
  <2>3. CASE Disturb(orphans \ {o})
    BY <1>1, <2>2, <2>3
  <2>4. CASE ~Disturb(orphans \ {o})
    BY <2>1, <2>4 DEF OrphanEnds, repo, locals, history, outputs
  <2>5. QED
    BY <2>3, <2>4
<1>4. QED
  BY <1>2, <1>3

LEMMA NextHolder ==
  ASSUME TypeOK, PhaseInv, HolderInv, RecordInv, Next
  PROVE  HolderInv'
<1> ControlTypeOK /\ RepoTypeOK
  BY TypeParts
<1>1. Grows
  BY NextRepo, RepoStepKeeps
<1>2. CASE \E s \in Task : Write(s) \/ Refuse(s)
  <2>1. PICK s \in Task : Write(s) \/ Refuse(s)
    BY <1>2
  <2>2. /\ lock' = lock /\ UNCHANGED <<phase, seen, before, sha, audit, result>>
        /\ UNCHANGED <<index, commits, tip, branch, disturbed>>
        /\ \E place : pc' = [pc EXCEPT ![s] = place]
        /\ pc[s] \in Callable \cup {"idle"}
    BY <2>1 DEF Write, Refuse, Goto, repo, locals, history, outputs
  <2>3. lock # s
    BY <2>2 DEF ControlTypeOK, Callable, Inside, SnapshotPlaces
  <2>4. CASE lock = NoTask
    BY <2>2, <2>4, NoHolder
  <2>5. CASE lock \in Task
    <3>1. pc'[lock] = pc[lock]
      BY <2>2, <2>3, <2>5 DEF ControlTypeOK
    <3>2. QED
      BY <1>1, <2>2, <2>5, <3>1, OthersKeepHolder
  <2>6. QED
    BY <2>4, <2>5 DEF ControlTypeOK
<1>3. CASE \E t \in Task : Execute(t)
  <2>1. PICK t \in Task : Execute(t)
    BY <1>3
  <2>2. pc[t] \in Callable /\ lock' = t /\ phase' = phase /\ pc' = [pc EXCEPT ![t] = "status"]
    BY <2>1 DEF Execute, Goto, locals
  <2>3. phase[t] = "before"
    BY <2>2 DEF PhaseInv, Fits, Callable, Inside, SnapshotPlaces
  <2>4. pc'[t] = "status" /\ phase'[t] = "before"
    BY <2>2, <2>3 DEF ControlTypeOK
  <2>5. OrderInv(t)' /\ IndexInv(t)' /\ HeadInv(t)'
    BY <2>4 DEF OrderInv, IndexInv, HeadInv, Preparing, Showing
  <2>6. QED
    BY <2>2, <2>5, OneHolder
<1>4. CASE \E t \in Task : ExecuteStep(t)
  BY <1>1, <1>4, ExecuteHolder
<1>5. CASE \E t \in Task : Crash(t)
  BY <1>5, NoHolder DEF Crash, Leave
<1>6. CASE ForeignStep \/ \E o \in orphans : OrphanEnds(o)
  <2>1. /\ UNCHANGED <<lock, pc, phase, seen, before, sha, acted, audit, result>>
        /\ \/ UNCHANGED <<index, commits, tip, branch, disturbed>>
           \/ disturbed' = disturbed \cup ({lock} \ {NoTask})
    BY <1>6, OutsideStep
  <2>2. CASE lock = NoTask
    BY <2>1, <2>2, NoHolder
  <2>3. CASE lock \in Task
    <3>1. \/ UNCHANGED <<index, commits, tip, branch, disturbed>>
          \/ lock \in disturbed'
      BY <2>1, <2>3, TaskAssumption
    <3>2. QED
      BY <1>1, <2>1, <2>3, <3>1, OthersKeepHolder
  <2>4. QED
    BY <2>2, <2>3 DEF ControlTypeOK
<1>7. QED
  BY <1>2, <1>3, <1>4, <1>5, <1>6 DEF Next

(***************************************************************************)
(* Commits that crashed executors have left.                               *)
(***************************************************************************)

\* While one is pending, the holder of the lock does not get past its preflight.
LEMMA ExecuteOrphans ==
  ASSUME TypeOK, PhaseInv, HolderInv, OrphanInv, NEW t \in Task, ExecuteStep(t)
  PROVE  OrphanInv'
<1>1. orphans' = orphans
  BY DEF ExecuteStep, ReadStatus, ReadBranch, Preflight, ValidateFiles, RecheckHead,
    LaunchAdd, GitAdd, VerifyStagedTargets, VerifyStagedContents, LaunchCommit, GitCommit,
    SnapshotAfter, ResolveCommit, ShowCommit, PersistAudit, Return, EvidenceFails, Reading
<1>2. SUFFICES ASSUME NEW o \in orphans, o.command = "commit", o.alone
               PROVE  /\ Ready(o.task)'
                      /\ \A s \in Task : lock' = s => /\ s \notin disturbed'
                                                      /\ pc'[s] \in SnapshotPlaces
                                                      /\ phase'[s] = "before"
  BY <1>1 DEF OrphanInv
<1>3. pc[t] \in Inside
  BY DEF ExecuteStep, ReadStatus, ReadBranch, Preflight, ValidateFiles, RecheckHead,
    LaunchAdd, GitAdd, VerifyStagedTargets, VerifyStagedContents, LaunchCommit, GitCommit,
    SnapshotAfter, ResolveCommit, ShowCommit, PersistAudit, Return, EvidenceFails,
    Inside, SnapshotPlaces
<1>4. lock = t /\ t # NoTask /\ o.task \in Task
  BY <1>3, TypeParts, TaskAssumption DEF ControlTypeOK, EventTypeOK, Orphan
<1>5. Ready(o.task) /\ t \notin disturbed /\ pc[t] \in SnapshotPlaces /\ phase[t] = "before"
  BY <1>2, <1>4 DEF OrphanInv
<1>6. ReadStatus(t) \/ ReadBranch(t) \/ Preflight(t) \/ EvidenceFails(t)
  BY <1>5 DEF ExecuteStep, ValidateFiles, RecheckHead, LaunchAdd, GitAdd, VerifyStagedTargets,
    VerifyStagedContents, LaunchCommit, GitCommit, SnapshotAfter, ResolveCommit, ShowCommit,
    PersistAudit, Return, SnapshotPlaces
<1>7. Ready(o.task)'
  <2>1. UNCHANGED <<index, commits, tip, branch>>
    BY <1>6 DEF ReadStatus, ReadBranch, Preflight, EvidenceFails, Reading, repo
  <2>2. QED
    BY <1>4, <1>5, <2>1, SameRepo
<1>8. index # HeadTree
  <2>1. PICK f \in Targets(o.task) : TRUE
    BY <1>4, ChangeTypes
  <2>2. index[f] # HeadTree[f]
    BY <1>5, <2>1 DEF Ready
  <2>3. QED
    BY <2>2
<1>9. IndexInv(t)
  BY <1>4, <1>5 DEF HolderInv
<1>10. CASE lock' = NoTask
  BY <1>7, <1>10, TaskAssumption
<1>11. CASE lock' # NoTask
  <2>1. ReadStatus(t) \/ ReadBranch(t)
    BY <1>5, <1>6, <1>8, <1>9, <1>11
       DEF Preflight, EvidenceFails, Leave, IndexInv, SnapshotPlaces
  <2>2. /\ \E place \in SnapshotPlaces : pc' = [pc EXCEPT ![t] = place]
        /\ UNCHANGED <<lock, phase, disturbed>>
    BY <2>1 DEF ReadStatus, ReadBranch, Goto, history, SnapshotPlaces
  <2>3. pc'[t] \in SnapshotPlaces
    BY <2>2, TypeParts DEF ControlTypeOK
  <2>4. QED
    BY <1>4, <1>5, <1>7, <2>2, <2>3
<1>12. QED
  BY <1>10, <1>11

LEMMA NextOrphans ==
  ASSUME TypeOK, PhaseInv, HolderInv, OrphanInv, Next
  PROVE  OrphanInv'
<1> ControlTypeOK /\ EventTypeOK
  BY TypeParts
<1>0. \A o \in orphans : o.task \in Task
  BY DEF EventTypeOK, Orphan
<1>1. CASE \E s \in Task : Write(s) \/ Refuse(s)
  <2>1. PICK s \in Task : Write(s) \/ Refuse(s)
    BY <1>1
  <2>2. /\ UNCHANGED <<lock, orphans, phase, disturbed, index, commits, tip, branch>>
        /\ \E place : pc' = [pc EXCEPT ![s] = place]
        /\ pc[s] \in Callable \cup {"idle"}
    BY <2>1 DEF Write, Refuse, Goto, repo, locals, history
  <2>3. lock # s
    BY <2>2 DEF ControlTypeOK, Callable, Inside, SnapshotPlaces
  <2>4. \A t \in Task : lock = t => pc'[t] = pc[t]
    BY <2>2, <2>3 DEF ControlTypeOK
  <2>5. \A t \in Task : Ready(t)' <=> Ready(t)
    BY <2>2, SameRepo
  <2>6. QED
    BY <1>0, <2>2, <2>4, <2>5 DEF OrphanInv
<1>2. CASE \E t \in Task : Execute(t)
  <2>1. PICK t \in Task : Execute(t)
    BY <1>2
  <2>2. /\ pc[t] \in Callable /\ lock = NoTask /\ lock' = t /\ pc' = [pc EXCEPT ![t] = "status"]
        /\ UNCHANGED <<orphans, phase, disturbed, index, commits, tip, branch>>
    BY <2>1 DEF Execute, Goto, repo, locals, history
  <2>3. phase[t] = "before"
    BY <2>2 DEF PhaseInv, Fits, Callable, Inside, SnapshotPlaces
  <2>4. pc'[t] \in SnapshotPlaces /\ t \notin disturbed'
    BY <2>2 DEF ControlTypeOK, SnapshotPlaces
  <2>5. \A s \in Task : Ready(s)' <=> Ready(s)
    BY <2>2, SameRepo
  <2>6. QED
    BY <1>0, <2>2, <2>3, <2>4, <2>5 DEF OrphanInv
<1>3. CASE \E t \in Task : ExecuteStep(t)
  BY <1>3, ExecuteOrphans
<1>4. CASE \E t \in Task : Crash(t)
  <2>1. PICK t \in Task : Crash(t)
    BY <1>4
  <2> DEFINE new == [task |-> t, command |-> Command(pc[t]), alone |-> t \notin disturbed]
  <2>2. /\ lock' = NoTask /\ UNCHANGED <<index, commits, tip, branch>>
        /\ pc[t] \in Inside
        /\ \/ orphans' = orphans
           \/ pc[t] \in {"adding", "committing"} /\ orphans' = orphans \cup {new}
    <3>1. orphans' = IF pc[t] \in {"adding", "committing"} THEN orphans \cup {new} ELSE orphans
      BY <2>1 DEF Crash
    <3> HIDE DEF new
    <3>2. QED
      BY <2>1, <3>1 DEF Crash, Leave, repo
  <2>3. \A s \in Task : Ready(s)' <=> Ready(s)
    BY <2>2, SameRepo
  <2>4. lock = t
    BY <2>2 DEF ControlTypeOK
  <2>5. ASSUME new.command = "commit", new.alone, pc[t] \in {"adding", "committing"}
        PROVE  Ready(new.task)
    <3>1. pc[t] = "committing" /\ t \notin disturbed
      BY <2>5 DEF Command
    <3>2. IndexInv(t)
      BY <2>4, <3>1 DEF HolderInv
    <3>3. QED
      BY <3>1, <3>2 DEF IndexInv
  <2>6. new.task = t
    OBVIOUS
  <2> HIDE DEF new
  <2>7. QED
    BY <1>0, <2>2, <2>3, <2>5, <2>6, TaskAssumption DEF OrphanInv
<1>5. CASE ForeignStep \/ \E o \in orphans : OrphanEnds(o)
  <2>1. /\ UNCHANGED <<lock, pc, phase>>
        /\ \/ UNCHANGED <<index, commits, tip, branch, disturbed>> /\ orphans' \subseteq orphans
           \/ \A o \in orphans' : ~o.alone
    BY <1>5, OutsideStep
  <2>2. CASE UNCHANGED <<index, commits, tip, branch, disturbed>> /\ orphans' \subseteq orphans
    <3>1. \A s \in Task : Ready(s)' <=> Ready(s)
      BY <2>2, SameRepo
    <3>2. QED
      BY <1>0, <2>1, <2>2, <3>1 DEF OrphanInv
  <2>3. CASE \A o \in orphans' : ~o.alone
    BY <2>3 DEF OrphanInv
  <2>4. QED
    BY <2>1, <2>2, <2>3
<1>6. QED
  BY <1>1, <1>2, <1>3, <1>4, <1>5 DEF Next

(***************************************************************************)
(* The properties.                                                         *)
(***************************************************************************)

\* Who commits: the holder of the lock, a crashed executor's process, others.
LEMMA NextCommits ==
  ASSUME Next
  PROVE  \/ commits' = commits
         \/ \E t \in Task : pc[t] = "committing" /\ CommitIndex(t, t \notin disturbed)
         \/ \E o \in orphans : o.command # "add" /\ CommitIndex(o.task, o.alone)
         \/ CommitIndex(NoTask, FALSE)
<1>1. ASSUME NEW t \in Task, ExecuteStep(t), ~GitCommit(t)
      PROVE  commits' = commits
  <2>1. CASE GitAdd(t)
    BY <2>1 DEF GitAdd, Add, repo
  <2>2. CASE ~GitAdd(t)
    <3>1. UNCHANGED repo
      BY <1>1, <2>2 DEF ExecuteStep, ReadStatus, ReadBranch, Preflight, ValidateFiles,
        RecheckHead, LaunchAdd, VerifyStagedTargets, VerifyStagedContents, LaunchCommit,
        SnapshotAfter, ResolveCommit, ShowCommit, PersistAudit, Return, EvidenceFails, Reading
    <3>2. QED
      BY <3>1 DEF repo
  <2>3. QED
    BY <2>1, <2>2
<1>2. ASSUME NEW t \in Task, GitCommit(t)
      PROVE  \/ commits' = commits
             \/ pc[t] = "committing" /\ CommitIndex(t, t \notin disturbed)
  <2>1. CASE CommitIndex(t, t \notin disturbed)
    BY <1>2, <2>1 DEF GitCommit
  <2>2. CASE UNCHANGED repo
    <3>1. commits' = commits
      BY <2>2 DEF repo
    <3>2. QED
      BY <3>1
  <2>3. QED
    BY <1>2, <2>1, <2>2 DEF GitCommit
<1>3. ASSUME NEW t \in Task, Write(t) \/ Execute(t) \/ Refuse(t) \/ Crash(t)
      PROVE  commits' = commits
  <2>1. CASE Write(t)
    BY <2>1 DEF Write
  <2>2. CASE UNCHANGED repo
    BY <2>2 DEF repo
  <2>3. QED
    BY <1>3, <2>1, <2>2 DEF Execute, Refuse, Crash
<1>4. ASSUME NEW o \in orphans, OrphanEnds(o)
      PROVE  \/ commits' = commits
             \/ o.command # "add" /\ CommitIndex(o.task, o.alone)
  <2>1. \/ UNCHANGED repo
        \/ Add(o.task)
        \/ o.command # "add" /\ CommitIndex(o.task, o.alone)
    BY <1>4 DEF OrphanEnds
  <2>2. CASE UNCHANGED repo
    BY <2>2 DEF repo
  <2>3. CASE Add(o.task)
    BY <2>3 DEF Add
  <2>4. QED
    BY <2>1, <2>2, <2>3
<1>5. ASSUME ForeignStep
      PROVE  commits' = commits \/ CommitIndex(NoTask, FALSE)
  BY <1>5 DEF ForeignStep, Edit, ForeignAdd, ForeignCommit, Unstage, ForeignReset, Switch
<1>6. QED
  BY <1>1, <1>2, <1>3, <1>4, <1>5 DEF Next

\* A commit of an index that is ready changes exactly the targets of its task.
LEMMA ReadyCommit ==
  ASSUME RepoTypeOK, CommitIsAuthorized, NEW t \in Task, NEW alone \in BOOLEAN,
         CommitIndex(t, alone), alone => Ready(t), Grows
  PROVE  CommitIsAuthorized'
<1> DEFINE new == Len(commits) + 1
<1>1. /\ DOMAIN commits' = 1..new
      /\ commits'[new] = [tree |-> index, parent |-> HEAD, by |-> t, alone |-> alone]
      /\ \A id \in DOMAIN commits : id \in DOMAIN commits' /\ commits'[id] = commits[id]
  BY CommitStep
<1>2. HEAD \in DOMAIN commits /\ Len(commits) \in Nat /\ DOMAIN commits = 1..Len(commits)
  BY HeadTypes
<1>3. commits'[HEAD] = commits[HEAD]
  BY <1>1, <1>2
<1>4. ASSUME NEW id \in DOMAIN commits', commits'[id].by # NoTask, commits'[id].alone
      PROVE  /\ PathsOf(id)' = Targets(commits'[id].by)
             /\ \A f \in Targets(commits'[id].by) :
                  commits'[id].tree[f] = Change[commits'[id].by][f]
  <2>1. CASE id \in DOMAIN commits
    <3>1. commits'[id] = commits[id] /\ PathsOf(id)' = PathsOf(id)
      BY <2>1 DEF Grows
    <3>2. QED
      BY <1>4, <2>1, <3>1 DEF CommitIsAuthorized
  <2>2. CASE id \notin DOMAIN commits
    <3>1. id = new
      BY <1>1, <1>2, <2>2
    <3>2. /\ commits'[id].by = t /\ commits'[id].tree = index /\ commits'[id].parent = HEAD
          /\ Ready(t)
      BY <1>1, <1>4, <3>1
    <3>3. Targets(t) \subseteq File /\ HEAD # 0
      BY <1>2, ChangeTypes
    <3>4. PathsOf(id)' = {f \in File : index[f] # HeadTree[f]}
      BY <1>3, <3>2, <3>3 DEF PathsOf, HeadTree
    <3>5. PathsOf(id)' = Targets(t)
      BY <3>2, <3>3, <3>4 DEF Ready
    <3>6. QED
      BY <3>2, <3>5 DEF Ready
  <2>3. QED
    BY <2>1, <2>2
<1>5. QED
  BY <1>4 DEF CommitIsAuthorized

LEMMA NextAuthorized ==
  ASSUME TypeOK, HolderInv, OrphanInv, CommitIsAuthorized, Next
  PROVE  CommitIsAuthorized'
<1> RepoTypeOK /\ ControlTypeOK /\ EventTypeOK
  BY TypeParts
<1>1. Grows
  BY NextRepo, RepoStepKeeps
<1>2. CASE commits' = commits
  BY <1>2 DEF CommitIsAuthorized, PathsOf
<1>3. CASE \E t \in Task : pc[t] = "committing" /\ CommitIndex(t, t \notin disturbed)
  <2>1. PICK t \in Task : pc[t] = "committing" /\ CommitIndex(t, t \notin disturbed)
    BY <1>3
  <2>2. lock = t
    BY <2>1 DEF ControlTypeOK, Inside
  <2>3. t \notin disturbed => Ready(t)
    BY <2>1, <2>2 DEF HolderInv, IndexInv
  <2>4. (t \notin disturbed) \in BOOLEAN
    OBVIOUS
  <2>5. QED
    BY <1>1, <2>1, <2>3, <2>4, ReadyCommit
<1>4. CASE \E o \in orphans : o.command # "add" /\ CommitIndex(o.task, o.alone)
  <2>1. PICK o \in orphans : o.command # "add" /\ CommitIndex(o.task, o.alone)
    BY <1>4
  <2>2. o.task \in Task /\ o.alone \in BOOLEAN /\ o.command = "commit"
    BY <2>1 DEF EventTypeOK, Orphan
  <2>3. o.alone => Ready(o.task)
    BY <2>2 DEF OrphanInv
  <2>4. QED
    BY <1>1, <2>1, <2>2, <2>3, ReadyCommit
<1>5. CASE CommitIndex(NoTask, FALSE)
  <2>1. /\ DOMAIN commits' = 1..(Len(commits) + 1)
        /\ commits'[Len(commits) + 1] =
             [tree |-> index, parent |-> HEAD, by |-> NoTask, alone |-> FALSE]
    BY <1>5, CommitStep
  <2>2. DOMAIN commits = 1..Len(commits) /\ Len(commits) \in Nat
    BY HeadTypes
  <2>3. \A id \in DOMAIN commits' : id \in DOMAIN commits \/ commits'[id].by = NoTask
    BY <2>1, <2>2
  <2>4. \A id \in DOMAIN commits : commits'[id] = commits[id] /\ PathsOf(id)' = PathsOf(id)
    BY <1>1 DEF Grows
  <2>5. QED
    BY <2>3, <2>4 DEF CommitIsAuthorized
<1>6. QED
  BY <1>2, <1>3, <1>4, <1>5, NextCommits

\* What is recorded stays true, for commits stay.
LEMMA NextRecords ==
  ASSUME TypeOK, PhaseInv, HolderInv, RecordInv, ResultIsOwnCommit, AuditIsLatest, Next
  PROVE  RecordInv' /\ ResultIsOwnCommit' /\ AuditIsLatest'
<1> RepoTypeOK /\ ControlTypeOK /\ OutputTypeOK
  BY TypeParts
<1>1. Grows
  BY NextRepo, RepoStepKeeps
<1>2. HEAD \in Nat /\ DOMAIN commits \subseteq Nat
  BY HeadTypes
<1>3. \A id \in DOMAIN commits : /\ id \in DOMAIN commits' /\ commits'[id] = commits[id]
                                 /\ PathsOf(id)' = PathsOf(id)
  BY <1>1 DEF Grows
<1>4. \A t \in Task : result[t] # NoResult =>
        /\ result[t].sha \in DOMAIN commits'
        /\ commits'[result[t].sha] = commits[result[t].sha]
  BY <1>3 DEF RecordInv
<1>5. CASE UNCHANGED <<audit, result>>
  <2>1. RecordInv'
    BY <1>3, <1>4, <1>5 DEF RecordInv
  <2>2. ResultIsOwnCommit'
    BY <1>4, <1>5 DEF ResultIsOwnCommit
  <2>3. AuditIsLatest'
    <3>1. ASSUME audit # NoResult
          PROVE  PathsOf(audit.sha)' = PathsOf(audit.sha)
      <4>1. audit.sha \in DOMAIN commits
        BY <3>1 DEF RecordInv
      <4>2. \A id \in DOMAIN commits : PathsOf(id)' = PathsOf(id)
        BY <1>3
      <4>3. QED
        BY <1>5, <4>1, <4>2 DEF PathsOf
    <3>2. QED
      BY <1>5, <3>1 DEF AuditIsLatest
  <2>4. QED
    BY <2>1, <2>2, <2>3
<1>6. CASE \E t \in Task : PersistAudit(t)
  <2>1. PICK t \in Task : PersistAudit(t)
    BY <1>6
  <2>2. pc[t] = "audit" /\ UNCHANGED repo /\ result' = result
        /\ audit' \in {audit, ResultOf(t)}
    BY <2>1 DEF PersistAudit, outputs
  <2>3. CASE audit' = audit
    BY <1>5, <2>2, <2>3
  <2>4. CASE audit' = ResultOf(t)
    <3>1. lock = t
      BY <2>2 DEF ControlTypeOK, Inside
    <3>2. /\ sha[t] \in DOMAIN commits /\ PathsOf(sha[t]) = Targets(t)
          /\ t \notin disturbed =>
               /\ before[t].head < sha[t]
               /\ \A s \in Task : result[s] # NoResult => result[s].sha <= sha[t]
      <4>1. phase[t] = "after"
        BY <2>2 DEF PhaseInv, Fits, Showing
      <4>2. QED
        BY <2>2, <3>1, <4>1 DEF HolderInv, OrderInv, HeadInv, Showing
    <3>3. /\ audit'.sha = sha[t] /\ audit'.task = t /\ audit'.before = before[t]
          /\ audit'.alone = (t \notin disturbed)
      BY <2>4 DEF ResultOf
    <3>4. commits' = commits
      BY <2>2 DEF repo
    <3>5. RecordInv'
      BY <1>3, <1>4, <2>2, <3>2, <3>3 DEF RecordInv
    <3>6. ResultIsOwnCommit'
      BY <1>4, <2>2 DEF ResultIsOwnCommit
    <3>7. PathsOf(audit.sha)' = PathsOf(sha[t])
      BY <3>3, <3>4 DEF PathsOf
    <3>8. AuditIsLatest'
      BY <2>2, <3>2, <3>3, <3>7 DEF AuditIsLatest
    <3>9. QED
      BY <3>5, <3>6, <3>8
  <2>5. QED
    BY <2>2, <2>3, <2>4
<1>7. CASE \E t \in Task : Return(t)
  <2>1. PICK t \in Task : Return(t)
    BY <1>7
  <2>2. /\ pc[t] = "unlock" /\ UNCHANGED <<worktree, index, commits, tip, branch, audit>>
        /\ result' = [result EXCEPT ![t] = ResultOf(t)]
    BY <2>1 DEF Return, repo
  <2>3. lock = t
    BY <2>2 DEF ControlTypeOK, Inside
  <2>4. sha[t] \in DOMAIN commits /\ audit.sha = sha[t]
    BY <2>2, <2>3 DEF HolderInv, OrderInv, Showing
  <2>5. phase[t] = "after"
    BY <2>2 DEF PhaseInv, Fits, Showing
  <2>6. t \notin disturbed => /\ before[t].branch = branch /\ seen[t].branch = branch
                              /\ commits[HEAD].by = t
                              /\ commits[HEAD].parent = before[t].head
                              /\ sha[t] = HEAD
    BY <2>2, <2>3, <2>5 DEF HolderInv, HeadInv, Showing
  <2> DEFINE r == ResultOf(t)
  <2>7. /\ r.sha = sha[t] /\ r.alone = (t \notin disturbed) /\ r.before = before[t]
        /\ r.after.branch = seen[t].branch
    BY DEF ResultOf
  <2> HIDE DEF r
  <2>8. result'[t] = r /\ \A s \in Task : s # t => result'[s] = result[s]
    BY <2>2 DEF OutputTypeOK, r
  <2>9. HEAD' = HEAD /\ \A id : PathsOf(id)' = PathsOf(id)
    BY <2>2, SameRepo
  <2>10. RecordInv'
    BY <2>2, <2>4, <2>7, <2>8, <2>9 DEF RecordInv
  <2>11. ResultIsOwnCommit'
    <3>1. ASSUME NEW s \in Task, result'[s] # NoResult, result'[s].alone
          PROVE  /\ commits'[result'[s].sha].by = s
                 /\ commits'[result'[s].sha].parent = result'[s].before.head
                 /\ result'[s].before.branch = result'[s].after.branch
      <4>1. CASE s = t
        <5>1. t \notin disturbed /\ result'[s] = r
          BY <2>7, <2>8, <3>1, <4>1
        <5>2. commits' = commits
          BY <2>2
        <5>3. QED
          BY <2>6, <2>7, <4>1, <5>1, <5>2
      <4>2. CASE s # t
        <5>1. result'[s] = result[s] /\ commits' = commits
          BY <2>2, <2>8, <4>2
        <5>2. QED
          BY <3>1, <5>1 DEF ResultIsOwnCommit
      <4>3. QED
        BY <4>1, <4>2
    <3>2. QED
      BY <3>1 DEF ResultIsOwnCommit
  <2>12. AuditIsLatest'
    <3>1. PathsOf(audit.sha)' = PathsOf(audit.sha)
      BY <2>2 DEF PathsOf
    <3>2. sha[t] <= sha[t]
      BY <1>2, <2>4
    <3>3. ASSUME audit # NoResult, audit.alone
          PROVE  \A s \in Task : result'[s] # NoResult => result'[s].sha <= audit.sha
      BY <2>4, <2>7, <2>8, <3>2, <3>3 DEF AuditIsLatest
    <3>4. QED
      BY <2>2, <3>1, <3>3 DEF AuditIsLatest
  <2>13. QED
    BY <2>10, <2>11, <2>12
<1>8. QED
  BY <1>5, <1>6, <1>7, NextOutputs

LEMMA InitIInv == Init => IInv
<1> SUFFICES ASSUME Init
             PROVE  IInv
  OBVIOUS
<1>1. TypeOK
  BY InitTypes
<1>2. PhaseInv /\ ActedInv
  BY DEF Init, PhaseInv, ActedInv, Fits, Preparing, Showing
<1>3. HolderInv /\ OrphanInv /\ RecordInv
  BY TaskAssumption DEF Init, HolderInv, OrphanInv, RecordInv
<1>4. CommitIsAuthorized /\ ResultIsOwnCommit /\ AuditIsLatest
  BY DEF Init, CommitIsAuthorized, ResultIsOwnCommit, AuditIsLatest
<1>5. QED
  BY <1>1, <1>2, <1>3, <1>4 DEF IInv

LEMMA NextIInv == IInv /\ [Next]_vars => IInv'
<1> SUFFICES ASSUME IInv, [Next]_vars
             PROVE  IInv'
  OBVIOUS
<1>1. CASE Next
  BY <1>1, NextTypes, NextPhase, NextHolder, NextOrphans, NextAuthorized, NextRecords DEF IInv
<1>2. CASE UNCHANGED vars
  <2>1. /\ UNCHANGED <<worktree, index, commits, tip, branch, lock, pc, phase, seen, before>>
        /\ UNCHANGED <<sha, disturbed, acted, audit, result, orphans, events>>
    BY <1>2 DEF vars, repo, locals, history, outputs
  <2>2. TypeOK'
    BY <1>2, NextTypes DEF IInv
  <2>3. HEAD' = HEAD /\ HeadTree' = HeadTree /\ \A t \in Task : Ready(t)' <=> Ready(t)
    BY <2>1, SameRepo
  <2>4. PhaseInv' /\ ActedInv'
    BY <2>1 DEF IInv, PhaseInv, ActedInv
  <2>5. HolderInv'
    BY <2>1, <2>3 DEF IInv, HolderInv, OrderInv, IndexInv, HeadInv, PathsOf
  <2>6. OrphanInv'
    <3>1. \A o \in orphans : o.task \in Task
      BY TypeParts DEF IInv, EventTypeOK, Orphan
    <3>2. QED
      BY <2>1, <2>3, <3>1 DEF IInv, OrphanInv
  <2>7. RecordInv' /\ CommitIsAuthorized' /\ ResultIsOwnCommit' /\ AuditIsLatest'
    BY <2>1, <2>3
       DEF IInv, RecordInv, CommitIsAuthorized, ResultIsOwnCommit, AuditIsLatest, PathsOf
  <2>8. QED
    BY <2>2, <2>4, <2>5, <2>6, <2>7 DEF IInv
<1>3. QED
  BY <1>1, <1>2

\* The inductive invariant: what the holder of the lock may rely on while it runs
\* one Git process after the other, and what it leaves to whoever comes next.
THEOREM Invariant == Spec => []IInv
<1>1. Init => IInv
  BY InitIInv
<1>2. IInv /\ [Next]_vars => IInv'
  BY NextIInv
<1>3. QED
  BY <1>1, <1>2, PTL DEF Spec

\* Whatever is interrupted, committed late or committed by a process whose
\* executor is gone, a commit is exactly the authorized change of its task.
THEOREM CommitsAreAuthorized == Spec => []CommitIsAuthorized
<1>1. IInv => CommitIsAuthorized
  BY DEF IInv
<1>2. QED
  BY <1>1, Invariant, PTL

\* A result is about the call's own commit, next to the HEAD of its preflight.
THEOREM ResultsAreOwn == Spec => []ResultIsOwnCommit
<1>1. IInv => ResultIsOwnCommit
  BY DEF IInv
<1>2. QED
  BY <1>1, Invariant, PTL

\* The audit record is about a commit of exactly its targets, wherever others take
\* HEAD.  If the call was undisturbed, it is newer than the preflight's HEAD and than
\* what any task was told of.
THEOREM AuditsAreLatest == Spec => []AuditIsLatest
<1>1. IInv => AuditIsLatest
  BY DEF IInv
<1>2. QED
  BY <1>1, Invariant, PTL

\* Only steps before git add end with a SafetyStop.
LEMMA RefusedBefore ==
  ASSUME TypeOK, PhaseInv, ActedInv, [Next]_vars, NEW s \in Task, pc'[s] = "refused"
  PROVE  s \notin acted
<1> ControlTypeOK
  BY TypeParts
<1>1. SUFFICES ASSUME s \in acted
               PROVE  FALSE
  OBVIOUS
<1>2. lock = s /\ pc[s] \in Inside /\ phase[s] # "before" /\ Fits(pc[s], phase[s])
  BY <1>1 DEF ControlTypeOK, ActedInv, PhaseInv
<1>3. pc[s] # "refused" /\ pc[s] \notin Preparing
  BY <1>2 DEF Inside, SnapshotPlaces, Fits
<1>4. ASSUME NEW t \in Task, ExecuteStep(t)
      PROVE  FALSE
  <2>1. pc[t] \in Inside
    BY <1>4 DEF ExecuteStep, ReadStatus, ReadBranch, Preflight, ValidateFiles, RecheckHead,
      LaunchAdd, GitAdd, VerifyStagedTargets, VerifyStagedContents, LaunchCommit, GitCommit,
      SnapshotAfter, ResolveCommit, ShowCommit, PersistAudit, Return, EvidenceFails,
      Inside, SnapshotPlaces
  <2>2. t = s
    BY <1>2, <2>1 DEF ControlTypeOK
  <2>3. \E place \in Places \ {"refused"} : pc' = [pc EXCEPT ![s] = place]
    BY <1>2, <1>3, <1>4, <2>2
       DEF ExecuteStep, ReadStatus, ReadBranch, Preflight, ValidateFiles, RecheckHead,
         LaunchAdd, GitAdd, VerifyStagedTargets, VerifyStagedContents, LaunchCommit, GitCommit,
         SnapshotAfter, ResolveCommit, ShowCommit, PersistAudit, Return, EvidenceFails,
         Check, Leave, Goto, Preparing, Places, Inside, SnapshotPlaces, Callable
  <2>4. QED
    BY <2>3 DEF ControlTypeOK
<1>5. ASSUME NEW t \in Task, Write(t) \/ Execute(t) \/ Refuse(t)
      PROVE  FALSE
  <2>1. /\ pc[t] \in Callable \cup {"idle"}
        /\ \E place : pc' = [pc EXCEPT ![t] = place]
    BY <1>5 DEF Write, Execute, Refuse, Goto
  <2>2. t # s
    BY <1>2, <2>1 DEF Callable, Inside, SnapshotPlaces
  <2>3. QED
    BY <1>3, <2>1, <2>2 DEF ControlTypeOK
<1>6. ASSUME NEW t \in Task, Crash(t)
      PROVE  FALSE
  <2>1. pc' = [pc EXCEPT ![t] = "crashed"]
    BY <1>6 DEF Crash, Leave, Goto
  <2>2. QED
    BY <1>3, <2>1 DEF ControlTypeOK
<1>7. ASSUME UNCHANGED pc
      PROVE  FALSE
  BY <1>3, <1>7
<1>8. CASE ForeignStep \/ \E o \in orphans : OrphanEnds(o)
  BY <1>7, <1>8, OutsideStep
<1>9. CASE UNCHANGED vars
  BY <1>7, <1>9 DEF vars
<1>10. QED
  BY <1>4, <1>5, <1>6, <1>8, <1>9 DEF Next

\* A call that ends with a SafetyStop has changed neither index nor history.
THEOREM StopsLeaveNothing == Spec => StopLeavesNothing
<1>1. IInv /\ [Next]_vars => [\A t \in Task : pc'[t] = "refused" => t \notin acted]_vars
  BY RefusedBefore DEF IInv
<1>2. QED
  BY <1>1, Invariant, PTL DEF Spec, StopLeavesNothing

\* What was staged when an undisturbed executor took the lock is not staged over:
\* there is nothing.
THEOREM EvidenceKept == Spec => EvidenceIsKept
<1> DEFINE Kept ==
      \A t \in Task : pc[t] = "adding" /\ pc'[t] = "status" /\ t \notin disturbed =>
        \A f \in File : index[f] # HeadTree[f] => index'[f] = index[f]
<1>1. ASSUME IInv
      PROVE  Kept
  <2>1. \A t \in Task : pc[t] = "adding" /\ t \notin disturbed => index = HeadTree
    <3> TAKE t \in Task
    <3>1. HAVE pc[t] = "adding" /\ t \notin disturbed
    <3>2. lock = t
      BY <1>1, <3>1, TypeParts DEF IInv, ControlTypeOK, Inside
    <3>3. QED
      BY <1>1, <3>1, <3>2 DEF IInv, HolderInv, IndexInv, Preparing
  <2>2. QED
    BY <2>1
<1>2. IInv /\ [Next]_vars => [Kept]_vars
  BY <1>1
<1>3. QED
  BY <1>2, Invariant, PTL DEF Spec, EvidenceIsKept

(***************************************************************************)
(* The steps left.  Whatever Git answers, a call only goes forward: three  *)
(* snapshots, each once, and what is done after each.                      *)
(***************************************************************************)
SnapshotSteps(p) == CASE p = "before" -> 17 [] p = "staged" -> 10 [] p = "after" -> 4

StepsAt(place, p) ==
  CASE place = "status"     -> SnapshotSteps(p) + 3
    [] place = "branch"     -> SnapshotSteps(p) + 2
    [] place = "head"       -> SnapshotSteps(p) + 1
    [] place = "files"      -> 17
    [] place = "recheck"    -> 16
    [] place = "add"        -> 15
    [] place = "adding"     -> 14
    [] place = "evidence"   -> 10
    [] place = "commit"     -> 9
    [] place = "committing" -> 8
    [] place = "resolve"    -> 4
    [] place = "show"       -> 3
    [] place = "audit"      -> 2
    [] place = "unlock"     -> 1
    [] OTHER                -> 0

StepsLeft(t) == StepsAt(pc[t], phase[t])

\* The numbers, one by one.
LEMMA StepsAtValues ==
  ASSUME NEW p \in {"before", "staged", "after"}
  PROVE  /\ SnapshotSteps("before") = 17 /\ SnapshotSteps("staged") = 10
         /\ SnapshotSteps("after") = 4 /\ SnapshotSteps(p) \in {17, 10, 4}
         /\ StepsAt("status", p) = SnapshotSteps(p) + 3
         /\ StepsAt("branch", p) = SnapshotSteps(p) + 2
         /\ StepsAt("head", p) = SnapshotSteps(p) + 1
         /\ StepsAt("files", p) = 17 /\ StepsAt("recheck", p) = 16
         /\ StepsAt("add", p) = 15 /\ StepsAt("adding", p) = 14
         /\ StepsAt("evidence", p) = 10 /\ StepsAt("commit", p) = 9
         /\ StepsAt("committing", p) = 8 /\ StepsAt("resolve", p) = 4
         /\ StepsAt("show", p) = 3 /\ StepsAt("audit", p) = 2 /\ StepsAt("unlock", p) = 1
         /\ \A place \in Callable \cup {"idle"} : StepsAt(place, p) = 0
  BY DEF StepsAt, SnapshotSteps, Callable

\* A call that is inside execute() has steps left, and no more than twenty.
LEMMA InsideSteps ==
  ASSUME NEW place \in Inside, NEW p \in {"before", "staged", "after"}
  PROVE  StepsAt(place, p) \in 1 .. 20
<1>1. SnapshotSteps(p) \in {17, 10, 4}
  BY StepsAtValues
<1>2. place \in {"status", "branch", "head", "files", "recheck", "add", "adding", "evidence",
                 "commit", "committing", "resolve", "show", "audit", "unlock"}
  BY DEF Inside, SnapshotPlaces
<1>3. CASE place \in {"status", "branch", "head"}
  <2>1. StepsAt(place, p) \in {SnapshotSteps(p) + 1, SnapshotSteps(p) + 2, SnapshotSteps(p) + 3}
    BY <1>3, StepsAtValues
  <2>. QED BY <1>1, <2>1
<1>4. CASE place \notin {"status", "branch", "head"}
  BY <1>2, <1>4, StepsAtValues
<1>5. QED
  BY <1>3, <1>4

\* Leaving execute() leaves no step.
LEMMA LeaveSteps ==
  ASSUME ControlTypeOK, NEW t \in Task, NEW outcome \in Callable, Leave(t, outcome)
  PROVE  StepsLeft(t)' = 0
<1>1. pc'[t] = outcome /\ phase'[t] = "before"
  BY DEF Leave, Goto, ControlTypeOK
<1>2. QED
  BY <1>1, StepsAtValues DEF StepsLeft

\* Going on within a phase.
LEMMA GotoSteps ==
  ASSUME ControlTypeOK, NEW t \in Task, NEW place, Goto(t, place), UNCHANGED phase
  PROVE  StepsLeft(t)' = StepsAt(place, phase[t])
<1>1. pc'[t] = place /\ phase'[t] = phase[t]
  BY DEF Goto, ControlTypeOK
<1>2. QED
  BY <1>1 DEF StepsLeft

\* And into the next phase.
LEMMA PhaseSteps ==
  ASSUME ControlTypeOK, NEW t \in Task, NEW p \in {"staged", "after"}, Goto(t, "status"),
         phase' = [phase EXCEPT ![t] = p]
  PROVE  StepsLeft(t)' = StepsAt("status", p)
<1>1. pc'[t] = "status" /\ phase'[t] = p
  BY DEF Goto, ControlTypeOK
<1>2. QED
  BY <1>1 DEF StepsLeft

\* Each step of execute() leaves the call fewer.
LEMMA StepDescends ==
  ASSUME ControlTypeOK, PhaseInv, NEW t \in Task, ExecuteStep(t)
  PROVE  StepsLeft(t)' \in 0 .. StepsLeft(t) - 1
<1> DEFINE p == phase[t]
           here == StepsLeft(t)
<1>1. p \in {"before", "staged", "after"} /\ Fits(pc[t], p)
  BY DEF ControlTypeOK, PhaseInv
<1>2. pc[t] \in Inside
  BY DEF ExecuteStep, ReadStatus, ReadBranch, Preflight, ValidateFiles, RecheckHead,
    LaunchAdd, GitAdd, VerifyStagedTargets, VerifyStagedContents, LaunchCommit, GitCommit,
    SnapshotAfter, ResolveCommit, ShowCommit, PersistAudit, Return, EvidenceFails,
    Inside, SnapshotPlaces
<1>3. here \in 1 .. 20 /\ here = StepsAt(pc[t], p)
  BY <1>1, <1>2, InsideSteps DEF StepsLeft
<1>4. ASSUME NEW outcome \in Callable, Leave(t, outcome)
      PROVE  StepsLeft(t)' \in 0 .. here - 1
  BY <1>3, <1>4, LeaveSteps
<1>5. ASSUME NEW place, Goto(t, place), UNCHANGED phase, StepsAt(place, p) \in 0 .. here - 1
      PROVE  StepsLeft(t)' \in 0 .. here - 1
  BY <1>5, GotoSteps
<1>6. ASSUME NEW guard, NEW place, NEW outcome \in Callable, Check(t, guard, place, outcome),
             StepsAt(place, p) \in 0 .. here - 1
      PROVE  StepsLeft(t)' \in 0 .. here - 1
  BY <1>4, <1>5, <1>6 DEF Check, locals
<1>7. {"written", "refused", "failed", "crashed", "verified"} \subseteq Callable
  BY DEF Callable
<1>8. SUFFICES StepsLeft(t)' \in 0 .. here - 1
  OBVIOUS
<1> HIDE DEF here
<1>a. CASE ReadStatus(t)
  <2>1. StepsAt("branch", p) \in 0 .. here - 1
    BY <1>a, <1>1, <1>3, StepsAtValues DEF ReadStatus
  <2>. QED BY <1>a, <1>5, <2>1 DEF ReadStatus
<1>b. CASE ReadBranch(t)
  <2>1. StepsAt("head", p) \in 0 .. here - 1
    BY <1>b, <1>1, <1>3, StepsAtValues DEF ReadBranch
  <2>. QED BY <1>b, <1>5, <2>1 DEF ReadBranch
<1>c. CASE Preflight(t)
  <2>1. StepsAt("files", p) \in 0 .. here - 1
    BY <1>c, <1>1, <1>3, StepsAtValues DEF Preflight
  <2>. QED BY <1>c, <1>4, <1>5, <1>7, <2>1 DEF Preflight
<1>d. CASE ValidateFiles(t)
  <2>1. StepsAt("recheck", p) \in 0 .. here - 1
    BY <1>d, <1>1, <1>3, StepsAtValues DEF ValidateFiles
  <2>. QED BY <1>d, <1>6, <1>7, <2>1 DEF ValidateFiles
<1>e. CASE RecheckHead(t)
  <2>1. StepsAt("add", p) \in 0 .. here - 1
    BY <1>e, <1>1, <1>3, StepsAtValues DEF RecheckHead
  <2>. QED BY <1>e, <1>6, <1>7, <2>1 DEF RecheckHead
<1>f. CASE LaunchAdd(t)
  <2>1. StepsAt("adding", p) \in 0 .. here - 1
    BY <1>f, <1>1, <1>3, StepsAtValues DEF LaunchAdd
  <2>. QED BY <1>f, <1>4, <1>5, <1>7, <2>1 DEF LaunchAdd, locals
<1>g. CASE GitAdd(t)
  <2>1. StepsLeft(t)' = StepsAt("status", "staged")
    BY <1>g, PhaseSteps DEF GitAdd
  <2>. QED BY <1>g, <1>1, <1>3, <2>1, StepsAtValues DEF GitAdd
<1>h. CASE VerifyStagedTargets(t)
  <2>1. StepsAt("evidence", p) \in 0 .. here - 1
    BY <1>h, <1>1, <1>3, StepsAtValues DEF VerifyStagedTargets
  <2>. QED BY <1>h, <1>6, <1>7, <2>1 DEF VerifyStagedTargets
<1>i. CASE VerifyStagedContents(t)
  <2>1. StepsAt("commit", p) \in 0 .. here - 1
    BY <1>i, <1>1, <1>3, StepsAtValues DEF VerifyStagedContents
  <2>. QED BY <1>i, <1>6, <1>7, <2>1 DEF VerifyStagedContents
<1>j. CASE LaunchCommit(t)
  <2>1. StepsAt("committing", p) \in 0 .. here - 1
    BY <1>j, <1>1, <1>3, StepsAtValues DEF LaunchCommit
  <2>. QED BY <1>j, <1>4, <1>5, <1>7, <2>1 DEF LaunchCommit, locals
<1>k. CASE GitCommit(t)
  <2>1. CASE Leave(t, "failed")
    BY <2>1, <1>4, <1>7
  <2>2. CASE ~Leave(t, "failed")
    <3>1. phase' = [phase EXCEPT ![t] = "after"] /\ Goto(t, "status")
      BY <1>k, <2>2 DEF GitCommit
    <3>2. StepsLeft(t)' = StepsAt("status", "after")
      BY <3>1, PhaseSteps
    <3>. QED BY <1>k, <1>1, <1>3, <3>2, StepsAtValues DEF GitCommit
  <2>. QED BY <2>1, <2>2
<1>l. CASE SnapshotAfter(t)
  <2>1. StepsAt("resolve", p) \in 0 .. here - 1
    BY <1>l, <1>1, <1>3, StepsAtValues DEF SnapshotAfter
  <2>. QED BY <1>l, <1>5, <2>1 DEF SnapshotAfter
<1>m. CASE ResolveCommit(t)
  <2>1. StepsAt("show", p) \in 0 .. here - 1
    BY <1>m, <1>1, <1>3, StepsAtValues DEF ResolveCommit
  <2>. QED BY <1>m, <1>4, <1>5, <1>7, <2>1 DEF ResolveCommit
<1>n. CASE ShowCommit(t)
  <2>1. StepsAt("audit", p) \in 0 .. here - 1
    BY <1>n, <1>1, <1>3, StepsAtValues DEF ShowCommit
  <2>. QED BY <1>n, <1>6, <1>7, <2>1 DEF ShowCommit
<1>o. CASE PersistAudit(t)
  <2>1. StepsAt("unlock", p) \in 0 .. here - 1
    BY <1>o, <1>1, <1>3, StepsAtValues DEF PersistAudit
  <2>. QED BY <1>o, <1>4, <1>5, <1>7, <2>1 DEF PersistAudit, locals
<1>p. CASE Return(t)
  BY <1>p, <1>4, <1>7 DEF Return
<1>q. CASE EvidenceFails(t)
  BY <1>q, <1>4, <1>7 DEF EvidenceFails
<1>. QED
  BY <1>a, <1>b, <1>c, <1>d, <1>e, <1>f, <1>g, <1>h, <1>i, <1>j, <1>k, <1>l, <1>m, <1>n,
     <1>o, <1>p, <1>q DEF ExecuteStep

\* Whoever holds the lock is never more than twenty steps from freeing it; each of
\* its steps takes it nearer, and no other task, orphan, crash or program takes it
\* back: nobody can make execute() look twice at the same thing.
THEOREM HolderDescends ==
  Spec => [][\A t \in Task : lock = t =>
               /\ StepsLeft(t) \in 1 .. 20
               /\ ExecuteStep(t) => StepsLeft(t)' < StepsLeft(t)
               /\ StepsLeft(t)' <= StepsLeft(t)
               /\ StepsLeft(t)' = 0 <=> lock' # t]_vars
<1> DEFINE Down(t) == /\ StepsLeft(t) \in 1 .. 20
                      /\ ExecuteStep(t) => StepsLeft(t)' < StepsLeft(t)
                      /\ StepsLeft(t)' <= StepsLeft(t)
                      /\ StepsLeft(t)' = 0 <=> lock' # t
<1>1. ASSUME IInv, IInv', [Next]_vars, NEW t \in Task, lock = t
      PROVE  Down(t)
  <2>1. ControlTypeOK /\ ControlTypeOK' /\ PhaseInv /\ pc[t] \in Inside
    BY <1>1 DEF IInv, TypeOK, ControlTypeOK
  <2>2. StepsLeft(t) \in 1 .. 20
    BY <2>1, InsideSteps DEF StepsLeft, ControlTypeOK
  <2>3. StepsLeft(t)' = 0 <=> lock' # t
    <3>1. CASE pc'[t] \in Inside
      BY <2>1, <3>1, InsideSteps DEF StepsLeft, ControlTypeOK
    <3>2. CASE pc'[t] \notin Inside
      BY <2>1, <3>2, StepsAtValues DEF StepsLeft, ControlTypeOK, Places
    <3>. QED BY <3>1, <3>2
  <2>4. CASE ExecuteStep(t)
    BY <2>1, <2>2, <2>3, <2>4, StepDescends
  <2>5. ASSUME UNCHANGED <<pc, phase>>
        PROVE  StepsLeft(t)' <= StepsLeft(t)
    BY <2>2, <2>5 DEF StepsLeft
  <2>6. ASSUME NEW s \in Task, Write(s) \/ Execute(s) \/ Refuse(s)
        PROVE  StepsLeft(t)' <= StepsLeft(t)
    <3>1. /\ pc[s] \in Callable \cup {"idle"} /\ UNCHANGED phase
          /\ \E place : pc' = [pc EXCEPT ![s] = place]
      BY <2>6 DEF Write, Execute, Refuse, Goto, locals
    <3>2. s # t
      BY <2>1, <3>1 DEF Callable, Inside, SnapshotPlaces
    <3>3. pc'[t] = pc[t] /\ phase'[t] = phase[t]
      BY <2>1, <3>1, <3>2 DEF ControlTypeOK
    <3>. QED BY <2>2, <3>3 DEF StepsLeft
  <2>7. ASSUME NEW s \in Task, Crash(s)
        PROVE  StepsLeft(t)' <= StepsLeft(t)
    <3>1. s = t
      BY <1>1, <2>1, <2>7 DEF Crash, ControlTypeOK
    <3>2. StepsLeft(t)' = 0
      BY <2>1, <2>7, <3>1, LeaveSteps DEF Crash, Callable
    <3>. QED BY <2>2, <3>2
  <2>8. ASSUME NEW s \in Task, ExecuteStep(s), s # t
        PROVE  FALSE
    <3>1. pc[s] \in Inside
      BY <2>8 DEF ExecuteStep, ReadStatus, ReadBranch, Preflight, ValidateFiles, RecheckHead,
        LaunchAdd, GitAdd, VerifyStagedTargets, VerifyStagedContents, LaunchCommit, GitCommit,
        SnapshotAfter, ResolveCommit, ShowCommit, PersistAudit, Return, EvidenceFails,
        Inside, SnapshotPlaces
    <3>. QED BY <1>1, <2>1, <2>8, <3>1 DEF ControlTypeOK
  <2>9. CASE ForeignStep \/ \E o \in orphans : OrphanEnds(o)
    <3>1. UNCHANGED <<pc, phase>>
      BY <2>9 DEF ForeignStep, OrphanEnds, Edit, ForeignAdd, ForeignCommit, Unstage, ForeignReset,
        Switch, Disturb, locals
    <3>2. StepsLeft(t)' <= StepsLeft(t)
      BY <2>5, <3>1
    <3>. QED BY <2>2, <2>3, <2>4, <3>2
  <2>10. CASE UNCHANGED vars
    BY <2>2, <2>3, <2>4, <2>5, <2>10 DEF vars, locals
  <2>. QED BY <1>1, <2>2, <2>3, <2>4, <2>6, <2>7, <2>8, <2>9, <2>10 DEF Next
<1>2. IInv /\ IInv' /\ [Next]_vars => \A t \in Task : lock = t => Down(t)
  BY <1>1
<1>3. QED
  BY <1>2, Invariant, PTL DEF Spec

=============================================================================
