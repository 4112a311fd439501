--------------------------- MODULE ProjectScanner ---------------------------
(***************************************************************************)
(* project_scanner.py: one ProjectScanner on a workspace that others edit  *)
(* while it is walked.                                                     *)
(*                                                                         *)
(* os.walk lists one directory at a time, and each file is resolved and    *)
(* classified by itself; between any two of these steps the workspace may  *)
(* change.  The walk takes directories and files in any order.             *)
(***************************************************************************)
EXTENDS ProjectStateClassifier

CONSTANTS
    MaxFiles,    \* MAX_FILES
    MaxEdits,    \* how many edits of others there may be (a bound for TLC)
    GitOutcomes, \* what the commands of detect_git may give
    OutputFile   \* where save() writes

VARIABLES
    tree,        \* the workspace: the content of every path
    pc,          \* the place in the analysis
    dirs,        \* directories os.walk has found and not listed
    names,       \* files of the listed directory that are not yet looked at
    count,       \* count of iter_project_files
    files,       \* self.files: how many records there are of each path
    types,       \* self.project_types
    git,         \* self.git_info
    manifest,    \* what scan() returned, or the manifest file holds
    edits,       \* how many edits there were
    unlisted,    \* history: directories that os.walk could not list
    kept,        \* paths that were unlinked files since the scan began
    was          \* paths that were a name, or what one stood for, since then

scanVars == <<pc, dirs, names, count, files, types, git, manifest>>
historyVars == <<edits, unlisted, kept, was>>

NoManifest == [top |-> EmptyDict, tests |-> List(<<>>), notes |-> List(<<>>),
               git |-> Dict(EmptyDict), files |-> [p \in Path |-> 0]]

NoGit == [detected |-> FALSE, branch |-> FALSE, root |-> FALSE, clean |-> "none",
          error |-> FALSE]

Plain(t) == {p \in Path : t[p].kind \in {"text", "unreadable"}}
Named(t) == UNION {{p, Resolved(t, p)} : p \in {q \in Path : t[q].kind # "missing"}}

(***************************************************************************)
(* detect_project_types: the markers among the names in the root.          *)
(***************************************************************************)
MarkersOf(t) == {p \in Path : /\ Dir[p] = Root
                              /\ t[Resolved(t, p)].kind # "missing"
                              /\ Has(p, "marker")}

(* scan() starts afresh and detects the project types. *)
StartScan ==
    /\ pc = "idle"
    /\ pc' = "walk"
    /\ dirs' = {Root}
    /\ names' = {}
    /\ count' = 0
    /\ files' = [p \in Path |-> 0]
    /\ types' = MarkersOf(tree)
    /\ git' = NoGit
    /\ unlisted' = {}
    /\ kept' = Plain(tree)
    /\ was' = Named(tree)
    /\ UNCHANGED <<tree, manifest, edits>>

(***************************************************************************)
(* iter_project_files                                                      *)
(***************************************************************************)
EnteredMutant(d) == {e \in Directory \ {Root} :
                        /\ Parent[e] = d
                        /\ \E p \in Path : Dir[p] = e /\ tree[p].kind # "missing"
                        /\ "scan_excluded" \notin DirTraits[e]}

Entered(d) == {e \in Directory \ {Root} :
                  Parent[e] = d /\ There(tree, e) /\ "scan_excluded" \notin DirTraits[e]}

(* The names in d.  A directory that has gone meanwhile has none.           *)
NamesIn(d) == {p \in Path : Dir[p] = d /\ tree[p].kind # "missing"}

(* os.walk lists d: the names in it, and its directories that are not       *)
(* pruned.  Without an onerror it passes over a directory that cannot be    *)
(* listed and what is below it, the root too, and goes on.                  *)
ListDirectory(d) ==
    /\ pc = "walk"
    /\ names = {}
    /\ d \in dirs
    /\ \/ /\ dirs' = (dirs \ {d}) \cup Entered(d)
          /\ names' = NamesIn(d)
          /\ UNCHANGED unlisted
       \/ /\ dirs' = dirs \ {d}
          /\ unlisted' = unlisted \cup {d}
          /\ UNCHANGED names
    /\ UNCHANGED <<tree, pc, count, files, types, git, manifest, edits, kept, was>>

(* The next name is counted, resolved, and the path it stands for recorded: *)
(* classify_file reads only its spelling and its size.                      *)
RecordFile(p) ==
    /\ pc = "walk"
    /\ p \in names
    /\ names' = names \ {p}
    /\ count' = count + 1
    /\ \/ /\ count + 1 <= MaxFiles
          /\ tree[p].kind # "outside"
          /\ files' = [files EXCEPT ![Resolved(tree, p)] = @ + 1]
          /\ UNCHANGED pc
       \/ /\ count + 1 > MaxFiles \/ tree[p].kind = "outside"
          /\ pc' = "raised"
          /\ UNCHANGED files
    /\ UNCHANGED <<tree, dirs, types, git, manifest, historyVars>>

(***************************************************************************)
(* detect_git, and the manifest                                            *)
(***************************************************************************)
(* out.work_tree: there is a .git, or git says that a parent has one.  The  *)
(* three commands run in order until one times out or cannot start; a root  *)
(* outside the workspace is not taken over, yet its status is.              *)
GitInfo(out) ==
    IF ~out.work_tree THEN NoGit
    ELSE LET ran(n) == out.stopped > n   \* command n ended
         IN [detected |-> TRUE,
             branch |-> ran(1) /\ out.branch = "named",
             root |-> ran(2) /\ out.root = "inside",
             clean |-> IF ran(3) /\ out.status \in {"clean", "dirty"} THEN out.status ELSE "none",
             error |-> \/ ~ran(3)
                       \/ out.root = "outside"
                       \/ out.status = "failed"]

(* The parts of the manifest other components read: tests and notes are     *)
(* lists, and git has the fields of GitInfo.                                *)
ManifestOf(recorded, info) ==
    [top |-> EmptyDict,
     tests |-> List(<<>>),
     notes |-> List(<<Str("note")>>),
     git |-> Dict([detected |-> Bool(info.detected), is_work_tree |-> Bool(info.detected),
                   branch |-> Bool(info.branch), root |-> Bool(info.root),
                   clean |-> Bool(info.clean = "clean"), status_error |-> Bool(info.error)]),
     files |-> recorded]

FinishScan ==
    /\ pc = "walk"
    /\ names = {}
    /\ dirs = {}
    /\ \E out \in GitOutcomes : git' = GitInfo(out)
    /\ manifest' = ManifestOf(files, git')
    /\ pc' = "scanned"
    /\ UNCHANGED <<tree, dirs, names, count, files, types, historyVars>>

(* save() of what scan() returned, by a caller other than the pipeline: the *)
(* file is replaced at once, or is as before.                               *)
SaveManifest ==
    /\ pc = "scanned"
    /\ \/ /\ OutputFile \in Path
          /\ tree' = [tree EXCEPT ![OutputFile] = Text({}, <<>>)]
          /\ pc' = "saved"
       \/ pc' = "raised" /\ UNCHANGED tree
    /\ UNCHANGED <<dirs, names, count, files, types, git, manifest, historyVars>>

(* Somebody else changes one file while the analysis runs. *)
Edit(p, c) ==
    /\ pc \in {"walk", "scanned", "documents", "records"}
    /\ edits < MaxEdits
    /\ tree[p] # c
    /\ tree' = [tree EXCEPT ![p] = c]
    /\ edits' = edits + 1
    /\ kept' = kept \cap Plain(tree')
    /\ was' = was \cup Named(tree')
    /\ UNCHANGED <<scanVars, unlisted>>
=============================================================================
