------------------------ MODULE ProjectUnderstanding ------------------------
(***************************************************************************)
(* project_understanding_pipeline.py: one analyze(), from the scan to the  *)
(* context, and the leader's admission of that context.                    *)
(*                                                                         *)
(* The stages read the workspace one after the other and one file after    *)
(* the other, each through its own walk; others edit it in between.        *)
(***************************************************************************)
EXTENDS ProjectScanner, RequirementAnalysis

CONSTANTS
    Trees,           \* the workspaces an analysis may begin with
    Manifests,       \* manifest files classify_manifest_file may be given
    Evidences,       \* execution_evidence analyze() may be given
    MaxSpecification \* max_requirements of the specification analyzer

(* Numbers and lists of a manifest file, which may say anything else.       *)
Readings(part) ==
    \A k \in DOMAIN part :
        /\ part[k].kind \in {"int", "float"} => part[k].n \in Int
        /\ part[k].kind = "list" =>
              part[k].items \in Seq({part[k].items[i] : i \in DOMAIN part[k].items})

ASSUME ManifestsAssumption ==
    \A m \in Manifests : /\ m.files \in [Path -> Nat]
                         /\ Readings(m.top) /\ Readings(AsDict(m.notes))

ASSUME TreesAssumption == \A t \in Trees : DOMAIN t = Path /\ \A p \in Path : t[p] \in Content[p]

VARIABLES
    documents,    \* documents that are discovered and not yet read
    required,     \* the requirements found so far
    candidates,   \* recorded files whose text is not yet read
    records,      \* the texts read
    evidence,     \* execution_evidence of this call
    classified,   \* the classification
    entries,      \* what the stages made of the requirements
    context       \* the context, or that it could not be built

stageVars == <<documents, required, candidates, records, evidence, classified, entries, context>>
vars == <<tree, scanVars, historyVars, stageVars>>

NotClassified == [state |-> "none"]

Init ==
    /\ tree \in Trees
    /\ pc = "idle" /\ dirs = {} /\ names = {} /\ count = 0
    /\ files = [p \in Path |-> 0] /\ types = {} /\ git = NoGit /\ manifest = NoManifest
    /\ edits = 0 /\ unlisted = {} /\ kept = {} /\ was = {}
    /\ documents = {} /\ required = {} /\ candidates = {} /\ records = {}
    /\ evidence \in Evidences
    /\ classified = NotClassified /\ entries = {} /\ context = Raised

Scan ==
    /\ \/ StartScan
       \/ \E d \in Directory : ListDirectory(d)
       \/ \E p \in Path : RecordFile(p)
       \/ FinishScan
       \/ SaveManifest
    /\ UNCHANGED stageVars

(* classify(), and discover_documents() by a walk of its own, rglob, which  *)
(* passes over directories it may not read; another failure raises.         *)
Discover ==
    /\ pc = "scanned"
    /\ classified' = Classify(manifest)
    /\ \/ /\ pc' = "documents"
          /\ \E hidden \in SUBSET Directory :
                documents' = {p \in Path : IsDocument(tree, p) /\ OnTheWay(p) \cap hidden = {}}
       \/ pc' = "raised" /\ UNCHANGED documents
    /\ UNCHANGED <<tree, dirs, names, count, files, types, git, manifest, historyVars,
                   required, candidates, records, evidence, entries, context>>

(* The documents in their order.  One that cannot be read requires nothing. *)
ReadDocument(p) ==
    /\ pc = "documents"
    /\ p \in First(documents, 1)
    /\ documents' = documents \ {p}
    /\ required' = required \cup (IF Readable(tree, p)
                                    THEN Extracted(p, tree[Resolved(tree, p)].lines) ELSE {})
    /\ pc' = IF Cardinality(required') >= MaxSpecification THEN "raised" ELSE pc
    /\ UNCHANGED <<tree, dirs, names, count, files, types, git, manifest, historyVars,
                   candidates, records, evidence, classified, entries, context>>

(* _candidate_files takes the paths of the manifest.                        *)
TakeCandidates ==
    /\ pc = "documents"
    /\ documents = {}
    /\ pc' = "records"
    /\ candidates' = {p \in Path : manifest.files[p] > 0 /\ ~Has(p, "sensitive")}
    /\ UNCHANGED <<tree, dirs, names, count, files, types, git, manifest, historyVars,
                   documents, required, records, evidence, classified, entries, context>>

(* _read_records resolves each path anew; what is gone is left out.         *)
ReadRecord(p) ==
    /\ pc = "records"
    /\ p \in First(candidates, 1)
    /\ candidates' = candidates \ {p}
    /\ \/ /\ tree[p].kind = "outside"
          /\ pc' = "raised"
          /\ UNCHANGED records
       \/ /\ tree[p].kind # "outside"
          /\ Readable(tree, p)
          /\ records' = records \cup {[path |-> Resolved(tree, p),
                                       words |-> tree[Resolved(tree, p)].words]}
          /\ UNCHANGED pc
       \/ /\ tree[p].kind # "outside"
          /\ ~Readable(tree, p)
          /\ UNCHANGED <<pc, records>>
    /\ UNCHANGED <<tree, dirs, names, count, files, types, git, manifest, historyVars,
                   documents, required, evidence, classified, entries, context>>

(* The comparison and the context compute on what was read.                 *)
Conclude ==
    /\ pc = "records"
    /\ candidates = {}
    /\ entries' = Entries(required, records, evidence)
    /\ context' = BuildContext(entries')
    /\ pc' = IF context'.raised THEN "raised" ELSE "done"
    /\ UNCHANGED <<tree, dirs, names, count, files, types, git, manifest, historyVars,
                   documents, required, candidates, records, evidence, classified>>

(* CentralLeader._validate_context on the context: the authority fields are *)
(* constants of the builder, the project fields those of the classification. *)
Admitted == /\ classified.state \in {"BUILD", "CONTINUE", "MAINTAIN", "REPAIR"}
            /\ classified.autonomous_start_allowed

AskLeader ==
    /\ pc = "done"
    /\ pc' = IF Admitted THEN "planning" ELSE "refused"
    /\ UNCHANGED <<tree, dirs, names, count, files, types, git, manifest, historyVars, stageVars>>

(* classify_manifest_file(), on a manifest from anywhere.                   *)
ClassifyFile(m) ==
    /\ pc = "idle"
    /\ pc' = "classified"
    /\ manifest' = m
    /\ classified' = Classify(m)
    /\ UNCHANGED <<tree, dirs, names, count, files, types, git, historyVars,
                   documents, required, candidates, records, evidence, entries, context>>

Analyze ==
    \/ Scan
    \/ Discover
    \/ \E p \in Path : ReadDocument(p)
    \/ TakeCandidates
    \/ \E p \in Path : ReadRecord(p)
    \/ Conclude
    \/ AskLeader

Next ==
    \/ Analyze
    \/ \E m \in Manifests : ClassifyFile(m)
    \/ \E p \in Path : \E c \in Content[p] : Edit(p, c) /\ UNCHANGED stageVars

Spec == Init /\ [][Next]_vars

(***************************************************************************)
(* Properties                                                              *)
(***************************************************************************)
Classified == classified # NotClassified

(* A project is sent to repair on a confirmed failure and on nothing else:  *)
(* the keys and words that confirm a failure and the keys that give REPAIR  *)
(* its points are listed apart, and must not disagree on any manifest.      *)
RepairIsConfirmed ==
    Classified => (classified.state = "REPAIR" <=>
                      /\ classified.evidence.confirmed_failure
                      /\ ~classified.evidence.spec_conflict)

(* Work may start alone only in a state that no other comes near: it is     *)
(* REPAIR on a confirmed failure, or it has over a fifth more points than   *)
(* any other; so the order in which equal candidates are tried never        *)
(* decides what is done without a human.                                    *)
StartIsUnambiguous ==
    Classified /\ classified.autonomous_start_allowed =>
        LET scores == Scores(classified.evidence)
        IN /\ classified.state \notin {"UNKNOWN", "CONFLICT"}
           /\ \/ classified.state = "REPAIR" /\ classified.evidence.confirmed_failure
              \/ \E i \in DOMAIN scores :
                    /\ Candidates[i] = classified.state
                    /\ \A j \in DOMAIN scores \ {i} : 5 * scores[j] < 4 * scores[i]

(* What the scanner records is the workspace, whatever others do meanwhile: *)
(* a file that is there during the whole scan, outside of the excluded      *)
(* directories, has a record unless a directory on its way could not be     *)
(* listed, and every record is of a path that was a name, or what one stood *)
(* for, at a moment of the scan.  The exception is the code's: os.walk      *)
(* passes over such a directory, and nothing in the manifest says so.       *)
ScanIsComplete ==
    pc \notin {"idle", "walk", "raised", "classified"} =>
        /\ \A p \in kept :
              /\ \A d \in Above[Dir[p]] : "scan_excluded" \notin DirTraits[d]
              /\ OnTheWay(p) \cap unlisted = {}
              => manifest.files[p] > 0
        /\ \A p \in Path : manifest.files[p] > 0 => p \in was

(* A requirement whose execution failed is not lost on the way to the       *)
(* leader: whatever the texts say of it, the context leaves it out only     *)
(* when it has no room for any that did not fail.                           *)
FailedComesFirst ==
    pc \in {"done", "planning", "refused"} =>
        LET failed == {r \in required : ExecutionEvidence(r, evidence) = "failed"}
            shown == {e.requirement : e \in context.requirements}
        IN failed \subseteq shown \/ shown \subseteq failed

(* The context keeps to both of its bounds, the note on what was left out   *)
(* included, and leaves nothing out without need: the next requirement      *)
(* would not have fitted.                                                   *)
ContextFits ==
    pc \in {"done", "planning", "refused"} =>
        LET shown == context.requirements
            more == Urgent(entries, Cardinality(shown) + 1)
        IN /\ Cardinality(shown) <= MaxRequirements
           /\ SizeOf(shown) + (IF context.truncated THEN BudgetSize ELSE 0) <= MaxChars
           /\ \/ shown = entries
              \/ Cardinality(shown) = MaxRequirements
              \/ SizeOf(more) + BudgetSize > MaxChars

(* PROJECT_RULES.md: an unresolved conflict stops autonomous execution.     *)
(* The specification analyzer finds contradicting requirements, after the   *)
(* project is classified, and nothing reads what it found.                  *)
ConflictStops == pc = "planning" => Conflicts(required) = {}
=============================================================================
