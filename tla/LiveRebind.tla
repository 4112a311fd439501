----------------------------- MODULE LiveRebind -----------------------------
(***************************************************************************)
(* src/git_mutation_live_rebind.py: is the result of a Git mutation, read  *)
(* back from its record, still true of the repository?                     *)
(*                                                                         *)
(* The record is checked against itself; then four Git processes are run   *)
(* one after the other in the sandbox, each reading one fact.  No lock is  *)
(* taken: others commit, switch and edit between any two of these reads.   *)
(***************************************************************************)
EXTENDS ProcessSandbox, FiniteSets

CONSTANTS
    Branch,
    Commit,
    Repos,        \* what others may make of branch, HEAD and cleanness
    PathsOf,      \* of each commit, the paths that git show lists
    Payloads,     \* what the record may hold
    Workspace,    \* the active workspace
    MaxEvents     \* bound: what others do to the repository

ASSUME EmptyAssumption == Empty # "dirty"

VARIABLES
    step,         \* the place in rebind_live_git_mutation_result
    payload,      \* the record
    repo,         \* branch, HEAD and cleanness of the repository
    read,         \* whether this Git process has read the repository
    trace,        \* history: all values of repo since the call began
    rebound       \* the evidence returned

rebindVars == <<step, payload, repo, read, trace, rebound>>
vars == <<sandboxVars, rebindVars>>

NoAttestation == [task |-> "none"]
NotRebound == [branch |-> Empty]

Reads == {"branch", "head", "status", "show"}
After == [branch |-> "head", head |-> "status", status |-> "show", show |-> "done"]

ASSUME ReposAssumption ==
    Repos \subseteq [branch : Branch \cup {Empty}, head : Commit, dirty : BOOLEAN]

(***************************************************************************)
(* restore_git_mutation_result: the record against itself.                 *)
(***************************************************************************)
(* verify_restored_attestation and verify_attestation_binding: the          *)
(* attestation repeats the identity of the result.                          *)
AttestationBinds(r) ==
    LET a == r.attestation
    IN /\ a.task = r.task /\ a.worker = r.worker
       /\ a.targets = r.targets /\ a.targets # {}
       /\ a.sha = r.sha

Restorable(r) ==
    /\ r.wellformed
    /\ r.verified /\ r.committed => r.staged
    /\ r.committed => r.sha \in Commit /\ r.after.head = r.sha
    /\ IF r.attestation = NoAttestation THEN ~r.verified /\ ~r.committed
                                        ELSE AttestationBinds(r)

(* What rebinding asks beyond that before the first Git process.            *)
Rebindable(r) ==
    /\ Restorable(r)
    /\ r.attestation # NoAttestation
    /\ r.committed /\ r.verified
    /\ r.attestation.workspace = Workspace

(***************************************************************************)
(* rebind_live_git_mutation_result                                         *)
(***************************************************************************)
Begin(r) ==
    /\ step = "idle"
    /\ payload' = r
    /\ step' = IF Rebindable(r) THEN "branch" ELSE "raised"
    /\ trace' = <<repo>>
    /\ UNCHANGED <<repo, read, rebound, sandboxVars>>

(* What Git prints at this step.  An empty output of git status says that   *)
(* index and files are as HEAD has them.                                    *)
Printed ==
    CASE step = "branch" -> repo.branch
      [] step = "head"   -> repo.head
      [] step = "status" -> IF repo.dirty THEN "dirty" ELSE Empty
      [] step = "show"   -> PathsOf[payload.attestation.sha]

(* Git reads the repository, once, at some moment before it ends.           *)
Read ==
    /\ step \in Reads
    /\ Running(Main)
    /\ ~read
    /\ read' = TRUE
    /\ printed' = Printed
    /\ UNCHANGED <<phase, alive, grouped, holding, surviving, signalled, escaped, returncode,
                   outcome, step, payload, repo, trace, rebound>>

(* Mutant: an empty answer is taken without asking whether Git succeeded.   *)
TrustworthyOutput(result) == result.kind = "result" /\ ~result.timed_out /\ ~result.truncated

(* _run_read_only. *)
Trustworthy(result) ==
    /\ result.kind = "result"
    /\ result.returncode = 0 /\ ~result.timed_out /\ ~result.truncated

(* What each of the four outputs has to be; a detached HEAD is no branch.   *)
Expected(out) ==
    CASE step = "branch" -> out # Empty /\ out = payload.after.branch
      [] step = "head"   -> out = payload.sha
      [] step = "status" -> out = Empty
      [] step = "show"   -> out = payload.targets /\ out = payload.attestation.evidence

(* Evidence is what the process printed; nothing is read again.             *)
Judge ==
    /\ step \in Reads
    /\ phase = "off"
    /\ outcome # NoOutcome
    /\ IF Trustworthy(outcome) /\ Expected(outcome.stdout)
         THEN /\ step' = After[step]
              /\ rebound' = IF step = "show"
                              THEN [branch |-> payload.after.branch, sha |-> payload.sha,
                                    task |-> payload.task, targets |-> payload.targets]
                              ELSE rebound
         ELSE step' = "raised" /\ UNCHANGED rebound
    /\ outcome' = NoOutcome
    /\ read' = FALSE
    /\ UNCHANGED <<phase, processVars, payload, repo, trace>>

(* One Git process of the four; it ends with 0 only when it has read.       *)
GitProcess ==
    /\ step \in Reads
    /\ \/ (Stop \/ Launch) /\ outcome = NoOutcome
       \/ SandboxStep
       \/ ProcessStep /\ (Main \in alive \ alive' => returncode' # 0 \/ read)
    /\ UNCHANGED rebindVars

(* Others switch, commit, amend, edit or clean up, during the call.         *)
Others(state) ==
    /\ step \in Reads
    /\ Len(trace) <= MaxEvents
    /\ state # repo
    /\ repo' = state
    /\ trace' = Append(trace, state)
    /\ UNCHANGED <<step, payload, read, rebound, sandboxVars>>

Init ==
    /\ SandboxInit
    /\ step = "idle" /\ payload = NotRebound /\ rebound = NotRebound
    /\ repo \in Repos /\ read = FALSE /\ trace = <<>>

Next ==
    \/ \E r \in Payloads : Begin(r)
    \/ GitProcess
    \/ Read
    \/ Judge
    \/ \E state \in Repos : Others(state)

Spec == Init /\ [][Next]_vars

(* The caller goes on, and the sandbox is as fair as by itself.             *)
FairSpec == Spec /\ WF_vars(Judge) /\ SandboxFairness

(***************************************************************************)
(* Properties                                                              *)
(***************************************************************************)
(* Evidence that is returned was true: in this order and during the call,   *)
(* the branch of the result was checked out, its commit was HEAD, and the   *)
(* repository was clean; and the commit has just the paths the task was     *)
(* authorized for.  (All of it need not have been true at one moment.)      *)
ReboundWasTrue ==
    step = "done" =>
        /\ \E i, j, k \in DOMAIN trace :
              /\ i <= j /\ j <= k
              /\ trace[i].branch = rebound.branch
              /\ trace[j].head = rebound.sha
              /\ ~trace[k].dirty
        /\ rebound.sha = payload.attestation.sha
        /\ rebound.task = payload.attestation.task
        /\ PathsOf[rebound.sha] = rebound.targets
=============================================================================
