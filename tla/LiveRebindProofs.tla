-------------------------- MODULE LiveRebindProofs --------------------------
(***************************************************************************)
(* What the evidence of a rebinding says was so, and a reported timeout     *)
(* stops the command's group: for every set of processes, commits and       *)
(* records, and however often others change the repository.                 *)
(***************************************************************************)
EXTENDS LiveRebind, TLAPS

(***************************************************************************)
(* What a history t of the repository has seen, in this order.              *)
(***************************************************************************)
SawBranch(t, b) == \E i \in DOMAIN t : t[i].branch = b

SawHead(t, b, h) ==
    \E i, j \in DOMAIN t : i <= j /\ t[i].branch = b /\ t[j].head = h

SawClean(t, b, h) ==
    \E i, j, k \in DOMAIN t :
        /\ i <= j /\ j <= k
        /\ t[i].branch = b /\ t[j].head = h /\ ~t[k].dirty

(* What was seen stays seen when the history grows. *)
LEMMA SeenStays ==
    ASSUME NEW S, NEW t \in Seq(S), NEW r \in S, NEW b, NEW h
    PROVE  /\ SawBranch(t, b) => SawBranch(Append(t, r), b)
           /\ SawHead(t, b, h) => SawHead(Append(t, r), b, h)
           /\ SawClean(t, b, h) => SawClean(Append(t, r), b, h)
<1>1. /\ DOMAIN t \subseteq DOMAIN Append(t, r)
      /\ \A i \in DOMAIN t : Append(t, r)[i] = t[i]
  OBVIOUS
<1>2. SawBranch(t, b) => SawBranch(Append(t, r), b)
  BY <1>1 DEF SawBranch
<1>3. SawHead(t, b, h) => SawHead(Append(t, r), b, h)
  BY <1>1, Zenon DEF SawHead
<1>4. SawClean(t, b, h) => SawClean(Append(t, r), b, h)
  BY <1>1, Zenon DEF SawClean
<1>. QED BY <1>2, <1>3, <1>4

(* The present is the last entry of the history. *)
LEMMA SeenNow ==
    ASSUME NEW S, NEW t \in Seq(S), Len(t) > 0, NEW b, NEW h
    PROVE  /\ SawBranch(t, t[Len(t)].branch)
           /\ SawBranch(t, b) => SawHead(t, b, t[Len(t)].head)
           /\ SawHead(t, b, h) /\ ~t[Len(t)].dirty => SawClean(t, b, h)
<1>1. Len(t) \in DOMAIN t /\ \A i \in DOMAIN t : i <= Len(t)
  OBVIOUS
<1>2. SawBranch(t, t[Len(t)].branch)
  BY <1>1, Zenon DEF SawBranch
<1>3. SawBranch(t, b) => SawHead(t, b, t[Len(t)].head)
  BY <1>1, Zenon DEF SawBranch, SawHead
<1>4. SawHead(t, b, h) /\ ~t[Len(t)].dirty => SawClean(t, b, h)
  BY <1>1, Zenon DEF SawHead, SawClean
<1>. QED BY <1>2, <1>3, <1>4

(***************************************************************************)
(* The inductive invariant                                                 *)
(***************************************************************************)
HistoryInv ==
    /\ repo \in Repos
    /\ trace \in Seq(Repos)
    /\ step # "idle" => Len(trace) > 0 /\ trace[Len(trace)] = repo

(* A Git process runs only for one of the four reads, and whoever ends with *)
(* 0 has read; only its result says what was read.                          *)
ProcessInv ==
    /\ phase \in {"off"} \cup Waiting
    /\ phase = "off" => Main \notin alive
    /\ phase # "off" => outcome = NoOutcome
    /\ step \notin Reads => phase = "off" /\ outcome = NoOutcome
    /\ phase = "off" /\ outcome = NoOutcome => ~read
    /\ phase # "off" /\ Main \notin alive /\ returncode = 0 => read
    /\ phase = "off" /\ Trustworthy(outcome) => read /\ outcome.stdout = printed

(* What each read saw, before its result is judged ...                      *)
ReadInv ==
    read =>
        /\ step = "branch" => SawBranch(trace, printed)
        /\ step = "head" => SawHead(trace, payload.after.branch, printed)
        /\ step = "status" /\ printed = Empty =>
              SawClean(trace, payload.after.branch, payload.sha)
        /\ step = "show" => printed = PathsOf[payload.attestation.sha]

(* ... and what has been judged so far.                                     *)
JudgedInv ==
    /\ step \in {"idle", "raised", "done"} \cup Reads
    /\ step \in Reads \cup {"done"} => Rebindable(payload)
    /\ step = "head" => SawBranch(trace, payload.after.branch)
    /\ step = "status" => SawHead(trace, payload.after.branch, payload.sha)
    /\ step \in {"show", "done"} => SawClean(trace, payload.after.branch, payload.sha)
    /\ step = "done" =>
          /\ rebound = [branch |-> payload.after.branch, sha |-> payload.sha,
                        task |-> payload.task, targets |-> payload.targets]
          /\ PathsOf[payload.attestation.sha] = payload.targets

(* Once the group was told to end, whoever goes on had escaped that, or     *)
(* descends from one that had.                                              *)
GroupInv ==
    phase = "drain" \/ (phase = "off" /\ outcome.kind = "result" /\ outcome.timed_out) =>
        \A p \in alive : Running(p) => p \in escaped

IInv == HistoryInv /\ ProcessInv /\ ReadInv /\ JudgedInv

LEMMA InitIInv == Init => IInv
<1>. SUFFICES ASSUME Init PROVE IInv
  OBVIOUS
<1>. USE DEF Init, SandboxInit
<1>1. HistoryInv
  <2>1. <<>> \in Seq(Repos)
    OBVIOUS
  <2>. QED BY <2>1 DEF HistoryInv
<1>2. ProcessInv
  BY DEF ProcessInv, NoOutcome, Trustworthy, Reads
<1>3. ReadInv
  BY DEF ReadInv
<1>4. JudgedInv
  BY DEF JudgedInv, Reads
<1>. QED BY <1>1, <1>2, <1>3, <1>4 DEF IInv

(***************************************************************************)
(* One lemma for each kind of step                                         *)
(***************************************************************************)
LEMMA BeginStep ==
    ASSUME IInv, NEW r \in Payloads, Begin(r)
    PROVE  IInv'
<1>. USE DEF Begin
<1>1. HistoryInv'
  <2>1. trace' = <<repo>> /\ repo' = repo /\ repo \in Repos
    BY DEF IInv, HistoryInv
  <2>. QED BY <2>1 DEF HistoryInv
<1>2. step = "idle" /\ step' \in {"branch", "raised"} /\ UNCHANGED <<read, sandboxVars>>
  OBVIOUS
<1>3. phase = "off" /\ outcome = NoOutcome /\ ~read /\ Main \notin alive
  BY <1>2 DEF IInv, ProcessInv, Reads
<1>4. ProcessInv'
  BY <1>2, <1>3 DEF ProcessInv, sandboxVars, processVars, NoOutcome, Trustworthy
<1>5. ReadInv'
  BY <1>2, <1>3 DEF ReadInv
<1>6. JudgedInv'
  <2>1. payload' = r /\ (step' = "branch" => Rebindable(r))
    OBVIOUS
  <2>2. step' \in Reads \cup {"done"} => Rebindable(payload')
    BY <2>1, <1>2 DEF Reads
  <2>. QED BY <2>2, <1>2 DEF JudgedInv, Reads, Rebindable, Restorable, AttestationBinds,
                             NoAttestation
<1>. QED BY <1>1, <1>4, <1>5, <1>6 DEF IInv

LEMMA ProcessesStep ==
    ASSUME IInv, GitProcess
    PROVE  IInv'
<1>. USE DEF GitProcess
<1>1. UNCHANGED rebindVars
  OBVIOUS
<1>2. HistoryInv'
  BY <1>1 DEF IInv, HistoryInv, rebindVars
<1>3. JudgedInv'
  BY <1>1 DEF IInv, JudgedInv, rebindVars, Rebindable, Restorable, AttestationBinds
<1>4. ProcessInv'
  <2>. step \in Reads /\ step' = step /\ read' = read
    BY <1>1 DEF rebindVars
  <2>. USE DEF IInv, ProcessInv, Trustworthy, NoOutcome
  <2>1. CASE Stop /\ outcome = NoOutcome
    BY <2>1 DEF Stop, SafetyStop, processVars
  <2>2. CASE Launch /\ outcome = NoOutcome
    BY <2>2 DEF Launch, Waiting
  <2>3. CASE Communicate
    <3>1. PICK truncated \in BOOLEAN : outcome' = Result(returncode, printed, FALSE, truncated)
      BY <2>3 DEF Communicate
    <3>2. phase = "communicate" /\ phase' = "off" /\ Main \notin alive /\ UNCHANGED processVars
      BY <2>3 DEF Communicate, Drained
    <3>3. /\ outcome' # [kind |-> "none"] /\ outcome'.stdout = printed
          /\ outcome'.returncode = returncode
      BY <3>1 DEF Result
    <3>. QED BY <3>2, <3>3 DEF processVars, Waiting
  <2>4. CASE TimeUp
    BY <2>4 DEF TimeUp, processVars, Waiting
  <2>5. CASE TerminateProcessTree
    BY <2>5 DEF TerminateProcessTree, Signal, Waiting
  <2>6. CASE Drain
    <3>1. PICK truncated \in BOOLEAN : outcome' = Result(1, printed, TRUE, truncated)
      BY <2>6 DEF Drain
    <3>2. phase = "drain" /\ phase' = "off" /\ Main \notin alive /\ UNCHANGED processVars
      BY <2>6 DEF Drain, Drained
    <3>3. outcome' # [kind |-> "none"] /\ outcome'.returncode = 1
      BY <3>1 DEF Result
    <3>. QED BY <3>2, <3>3 DEF processVars, Waiting
  <2>7. CASE ProcessStep /\ (Main \in alive \ alive' => returncode' # 0 \/ read)
    <3>. DEFINE Unmoved == /\ UNCHANGED <<phase, printed, outcome>>
                           /\ Main \in alive' => Main \in alive
                           /\ Main \notin alive /\ Main \notin alive' =>
                                 returncode' = returncode
    <3>1. Unmoved
      <4>1. ASSUME NEW p \in Process, Heed(p) PROVE Unmoved
        BY <4>1 DEF Heed, Ends
      <4>2. ASSUME NEW p \in Process, Exit(p) PROVE Unmoved
        BY <4>2 DEF Exit, Ends, Running
      <4>3. ASSUME NEW p \in Process, Turn(p) PROVE Unmoved
        BY <4>3 DEF Turn
      <4>4. ASSUME NEW p \in Process, NEW q \in Process, Spawn(p, q) PROVE Unmoved
        BY <4>4 DEF Spawn
      <4>. QED BY <2>7, <4>1, <4>2, <4>3, <4>4 DEF ProcessStep
    <3>. QED BY <2>7, <3>1
  <2>. QED BY <2>1, <2>2, <2>3, <2>4, <2>5, <2>6, <2>7 DEF SandboxStep
<1>5. ReadInv'
  <2>1. CASE printed' = printed
    BY <1>1, <2>1 DEF IInv, ReadInv, rebindVars
  <2>2. CASE printed' # printed
    <3>1. Launch /\ outcome = NoOutcome
      BY <2>2 DEF SandboxStep, Communicate, TimeUp, TerminateProcessTree, Signal, Drain, ProcessStep,
                  Heed, Exit, Ends, Turn, Spawn, Stop, processVars
    <3>2. ~read
      BY <3>1 DEF Launch, IInv, ProcessInv
    <3>. QED BY <3>2, <1>1 DEF ReadInv, rebindVars
  <2>. QED BY <2>1, <2>2
<1>. QED BY <1>2, <1>3, <1>4, <1>5 DEF IInv

LEMMA ReadStep ==
    ASSUME IInv, Read
    PROVE  IInv'
<1>. USE DEF Read
<1>1. /\ step \in Reads /\ Main \in alive /\ read' /\ printed' = Printed
      /\ UNCHANGED <<phase, alive, outcome, returncode, step, payload, repo, trace, rebound>>
  BY DEF Running
<1>2. HistoryInv'
  BY <1>1 DEF IInv, HistoryInv
<1>3. JudgedInv'
  BY <1>1 DEF IInv, JudgedInv, Rebindable, Restorable, AttestationBinds
<1>4. ProcessInv'
  BY <1>1 DEF IInv, ProcessInv
<1>5. ReadInv'
  <2>1. trace \in Seq(Repos) /\ Len(trace) > 0 /\ trace[Len(trace)] = repo /\ repo \in Repos
    BY <1>1 DEF IInv, HistoryInv, Reads
  <2>2. CASE step = "branch"
    <3>1. printed' = repo.branch
      BY <1>1, <2>2 DEF Printed
    <3>2. SawBranch(trace, repo.branch)
      BY <2>1, SeenNow
    <3>. QED BY <1>1, <2>2, <3>1, <3>2 DEF ReadInv
  <2>3. CASE step = "head"
    <3>1. printed' = repo.head
      BY <1>1, <2>3 DEF Printed
    <3>2. SawBranch(trace, payload.after.branch)
      BY <2>3 DEF IInv, JudgedInv
    <3>3. SawHead(trace, payload.after.branch, repo.head)
      BY <3>2, <2>1, SeenNow
    <3>. QED BY <1>1, <2>3, <3>1, <3>3 DEF ReadInv
  <2>4. CASE step = "status"
    <3>1. printed' = IF repo.dirty THEN "dirty" ELSE Empty
      BY <1>1, <2>4 DEF Printed
    <3>2. SawHead(trace, payload.after.branch, payload.sha)
      BY <2>4 DEF IInv, JudgedInv
    <3>3. printed' = Empty => SawClean(trace, payload.after.branch, payload.sha)
      BY <3>1, <3>2, <2>1, SeenNow, EmptyAssumption
    <3>. QED BY <1>1, <2>4, <3>3 DEF ReadInv
  <2>5. CASE step = "show"
    BY <1>1, <2>5 DEF ReadInv, Printed
  <2>. QED BY <1>1, <2>2, <2>3, <2>4, <2>5 DEF Reads
<1>. QED BY <1>2, <1>3, <1>4, <1>5 DEF IInv

LEMMA JudgeStep ==
    ASSUME IInv, Judge
    PROVE  IInv'
<1>. USE DEF Judge
<1>1. /\ step \in Reads /\ phase = "off" /\ outcome' = NoOutcome /\ ~read'
      /\ UNCHANGED <<phase, alive, returncode, printed, payload, repo, trace>>
  BY DEF processVars
<1>2. HistoryInv'
  BY <1>1 DEF IInv, HistoryInv, Reads
<1>3. ProcessInv'
  BY <1>1 DEF IInv, ProcessInv, Trustworthy, NoOutcome
<1>4. ReadInv'
  BY <1>1 DEF ReadInv
<1>5. JudgedInv'
  <2>0. Rebindable(payload) /\ Rebindable(payload)'
    BY <1>1 DEF IInv, JudgedInv, Rebindable, Restorable, AttestationBinds
  <2>1. CASE ~(Trustworthy(outcome) /\ Expected(outcome.stdout))
    <3>1. step' = "raised"
      BY <2>1
    <3>. QED BY <3>1, <2>0 DEF JudgedInv, Reads
  <2>2. CASE Trustworthy(outcome) /\ Expected(outcome.stdout)
    <3>1. /\ read /\ Expected(printed) /\ step' = After[step]
          /\ rebound' = IF step = "show"
                          THEN [branch |-> payload.after.branch, sha |-> payload.sha,
                                task |-> payload.task, targets |-> payload.targets]
                          ELSE rebound
      BY <1>1, <2>2 DEF IInv, ProcessInv
    <3>2. ReadInv /\ JudgedInv
      BY DEF IInv
    <3>3. CASE step = "branch"
      <4>1. step' = "head" /\ printed = payload.after.branch
        BY <3>1, <3>3 DEF After, Expected
      <4>2. SawBranch(trace, payload.after.branch)
        BY <4>1, <3>1, <3>2, <3>3 DEF ReadInv
      <4>. QED BY <4>1, <4>2, <1>1, <2>0 DEF JudgedInv, Reads
    <3>4. CASE step = "head"
      <4>1. step' = "status" /\ printed = payload.sha
        BY <3>1, <3>4 DEF After, Expected
      <4>2. SawHead(trace, payload.after.branch, payload.sha)
        BY <4>1, <3>1, <3>2, <3>4 DEF ReadInv
      <4>. QED BY <4>1, <4>2, <1>1, <2>0 DEF JudgedInv, Reads
    <3>5. CASE step = "status"
      <4>1. step' = "show" /\ printed = Empty
        BY <3>1, <3>5 DEF After, Expected
      <4>2. SawClean(trace, payload.after.branch, payload.sha)
        BY <4>1, <3>1, <3>2, <3>5 DEF ReadInv
      <4>. QED BY <4>1, <4>2, <1>1, <2>0 DEF JudgedInv, Reads
    <3>6. CASE step = "show"
      <4>1. step' = "done" /\ printed = payload.targets
        BY <3>1, <3>6 DEF After, Expected
      <4>2. /\ SawClean(trace, payload.after.branch, payload.sha)
            /\ PathsOf[payload.attestation.sha] = payload.targets
        BY <4>1, <3>1, <3>2, <3>6 DEF ReadInv, JudgedInv
      <4>. QED BY <4>1, <4>2, <1>1, <2>0, <3>1, <3>6 DEF JudgedInv, Reads
    <3>. QED BY <1>1, <3>3, <3>4, <3>5, <3>6 DEF Reads
  <2>. QED BY <2>1, <2>2
<1>. QED BY <1>2, <1>3, <1>4, <1>5 DEF IInv

LEMMA OthersStep ==
    ASSUME IInv, NEW state \in Repos, Others(state)
    PROVE  IInv'
<1>. USE DEF Others
<1>1. /\ repo' = state /\ trace' = Append(trace, state) /\ trace \in Seq(Repos)
      /\ UNCHANGED <<step, payload, read, rebound, phase, alive, returncode, printed, outcome>>
  BY DEF IInv, HistoryInv, sandboxVars, processVars
<1>2. HistoryInv'
  BY <1>1 DEF IInv, HistoryInv
<1>3. ProcessInv'
  BY <1>1 DEF IInv, ProcessInv, Trustworthy
<1>4. ReadInv'
  <2>1. /\ SawBranch(trace, printed) => SawBranch(trace', printed)
        /\ SawHead(trace, payload.after.branch, printed) =>
              SawHead(trace', payload.after.branch, printed)
        /\ SawClean(trace, payload.after.branch, payload.sha) =>
              SawClean(trace', payload.after.branch, payload.sha)
    BY <1>1, SeenStays, Zenon
  <2>. QED BY <1>1, <2>1 DEF IInv, ReadInv
<1>5. JudgedInv'
  <2>1. /\ SawBranch(trace, payload.after.branch) => SawBranch(trace', payload.after.branch)
        /\ SawHead(trace, payload.after.branch, payload.sha) =>
              SawHead(trace', payload.after.branch, payload.sha)
        /\ SawClean(trace, payload.after.branch, payload.sha) =>
              SawClean(trace', payload.after.branch, payload.sha)
    BY <1>1, SeenStays, Zenon
  <2>2. Rebindable(payload) => Rebindable(payload)'
    BY <1>1 DEF Rebindable, Restorable, AttestationBinds
  <2>. QED BY <1>1, <2>1, <2>2 DEF IInv, JudgedInv
<1>. QED BY <1>2, <1>3, <1>4, <1>5 DEF IInv

LEMMA StutterStep ==
    ASSUME IInv, UNCHANGED vars
    PROVE  IInv'
<1>1. HistoryInv'
  BY DEF IInv, HistoryInv, vars, rebindVars
<1>2. ProcessInv'
  BY DEF IInv, ProcessInv, Trustworthy, vars, rebindVars, sandboxVars, processVars
<1>3. ReadInv'
  BY DEF IInv, ReadInv, vars, rebindVars, sandboxVars, processVars
<1>4. JudgedInv'
  BY DEF IInv, JudgedInv, vars, rebindVars, Rebindable, Restorable, AttestationBinds
<1>. QED BY <1>1, <1>2, <1>3, <1>4 DEF IInv

(* The strengthening that ReboundWasTrue needs, for every step of the call. *)
THEOREM IInvHolds == Spec => []IInv
<1>1. IInv /\ [Next]_vars => IInv'
  BY BeginStep, ProcessesStep, ReadStep, JudgeStep, OthersStep, StutterStep DEF Next
<1>. QED BY <1>1, InitIInv, PTL DEF Spec

(* git_mutation_live_rebind.py: evidence that is returned was true, in the  *)
(* order in which the four Git processes read it.                           *)
THEOREM ReboundWasTrueHolds == Spec => []ReboundWasTrue
<1>1. IInv => ReboundWasTrue
  <2>. SUFFICES ASSUME IInv, step = "done" PROVE ReboundWasTrue
    BY DEF ReboundWasTrue
  <2>1. /\ Rebindable(payload)
        /\ SawClean(trace, payload.after.branch, payload.sha)
        /\ rebound = [branch |-> payload.after.branch, sha |-> payload.sha,
                      task |-> payload.task, targets |-> payload.targets]
        /\ PathsOf[payload.attestation.sha] = payload.targets
    BY DEF IInv, JudgedInv
  <2>2. /\ rebound.branch = payload.after.branch /\ rebound.sha = payload.sha
        /\ rebound.task = payload.task /\ rebound.targets = payload.targets
    BY <2>1
  <2>3. payload.sha = payload.attestation.sha /\ payload.task = payload.attestation.task
    BY <2>1 DEF Rebindable, Restorable, AttestationBinds
  <2>4. SawClean(trace, rebound.branch, rebound.sha)
    BY <2>1, <2>2
  <2>. QED BY <2>1, <2>2, <2>3, <2>4, Zenon DEF ReboundWasTrue, SawClean
<1>. QED BY <1>1, IInvHolds, PTL

(* From the SIGTERM on, whoever is still at work has escaped it.            *)
THEOREM GroupInvHolds == Spec => []GroupInv
<1>1. Init => GroupInv
  BY DEF Init, SandboxInit, GroupInv, NoOutcome
<1>2. GroupInv /\ [Next]_vars => GroupInv'
  <2>. SUFFICES ASSUME GroupInv, [Next]_vars PROVE GroupInv'
    OBVIOUS
  <2>. USE DEF GroupInv
  <2>1. CASE Stop
    BY <2>1 DEF Stop, SafetyStop, processVars, Running
  <2>2. CASE Launch
    BY <2>2 DEF Launch
  <2>3. CASE Communicate
    <3>1. PICK truncated \in BOOLEAN : outcome' = Result(returncode, printed, FALSE, truncated)
      BY <2>3 DEF Communicate
    <3>. QED BY <2>3, <3>1 DEF Communicate, Result, processVars
  <2>4. CASE TimeUp
    BY <2>4 DEF TimeUp, processVars
  <2>5. CASE TerminateProcessTree
    BY <2>5 DEF TerminateProcessTree, Signal, Running
  <2>6. CASE Drain
    BY <2>6 DEF Drain, processVars, Running
  <2>7. CASE ProcessStep
    <3>1. ASSUME NEW p \in Process, Heed(p) \/ Exit(p) PROVE GroupInv'
      BY <3>1 DEF Heed, Exit, Ends, Running
    <3>2. ASSUME NEW p \in Process, Turn(p) PROVE GroupInv'
      BY <3>2 DEF Turn, Running
    <3>3. ASSUME NEW p \in Process, NEW q \in Process, Spawn(p, q) PROVE GroupInv'
      BY <3>3 DEF Spawn, Running
    <3>. QED BY <2>7, <3>1, <3>2, <3>3 DEF ProcessStep
  <2>8. CASE UNCHANGED sandboxVars
    BY <2>8 DEF sandboxVars, processVars, Running
  <2>9. CASE Read
    BY <2>9 DEF Read, Running
  <2>10. CASE Judge
    BY <2>10 DEF Judge, processVars, Running, NoOutcome
  <2>11. CASE UNCHANGED vars
    BY <2>8, <2>11 DEF vars
  <2>. QED BY <2>1, <2>2, <2>3, <2>4, <2>5, <2>6, <2>7, <2>8, <2>9, <2>10, <2>11
           DEF Next, Begin, GitProcess, SandboxStep, Others
<1>. QED BY <1>1, <1>2, PTL DEF Spec

(* process_sandbox.py: when run() has reported a timeout, whoever of the    *)
(* command is still at work had left the group or survived the SIGTERM, or  *)
(* was started by such a process.                                           *)
THEOREM TimeoutStopsTheGroupHolds == Spec => []TimeoutStopsTheGroup
<1>1. GroupInv => TimeoutStopsTheGroup
  BY DEF GroupInv, TimeoutStopsTheGroup
<1>. QED BY <1>1, GroupInvHolds, PTL

(***************************************************************************)
(* What the second communicate() waits for.                                *)
(***************************************************************************)
(* Whom run() waits for.                                                    *)
Holders == holding \cup (alive \cap {Main})

HoldersInv == holding \subseteq alive

(* In the drain: somebody will heed the SIGTERM, or nobody is waited for;   *)
(* nobody is told a second time, and nobody new is waited for.              *)
DrainStep ==
    phase = "drain" /\ ~Stuck =>
        /\ Drained \/ alive \cap signalled # {}
        /\ phase' = "drain" =>
              ~Stuck' /\ signalled' \subseteq signalled /\ Holders' \subseteq Holders

(* Nobody holds the pipes who has ended. *)
LEMMA HoldersStep ==
    ASSUME HoldersInv, [Next]_vars
    PROVE  HoldersInv'
<1>. USE DEF HoldersInv
<1>1. CASE Launch
  BY <1>1 DEF Launch
<1>2. CASE UNCHANGED alive /\ holding' \subseteq holding
  BY <1>2
<1>3. ASSUME NEW p \in Process, Heed(p) \/ Exit(p) PROVE HoldersInv'
  BY <1>3 DEF Heed, Exit, Ends
<1>4. ASSUME NEW p \in Process, NEW q \in Process, Spawn(p, q) PROVE HoldersInv'
  BY <1>4 DEF Spawn
<1>. QED
  BY <1>1, <1>2, <1>3, <1>4
  DEF Next, Begin, GitProcess, Read, Judge, Others, Stop, SandboxStep, Communicate, TimeUp,
      TerminateProcessTree, Signal, Drain, ProcessStep, Turn, sandboxVars, processVars, vars

(* Whoever can hold run() up, of those it waits for, has escaped.           *)
LEMMA StuckHolders ==
    ASSUME HoldersInv
    PROVE  Stuck <=> Holders \cap escaped # {}
  BY DEF HoldersInv, Stuck, Holders

(* process_sandbox.py: the second communicate(), which has no limit, waits  *)
(* only for processes that the SIGTERM ends, unless one of them had left    *)
(* the group or survives it.  If none has, then none is added, whatever     *)
(* other processes that escaped, and let go of the pipes, still start.      *)
THEOREM DrainIsWaitedOut == Spec => [][DrainStep]_vars
<1>1. Init => GroupInv /\ HoldersInv
  BY DEF Init, SandboxInit, GroupInv, HoldersInv, NoOutcome
<1>2. GroupInv /\ HoldersInv /\ [Next]_vars => DrainStep
  <2>. SUFFICES ASSUME GroupInv, HoldersInv, [Next]_vars, phase = "drain", ~Stuck
                PROVE  /\ Drained \/ alive \cap signalled # {}
                       /\ phase' = "drain" =>
                            ~Stuck' /\ signalled' \subseteq signalled /\ Holders' \subseteq Holders
    BY DEF DrainStep
  <2>1. \A p \in Holders : p \in alive /\ p \in signalled /\ p \notin escaped
    <3>1. \A p \in alive : Running(p) => p \in escaped
      BY DEF GroupInv
    <3>2. \A p \in Holders : p \in alive /\ p \notin escaped
      BY StuckHolders DEF Holders, HoldersInv
    <3>. QED BY <3>1, <3>2 DEF Running
  <2>2. Drained \/ alive \cap signalled # {}
    BY <2>1 DEF Drained, Holders
  <2>. DEFINE Goal == ~Stuck' /\ signalled' \subseteq signalled /\ Holders' \subseteq Holders
  <2>3. ASSUME UNCHANGED <<alive, holding, signalled, escaped>> PROVE Goal
    BY <2>3 DEF Stuck, Holders
  <2>4. ASSUME NEW p \in Process, Heed(p) \/ Exit(p) PROVE Goal
    BY <2>4 DEF Heed, Exit, Ends, Stuck, Holders
  <2>5. ASSUME NEW p \in Process, Turn(p) PROVE Goal
    <3>1. p \notin Holders
      BY <2>1, <2>5 DEF Turn, Running
    <3>. QED BY <2>5, <3>1 DEF Turn, Stuck, Holders
  <2>6. ASSUME NEW p \in Process, NEW q \in Process, Spawn(p, q) PROVE Goal
    <3>1. p \notin Holders /\ q \notin alive /\ q # Main
      BY <2>1, <2>6 DEF Spawn, Running
    <3>2. holding' = holding
      BY <2>6, <3>1 DEF Spawn, Holders
    <3>3. q \notin holding
      BY <3>1 DEF HoldersInv
    <3>4. /\ alive' = alive \cup {q} /\ signalled' = signalled
          /\ escaped' \subseteq escaped \cup {q}
      BY <2>6 DEF Spawn
    <3>. QED BY <2>1, <3>1, <3>2, <3>3, <3>4 DEF Stuck, Holders
  <2>7. CASE phase' # "drain"
    BY <2>2, <2>7
  <2>8. ASSUME phase' = "drain" PROVE Goal
    <3>1. CASE ProcessStep
      BY <3>1, <2>4, <2>5, <2>6 DEF ProcessStep
    <3>2. CASE ~ProcessStep
      BY <2>3, <2>8, <3>2
      DEF Next, Begin, GitProcess, Read, Judge, Others, Stop, Launch, SandboxStep, Communicate,
          TimeUp, TerminateProcessTree, Signal, Drain, sandboxVars, processVars, vars
    <3>. QED BY <3>1, <3>2
  <2>. QED BY <2>2, <2>8
<1>3. GroupInv /\ HoldersInv /\ [Next]_vars => HoldersInv'
  BY HoldersStep
<1>4. Spec => []GroupInv
  BY GroupInvHolds
<1>. QED BY <1>1, <1>2, <1>3, <1>4, PTL DEF Spec

=============================================================================
