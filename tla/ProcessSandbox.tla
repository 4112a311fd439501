--------------------------- MODULE ProcessSandbox ---------------------------
(***************************************************************************)
(* run() of src/process_sandbox.py on a POSIX system: a command is started *)
(* in a session of its own, its output is read until nobody holds the      *)
(* pipes, and when the time is up its process group gets a SIGTERM and the *)
(* output is read on, without a limit this time.                           *)
(*                                                                         *)
(* The command may start processes of its own; any of them may leave the   *)
(* group, let go of the pipes, ignore, catch or block SIGTERM and heed it  *)
(* again; they end when they like.                                         *)
(***************************************************************************)
EXTENDS Naturals, Sequences

CONSTANTS
    Process,     \* the processes of one command
    Main,        \* the one that run() starts
    Empty        \* no output

ASSUME ProcessAssumption == Main \in Process

VARIABLES
    phase,       \* the place in run(); "off" outside of it
    alive,       \* the processes that have not ended
    grouped,     \* those of them in the group that run() made
    holding,     \* those that hold the pipes
    surviving,   \* those that a SIGTERM would not end: they ignore, catch or block it,
                 \* are stopped, or belong to somebody else
    signalled,   \* those with a SIGTERM that ends them
    escaped,     \* history: those that the SIGTERM of a timeout was not sent to or did
                 \* not end, and what they have started since
    returncode,  \* of Main, once it has ended
    printed,     \* what Main has printed
    outcome      \* how the last run() ended

processVars == <<alive, grouped, holding, surviving, signalled, escaped, returncode, printed>>
sandboxVars == <<phase, processVars, outcome>>

NoOutcome == [kind |-> "none"]
SafetyStop == [kind |-> "stop"]
Result(code, out, timedOut, truncated) ==
    [kind |-> "result", returncode |-> code, stdout |-> out, timed_out |-> timedOut,
     truncated |-> truncated]

Waiting == {"communicate", "terminate", "drain"}

SandboxInit ==
    /\ phase = "off" /\ outcome = NoOutcome
    /\ alive = {} /\ grouped = {} /\ holding = {}
    /\ surviving = {} /\ signalled = {} /\ escaped = {}
    /\ returncode = 0 /\ printed = Empty

(***************************************************************************)
(* run()                                                                   *)
(***************************************************************************)
(* The command, its paths, its tool or its environment is refused, or the  *)
(* process cannot be started.                                              *)
Stop ==
    /\ phase = "off"
    /\ outcome' = SafetyStop
    /\ UNCHANGED <<phase, processVars>>

(* What an earlier command may have left running is not followed further.   *)
Launch ==
    /\ phase = "off"
    /\ phase' = "communicate"
    /\ alive' = {Main} /\ grouped' = {Main} /\ holding' = {Main}
    /\ surviving' = {} /\ signalled' = {} /\ escaped' = {}
    /\ returncode' = 0 /\ printed' = Empty
    /\ outcome' = NoOutcome

(* communicate() has seen the end of both pipes and the end of Main. *)
Drained == holding = {} /\ Main \notin alive

(* Output beyond the bound is cut. *)
Communicate ==
    /\ phase = "communicate"
    /\ Drained
    /\ \E truncated \in BOOLEAN : outcome' = Result(returncode, printed, FALSE, truncated)
    /\ phase' = "off"
    /\ UNCHANGED processVars

TimeUp ==
    /\ phase = "communicate"
    /\ phase' = "terminate"
    /\ UNCHANGED <<processVars, outcome>>

Signal(told) ==
    /\ signalled' = told \ surviving
    /\ escaped' = (alive \ grouped) \cup surviving
    /\ UNCHANGED <<alive, grouped, holding, surviving, returncode, printed, outcome>>

(* Mutant: only the process that was started is told to end. *)
TerminateMainOnly ==
    /\ phase = "terminate" /\ phase' = "drain"
    /\ Signal(grouped \cap {Main})

(* Mutant: nobody is told once the process that was started has ended. *)
TerminateWithMain ==
    /\ phase = "terminate" /\ phase' = "drain"
    /\ Signal(IF Main \in alive THEN grouped ELSE {})

(* _terminate_process_tree: killpg, which can fail only when nobody in the  *)
(* group is left to be told.                                                *)
TerminateProcessTree ==
    /\ phase = "terminate" /\ phase' = "drain"
    /\ Signal(grouped)

(* The second communicate(). *)
Drain ==
    /\ phase = "drain"
    /\ Drained
    /\ \E truncated \in BOOLEAN : outcome' = Result(1, printed, TRUE, truncated)
    /\ phase' = "off"
    /\ UNCHANGED processVars

SandboxStep == Communicate \/ TimeUp \/ TerminateProcessTree \/ Drain

(***************************************************************************)
(* The processes.  One that a SIGTERM ends does nothing more.              *)
(***************************************************************************)
Running(p) == p \in alive \ signalled

Ends(p) ==
    /\ alive' = alive \ {p} /\ grouped' = grouped \ {p} /\ holding' = holding \ {p}
    /\ surviving' = surviving \ {p} /\ signalled' = signalled \ {p}
    /\ escaped' = escaped \ {p}
    /\ UNCHANGED <<phase, printed, outcome>>

Heed(p) ==
    /\ p \in alive \cap signalled
    /\ Ends(p)
    /\ returncode' = IF p = Main THEN 1 ELSE returncode

Exit(p) ==
    /\ Running(p)
    /\ Ends(p)
    /\ IF p = Main THEN returncode' \in {0, 1} ELSE UNCHANGED returncode

(* A process starts another one, which inherits group and pipes or gives    *)
(* them up.  It may inherit an ignored or blocked SIGTERM, or execute a     *)
(* program for which the signal is as it was by default.                    *)
Spawn(p, q) ==
    /\ Running(p)
    /\ q \notin alive \cup {Main}
    /\ alive' = alive \cup {q}
    /\ grouped' \in {grouped, IF p \in grouped THEN grouped \cup {q} ELSE grouped}
    /\ holding' \in {holding, IF p \in holding THEN holding \cup {q} ELSE holding}
    /\ surviving' \in {surviving, IF p \in surviving THEN surviving \cup {q} ELSE surviving}
    /\ escaped' = IF p \in escaped THEN escaped \cup {q} ELSE escaped
    /\ UNCHANGED <<phase, signalled, returncode, printed, outcome>>

(* A process lets go of the pipes, leaves the group or comes back to it, or *)
(* changes what SIGTERM does to it.  Main leads the session, and stays.     *)
Turn(p) ==
    /\ Running(p)
    /\ holding' \in {holding, holding \ {p}}
    /\ grouped' \in {grouped, grouped \cup {p}, grouped \ ({p} \ {Main})}
    /\ surviving' \in {surviving, surviving \cup {p}, surviving \ {p}}
    /\ UNCHANGED <<phase, alive, signalled, escaped, returncode, printed, outcome>>

ProcessStep ==
    \/ \E p \in Process : Heed(p) \/ Exit(p) \/ Turn(p)
    \/ \E p, q \in Process : Spawn(p, q)

(* The caller's thread does nothing else, time passes, and a process that a *)
(* SIGTERM ends is gone some time.  Nothing else has to end.                *)
SandboxFairness == /\ WF_sandboxVars(SandboxStep)
                   /\ \A p \in Process : WF_sandboxVars(Heed(p))

(***************************************************************************)
(* Properties                                                              *)
(***************************************************************************)
(* Who can hold run() up for good: a process with the pipes, or Main, that *)
(* had left the group or survived the SIGTERM, or was started by such a    *)
(* process since.                                                          *)
Stuck == alive \cap (holding \cup {Main}) \cap escaped # {}

(* run() is over within its time, unless such a process stays: an ordinary *)
(* child that keeps the pipes open after Main, or one started just before  *)
(* the time is up, cannot keep the caller waiting.  That one can whose     *)
(* ancestor escaped, and that without an end, is what the second           *)
(* communicate(), without a limit, gives away.                             *)
WaitEnds == <>[](phase \in Waiting) => <>[]Stuck

(* After a timeout was reported no process of the command goes on working   *)
(* in the workspace, except those that had left the group or survived the   *)
(* SIGTERM, and what they start: also not a child that holds no pipe, which *)
(* nobody waits for.  If none had when the time was up, all are stopped.    *)
TimeoutStopsTheGroup ==
    phase = "off" /\ outcome.kind = "result" =>
        (outcome.timed_out => \A p \in alive : Running(p) => p \in escaped)
=============================================================================
