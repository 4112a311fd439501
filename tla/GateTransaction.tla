-------------------------- MODULE GateTransaction --------------------------
(***************************************************************************)
(* What ExecutionGate.execute promises its caller, whatever fails and      *)
(* whoever else writes the files: until it ends, the files count as they   *)
(* were.  Then all changes are made (APPROVED), or none is, or the gate    *)
(* says SAFE_STOP; somebody who wrote a target meanwhile has spoiled this. *)
(* Even then, and after a crash, no file is left half changed.             *)
(***************************************************************************)
CONSTANT Files

VARIABLES
  files,    \* the workspace as the caller may see it
  goal,     \* for each file, what the transaction may make of it: nothing
            \* for a file that it leaves alone
  foreign,  \* the files somebody else has written since it began
  status

vars == <<files, goal, foreign, status>>

Idle == {"idle", "APPROVED", "ROLLED_BACK", "REJECTED", "RAISED", "SAFE_STOP"}

\* The files of the transaction's own say.
Own == Files \ foreign
Target(f) == goal[f] # {}

AsBefore(f) == files'[f] = files[f]
Changed(f) == IF Target(f) THEN files'[f] \in goal[f] ELSE AsBefore(f)

Init == status = "off" /\ foreign = {}

Construct == status = "off" /\ status' = "idle" /\ UNCHANGED <<files, goal, foreign>>

\* It may also raise at once: its record then says what it said before.
Begin ==
  /\ status \in Idle
  /\ status' \in {"running", "RAISED"} \cup ({status} \cap {"SAFE_STOP"})
  /\ foreign' = {} /\ UNCHANGED files

\* The end of a running transaction.
Approve ==
  /\ status' = "APPROVED"
  /\ \A f \in Own : Changed(f)

GiveUp ==
  /\ status' \in {"REJECTED", "ROLLED_BACK", "RAISED"}
  /\ \A f \in Own : AsBefore(f)

\* A target was written by somebody else: no call that says so leaves more than some
\* of the changes.
Spoiled ==
  /\ status' \in {"REJECTED", "RAISED"}
  /\ \E f \in foreign : Target(f)
  /\ \A f \in Own : AsBefore(f) \/ Changed(f)

SafeStop ==
  /\ status' = "SAFE_STOP"
  /\ \A f \in Own : AsBefore(f) \/ Changed(f)

End ==
  /\ status = "running"
  /\ Approve \/ GiveUp \/ Spoiled \/ SafeStop
  /\ UNCHANGED <<goal, foreign>>

Crash ==
  /\ status # "off" /\ status' = "off" /\ foreign' = {}
  /\ \A f \in Own : AsBefore(f) \/ (status = "running" /\ Changed(f))

\* Others write, or the transaction writes what others have written.
Others ==
  /\ foreign \subseteq foreign'
  /\ \A f \in Files \ foreign' : AsBefore(f)
  /\ UNCHANGED <<goal, status>>

Next == Construct \/ Begin \/ End \/ Crash \/ Others

Spec == Init /\ [][Next]_vars

=============================================================================
