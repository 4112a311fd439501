---------------------------- MODULE MCLiveRebind ----------------------------
(* Two branches, two commits, and Git with up to two processes beside it.   *)
EXTENDS LiveRebind

CONSTANTS main, side, c1, c2, fileA, fileB, here, there, task, other, worker

MCBranch == {main, side}
MCCommit == {c1, c2}
MCRepos == { [branch |-> main, head |-> c1, dirty |-> FALSE],
             [branch |-> main, head |-> c1, dirty |-> TRUE],
             [branch |-> side, head |-> c1, dirty |-> FALSE],
             [branch |-> main, head |-> c2, dirty |-> FALSE],
             [branch |-> Empty, head |-> c2, dirty |-> TRUE] }
MCPathsOf == [c \in MCCommit |-> IF c = c1 THEN {fileA} ELSE {fileA, fileB}]

Attested == [task |-> task, worker |-> worker, workspace |-> here, targets |-> {fileA}, sha |-> c1,
             evidence |-> {fileA}]
Record == [wellformed |-> TRUE, task |-> task, worker |-> worker, targets |-> {fileA}, sha |-> c1,
           staged |-> TRUE, committed |-> TRUE, verified |-> TRUE,
           after |-> [branch |-> main, head |-> c1], attestation |-> Attested]

(* A true record, and records each with one thing wrong. *)
MCPayloads ==
    { Record,
      [Record EXCEPT !.wellformed = FALSE],
      [Record EXCEPT !.staged = FALSE],
      [Record EXCEPT !.verified = FALSE],
      [Record EXCEPT !.after.head = c2],
      [Record EXCEPT !.attestation = NoAttestation],
      [Record EXCEPT !.attestation.task = other],
      [Record EXCEPT !.attestation.workspace = there],
      [Record EXCEPT !.targets = {fileA, fileB}, !.attestation.targets = {fileA, fileB}],
      [Record EXCEPT !.sha = c2, !.after.head = c2, !.attestation.sha = c2] }
=============================================================================
