-------------------------- MODULE MCExecutionGate --------------------------
(* Change lists for the runs of ExecutionGate. *)
EXTENDS ExecutionGate

CONSTANTS f1, f2, outside, a, b, n, rn

Edit1(f, old, new) == [path |-> f, old |-> old, new |-> new]

\* One change in each of two files; two changes of one file, which each match
\* exactly once but not one after the other; a path outside the workspace.
TwoFileTransactions ==
  {<<Edit1(f1, a, b), Edit1(f2, a, b)>>,
   <<Edit1(f1, a, b), Edit1(f1, a, b)>>,
   <<Edit1(outside, a, b)>>}

\* Windows line ends are read as line ends.
ReadNewline == [fragment \in Fragments |-> IF fragment = rn THEN n ELSE fragment]

\* `a` occurs once, twice.
Once  == <<a, rn>>
Twice == <<a, a>>

OnceOrTwice == {Once, Twice}
\* Edits of each kind, and a deletion.
EditOrDelete == {Once, Twice, Missing}

=============================================================================
