-------------------------- MODULE MCWorkerDispatch --------------------------
(* The registry, health reports, plans and bounds for the runs of WorkerDispatch. *)
EXTENDS WorkerDispatch, TLC

CONSTANTS c1, s1, s2, t1, t2, r1, r2

OneRegistry == {[coder |-> <<c1>>, standby |-> <<s1, s2>>]}

\* A plan that needs a standby for its second task, and one that names the
\* standby pool as a role; both use the same task ids, in opposite orders.
Task(task, role) == [task |-> task, role |-> role]
SomePlans == {<<Task(t1, "coder"), Task(t2, "coder")>>,
              <<Task(t2, "coder"), Task(t1, "standby")>>}

\* All is well, or the file cannot be read.
SomeReports == {[worker \in Workers |-> "HEALTHY"], Unreadable}

EitherRun == Permutations({r1, r2})

\* At most one worker counts as failed, and at most one change is not saved.
Unsaved == {task \in Tasks : leases[task] # stateFile.leases[task]}
Bound ==
  /\ \A recorded \in {failed, stateFile.failed} : \A v, w \in recorded : v = w
  /\ up => IF failed = stateFile.failed THEN \A s, t \in Unsaved : s = t ELSE Unsaved = {}

=============================================================================
