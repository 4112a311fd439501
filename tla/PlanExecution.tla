--------------------------- MODULE PlanExecution ---------------------------
(***************************************************************************)
(* What CanonicalOrchestrator.run promises of a plan, whatever the leader  *)
(* answers and whatever fails: it takes up a plan only if its tasks can be *)
(* ordered, completes each task once and after all it depends on, and      *)
(* returns only when every task is complete.  A failure stops the run and  *)
(* takes nothing back.                                                     *)
(***************************************************************************)
EXTENDS FiniteSets

CONSTANT Ids   \* the task ids a leader may use

VARIABLES
  graph,   \* what each task of the plan depends on
  done,    \* the tasks that are complete
  status

vars == <<graph, done, status>>

\* Among any of the tasks there is one that does not depend on the others.
Acyclic(g) == \A S \in SUBSET DOMAIN g : S # {} => \E t \in S : g[t] \cap S = {}

NoPlan == [t \in {} |-> {}]

Init == graph = NoPlan /\ done = {} /\ status = "planning"

Accept ==
  /\ status = "planning" /\ status' = "working"
  /\ graph' \in UNION {[tasks -> SUBSET tasks] : tasks \in SUBSET Ids}
  /\ Acyclic(graph')
  /\ UNCHANGED done

Complete(t) ==
  /\ status = "working"
  /\ t \in DOMAIN graph \ done /\ graph[t] \subseteq done
  /\ done' = done \cup {t}
  /\ UNCHANGED <<graph, status>>

Return ==
  /\ status = "working" /\ status' = "approved"
  /\ done = DOMAIN graph
  /\ UNCHANGED <<graph, done>>

Raise ==
  /\ status \in {"planning", "working"} /\ status' = "raised"
  /\ UNCHANGED <<graph, done>>

Next == Accept \/ (\E t \in Ids : Complete(t)) \/ Return \/ Raise

Spec == Init /\ [][Next]_vars

=============================================================================
