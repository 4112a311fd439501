------------------------------ MODULE TaskPlan ------------------------------
(***************************************************************************)
(* From the leader's answer to an order of tasks: PlanDecomposer checks    *)
(* the answer by a depth-first search (src/plan_decomposer.py), and the    *)
(* dispatcher and the coordinator sort the plan, each for itself, with     *)
(* Kahn's algorithm (src/worker_dispatch.py, src/orchestration.py).        *)
(*                                                                         *)
(* Task ids are numbers, since all three compare them.  Dependencies are   *)
(* sets: the decomposer removes duplicates, and their order is not used.   *)
(***************************************************************************)
EXTENDS Integers, FiniteSets, Sequences

CONSTANTS
  Ids,       \* task ids, and what the leader may take for one
  MaxTasks,
  Answers    \* the task lists of the leader's answers that are well formed

ASSUME IdsAssumption == Ids \subseteq Nat \ {0} /\ IsFiniteSet(Ids)
ASSUME AnswersAssumption == Answers \subseteq Seq([id : Ids, deps : SUBSET Ids])

VARIABLES
  pc,
  edges,     \* what each task depends on
  stack,     \* the calls of visit(), each with the dependencies it has still to visit
  visited,
  attested,  \* decompose() has returned: the plan says that it is a valid DAG
  indegree, ready, order   \* the sort

searchVars == <<edges, stack, visited, attested>>
sortVars == <<indegree, ready, order>>
planVars == <<pc, searchVars, sortVars>>

First(S) == CHOOSE x \in S : \A y \in S : x <= y
NoPlan == [t \in {} |-> {}]
Tasks == DOMAIN edges

\* The caller of the outermost visit() calls.
Root == 0

PlanInit ==
  /\ pc = "answer"
  /\ edges = NoPlan /\ stack = <<>> /\ visited = {} /\ attested = FALSE
  /\ indegree = [t \in {} |-> 0] /\ ready = {} /\ order = <<>>

(***************************************************************************)
(* decompose                                                               *)
(***************************************************************************)

Named(answer) == {answer[i].id : i \in DOMAIN answer}
Edges(answer) ==
  [t \in Named(answer) |-> UNION {answer[i].deps : i \in {j \in DOMAIN answer : answer[j].id = t}}]

\* The checks before the search.
Sound(answer) ==
  /\ Len(answer) <= MaxTasks
  /\ Cardinality(Named(answer)) = Len(answer)
  /\ \A i \in DOMAIN answer : answer[i].deps \subseteq Named(answer) \ {answer[i].id}

Decompose(answer) ==
  /\ pc = "answer"
  /\ Sound(answer)
  /\ pc' = "visit"
  /\ edges' = Edges(answer)
  /\ stack' = <<[task |-> Root, left |-> Named(answer)]>>
  /\ UNCHANGED <<visited, attested, sortVars>>

Top == stack[Len(stack)]
Visiting == {stack[i].task : i \in DOMAIN stack}
TopVisits(t) == [stack EXCEPT ![Len(stack)].left = @ \ {t}]

\* Mutant: the dependency is not taken off the list.
VisitSeenAgain ==
  /\ pc = "visit" /\ Top.left # {}
  /\ First(Top.left) \in visited \ Visiting
  /\ UNCHANGED planVars

VisitSeen ==
  /\ pc = "visit" /\ Top.left # {}
  /\ First(Top.left) \in visited \ Visiting
  /\ stack' = TopVisits(First(Top.left))
  /\ UNCHANGED <<pc, edges, visited, attested, sortVars>>

VisitEnter ==
  LET t == First(Top.left) IN
  /\ pc = "visit" /\ Top.left # {}
  /\ t \notin visited \cup Visiting
  /\ stack' = Append(TopVisits(t), [task |-> t, left |-> edges[t]])
  /\ UNCHANGED <<pc, edges, visited, attested, sortVars>>

\* Mutant: a dependency that was visited before counts as a cycle, too.
VisitRaisesSeen ==
  /\ pc = "visit" /\ Top.left # {}
  /\ First(Top.left) \in visited \cup Visiting
  /\ pc' = "raised"
  /\ UNCHANGED <<searchVars, sortVars>>

\* The dependency is under visit: there is a cycle.
VisitRaises ==
  /\ pc = "visit" /\ Top.left # {}
  /\ First(Top.left) \in Visiting
  /\ pc' = "raised"
  /\ UNCHANGED <<searchVars, sortVars>>

VisitLeave ==
  /\ pc = "visit" /\ Top.left = {} /\ Len(stack) > 1
  /\ stack' = [i \in 1..Len(stack) - 1 |-> stack[i]]
  /\ visited' = visited \cup {Top.task}
  /\ UNCHANGED <<pc, edges, attested, sortVars>>

(***************************************************************************)
(* _topological_tasks of the dispatcher, _ordered_tasks of the coordinator *)
(***************************************************************************)

StartSort ==
  /\ indegree' = [t \in Tasks |-> Cardinality(edges[t])]
  /\ ready' = {t \in Tasks : indegree'[t] = 0}
  /\ order' = <<>>

\* The search ends.  Before its sort the dispatcher refuses a plan without tasks,
\* and one with a role for which it has no workers.
Attest ==
  /\ pc = "visit" /\ Top.left = {} /\ Len(stack) = 1
  /\ attested' = TRUE
  /\ \/ Tasks # {} /\ pc' = "dispatch" /\ StartSort
     \/ pc' = "raised" /\ UNCHANGED sortVars
  /\ UNCHANGED <<edges, stack, visited>>

\* The list is sorted whenever a task is put into it.
Place(t) ==
  /\ order' = Append(order, t)
  /\ indegree' = [u \in Tasks |-> IF t \in edges[u] THEN indegree[u] - 1 ELSE indegree[u]]
  /\ ready' = (ready \ {t}) \cup {u \in Tasks : t \in edges[u] /\ indegree'[u] = 0}
  /\ UNCHANGED <<pc, searchVars>>

\* Mutant: the last ready task is popped.
PlaceLast == pc \in {"dispatch", "order"} /\ \E t \in ready : (\A u \in ready : u <= t) /\ Place(t)

PlaceNext == pc \in {"dispatch", "order"} /\ ready # {} /\ Place(First(ready))

EndSort ==
  /\ pc \in {"dispatch", "order"} /\ ready = {}
  /\ pc' = CASE Len(order) # Cardinality(Tasks) -> "raised"
             [] pc = "dispatch" -> "assign"
             [] OTHER -> "prepare"
  /\ UNCHANGED <<searchVars, sortVars>>

\* The computations that wait for nobody.
PlanStep ==
  \/ VisitSeen \/ VisitEnter \/ VisitRaises \/ VisitLeave \/ Attest
  \/ PlaceNext \/ EndSort

=============================================================================
