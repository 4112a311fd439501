-------------------------- MODULE TaskPlanProofs --------------------------
(***************************************************************************)
(* Proofs about TaskPlan, for any answer of the leader: the search attests *)
(* a plan just when its tasks can be ordered, and the sort of an attested  *)
(* plan comes to the first of its topological orders.                      *)
(***************************************************************************)
EXTENDS TaskPlan, FiniteSetTheorems, SequenceTheorems, WellFoundedInduction, TLAPS

\* Among any of the tasks of S there is one that does not depend on the others.
Orderable(S) == \A T \in SUBSET S : T # {} => \E t \in T : edges[t] \cap T = {}

Frame == [task : Tasks \cup {Root}, left : SUBSET Tasks]
Needs(frame) == IF frame.task = Root THEN Tasks ELSE edges[frame.task]

PlanTypeOK ==
  /\ Tasks \subseteq Ids /\ edges \in [Tasks -> SUBSET Tasks]
  /\ stack \in Seq(Frame)
  /\ visited \subseteq Tasks /\ attested \in BOOLEAN
  /\ DOMAIN indegree \subseteq Tasks /\ indegree \in [DOMAIN indegree -> Nat]
  /\ ready \subseteq Tasks /\ order \in Seq(Tasks)

\* The visited tasks depend on visited ones only, and can be ordered.
VisitedInv ==
  /\ \A t \in visited : edges[t] \subseteq visited
  /\ Orderable(visited)

\* The calls of visit() are a path, each with its dependencies visited, under
\* visit, or still to come.
StackInv ==
  /\ Len(stack) > 0 /\ stack[1].task = Root
  /\ \A i \in 2..Len(stack) : stack[i].task \in Tasks \ visited
  /\ \A i, j \in 1..Len(stack) : stack[i].task = stack[j].task => i = j
  /\ \A i \in 1..Len(stack) : stack[i].left \subseteq Needs(stack[i])
  /\ \A i \in 1..Len(stack) - 1 : stack[i+1].task \in Needs(stack[i])
  /\ \A i \in 1..Len(stack) - 1 :
       Needs(stack[i]) \ stack[i].left \subseteq visited \cup {stack[i+1].task}
  /\ Needs(Top) \ Top.left \subseteq visited

SearchInv ==
  /\ VisitedInv
  /\ pc = "answer" => edges = NoPlan /\ visited = {} /\ ~attested
  /\ pc = "visit" => StackInv /\ ~attested
  /\ pc \notin {"answer", "visit", "raised", "failed"} => attested /\ Tasks # {}
  /\ attested => visited = Tasks
  /\ ~attested /\ pc \in {"raised", "failed"} /\ Tasks # {} => ~Orderable(Tasks)

Placed(n) == {order[j] : j \in 1..n}

\* Each task of the order comes after its dependencies, and before every other
\* task that could have been placed there.
OrderInv ==
  /\ \A i, j \in 1..Len(order) : order[i] = order[j] => i = j
  /\ \A i \in 1..Len(order) : edges[order[i]] \subseteq Placed(i-1)
  /\ \A i \in 1..Len(order) : \A u \in Tasks \ Placed(i-1) :
       edges[u] \subseteq Placed(i-1) => order[i] <= u

\* The counts are those of the dependencies that are not placed.
CountInv ==
  /\ DOMAIN indegree = Tasks
  /\ \A u \in Tasks : indegree[u] = Cardinality(edges[u] \ Placed(Len(order)))
  /\ ready = {u \in Tasks \ Placed(Len(order)) : edges[u] \subseteq Placed(Len(order))}

OrderComplete == Len(order) = Cardinality(Tasks) /\ Placed(Len(order)) = Tasks

SortInv ==
  /\ OrderInv
  /\ pc \in {"answer", "visit"} => order = <<>> /\ DOMAIN indegree = {}
  /\ pc \in {"dispatch", "order"} => CountInv
  /\ pc \notin {"dispatch", "order"} /\ attested /\ Tasks # {} =>
       OrderComplete \/ (pc \in {"raised", "failed"} /\ DOMAIN indegree = {})

PlanInv == PlanTypeOK /\ SearchInv /\ SortInv

\* A finite set of numbers that is not empty has a least element: of the sets of
\* what is below an element, take a least one.
LEMMA HasFirst ==
  ASSUME NEW S, S \subseteq Nat, IsFiniteSet(S), S # {}
  PROVE  First(S) \in S /\ \A y \in S : First(S) <= y
<1> DEFINE Below(x) == {y \in S : y < x}
           Sets == {Below(x) : x \in S}
<1>1. Sets \subseteq FiniteSubsetsOf(S)
  BY FS_Subset DEF FiniteSubsetsOf
<1>2. Sets # {}
  OBVIOUS
<1>3. PICK B \in Sets : \A C \in Sets : <<C, B>> \notin StrictSubsetOrdering(S)
  <2>1. IsWellFoundedOn(StrictSubsetOrdering(S), FiniteSubsetsOf(S))
    BY FS_StrictSubsetOrderingWellFounded
  <2> HIDE DEF Sets
  <2>2. \E B \in Sets : \A C \in Sets : ~ (<<C, B>> \in StrictSubsetOrdering(S))
    BY <1>1, <1>2, <2>1, WFMin, Zenon
  <2>3. QED
    BY <2>2, Zenon
<1>4. PICK x \in S : B = Below(x)
  OBVIOUS
<1>5. \A y \in S : x <= y
  <2>1. SUFFICES ASSUME NEW y \in S, y < x PROVE FALSE
    OBVIOUS
  <2>2. Below(y) \subseteq Below(x) /\ y \in Below(x) /\ y \notin Below(y)
    <3>1. x \in Nat /\ y \in Nat /\ \A z \in S : z \in Nat
      OBVIOUS
    <3>2. ~ (y < y) /\ \A z \in S : z < y => z < x
      BY <2>1, <3>1
    <3>3. QED
      BY <2>1, <3>2
  <2>3. <<Below(y), Below(x)>> \in StrictSubsetOrdering(S)
    BY <2>2 DEF StrictSubsetOrdering
  <2>4. QED
    BY <1>3, <1>4, <2>3
<1>6. QED
  BY <1>5 DEF First

\* The ids of any tasks are numbers, and finitely many.
LEMMA TasksAreFinite ==
  ASSUME PlanTypeOK
  PROVE  /\ IsFiniteSet(Tasks) /\ Tasks \subseteq Nat /\ Root \notin Tasks
         /\ \A S \in SUBSET Tasks : IsFiniteSet(S) /\ S \subseteq Nat
<1>1. IsFiniteSet(Tasks) /\ \A S \in SUBSET Tasks : IsFiniteSet(S)
  BY IdsAssumption, FS_Subset DEF PlanTypeOK
<1>2. QED
  BY <1>1, IdsAssumption DEF PlanTypeOK, Root

\* The next dependency to visit, or the next task to place.
LEMMA FirstOf ==
  ASSUME PlanTypeOK, NEW S \in SUBSET Tasks, S # {}
  PROVE  First(S) \in S /\ \A y \in S : First(S) <= y
BY TasksAreFinite, HasFirst

(***************************************************************************)
(* The search.                                                             *)
(***************************************************************************)

LEMMA StackTop ==
  ASSUME PlanTypeOK, StackInv
  PROVE  /\ Len(stack) \in Nat \ {0} /\ DOMAIN stack = 1..Len(stack)
         /\ \A i \in 1..Len(stack) : stack[i] \in Frame
         /\ Top = stack[Len(stack)] /\ Top \in Frame
         /\ Top.left \subseteq Tasks /\ Top.left \subseteq Needs(Top)
         /\ Visiting = {stack[i].task : i \in 1..Len(stack)}
         /\ Root \notin Tasks
<1>1. stack \in Seq(Frame) /\ Len(stack) > 0
  BY DEF PlanTypeOK, StackInv
<1>2. Len(stack) \in Nat \ {0} /\ DOMAIN stack = 1..Len(stack)
  BY <1>1
<1>3. \A i \in 1..Len(stack) : stack[i] \in Frame
  BY <1>1
<1>4. Top \in Frame /\ Top.left \subseteq Needs(Top)
  BY <1>2, <1>3 DEF StackInv, Top
<1>5. QED
  BY <1>2, <1>3, <1>4, TasksAreFinite DEF Top, Frame, Visiting

\* The call on top goes on to the next of its dependencies.
LEMMA TopVisitsStack ==
  ASSUME PlanTypeOK, StackInv, NEW t
  PROVE  /\ TopVisits(t) \in Seq(Frame) /\ Len(TopVisits(t)) = Len(stack)
         /\ \A i \in 1..Len(stack) - 1 : TopVisits(t)[i] = stack[i]
         /\ TopVisits(t)[Len(stack)] =
              [task |-> stack[Len(stack)].task, left |-> stack[Len(stack)].left \ {t}]
<1> DEFINE n == Len(stack)
           frame == stack[n]
           new == [frame EXCEPT !.left = frame.left \ {t}]
<1>1. /\ n \in Nat \ {0} /\ n \in DOMAIN stack
      /\ frame \in Frame /\ stack \in Seq(Frame)
  BY StackTop DEF PlanTypeOK
<1>2. TopVisits(t) = [stack EXCEPT ![n] = new]
  BY DEF TopVisits
<1>3. new = [task |-> frame.task, left |-> frame.left \ {t}]
  <2> HIDE DEF frame
  <2>1. PICK task \in Tasks \cup {Root}, left \in SUBSET Tasks :
          frame = [task |-> task, left |-> left]
    BY <1>1 DEF Frame
  <2>2. QED
    BY <2>1
<1>4. new \in Frame
  BY <1>1, <1>3 DEF Frame
<1> HIDE DEF new, frame
<1>5. QED
  BY <1>1, <1>2, <1>3, <1>4 DEF frame

\* While the search is on, nothing is sorted.
LEMMA SearchKeepsSort ==
  ASSUME PlanInv, pc = "visit", pc' \in {"visit", "raised"},
         edges' = edges, attested' = attested, UNCHANGED sortVars
  PROVE  SortInv'
<1>1. order = <<>> /\ DOMAIN indegree = {} /\ ~attested
  BY DEF PlanInv, SortInv, SearchInv
<1>2. order' = <<>> /\ DOMAIN indegree' = {} /\ ~attested'
  BY <1>1 DEF sortVars
<1>3. OrderInv'
  BY <1>2 DEF OrderInv
<1>4. QED
  BY <1>2, <1>3 DEF SortInv

\* A plan is taken up with Root alone on the stack.
LEMMA DecomposeInv ==
  ASSUME PlanInv, NEW answer \in Answers, Decompose(answer)
  PROVE  PlanInv'
<1>1. /\ pc = "answer" /\ pc' = "visit"
      /\ edges' = Edges(answer)
      /\ stack' = <<[task |-> Root, left |-> Named(answer)]>>
      /\ visited' = visited /\ attested' = attested
      /\ indegree' = indegree /\ ready' = ready /\ order' = order
      /\ \A i \in DOMAIN answer : answer[i].deps \subseteq Named(answer) \ {answer[i].id}
  BY DEF Decompose, Sound, sortVars
<1>2. visited = {} /\ ~attested /\ Tasks = {} /\ order = <<>>
  BY <1>1 DEF PlanInv, SearchInv, SortInv, NoPlan, Tasks
<1>3. Named(answer) \subseteq Ids
  <2> DEFINE Item == [id : Ids, deps : SUBSET Ids]
  <2>1. answer \in Seq(Item)
    BY AnswersAssumption
  <2>2. \A i \in DOMAIN answer : answer[i] \in Item
    <3> HIDE DEF Item
    <3>1. QED
      BY <2>1
  <2>3. QED
    BY <2>2 DEF Named
<1>4. Tasks' = Named(answer)
  BY <1>1 DEF Tasks, Edges
<1>5. edges' \in [Named(answer) -> SUBSET Named(answer)]
  BY <1>1 DEF Edges
<1>6. stack' \in Seq(Frame') /\ Len(stack') = 1
      /\ stack'[1] = [task |-> Root, left |-> Named(answer)]
  BY <1>1, <1>4 DEF Frame
<1>7. PlanTypeOK'
  <2>1. indegree' \in [DOMAIN indegree' -> Nat] /\ DOMAIN indegree' = {} /\ ready' = {}
    BY <1>1, <1>2 DEF PlanInv, PlanTypeOK
  <2>2. order' \in Seq(Tasks')
    <3>1. order' = <<>>
      BY <1>1, <1>2
    <3>2. <<>> \in Seq(Named(answer))
      BY EmptySeq
    <3>3. QED
      BY <1>4, <3>1, <3>2, Zenon
  <2>3. visited' \subseteq Tasks' /\ attested' \in BOOLEAN
    BY <1>1, <1>2 DEF PlanInv, PlanTypeOK
  <2>4. QED
    BY <2>1, <2>2, <2>3, <1>3, <1>4, <1>5, <1>6 DEF PlanTypeOK
<1>8. VisitedInv'
  BY <1>1, <1>2 DEF VisitedInv, Orderable
<1>9. StackInv'
  BY <1>4, <1>6 DEF StackInv, Needs, Top
<1>10. SearchInv'
  BY <1>1, <1>2, <1>8, <1>9 DEF SearchInv
<1>11. SortInv'
  <2>1. DOMAIN indegree' = {}
    BY <1>1 DEF PlanInv, SortInv
  <2>2. QED
    BY <1>1, <1>2, <2>1 DEF SortInv, OrderInv
<1>12. QED
  BY <1>7, <1>10, <1>11 DEF PlanInv

\* A visited dependency is taken off the list.
LEMMA VisitSeenInv ==
  ASSUME PlanInv, VisitSeen
  PROVE  PlanInv'
<1> DEFINE n == Len(stack)
           t == First(Top.left)
<1>1. /\ pc = "visit" /\ pc' = "visit" /\ Top.left # {}
      /\ t \in visited
      /\ stack' = TopVisits(t)
      /\ edges' = edges /\ visited' = visited /\ attested' = attested
      /\ UNCHANGED sortVars
  BY DEF VisitSeen
<1>2. PlanTypeOK /\ SearchInv /\ StackInv
  BY <1>1 DEF PlanInv, SearchInv
<1>3. /\ n \in Nat \ {0} /\ DOMAIN stack = 1..n
      /\ \A i \in 1..n : stack[i] \in Frame
      /\ Top = stack[n]
  BY <1>2, StackTop
<1>4. Tasks' = Tasks /\ Frame' = Frame
  BY <1>1 DEF Tasks, Frame
<1>6. /\ stack' \in Seq(Frame) /\ Len(stack') = n
      /\ \A i \in 1..n - 1 : stack'[i] = stack[i]
      /\ stack'[n] = [task |-> stack[n].task, left |-> stack[n].left \ {t}]
  BY <1>1, <1>2, TopVisitsStack
<1>7. \A i \in 1..n : stack'[i].task = stack[i].task /\ stack'[i].left \subseteq stack[i].left
  BY <1>3, <1>6
<1>8. \A frame : Needs(frame)' = Needs(frame)
  BY <1>1, <1>4 DEF Needs
<1>9. StackInv'
  BY <1>1, <1>2, <1>3, <1>4, <1>6, <1>7 DEF StackInv, Needs, Top
<1>10. PlanTypeOK'
  BY <1>1, <1>2, <1>4, <1>6 DEF PlanTypeOK, sortVars
<1>11. SearchInv'
  BY <1>1, <1>2, <1>4, <1>9 DEF SearchInv, VisitedInv, Orderable
<1>12. QED
  BY <1>1, <1>10, <1>11, SearchKeepsSort DEF PlanInv

\* A call for the dependency is put on the stack.
LEMMA VisitEnterInv ==
  ASSUME PlanInv, VisitEnter
  PROVE  PlanInv'
<1> DEFINE n == Len(stack)
           t == First(Top.left)
           s == TopVisits(t)
           new == [task |-> t, left |-> edges[t]]
<1>1. /\ pc = "visit" /\ pc' = "visit" /\ Top.left # {}
      /\ t \notin visited \cup Visiting
      /\ stack' = Append(s, new)
      /\ edges' = edges /\ visited' = visited /\ attested' = attested
      /\ UNCHANGED sortVars
  BY DEF VisitEnter
<1>2. PlanTypeOK /\ SearchInv /\ StackInv
  BY <1>1 DEF PlanInv, SearchInv
<1>3. /\ n \in Nat \ {0} /\ \A i \in 1..n : stack[i] \in Frame
      /\ Top = stack[n] /\ Top.left \subseteq Tasks /\ Top.left \subseteq Needs(Top)
      /\ Visiting = {stack[i].task : i \in 1..n} /\ Root \notin Tasks
  BY <1>2, StackTop
<1>4. Tasks' = Tasks /\ Frame' = Frame
  BY <1>1 DEF Tasks, Frame
<1>5. t \in Top.left /\ t \in Tasks
  BY <1>1, <1>2, <1>3, FirstOf
<1>6. /\ s \in Seq(Frame) /\ Len(s) = n
      /\ \A i \in 1..n - 1 : s[i] = stack[i]
      /\ s[n] = [task |-> stack[n].task, left |-> stack[n].left \ {t}]
  BY <1>2, TopVisitsStack
<1>7. new \in Frame
  BY <1>2, <1>5 DEF PlanTypeOK, Frame
<1> HIDE DEF s, new
<1>8. /\ stack' \in Seq(Frame) /\ Len(stack') = n + 1
      /\ \A i \in 1..n : stack'[i] = s[i]
      /\ stack'[n + 1] = new
  BY <1>1, <1>3, <1>6, <1>7
<1>9. /\ new.task = t /\ new.left = edges[t]
      /\ \A i \in 1..n : stack'[i].task = stack[i].task /\ stack'[i].left \subseteq stack[i].left
      /\ \A i \in 1..n - 1 : stack'[i] = stack[i]
      /\ stack'[n].left = stack[n].left \ {t}
  BY <1>3, <1>6, <1>8 DEF new
<1>10. \A frame : Needs(frame)' = Needs(frame)
  BY <1>1, <1>4 DEF Needs
<1>11. Needs(new) = edges[t] /\ \A i \in 1..n : Needs(stack'[i]) = Needs(stack[i])
  BY <1>3, <1>5, <1>9 DEF Needs
<1>12. StackInv'
  <2>1. Len(stack') > 0 /\ stack'[1].task = Root
    BY <1>2, <1>3, <1>8, <1>9 DEF StackInv
  <2>2. \A i \in 2..Len(stack') : stack'[i].task \in Tasks' \ visited'
    BY <1>1, <1>2, <1>3, <1>4, <1>5, <1>8, <1>9 DEF StackInv
  <2>3. \A i, j \in 1..Len(stack') : stack'[i].task = stack'[j].task => i = j
    BY <1>1, <1>2, <1>3, <1>8, <1>9 DEF StackInv
  <2>4. \A i \in 1..Len(stack') : stack'[i].left \subseteq Needs(stack'[i])
    BY <1>2, <1>3, <1>8, <1>9, <1>11 DEF StackInv
  <2>5. \A i \in 1..Len(stack') - 1 : stack'[i+1].task \in Needs(stack'[i])
    <3>1. ASSUME NEW i \in 1..n PROVE stack'[i+1].task \in Needs(stack'[i])
      <4>1. CASE i = n
        BY <1>3, <1>5, <1>8, <1>9, <1>11, <4>1
      <4>2. CASE i \in 1..n - 1
        BY <1>2, <1>3, <1>9, <1>11, <4>2 DEF StackInv
      <4>3. QED
        BY <1>3, <4>1, <4>2
    <3>2. QED
      BY <1>3, <1>8, <3>1
  <2>6. \A i \in 1..Len(stack') - 1 :
          Needs(stack'[i]) \ stack'[i].left \subseteq visited' \cup {stack'[i+1].task}
    <3>1. ASSUME NEW i \in 1..n
          PROVE  Needs(stack'[i]) \ stack'[i].left \subseteq visited \cup {stack'[i+1].task}
      <4>1. CASE i = n
        BY <1>2, <1>3, <1>8, <1>9, <1>11, <4>1 DEF StackInv
      <4>2. CASE i \in 1..n - 1
        BY <1>2, <1>3, <1>9, <1>11, <4>2 DEF StackInv
      <4>3. QED
        BY <1>3, <4>1, <4>2
    <3>2. QED
      BY <1>1, <1>3, <1>8, <3>1
  <2>7. Needs(new) \ new.left \subseteq visited
    BY <1>9, <1>11
  <2>8. Top' = new
    BY <1>8 DEF Top
  <2>9. QED
    BY <1>1, <1>10, <2>1, <2>2, <2>3, <2>4, <2>5, <2>6, <2>7, <2>8 DEF StackInv
<1>13. PlanTypeOK'
  BY <1>1, <1>2, <1>4, <1>8 DEF PlanTypeOK, sortVars
<1>14. SearchInv'
  BY <1>1, <1>2, <1>4, <1>12 DEF SearchInv, VisitedInv, Orderable
<1>15. QED
  BY <1>1, <1>13, <1>14, SearchKeepsSort DEF PlanInv

\* A dependency under visit closes a cycle of the calls above it.
LEMMA VisitRaisesInv ==
  ASSUME PlanInv, VisitRaises
  PROVE  PlanInv'
<1> DEFINE n == Len(stack)
           t == First(Top.left)
<1>1. /\ pc = "visit" /\ pc' = "raised" /\ Top.left # {}
      /\ t \in Visiting
      /\ edges' = edges /\ stack' = stack /\ visited' = visited /\ attested' = attested
      /\ UNCHANGED sortVars
  BY DEF VisitRaises, searchVars
<1>2. PlanTypeOK /\ SearchInv /\ StackInv
  BY <1>1 DEF PlanInv, SearchInv
<1>3. /\ n \in Nat \ {0} /\ \A i \in 1..n : stack[i] \in Frame
      /\ Top = stack[n] /\ Top.left \subseteq Tasks /\ Top.left \subseteq Needs(Top)
      /\ Visiting = {stack[i].task : i \in 1..n} /\ Root \notin Tasks
  BY <1>2, StackTop
<1>4. t \in Top.left /\ t \in Tasks
  BY <1>1, <1>2, <1>3, FirstOf
<1>5. PICK j \in 1..n : stack[j].task = t
  BY <1>1, <1>3
<1>6. j \in 2..n
  BY <1>2, <1>3, <1>4, <1>5 DEF StackInv
<1> DEFINE S == {stack[i].task : i \in j..n}
<1>7. S \subseteq Tasks /\ t \in S
  BY <1>2, <1>3, <1>5, <1>6 DEF StackInv
<1>8. ASSUME NEW u \in S PROVE edges[u] \cap S # {}
  <2>1. PICK i \in j..n : u = stack[i].task
    OBVIOUS
  <2>2. i \in 1..n /\ Needs(stack[i]) = edges[u]
    BY <1>3, <1>6, <1>7, <2>1 DEF Needs
  <2>3. CASE i = n
    BY <1>3, <1>4, <1>7, <2>2, <2>3
  <2>4. CASE i # n
    <3>1. i + 1 \in j..n /\ i \in 1..n - 1
      BY <1>3, <1>6, <2>2, <2>4
    <3>2. stack[i+1].task \in edges[u]
      BY <1>2, <2>2, <3>1 DEF StackInv
    <3>3. QED
      BY <3>1, <3>2
  <2>5. QED
    BY <2>3, <2>4
<1>9. ~Orderable(Tasks)
  <2> HIDE DEF S
  <2>1. QED
    BY <1>7, <1>8 DEF Orderable
<1>10. Tasks' = Tasks /\ Frame' = Frame
  BY <1>1 DEF Tasks, Frame
<1>11. PlanTypeOK'
  BY <1>1, <1>2, <1>10 DEF PlanTypeOK, sortVars
<1>12. ~Orderable(Tasks)'
  BY <1>1, <1>9, <1>10 DEF Orderable
<1>13. SearchInv'
  BY <1>1, <1>2, <1>10, <1>12 DEF SearchInv, VisitedInv, Orderable
<1>14. QED
  BY <1>1, <1>11, <1>13, SearchKeepsSort DEF PlanInv

\* A call that returns has all its dependencies visited.
LEMMA VisitLeaveInv ==
  ASSUME PlanInv, VisitLeave
  PROVE  PlanInv'
<1> DEFINE n == Len(stack)
           u == Top.task
<1>1. /\ pc = "visit" /\ pc' = "visit" /\ Top.left = {} /\ n > 1
      /\ stack' = [i \in 1..n - 1 |-> stack[i]]
      /\ visited' = visited \cup {u}
      /\ edges' = edges /\ attested' = attested
      /\ UNCHANGED sortVars
  BY DEF VisitLeave
<1>2. PlanTypeOK /\ SearchInv /\ StackInv
  BY <1>1 DEF PlanInv, SearchInv
<1>3. /\ n \in Nat \ {0} /\ \A i \in 1..n : stack[i] \in Frame
      /\ Top = stack[n] /\ Root \notin Tasks
  BY <1>2, StackTop
<1>4. Tasks' = Tasks /\ Frame' = Frame
  BY <1>1 DEF Tasks, Frame
<1>5. u \in Tasks \ visited /\ edges[u] \subseteq visited
  <2>1. u \in Tasks \ visited
    BY <1>1, <1>2, <1>3 DEF StackInv
  <2>2. Needs(Top) = edges[u]
    BY <1>3, <2>1 DEF Needs
  <2>3. QED
    BY <1>1, <1>2, <2>1, <2>2 DEF StackInv
<1>6. /\ stack' \in Seq(Frame) /\ Len(stack') = n - 1
      /\ \A i \in 1..n - 1 : stack'[i] = stack[i]
  <2> DEFINE m == n - 1
  <2>1. m \in Nat
    BY <1>3
  <2>2. \A i \in 1..m : stack[i] \in Frame
    BY <1>3
  <2>3. stack' = [i \in 1..m |-> stack[i]]
    BY <1>1
  <2> HIDE DEF m
  <2>4. stack' \in [1..m -> Frame]
    BY <2>2, <2>3
  <2>5. stack' \in Seq(Frame) /\ Len(stack') = m
    BY <2>1, <2>4
  <2>6. QED
    BY <2>3, <2>5 DEF m
<1>7. \A frame : Needs(frame)' = Needs(frame)
  BY <1>1, <1>4 DEF Needs
<1>8. StackInv'
  <2>1. Len(stack') > 0 /\ stack'[1].task = Root
    BY <1>1, <1>2, <1>3, <1>6 DEF StackInv
  <2>2. \A i \in 2..Len(stack') : stack'[i].task \in Tasks' \ visited'
    <3>1. \A i \in 1..n - 1 : stack[i].task # u
      BY <1>2, <1>3 DEF StackInv
    <3>2. QED
      BY <1>1, <1>2, <1>3, <1>4, <1>6, <3>1 DEF StackInv
  <2>3. \A i, j \in 1..Len(stack') : stack'[i].task = stack'[j].task => i = j
    BY <1>2, <1>3, <1>6 DEF StackInv
  <2>4. \A i \in 1..Len(stack') : stack'[i].left \subseteq Needs(stack'[i])
    BY <1>2, <1>3, <1>6 DEF StackInv
  <2>5. \A i \in 1..Len(stack') - 1 : stack'[i+1].task \in Needs(stack'[i])
    BY <1>2, <1>3, <1>6 DEF StackInv
  <2>6. \A i \in 1..Len(stack') - 1 :
          Needs(stack'[i]) \ stack'[i].left \subseteq visited' \cup {stack'[i+1].task}
    <3>1. SUFFICES ASSUME NEW i \in 1..n - 2
                   PROVE  Needs(stack'[i]) \ stack'[i].left \subseteq visited' \cup {stack'[i+1].task}
      BY <1>3, <1>6
    <3>2. i \in 1..n - 1 /\ i + 1 \in 1..n - 1
      BY <1>3
    <3>3. stack'[i] = stack[i] /\ stack'[i+1] = stack[i+1]
      BY <1>6, <3>2
    <3>4. Needs(stack[i]) \ stack[i].left \subseteq visited \cup {stack[i+1].task}
      BY <1>2, <3>2 DEF StackInv
    <3>5. QED
      BY <1>1, <3>3, <3>4
  <2>7. Top' = stack[n - 1]
    BY <1>1, <1>3, <1>6 DEF Top
  <2>8. Needs(stack[n - 1]) \ stack[n - 1].left \subseteq visited'
    BY <1>1, <1>2, <1>3 DEF StackInv
  <2>9. QED
    BY <1>7, <2>1, <2>2, <2>3, <2>4, <2>5, <2>6, <2>7, <2>8 DEF StackInv
<1>9. VisitedInv'
  <2>1. VisitedInv
    BY <1>2 DEF SearchInv
  <2>2. \A t \in visited' : edges[t] \subseteq visited'
    BY <1>1, <1>5, <2>1 DEF VisitedInv
  <2>3. ASSUME NEW S \in SUBSET visited', S # {}
        PROVE  \E t \in S : edges[t] \cap S = {}
    <3>1. CASE S \ {u} = {}
      <4>1. S = {u}
        BY <2>3, <3>1
      <4>2. QED
        BY <1>5, <4>1
    <3>2. CASE S \ {u} # {}
      <4>1. S \ {u} \subseteq visited
        BY <1>1
      <4>2. PICK t \in S \ {u} : edges[t] \cap (S \ {u}) = {}
        BY <2>1, <3>2, <4>1 DEF VisitedInv, Orderable
      <4>3. edges[t] \subseteq visited
        BY <2>1, <4>1 DEF VisitedInv
      <4>4. QED
        BY <1>5, <4>2, <4>3
    <3>3. QED
      BY <3>1, <3>2
  <2>4. QED
    BY <1>1, <2>2, <2>3 DEF VisitedInv, Orderable
<1>10. PlanTypeOK'
  BY <1>1, <1>2, <1>4, <1>5, <1>6 DEF PlanTypeOK, sortVars
<1>11. SearchInv'
  <2>1. ~attested /\ ~attested'
    BY <1>1, <1>2 DEF SearchInv
  <2>2. QED
    BY <1>1, <1>8, <1>9, <2>1 DEF SearchInv
<1>12. QED
  BY <1>1, <1>10, <1>11, SearchKeepsSort DEF PlanInv

(***************************************************************************)
(* The sort.                                                               *)
(***************************************************************************)

\* The sort starts with the counts of all dependencies.
LEMMA StartSortInv ==
  ASSUME PlanTypeOK, StartSort, edges' = edges
  PROVE  /\ OrderInv' /\ CountInv'
         /\ indegree' \in [Tasks -> Nat] /\ ready' \subseteq Tasks /\ order' = <<>>
<1>1. /\ indegree' = [t \in Tasks |-> Cardinality(edges[t])]
      /\ ready' = {t \in Tasks : indegree'[t] = 0}
      /\ order' = <<>>
  BY DEF StartSort
<1>2. \A t \in Tasks : /\ edges[t] \in SUBSET Tasks /\ IsFiniteSet(edges[t])
                       /\ Cardinality(edges[t]) \in Nat
                       /\ Cardinality(edges[t]) = 0 <=> edges[t] = {}
  <2>1. \A t \in Tasks : edges[t] \in SUBSET Tasks /\ IsFiniteSet(edges[t])
    BY TasksAreFinite DEF PlanTypeOK
  <2>2. QED
    BY <2>1, FS_CardinalityType, FS_EmptySet
<1>3. Tasks' = Tasks
  BY DEF Tasks
<1>4. Len(order') = 0 /\ \A k \in Int : k <= 0 => {order'[j] : j \in 1..k} = {}
  BY <1>1
<1>5. OrderInv'
  BY <1>4 DEF OrderInv
<1>6. ready' = {t \in Tasks : edges[t] = {}}
  BY <1>1, <1>2
<1>7. Placed(Len(order))' = {}
  BY <1>4 DEF Placed
<1>8. \A t \in Tasks : edges[t] \ {} = edges[t] /\ (edges[t] \subseteq {} <=> edges[t] = {})
  OBVIOUS
<1>9. DOMAIN indegree' = Tasks /\ \A t \in Tasks : indegree'[t] = Cardinality(edges[t])
  BY <1>1
<1>10. CountInv'
  BY <1>3, <1>6, <1>7, <1>8, <1>9 DEF CountInv
<1>11. indegree' \in [Tasks -> Nat] /\ ready' \subseteq Tasks
  BY <1>1, <1>2
<1>12. QED
  BY <1>1, <1>5, <1>10, <1>11

\* The search ends with every task visited.
LEMMA AttestInv ==
  ASSUME PlanInv, Attest
  PROVE  PlanInv'
<1>1. /\ pc = "visit" /\ Top.left = {} /\ Len(stack) = 1
      /\ attested' = TRUE
      /\ edges' = edges /\ stack' = stack /\ visited' = visited
  BY DEF Attest
<1>2. PlanTypeOK /\ SearchInv /\ StackInv /\ SortInv
  BY <1>1 DEF PlanInv, SearchInv
<1>3. Tasks' = Tasks /\ Frame' = Frame
  BY <1>1 DEF Tasks, Frame
<1>4. visited = Tasks
  <2>1. Top.task = Root
    BY <1>1, <1>2 DEF StackInv, Top
  <2>2. Needs(Top) = Tasks
    BY <2>1 DEF Needs
  <2>3. QED
    BY <1>1, <1>2, <2>2 DEF StackInv, PlanTypeOK
<1>5. VisitedInv'
  BY <1>1, <1>2 DEF SearchInv, VisitedInv, Orderable
<1>6. CASE pc' = "raised" /\ UNCHANGED sortVars
  <2>1. pc' = "raised" /\ UNCHANGED sortVars /\ DOMAIN indegree = {}
    BY <1>1, <1>2, <1>6 DEF SortInv
  <2>2. PlanTypeOK'
    BY <1>1, <1>2, <1>3, <2>1 DEF PlanTypeOK, sortVars
  <2>3. SearchInv'
    BY <1>1, <1>3, <1>4, <1>5, <2>1 DEF SearchInv
  <2>4. OrderInv'
    BY <1>1, <1>2, <1>3, <2>1 DEF SortInv, OrderInv, Placed, sortVars
  <2>5. SortInv'
    BY <1>3, <2>1, <2>4 DEF SortInv, sortVars
  <2>6. QED
    BY <2>2, <2>3, <2>5 DEF PlanInv
<1>7. CASE Tasks # {} /\ pc' = "dispatch" /\ StartSort
  <2>1. pc' = "dispatch" /\ StartSort
    BY <1>7
  <2>2. /\ OrderInv' /\ CountInv'
        /\ indegree' \in [Tasks -> Nat] /\ ready' \subseteq Tasks /\ order' = <<>>
    BY <1>1, <1>2, <2>1, StartSortInv
  <2>3. order' \in Seq(Tasks)
    BY <2>2, EmptySeq
  <2>4. PlanTypeOK'
    BY <1>1, <1>2, <1>3, <2>2, <2>3 DEF PlanTypeOK
  <2>5. SearchInv'
    BY <1>1, <1>3, <1>4, <1>5, <1>7, <2>1 DEF SearchInv
  <2>6. SortInv'
    BY <2>1, <2>2 DEF SortInv
  <2>7. QED
    BY <2>4, <2>5, <2>6 DEF PlanInv
<1>8. QED
  BY <1>6, <1>7 DEF Attest

\* A placed task has its dependencies placed.
LEMMA PlacedIsClosed ==
  ASSUME PlanTypeOK, OrderInv
  PROVE  /\ Len(order) \in Nat /\ Placed(Len(order)) \subseteq Tasks
         /\ \A i \in 1..Len(order) : order[i] \in Tasks
         /\ \A u \in Placed(Len(order)) : edges[u] \subseteq Placed(Len(order))
<1>1. Len(order) \in Nat /\ \A i \in 1..Len(order) : order[i] \in Tasks
  BY DEF PlanTypeOK
<1>2. ASSUME NEW i \in 1..Len(order) PROVE edges[order[i]] \subseteq Placed(Len(order))
  BY <1>1 DEF OrderInv, Placed
<1>3. QED
  BY <1>1, <1>2 DEF Placed

\* The next task is placed, and frees those that waited for it alone.
LEMMA PlaceNextInv ==
  ASSUME PlanInv, PlaceNext
  PROVE  PlanInv'
<1> DEFINE n == Len(order)
           t == First(ready)
           P == Placed(n)
<1>1. /\ pc \in {"dispatch", "order"} /\ ready # {}
      /\ order' = Append(order, t)
      /\ indegree' = [u \in Tasks |-> IF t \in edges[u] THEN indegree[u] - 1 ELSE indegree[u]]
      /\ ready' = (ready \ {t}) \cup {u \in Tasks : t \in edges[u] /\ indegree'[u] = 0}
      /\ pc' = pc /\ edges' = edges /\ stack' = stack
      /\ visited' = visited /\ attested' = attested
  BY DEF PlaceNext, Place, searchVars
<1>2. PlanTypeOK /\ SearchInv /\ OrderInv /\ CountInv
  BY <1>1 DEF PlanInv, SortInv
<1>3. Tasks' = Tasks /\ Frame' = Frame
  BY <1>1 DEF Tasks, Frame
<1>4. t \in ready /\ \A u \in ready : t <= u
  BY <1>1, <1>2, FirstOf DEF PlanTypeOK
<1>5. n \in Nat /\ P \subseteq Tasks /\ \A u \in P : edges[u] \subseteq P
  BY <1>2, PlacedIsClosed
<1>6. /\ ready = {u \in Tasks \ P : edges[u] \subseteq P}
      /\ \A u \in Tasks : indegree[u] = Cardinality(edges[u] \ P)
  BY <1>2 DEF CountInv
<1>7. t \in Tasks \ P /\ edges[t] \subseteq P
  BY <1>4, <1>6
<1>8. /\ order' \in Seq(Tasks) /\ Len(order') = n + 1
      /\ \A i \in 1..n : order'[i] = order[i]
      /\ order'[n + 1] = t
  <2> HIDE DEF t
  <2>1. QED
    BY <1>1, <1>2, <1>7 DEF PlanTypeOK
<1>9. \A k \in 0..n : {order'[j] : j \in 1..k} = Placed(k)
  BY <1>5, <1>8 DEF Placed
<1>10. {order'[j] : j \in 1..n + 1} = P \cup {t}
  BY <1>5, <1>8 DEF Placed
<1>11. Placed(Len(order))' = P \cup {t}
  BY <1>8, <1>10 DEF Placed
<1> HIDE DEF t, P
<1>12. OrderInv'
  <2>1. \A i, j \in 1..n + 1 : order'[i] = order'[j] => i = j
    <3>1. \A i \in 1..n : order[i] \in P
      BY DEF P, Placed
    <3>2. QED
      BY <1>2, <1>5, <1>7, <1>8, <3>1 DEF OrderInv
  <2>2. ASSUME NEW i \in 1..n + 1
        PROVE  /\ edges[order'[i]] \subseteq {order'[j] : j \in 1..i-1}
               /\ \A u \in Tasks \ {order'[j] : j \in 1..i-1} :
                    edges[u] \subseteq {order'[j] : j \in 1..i-1} => order'[i] <= u
    <3>1. CASE i \in 1..n
      <4>1. {order'[j] : j \in 1..i-1} = Placed(i-1)
        BY <1>5, <1>9, <3>1
      <4>2. QED
        BY <1>2, <1>8, <3>1, <4>1 DEF OrderInv
    <3>2. CASE i = n + 1
      <4>1. {order'[j] : j \in 1..i-1} = P
        BY <1>5, <1>9, <3>2 DEF P
      <4>2. QED
        BY <1>4, <1>6, <1>7, <1>8, <3>2, <4>1
    <3>3. QED
      BY <1>5, <3>1, <3>2
  <2>3. QED
    BY <1>1, <1>3, <1>8, <2>1, <2>2 DEF OrderInv, Placed
<1>13. ASSUME NEW u \in Tasks
       PROVE  /\ indegree'[u] = Cardinality(edges[u] \ (P \cup {t}))
              /\ indegree'[u] \in Nat
              /\ indegree'[u] = 0 <=> edges[u] \subseteq P \cup {t}
  <2>1. IsFiniteSet(edges[u] \ P)
    <3>1. edges[u] \ P \in SUBSET Tasks
      BY <1>2 DEF PlanTypeOK
    <3>2. QED
      BY <1>2, <3>1, TasksAreFinite
  <2>2. edges[u] \ (P \cup {t}) = (edges[u] \ P) \ {t}
    OBVIOUS
  <2>3. /\ IsFiniteSet((edges[u] \ P) \ {t})
        /\ Cardinality((edges[u] \ P) \ {t}) =
             IF t \in edges[u] \ P THEN Cardinality(edges[u] \ P) - 1 ELSE Cardinality(edges[u] \ P)
    BY <2>1, FS_RemoveElement
  <2>4. indegree'[u] = Cardinality((edges[u] \ P) \ {t})
    BY <1>1, <1>6, <1>7, <2>3
  <2>5. Cardinality((edges[u] \ P) \ {t}) \in Nat
    BY <2>3, FS_CardinalityType
  <2>6. Cardinality((edges[u] \ P) \ {t}) = 0 <=> (edges[u] \ P) \ {t} = {}
    BY <2>3, FS_EmptySet
  <2>7. QED
    BY <2>2, <2>4, <2>5, <2>6
<1>14. ready' = {u \in Tasks \ (P \cup {t}) : edges[u] \subseteq P \cup {t}}
  <2>1. ready' = (ready \ {t}) \cup {u \in Tasks : t \in edges[u] /\ edges[u] \subseteq P \cup {t}}
    BY <1>1, <1>13
  <2>2. \A u \in Tasks : t \in edges[u] => u \notin P \cup {t}
    BY <1>5, <1>7
  <2>3. QED
    BY <1>6, <2>1, <2>2
<1>15. indegree' \in [Tasks -> Nat]
  BY <1>1, <1>13
<1>16. CountInv'
  BY <1>1, <1>3, <1>11, <1>13, <1>14, <1>15 DEF CountInv
<1>17. PlanTypeOK'
  BY <1>1, <1>2, <1>3, <1>8, <1>14, <1>15 DEF PlanTypeOK
<1>18. SearchInv'
  BY <1>1, <1>2, <1>3 DEF SearchInv, VisitedInv, Orderable
<1>19. SortInv'
  BY <1>1, <1>12, <1>16 DEF SortInv
<1>20. QED
  BY <1>17, <1>18, <1>19 DEF PlanInv

\* Nothing is left when no task is ready, since the others could be ordered.
LEMMA SortIsComplete ==
  ASSUME PlanInv, pc \in {"dispatch", "order"}, ready = {}
  PROVE  OrderComplete
<1> DEFINE n == Len(order)
           P == Placed(n)
           S == Tasks \ P
<1>1. PlanTypeOK /\ OrderInv /\ CountInv /\ Orderable(Tasks)
  BY DEF PlanInv, SearchInv, SortInv, VisitedInv
<1>2. n \in Nat /\ P \subseteq Tasks /\ \A i \in 1..n : order[i] \in Tasks
  BY <1>1, PlacedIsClosed
<1>3. S = {}
  <2>1. SUFFICES ASSUME S # {} PROVE FALSE
    OBVIOUS
  <2>2. PICK u \in S : edges[u] \cap S = {}
    BY <1>1, <2>1 DEF Orderable
  <2>3. edges[u] \subseteq P
    BY <1>1, <2>2 DEF PlanTypeOK
  <2>4. u \in ready
    BY <1>1, <2>3 DEF CountInv
  <2>5. QED
    BY <2>4
<1>4. P = Tasks
  BY <1>2, <1>3
<1>5. n = Cardinality(Tasks)
  <2> DEFINE f == [i \in 1..n |-> order[i]]
  <2>1. f \in Bijection(1..n, Tasks)
    <3>1. f \in [1..n -> Tasks] /\ \A i, j \in 1..n : f[i] = f[j] => i = j
      BY <1>1, <1>2 DEF OrderInv
    <3>2. \A u \in Tasks : \E i \in 1..n : f[i] = u
      BY <1>4 DEF Placed
    <3> HIDE DEF f, n
    <3>3. QED
      BY <3>1, <3>2 DEF Bijection, Injection, Surjection, IsInjective
  <2>2. ExistsBijection(1..n, Tasks)
    BY <2>1 DEF ExistsBijection
  <2>3. IsFiniteSet(1..n) /\ Cardinality(1..n) = n
    BY <1>2, FS_Interval
  <2>4. QED
    BY <2>2, <2>3, FS_Bijection
<1>6. QED
  BY <1>4, <1>5 DEF OrderComplete

\* A sort never fails: the plan was attested.
LEMMA EndSortInv ==
  ASSUME PlanInv, EndSort
  PROVE  PlanInv' /\ pc' = IF pc = "dispatch" THEN "assign" ELSE "prepare"
<1>1. /\ pc \in {"dispatch", "order"} /\ ready = {}
      /\ UNCHANGED <<searchVars, sortVars>>
  BY DEF EndSort
<1>2. OrderComplete
  BY <1>1, SortIsComplete
<1>3. pc' = IF pc = "dispatch" THEN "assign" ELSE "prepare"
  <2>1. ~(Len(order) # Cardinality(Tasks))
    BY <1>2 DEF OrderComplete
  <2>2. QED
    BY <1>1, <2>1, Zenon DEF EndSort
<1>4. edges' = edges /\ stack' = stack /\ visited' = visited /\ attested' = attested
      /\ indegree' = indegree /\ ready' = ready /\ order' = order
  BY <1>1 DEF searchVars, sortVars
<1>5. Tasks' = Tasks /\ Frame' = Frame
  BY <1>4 DEF Tasks, Frame
<1>6. PlanTypeOK'
  BY <1>4, <1>5 DEF PlanInv, PlanTypeOK
<1>7. SearchInv'
  BY <1>1, <1>3, <1>4, <1>5 DEF PlanInv, SearchInv, VisitedInv, Orderable
<1>8. OrderInv' /\ OrderComplete'
  BY <1>2, <1>4, <1>5 DEF PlanInv, SortInv, OrderInv, OrderComplete, Placed
<1>9. QED
  BY <1>1, <1>3, <1>6, <1>7, <1>8 DEF PlanInv, SortInv

\* What comes after the answer and the sorts leaves the plan alone.
LEMMA LaterInv ==
  ASSUME PlanInv, UNCHANGED <<searchVars, sortVars>>,
         pc \notin {"visit", "dispatch", "order"},
         pc' \notin {"answer", "visit", "dispatch", "order"},
         pc \in {"answer", "raised", "failed"} => pc' \in {"raised", "failed"}
  PROVE  PlanInv'
<1>1. edges' = edges /\ stack' = stack /\ visited' = visited /\ attested' = attested
      /\ indegree' = indegree /\ ready' = ready /\ order' = order
  BY DEF searchVars, sortVars
<1>2. Tasks' = Tasks /\ Frame' = Frame
  BY <1>1 DEF Tasks, Frame
<1>3. PlanTypeOK'
  BY <1>1, <1>2 DEF PlanInv, PlanTypeOK
<1>4. VisitedInv'
  BY <1>1 DEF PlanInv, SearchInv, VisitedInv, Orderable
<1>5. ~attested /\ Tasks # {} => ~Orderable(Tasks)
  BY DEF PlanInv, SearchInv, NoPlan, Tasks
<1>6. SearchInv'
  BY <1>1, <1>2, <1>4, <1>5 DEF PlanInv, SearchInv, Orderable
<1>7. OrderInv' /\ (OrderComplete => OrderComplete')
  <2>1. OrderInv
    BY DEF PlanInv, SortInv
  <2>2. OrderInv'
    <3>1. \A n : Placed(n)' = Placed(n)
      BY <1>1 DEF Placed
    <3>2. QED
      BY <1>1, <1>2, <2>1, <3>1 DEF OrderInv
  <2>3. OrderComplete => OrderComplete'
    BY <1>1, <1>2 DEF OrderComplete, Placed
  <2>4. QED
    BY <2>2, <2>3
<1>8. SortInv'
  <2>1. ASSUME attested, Tasks # {}
        PROVE  OrderComplete \/ (pc \in {"raised", "failed"} /\ DOMAIN indegree = {})
    BY <2>1 DEF PlanInv, SortInv
  <2>2. attested' /\ Tasks' # {} =>
          OrderComplete' \/ (pc' \in {"raised", "failed"} /\ DOMAIN indegree' = {})
    BY <1>1, <1>2, <1>7, <2>1
  <2>3. QED
    BY <1>7, <2>2 DEF SortInv
<1>9. QED
  BY <1>3, <1>6, <1>8 DEF PlanInv

\* The coordinator sorts the plan anew.
LEMMA StartAgainInv ==
  ASSUME PlanInv, pc = "assign", pc' = "order", StartSort, UNCHANGED searchVars
  PROVE  PlanInv'
<1>1. edges' = edges /\ stack' = stack /\ visited' = visited /\ attested' = attested
  BY DEF searchVars
<1>2. Tasks' = Tasks /\ Frame' = Frame
  BY <1>1 DEF Tasks, Frame
<1>3. /\ OrderInv' /\ CountInv'
      /\ indegree' \in [Tasks -> Nat] /\ ready' \subseteq Tasks /\ order' = <<>>
  BY <1>1, StartSortInv DEF PlanInv
<1>4. order' \in Seq(Tasks)
  BY <1>3, EmptySeq
<1>5. PlanTypeOK'
  BY <1>1, <1>2, <1>3, <1>4 DEF PlanInv, PlanTypeOK
<1>6. SearchInv'
  BY <1>1, <1>2 DEF PlanInv, SearchInv, VisitedInv, Orderable
<1>7. QED
  BY <1>3, <1>5, <1>6 DEF PlanInv, SortInv

LEMMA PlanInitInv ==
  ASSUME PlanInit
  PROVE  PlanInv
<1>1. Tasks = {} /\ order = <<>> /\ stack = <<>>
  BY DEF PlanInit, Tasks, NoPlan
<1>2. order \in Seq(Tasks) /\ stack \in Seq(Frame)
  BY <1>1, EmptySeq
<1>3. PlanTypeOK
  BY <1>1, <1>2 DEF PlanInit, PlanTypeOK, NoPlan
<1>4. QED
  BY <1>1, <1>3
     DEF PlanInit, PlanInv, SearchInv, SortInv, VisitedInv, Orderable, OrderInv

\* A step of the search or of a sort.
LEMMA PlanStepInv ==
  ASSUME PlanInv, PlanStep
  PROVE  PlanInv'
BY VisitSeenInv, VisitEnterInv, VisitRaisesInv, VisitLeaveInv, AttestInv, PlaceNextInv,
   EndSortInv DEF PlanStep

LEMMA PlanUnchanged ==
  ASSUME PlanInv, UNCHANGED planVars
  PROVE  PlanInv'
<1>1. /\ pc' = pc
      /\ edges' = edges /\ stack' = stack /\ visited' = visited /\ attested' = attested
      /\ indegree' = indegree /\ ready' = ready /\ order' = order
  BY DEF planVars, searchVars, sortVars
<1>2. Tasks' = Tasks /\ Frame' = Frame /\ Top' = Top
  BY <1>1 DEF Tasks, Frame, Top
<1>3. PlanTypeOK'
  BY <1>1, <1>2 DEF PlanInv, PlanTypeOK
<1>4. StackInv => StackInv'
  BY <1>1, <1>2 DEF StackInv, Needs
<1>5. SearchInv'
  BY <1>1, <1>2, <1>4 DEF PlanInv, SearchInv, VisitedInv, Orderable
<1>6. /\ OrderInv => OrderInv'
      /\ CountInv => CountInv'
      /\ OrderComplete => OrderComplete'
  BY <1>1, <1>2 DEF OrderInv, CountInv, OrderComplete, Placed
<1>7. SortInv'
  BY <1>1, <1>2, <1>6 DEF PlanInv, SortInv
<1>8. QED
  BY <1>3, <1>5, <1>7 DEF PlanInv

(***************************************************************************)
(* The work left.  The search looks at each dependency of each task once,  *)
(* and leaves each task once; the sort places each task once.              *)
(***************************************************************************)

Edge == (Tasks \cup {Root}) \X Tasks

\* A dependency is still to be looked at: of a task the search has not come to,
\* or of one whose call has it on its list.
Pending ==
  {e \in Edge :
     \/ e[1] \in Tasks \ (visited \cup Visiting) /\ e[2] \in edges[e[1]]
     \/ \E i \in DOMAIN stack : stack[i].task = e[1] /\ e[2] \in stack[i].left}

WorkLeft ==
  CASE pc = "visit" -> Cardinality(Pending) + Cardinality(Tasks \ visited) + 1
    [] pc \in {"dispatch", "order"} -> Cardinality(Tasks \ Placed(Len(order))) + 1
    [] OTHER -> 0

\* All there is to look at.
AllEdges == {e \in Edge : e[1] = Root \/ (e[1] \in Tasks /\ e[2] \in edges[e[1]])}


Planning == {"visit", "dispatch", "order"}
WorkBound == Cardinality(AllEdges) + Cardinality(Tasks) + 1

\* One element less.
LEMMA OneLess ==
  ASSUME NEW S, IsFiniteSet(S), NEW x \in S
  PROVE  Cardinality(S \ {x}) = Cardinality(S) - 1 /\ Cardinality(S) \in Nat \ {0}
<1>1. Cardinality(S \ {x}) = Cardinality(S) - 1
  BY FS_RemoveElement
<1>2. IsFiniteSet(S \ {x}) /\ Cardinality(S \ {x}) \in Nat /\ Cardinality(S) \in Nat
  BY FS_RemoveElement, FS_CardinalityType
<1>3. QED
  BY <1>1, <1>2

\* There are finitely many edges, and those to be looked at are some of them.
LEMMA PendingIsFinite ==
  ASSUME PlanTypeOK, StackInv
  PROVE  /\ IsFiniteSet(Pending) /\ IsFiniteSet(AllEdges)
         /\ Cardinality(Pending) \in Nat /\ Cardinality(AllEdges) \in Nat
         /\ Cardinality(Pending) <= Cardinality(AllEdges)
<1>1. IsFiniteSet(Edge)
  <2>1. IsFiniteSet(Tasks) /\ IsFiniteSet(Tasks \cup {Root})
    BY TasksAreFinite, FS_AddElement
  <2>2. QED
    BY <2>1, FS_Product DEF Edge
<1>2. AllEdges \in SUBSET Edge
  BY DEF AllEdges
<1>3. Pending \in SUBSET AllEdges
  <2>1. SUFFICES ASSUME NEW e \in Pending PROVE e \in AllEdges
    OBVIOUS
  <2>2. e \in Edge
    BY DEF Pending
  <2>3. CASE e[1] \in Tasks \ (visited \cup Visiting) /\ e[2] \in edges[e[1]]
    BY <2>2, <2>3 DEF AllEdges
  <2>4. CASE \E i \in DOMAIN stack : stack[i].task = e[1] /\ e[2] \in stack[i].left
    <3>1. PICK i \in DOMAIN stack : stack[i].task = e[1] /\ e[2] \in stack[i].left
      BY <2>4
    <3>2. i \in 1..Len(stack) /\ stack[i] \in Frame
      BY StackTop
    <3>3. e[2] \in Needs(stack[i]) /\ e[1] \in Tasks \cup {Root}
      BY <3>1, <3>2 DEF StackInv, Frame
    <3>4. QED
      BY <2>2, <3>1, <3>3 DEF AllEdges, Needs
  <2>5. QED
    BY <2>3, <2>4 DEF Pending
<1>4. IsFiniteSet(AllEdges) /\ Cardinality(AllEdges) \in Nat
  BY <1>1, <1>2, FS_Subset, FS_CardinalityType
<1>5. QED
  BY <1>3, <1>4, FS_Subset, FS_CardinalityType

\* While it is planning, the plan leaves so much to do.
LEMMA WorkIsBounded ==
  ASSUME PlanInv, pc \in Planning
  PROVE  WorkLeft \in 1 .. WorkBound
<1>1. PlanTypeOK
  BY DEF PlanInv
<1>2. /\ IsFiniteSet(Tasks) /\ Cardinality(Tasks) \in Nat
      /\ \A S \in SUBSET Tasks : Cardinality(S) \in Nat /\ Cardinality(S) <= Cardinality(Tasks)
  <2>1. IsFiniteSet(Tasks)
    BY <1>1, TasksAreFinite
  <2>2. ASSUME NEW S \in SUBSET Tasks
        PROVE  Cardinality(S) \in Nat /\ Cardinality(S) <= Cardinality(Tasks)
    BY <2>1, FS_Subset, FS_CardinalityType
  <2>3. QED
    BY <2>1, <2>2
<1>3. Cardinality(AllEdges) \in Nat
  <2>1. IsFiniteSet(Tasks \cup {Root})
    BY <1>2, FS_AddElement
  <2>2. IsFiniteSet(Edge) /\ AllEdges \in SUBSET Edge
    BY <1>2, <2>1, FS_Product DEF Edge, AllEdges
  <2>3. QED
    BY <2>2, FS_Subset, FS_CardinalityType
<1>4. CASE pc = "visit"
  <2>1. StackInv
    BY <1>4 DEF PlanInv, SearchInv
  <2>2. Cardinality(Pending) \in Nat /\ Cardinality(Pending) <= Cardinality(AllEdges)
    BY <1>1, <2>1, PendingIsFinite
  <2>3. /\ Cardinality(Tasks \ visited) \in Nat
        /\ Cardinality(Tasks \ visited) <= Cardinality(Tasks)
    BY <1>2
  <2>4. WorkLeft = Cardinality(Pending) + Cardinality(Tasks \ visited) + 1
    BY <1>4 DEF WorkLeft
  <2>5. QED
    BY <1>2, <1>3, <2>2, <2>3, <2>4 DEF WorkBound
<1>5. CASE pc \in {"dispatch", "order"}
  <2> DEFINE S == Tasks \ Placed(Len(order))
  <2>1. Cardinality(S) \in Nat /\ Cardinality(S) <= Cardinality(Tasks)
    BY <1>2
  <2>2. WorkLeft = Cardinality(S) + 1
    BY <1>5 DEF WorkLeft
  <2> HIDE DEF S
  <2>3. QED
    BY <1>2, <1>3, <2>1, <2>2 DEF WorkBound
<1>6. QED
  BY <1>4, <1>5 DEF Planning

\* To go on to the next dependency is one edge less; a task the search comes to
\* has its edges on its own list from then on.
LEMMA VisitStepWork ==
  ASSUME PlanInv, VisitSeen \/ VisitEnter
  PROVE  pc = "visit" /\ pc' = "visit" /\ WorkLeft' = WorkLeft - 1
<1> DEFINE n == Len(stack)
           t == First(Top.left)
           e == <<Top.task, t>>
<1>1. /\ pc = "visit" /\ pc' = "visit" /\ Top.left # {}
      /\ edges' = edges /\ visited' = visited
  BY DEF VisitSeen, VisitEnter
<1>2. PlanTypeOK /\ StackInv
  BY <1>1 DEF PlanInv, SearchInv
<1>3. /\ n \in Nat \ {0} /\ DOMAIN stack = 1..n /\ \A i \in 1..n : stack[i] \in Frame
      /\ Top = stack[n] /\ Top.left \subseteq Tasks
      /\ Visiting = {stack[i].task : i \in 1..n} /\ Root \notin Tasks
  BY <1>2, StackTop
<1>4. Tasks' = Tasks /\ Edge' = Edge
  BY <1>1 DEF Tasks, Edge
<1>5. t \in Top.left /\ t \in Tasks
  BY <1>1, <1>2, <1>3, FirstOf
<1>6. /\ Len(TopVisits(t)) = n /\ TopVisits(t) \in Seq(Frame)
      /\ \A i \in 1..n - 1 : TopVisits(t)[i] = stack[i]
      /\ TopVisits(t)[n] = [task |-> stack[n].task, left |-> stack[n].left \ {t}]
  BY <1>2, TopVisitsStack
<1>7. \A i, j \in 1..n : stack[i].task = stack[j].task => i = j
  BY <1>2 DEF StackInv
<1>8. e \in Pending
  <2>1. n \in DOMAIN stack /\ stack[n].task = Top.task /\ t \in stack[n].left
    BY <1>3, <1>5
  <2>2. Top.task \in Tasks \cup {Root}
    BY <1>3 DEF Frame
  <2> HIDE DEF t
  <2>3. e \in Edge /\ e[1] = Top.task /\ e[2] = t
    BY <1>5, <2>2 DEF Edge
  <2>4. QED
    BY <2>1, <2>3 DEF Pending
<1> HIDE DEF t
<1>a. \A d \in Edge : d # e <=> d[1] # Top.task \/ d[2] # t
  BY DEF Edge
<1>b. n \in Nat \ {0}
  BY <1>3
<1> HIDE DEF e
\* The calls as they were have the edges they had, but for this one.
<1> DEFINE Listed(d) == \E i \in 1..n : stack[i].task = d[1] /\ d[2] \in stack[i].left
           ListedNow(d) == \E i \in 1..n : /\ TopVisits(t)[i].task = d[1]
                                           /\ d[2] \in TopVisits(t)[i].left
<1>9. \A d \in Edge : ListedNow(d) <=> Listed(d) /\ d # e
  <2> TAKE d \in Edge
  <2>1. ASSUME NEW i \in 1..n
        PROVE  (TopVisits(t)[i].task = d[1] /\ d[2] \in TopVisits(t)[i].left) <=>
               (stack[i].task = d[1] /\ d[2] \in stack[i].left /\ d # e)
    <3>1. CASE i = n
      BY <1>3, <1>6, <1>a, <3>1
    <3>2. CASE i # n
      <4>1. i \in 1..n - 1 /\ n \in 1..n
        BY <1>b, <3>2, SMTT(40)
      <4>2. stack[i].task # Top.task /\ TopVisits(t)[i] = stack[i]
        BY <1>3, <1>6, <1>7, <3>2, <4>1
      <4>3. QED
        BY <1>a, <4>2
    <3>3. QED
      BY <3>1, <3>2
  <2>2. QED
    BY <2>1
<1>10. CASE VisitSeen
  <2>1. stack' = TopVisits(t)
    BY <1>10 DEF VisitSeen, t
  <2>2. DOMAIN stack' = 1..n /\ \A i \in 1..n : stack'[i].task = stack[i].task
    BY <1>3, <1>6, <2>1
  <2>3. Visiting' = Visiting
    BY <1>3, <2>2 DEF Visiting
  <2>4. \A d \in Edge : d \in Pending' <=> d \in Pending /\ d # e
    <3> TAKE d \in Edge
    <3>1. d \in Pending' <=> \/ d[1] \in Tasks \ (visited \cup Visiting) /\ d[2] \in edges[d[1]]
                             \/ ListedNow(d)
      BY <1>1, <1>4, <2>1, <2>2, <2>3 DEF Pending
    <3>2. d \in Pending <=> \/ d[1] \in Tasks \ (visited \cup Visiting) /\ d[2] \in edges[d[1]]
                            \/ Listed(d)
      BY <1>3 DEF Pending
    <3>3. d = e => d[1] \in Visiting
      BY <1>3, <1>a
    <3>4. QED
      BY <1>9, <3>1, <3>2, <3>3
  <2>5. Pending' = Pending \ {e}
    BY <1>4, <2>4 DEF Pending
  <2>6. Cardinality(Pending') = Cardinality(Pending) - 1
    BY <1>2, <1>8, <2>5, PendingIsFinite, OneLess
  <2>7. Cardinality((Tasks \ visited)') = Cardinality(Tasks \ visited)
    BY <1>1, <1>4
  <2>8. WorkLeft = Cardinality(Pending) + Cardinality(Tasks \ visited) + 1
    BY <1>1 DEF WorkLeft
  <2>9. WorkLeft' = Cardinality(Pending') + Cardinality((Tasks \ visited)') + 1
    BY <1>1 DEF WorkLeft
  <2>10. Cardinality(Pending) \in Nat /\ Cardinality(Tasks \ visited) \in Nat
    BY <1>2, PendingIsFinite, TasksAreFinite, FS_CardinalityType
  <2>11. QED
    BY <1>1, <2>6, <2>7, <2>8, <2>9, <2>10
<1>11. CASE VisitEnter
  <2> DEFINE new == [task |-> t, left |-> edges[t]]
  <2>1. /\ t \notin visited \cup Visiting
        /\ stack' = Append(TopVisits(t), new)
    BY <1>11 DEF VisitEnter, t
  <2>2. /\ DOMAIN stack' = 1..n + 1
        /\ \A i \in 1..n : stack'[i] = TopVisits(t)[i]
        /\ stack'[n + 1] = new
    <3> HIDE DEF new
    <3>1. QED
      BY <1>3, <1>6, <2>1
  <2>3. \A i \in 1..n : stack'[i].task = stack[i].task
    BY <1>3, <1>6, <2>2
  <2>4. Visiting' = Visiting \cup {t}
    <3>1. Visiting' = {stack'[i].task : i \in 1..n + 1}
      BY <2>2 DEF Visiting
    <3>2. 1..n + 1 = 1..n \cup {n + 1}
      BY <1>3
    <3>3. stack'[n + 1].task = t
      BY <2>2
    <3>4. QED
      BY <1>3, <2>3, <3>1, <3>2, <3>3
  <2>5. \A d \in Edge : d \in Pending' <=> d \in Pending /\ d # e
    <3> TAKE d \in Edge
    <3>1. (\E i \in 1..n + 1 : stack'[i].task = d[1] /\ d[2] \in stack'[i].left) <=>
          \/ ListedNow(d)
          \/ d[1] = t /\ d[2] \in edges[t]
      <4>1. ASSUME NEW i \in 1..n + 1, stack'[i].task = d[1], d[2] \in stack'[i].left
            PROVE  ListedNow(d) \/ (d[1] = t /\ d[2] \in edges[t])
        <5>1. CASE i = n + 1
          BY <2>2, <4>1, <5>1
        <5>2. CASE i \in 1..n
          BY <2>2, <4>1, <5>2
        <5>3. QED
          BY <1>3, <5>1, <5>2
      <4>2. ASSUME NEW i \in 1..n, TopVisits(t)[i].task = d[1], d[2] \in TopVisits(t)[i].left
            PROVE  \E j \in 1..n + 1 : stack'[j].task = d[1] /\ d[2] \in stack'[j].left
        <5>1. i \in 1..n + 1
          BY <1>3
        <5>2. QED
          BY <2>2, <4>2, <5>1
      <4>3. ASSUME d[1] = t, d[2] \in edges[t]
            PROVE  \E j \in 1..n + 1 : stack'[j].task = d[1] /\ d[2] \in stack'[j].left
        <5>1. n + 1 \in 1..n + 1
          BY <1>3
        <5>2. QED
          BY <2>2, <4>3, <5>1
      <4>4. QED
        BY <4>1, <4>2, <4>3
    <3>2. d \in Pending' <=>
            \/ d[1] \in Tasks \ (visited \cup Visiting \cup {t}) /\ d[2] \in edges[d[1]]
            \/ ListedNow(d)
            \/ d[1] = t /\ d[2] \in edges[t]
      BY <1>1, <1>4, <2>2, <2>4, <3>1 DEF Pending
    <3>3. d \in Pending <=> \/ d[1] \in Tasks \ (visited \cup Visiting) /\ d[2] \in edges[d[1]]
                            \/ Listed(d)
      BY <1>3 DEF Pending
    <3>4. d = e => d[1] \in Visiting
      BY <1>3, <1>a
    <3>5. QED
      BY <1>5, <1>9, <2>1, <3>2, <3>3, <3>4
  <2>6. Pending' = Pending \ {e}
    BY <1>4, <2>5 DEF Pending
  <2>7. Cardinality(Pending') = Cardinality(Pending) - 1
    BY <1>2, <1>8, <2>6, PendingIsFinite, OneLess
  <2>8. Cardinality((Tasks \ visited)') = Cardinality(Tasks \ visited)
    BY <1>1, <1>4
  <2>9. WorkLeft = Cardinality(Pending) + Cardinality(Tasks \ visited) + 1
    BY <1>1 DEF WorkLeft
  <2>10. WorkLeft' = Cardinality(Pending') + Cardinality((Tasks \ visited)') + 1
    BY <1>1 DEF WorkLeft
  <2>11. Cardinality(Pending) \in Nat /\ Cardinality(Tasks \ visited) \in Nat
    BY <1>2, PendingIsFinite, TasksAreFinite, FS_CardinalityType
  <2>12. QED
    BY <1>1, <2>7, <2>8, <2>9, <2>10, <2>11
<1>12. QED
  BY <1>1, <1>10, <1>11


\* A call that returns leaves no edge to look at, and its task is visited.
LEMMA VisitLeaveWork ==
  ASSUME PlanInv, VisitLeave
  PROVE  pc = "visit" /\ pc' = "visit" /\ WorkLeft' = WorkLeft - 1
<1> DEFINE n == Len(stack)
           u == Top.task
<1>1. /\ pc = "visit" /\ pc' = "visit" /\ Top.left = {} /\ n > 1
      /\ stack' = [i \in 1..n - 1 |-> stack[i]]
      /\ visited' = visited \cup {u} /\ edges' = edges
  BY DEF VisitLeave
<1>2. PlanTypeOK /\ StackInv
  BY <1>1 DEF PlanInv, SearchInv
<1>3. /\ n \in Nat \ {0} /\ DOMAIN stack = 1..n /\ Top = stack[n]
      /\ Visiting = {stack[i].task : i \in 1..n}
  BY <1>2, StackTop
<1>4. Tasks' = Tasks /\ Edge' = Edge
  BY <1>1 DEF Tasks, Edge
<1>5. u \in Tasks \ visited
  BY <1>1, <1>2, <1>3 DEF StackInv
<1>6. 1..n = 1..n - 1 \cup {n} /\ DOMAIN stack' = 1..n - 1
      /\ \A i \in 1..n - 1 : stack'[i] = stack[i]
  BY <1>1, <1>3
<1>7. Visiting \cup visited = Visiting' \cup visited'
  <2>1. Visiting = {stack[i].task : i \in 1..n - 1} \cup {u}
    BY <1>3, <1>6
  <2>2. Visiting' = {stack[i].task : i \in 1..n - 1}
    BY <1>6 DEF Visiting
  <2>3. QED
    BY <1>1, <2>1, <2>2
<1>8. Pending' = Pending
  <2>1. ASSUME NEW d \in Edge
        PROVE  (\E i \in DOMAIN stack : stack[i].task = d[1] /\ d[2] \in stack[i].left) <=>
               (\E i \in DOMAIN stack' : stack'[i].task = d[1] /\ d[2] \in stack'[i].left)
    BY <1>1, <1>3, <1>6
  <2>2. Tasks \ (visited \cup Visiting) = Tasks' \ (visited' \cup Visiting')
    BY <1>4, <1>7
  <2>3. QED
    BY <1>1, <1>4, <2>1, <2>2 DEF Pending
<1>9. Cardinality((Tasks \ visited)') = Cardinality(Tasks \ visited) - 1
  <2>1. (Tasks \ visited)' = (Tasks \ visited) \ {u}
    BY <1>1, <1>4
  <2>2. IsFiniteSet(Tasks \ visited)
    BY <1>2, TasksAreFinite
  <2>3. QED
    BY <1>5, <2>1, <2>2, OneLess
<1>10. /\ WorkLeft = Cardinality(Pending) + Cardinality(Tasks \ visited) + 1
       /\ WorkLeft' = Cardinality(Pending') + Cardinality((Tasks \ visited)') + 1
  BY <1>1 DEF WorkLeft
<1>11. Cardinality(Pending) \in Nat /\ Cardinality(Tasks \ visited) \in Nat
  BY <1>2, PendingIsFinite, TasksAreFinite, FS_CardinalityType
<1>12. QED
  BY <1>1, <1>8, <1>9, <1>10, <1>11

\* A task that is placed is one less to place.
LEMMA PlaceWork ==
  ASSUME PlanInv, PlaceNext
  PROVE  pc' = pc /\ WorkLeft' = WorkLeft - 1
<1> DEFINE n == Len(order)
           t == First(ready)
<1>1. /\ pc \in {"dispatch", "order"} /\ pc' = pc /\ ready # {}
      /\ order' = Append(order, t) /\ edges' = edges
  BY DEF PlaceNext, Place, searchVars
<1>2. PlanTypeOK /\ OrderInv /\ CountInv
  BY <1>1 DEF PlanInv, SortInv
<1>3. t \in ready /\ t \in Tasks \ Placed(n)
  BY <1>1, <1>2, FirstOf DEF PlanTypeOK, CountInv
<1>4. n \in Nat /\ order \in Seq(Tasks)
  BY <1>2 DEF PlanTypeOK
<1> HIDE DEF t
<1>5. Len(order') = n + 1 /\ order'[n + 1] = t /\ \A i \in 1..n : order'[i] = order[i]
  BY <1>1, <1>3, <1>4
<1>6. Placed(Len(order))' = Placed(n) \cup {t}
  <2>1. 1..n + 1 = 1..n \cup {n + 1}
    BY <1>4
  <2>2. QED
    BY <1>5, <2>1 DEF Placed
<1>7. (Tasks \ Placed(Len(order)))' = (Tasks \ Placed(n)) \ {t}
  BY <1>1, <1>6 DEF Tasks
<1>8. IsFiniteSet(Tasks \ Placed(n))
  BY <1>2, TasksAreFinite
<1>9. /\ Cardinality((Tasks \ Placed(Len(order)))') = Cardinality(Tasks \ Placed(n)) - 1
      /\ Cardinality(Tasks \ Placed(n)) \in Nat \ {0}
  BY <1>3, <1>7, <1>8, OneLess
<1>10. /\ WorkLeft = Cardinality(Tasks \ Placed(n)) + 1
       /\ WorkLeft' = Cardinality((Tasks \ Placed(Len(order)))') + 1
  BY <1>1 DEF WorkLeft
<1>11. QED
  BY <1>1, <1>9, <1>10

\* Every step of the search and the sorts either takes one unit of the work away, or
\* ends the search or the sort; and the sorts of an attested plan never refuse it.
Progress ==
  /\ WorkLeft \in 1 .. WorkBound
  /\ \/ pc' = pc /\ WorkLeft' = WorkLeft - 1
     \/ pc = "visit" /\ pc' \in {"dispatch", "raised"}
     \/ pc = "dispatch" /\ pc' = "assign"
     \/ pc = "order" /\ pc' = "prepare"

LEMMA PlanStepProgress ==
  ASSUME PlanInv, PlanStep
  PROVE  Progress
<1>1. pc \in Planning
  BY DEF PlanStep, VisitSeen, VisitEnter, VisitRaises, VisitLeave, Attest, PlaceNext, EndSort,
    Planning
<1>2. WorkLeft \in 1 .. WorkBound
  BY <1>1, WorkIsBounded
<1>3. CASE VisitSeen \/ VisitEnter
  BY <1>2, <1>3, VisitStepWork DEF Progress
<1>4. CASE VisitLeave
  BY <1>2, <1>4, VisitLeaveWork DEF Progress
<1>5. CASE PlaceNext
  BY <1>2, <1>5, PlaceWork DEF Progress
<1>6. CASE EndSort
  <2>1. pc \in {"dispatch", "order"} /\ pc' = IF pc = "dispatch" THEN "assign" ELSE "prepare"
    BY <1>6, EndSortInv DEF EndSort
  <2>2. QED
    BY <1>2, <2>1 DEF Progress
<1>7. CASE VisitRaises \/ Attest
  BY <1>2, <1>7 DEF VisitRaises, Attest, Progress
<1>8. QED
  BY <1>3, <1>4, <1>5, <1>6, <1>7 DEF PlanStep

=============================================================================
