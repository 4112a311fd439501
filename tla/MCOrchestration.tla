-------------------------- MODULE MCOrchestration --------------------------
(* The leader's answers, proposals and checkpoints for the run of Orchestration. *)
EXTENDS Orchestration, SequencesExt

CONSTANTS f, g

T(id, deps) == [id |-> id, deps |-> deps]

\* Every graph over three tasks, one with an id that is used twice, and answers
\* that are too long, empty, or name a task that is not there.
SomeAnswers ==
  {<<T(p[1], a), T(p[2], b), T(p[3], c)>> :
     p \in {<<3, 1, 2>>, <<1, 2, 1>>}, a, b, c \in SUBSET (1..3)}
  \cup {<<>>, <<T(2, {})>>, <<T(1, {2})>>, <<T(1, {}), T(2, {}), T(3, {}), T(4, {})>>}

Of(file, form) == [file |-> file, form |-> form]
Proposal(changes, declared) == [changes |-> changes, declared |-> declared]
Exact(paths) == Proposal(paths, paths)

\* Read-only, right, of each form, and not as declared.
SomeSpecs ==
  {Exact({}), Exact({Of(f, "dotted"), Of(g, "plain")}),
   Exact({Of(g, "indirect")}), Exact({Of(f, "outside")}),
   Proposal({Of(f, "plain")}, {Of(f, "dotted")}), Proposal({Of(f, "plain")}, {Of(g, "plain")}),
   Proposal({}, {Of(f, "plain")})}

SomeCheckpoints ==
  {[isolated |-> TRUE, id |-> 1, padded |-> FALSE], [isolated |-> TRUE, id |-> 1, padded |-> TRUE],
   [isolated |-> TRUE, id |-> None, padded |-> FALSE], [isolated |-> FALSE, id |-> 1, padded |-> FALSE]}

End(succeeded, truncated, timedOut) ==
  [succeeded |-> succeeded, truncated |-> truncated, timedOut |-> timedOut]
SomeResults ==
  {End(TRUE, FALSE, FALSE), End(TRUE, TRUE, FALSE), End(FALSE, FALSE, FALSE), End(FALSE, TRUE, TRUE)}

=============================================================================
