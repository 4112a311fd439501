CONSTANTS
  f = f
  g = g
  None = None
  Ids = {1, 2, 3, 4}
  MaxTasks = 3
  Answers <- SomeAnswers
  Files = {f, g}
  Forms = {"plain", "dotted", "indirect", "outside"}
  Specs <- SomeSpecs
  Checkpoints <- SomeCheckpoints
  Results <- SomeResults
SPECIFICATION FairSpec
\* A run ends.
CHECK_DEADLOCK FALSE
INVARIANTS
  OrderedPlanIsNotRefused
  OrderIsFirst
  OnlyValidatedIsApplied
PROPERTIES
  ExecutesPlan
  PlanIsDecided
