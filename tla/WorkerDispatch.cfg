CONSTANTS
  c1 = c1
  s1 = s1
  s2 = s2
  t1 = t1
  t2 = t2
  r1 = r1
  r2 = r2
  Workers = {c1, s1, s2}
  Roles = {"coder"}
  Tasks = {t1, t2}
  Runs = {r1, r2}
  Plans <- SomePlans
  Registries <- OneRegistry
  HealthReports <- SomeReports
  Unreadable = Unreadable
  None = None
  SaveOutcomes = {TRUE, FALSE}
SPECIFICATION Spec
SYMMETRY EitherRun
CONSTRAINT Bound
INVARIANTS
  OneLeasePerWorker
  StandbyAccounted
  RunHoldsItsLeases
  NoLeak
  LeasesAreOnRecord
PROPERTIES
  LaunchIsExclusive
