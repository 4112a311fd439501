CONSTANTS
  a1 = a1
  a2 = a2
  t1 = t1
  t2 = t2
  r1 = r1
  r2 = r2
  Accounts = {a1, a2}
  Tasks = {t1, t2}
  Runs = {r1, r2}
  TaskOf <- OwnTask
  Registries <- TwoRegistries
  HealthReports <- SomeReports
  Unreadable = Unreadable
  NoLease = NoLease
  SaveOutcomes = {TRUE, FALSE}
SPECIFICATION Spec
INVARIANTS
  OneLeasePerAccount
  ReadyMeansLeased
  RunHoldsItsLease
  NoLeak
  ReportedIsNotUsed
  LeaseIsOnRecord
PROPERTIES
  BlameIsRight
