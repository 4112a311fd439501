CONSTANTS
  f1 = f1
  f2 = f2
  t1 = t1
  t2 = t2
  main = main
  side = side
  File = {f1, f2}
  Content <- SomeContent
  NoFile = NoFile
  TextOf <- Decoded
  Branch = {main, side}
  Task = {t1, t2}
  Change <- SomeChange
  NoTask = NoTask
  NoResult = NoResult
  Past <- SomePast
  Edits <- SomeEdits
  MaxEvents = 2
SPECIFICATION Spec
INVARIANTS
  TransactionsAreSerialized
