CONSTANTS
  Gates = {g1}
  Failing = {}
  f1 = f1
  f2 = f2
  outside = outside
  a = a
  b = b
  Files = {f1, f2}
  OutsidePaths = {outside}
  n = n
  rn = rn
  Positions = {1, 2}
  Fragments = {a, b, n, rn}
  Newline <- ReadNewline
  InitialTexts <- OnceOrTwice
  Missing = Missing
  Undecodable = Undecodable
  NoCheckpoint = NoCheckpoint
  ForeignContent <- EditOrDelete
  Transactions <- TwoFileTransactions
SPECIFICATION Spec
INVARIANT RejectedLeavesNothingApplied
