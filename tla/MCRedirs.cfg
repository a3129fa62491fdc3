CONSTANTS
  Low = {0, 1, 2, 3, 4}
  High = {10, 11, 12, 13}
  File = {"tty", "script", "a", "b"}
  Family = "two"
  Redirs <- MCList
  Start <- MCStart
  MaxDepth = 2
SPECIFICATION Spec
INVARIANT TypeOK
INVARIANT Restored
INVARIANT EveryNodeRestorable
INVARIANT OutputReachesItsFile
PROPERTY ScopesSpec
