CONSTANTS
  Low = {0, 1, 2, 3, 4}
  High = {10, 11}
  File = {"tty", "script", "a", "b"}
  Family = "twice"
  Redirs <- MCList
  Start <- MCStart
  MaxDepth = 1
SPECIFICATION Spec
INVARIANT AlwaysRestored
