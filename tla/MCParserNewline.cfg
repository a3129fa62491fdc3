CONSTANTS
  Family = "newline"
  Input <- MCInput
SPECIFICATION Spec
INVARIANT DiscardsOnlyTheBadLine
CHECK_DEADLOCK FALSE
