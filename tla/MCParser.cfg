CONSTANTS
  Family = "all"
  Input <- MCInput
SPECIFICATION Spec
INVARIANT TypeOK
INVARIANT TreeOfItsTokens
INVARIANT AcceptsTheGrammar
INVARIANT AsksForTheRest
PROPERTY Finishes
CHECK_DEADLOCK FALSE
