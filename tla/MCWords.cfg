CONSTANTS
  Dot = "."
  Esc = "ESC"
  Quot = "QUOT"
  Character <- MCCharacter
  Calls <- MCCalls
  Inputs <- MCInputs
  Output <- MCOutput
  Tree <- MCTree
  Home <- MCHome
SPECIFICATION WordsSpec
INVARIANT MatchesWhatItDenotes
INVARIANT RemovesTheRightPart
INVARIANT FindsWhatIsSelected
INVARIANT ExpandsAsWritten
INVARIANT AssignsAsWritten
CHECK_DEADLOCK FALSE
