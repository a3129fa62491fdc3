CONSTANTS
  Text <- MCText
  Size = 5
  Printable = {"a", "quote", " "}
  Space = " "
  Newline = "nl"
  Nul = "eof"
  File <- Files
  KeyLimit = 6
SPECIFICATION InputSpec
INVARIANT TilesTheText
INVARIANT WordsKeepTheirMeaning
INVARIANT AsksForALineWhenNeeded
INVARIANT ShowsTheLine
PROPERTY EditsLines
PROPERTY GetsThrough
CHECK_DEADLOCK FALSE
