CONSTANTS
  LastPid = 4
  SignalLimit = 2
  Scripts <- MCScripts
SPECIFICATION JobsSpec
INVARIANT OwnGroups
INVARIANT TerminalGoesRound
PROPERTY InterruptEndsTheLine
PROPERTY GetsBack
CHECK_DEADLOCK FALSE
