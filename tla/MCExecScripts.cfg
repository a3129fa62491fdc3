CONSTANTS
  Pid = {"sh", "p1", "p2", "p3", "p4", "p5", "p6", "p7", "p8", "p9", "p10", "p11", "p12"}
  Shell = "sh"
  NoPid = "none"
  Family = "scripts"
  Script <- ExecScript
  Node <- ExecNode
  Tag <- ExecTag
  FuncName = {"f", "g"}
  Args = 2
  Terminals = {FALSE, TRUE}
SPECIFICATION Spec
INVARIANT SameMeaning
INVARIANT RequestsWithinLoops
INVARIANT DepthsMatchStack
INVARIANT ChildStaysInChild
INVARIANT NoForkOnlyInTail
