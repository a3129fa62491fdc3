CONSTANTS
  Pid = {"sh"}
  Shell = "sh"
  NoPid = "none"
  Family = "until_break"
  Script <- ExecScript
  Node <- ExecNode
  Tag <- ExecTag
  FuncName = {"f", "g"}
  Args = 2
  Terminals = {FALSE}
SPECIFICATION Spec
INVARIANT RequestsWithinLoops
