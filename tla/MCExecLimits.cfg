CONSTANTS
  Pid = {"sh", "p1", "p2"}
  Shell = "sh"
  NoPid = "none"
  Family = "limits"
  Script <- ExecScript
  Node <- ExecNode
  Tag <- ExecTag
  FuncName = {"f", "g"}
  Args = 2
  Terminals = {FALSE}
SPECIFICATION Spec
INVARIANT TypeOK
INVARIANT WaitsForOwnChildren
PROPERTY LifeCycle
PROPERTY Termination
