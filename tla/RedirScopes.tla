----------------------------- MODULE RedirScopes -----------------------------
(***************************************************************************)
(* What redirections promise to a script: they belong to the command they  *)
(* are written on.  A command opens a scope, its body sees the descriptors *)
(* the redirections made, and when it ends the descriptors are those from  *)
(* before.  A command whose redirections fail changes nothing.             *)
(***************************************************************************)
EXTENDS Sequences

CONSTANT Table       \* the descriptor tables of a process

VARIABLES
  env,       \* the descriptors the running command sees
  outer      \* the descriptors of the commands around it, innermost first

Init == env \in Table /\ outer = <<>>

Enter == env' \in Table /\ outer' = <<env>> \o outer

Leave ==
  /\ outer # <<>>
  /\ env' = Head(outer)
  /\ outer' = Tail(outer)

Next == Enter \/ Leave

Spec == Init /\ [][Next]_<<env, outer>>
=============================================================================
