----------------------------- MODULE ShellState -----------------------------
(***************************************************************************)
(* What a shell promises about its variables, functions and positional     *)
(* parameters: names are independent of each other; a function or a sourced*)
(* script opens a scope with parameters of its own, and the ones outside   *)
(* stay as they are; a program gets exactly the exported variables and the *)
(* assignments in front of it, which nobody else sees.  The commands are   *)
(* those of TashState.                                                     *)
(***************************************************************************)
EXTENDS Integers, Sequences

CONSTANTS
  Name, Value, Empty, Nil,
  MaxArgs    \* the length of the array of set, a null pointer at its end included

VARIABLES
  menu,      \* the commands the script is made of
  var,       \* the value of each name, Nil if it is unset, and whether it is exported
  func,      \* the functions a name has: none, or one
  stolen,    \* the bodies that a definition has given to its name
  scopes,    \* $0 and the parameters, of the innermost scope first
  todo,      \* the turns that the running command still has to take
  pending,   \* the assignments in front of the program about to start
  env        \* the environment of the last program

vars == <<menu, var, func, stolen, scopes, todo, pending, env>>

Unset == [value |-> Nil, exported |-> FALSE]
NonePending == [n \in Name |-> Nil]

Init ==
  /\ var \in [Name -> [value : Value, exported : BOOLEAN] \cup {Unset}]
  /\ func = [n \in Name |-> {}] /\ stolen = {}
  /\ Len(scopes) = 1
  /\ todo = <<>> /\ pending = NonePending /\ env = [n \in {} |-> Empty]

\* An assignment that does not expand ends its command.
Begin(c) ==
  /\ c.type \in {"assign", "update"} /\ todo = <<>>
  /\ \E k \in 0..Len(c.turns) :
       /\ c.type = "update" => k = Len(c.turns)
       /\ todo' = SubSeq(c.turns, 1, k)
  /\ UNCHANGED <<menu, var, func, stolen, scopes, pending, env>>

Exported(entry) ==
  [value |-> IF entry.value = Nil THEN Empty ELSE entry.value, exported |-> TRUE]

\* One name changes, in the way the turn says.
Turn ==
  /\ todo # <<>>
  /\ todo' = Tail(todo)
  /\ LET n == Head(todo).name
         do == Head(todo).do
     IN \/ /\ do = "put"
           /\ var' = [var EXCEPT ![n] = [value |-> Head(todo).value, exported |-> @.exported]]
           /\ UNCHANGED func
        \/ do = "export" /\ var' = [var EXCEPT ![n] = Exported(@)] /\ UNCHANGED func
        \/ /\ do = "putexport"
           /\ var' = [var EXCEPT ![n] = [value |-> Head(todo).value, exported |-> TRUE]]
           /\ UNCHANGED func
        \/ /\ do = "unsetvar" \/ (do = "unset" /\ var[n] # Unset)
           /\ var' = [var EXCEPT ![n] = Unset] /\ UNCHANGED func
        \/ /\ do = "unsetfunc" \/ (do = "unset" /\ var[n] = Unset)
           /\ func' = [func EXCEPT ![n] = {}] /\ UNCHANGED var
  /\ UNCHANGED <<menu, stolen, scopes, pending, env>>

\* A definition that is executed a second time has no body left to give.
Define(c) ==
  /\ c.type = "define"
  /\ func' = [func EXCEPT ![c.name] = {IF c.body \in stolen THEN Nil ELSE c.body}]
  /\ stolen' = stolen \cup {c.body}
  /\ UNCHANGED <<menu, var, scopes, todo, pending, env>>

Enter(c) ==
  /\ c.type \in {"call", "source"}
  /\ scopes' = <<[zero |-> IF c.type = "source" THEN c.file ELSE Head(scopes).zero,
                  args |-> c.words]>> \o scopes
  /\ UNCHANGED <<menu, var, func, todo, pending, env>>

Leave ==
  /\ Len(scopes) > 1
  /\ scopes' = Tail(scopes)
  /\ UNCHANGED <<menu, var, func, todo, pending, env>>

NewArgs(as) ==
  /\ scopes' = <<[Head(scopes) EXCEPT !.args = as]>> \o Tail(scopes)
  /\ UNCHANGED <<menu, var, func, todo, pending, env>>

\* The operands of set begin at word k: before it there are options, which -- may end.
OperandsFrom(words, k) ==
  /\ \A i \in 1..(k - 1) :
       words[i].kind = "options" \/ (i = k - 1 /\ words[i].kind = "end")
  /\ \/ words = <<>>
     \/ k > 1 /\ words[k - 1].kind = "end"
     \/ k <= Len(words) /\ words[k].kind = "word"

\* set, if it is given operands or no word at all, makes them the parameters of its scope,
\* and the last ones of them if there are more than it can keep.
Set(c) ==
  /\ c.type = "set"
  /\ \E k \in 1..(Len(c.words) + 1) :
       /\ OperandsFrom(c.words, k)
       /\ LET given == Len(c.words) - k + 1
              n == IF given < MaxArgs THEN given ELSE MaxArgs - 1
          IN NewArgs([i \in 1..n |-> c.words[Len(c.words) - n + i].word])

\* shift drops as many as it says, or all when there are fewer
Shift(c) ==
  /\ c.type = "shift" /\ c.amount >= 0
  /\ LET as == Head(scopes).args
         k == IF c.amount > Len(as) THEN Len(as) ELSE c.amount
     IN NewArgs(SubSeq(as, k + 1, Len(as)))

Prepare(c) ==
  /\ c.type = "program"
  /\ pending' = [n \in Name |->
       LET given == {i \in DOMAIN c.turns : c.turns[i].name = n} IN
       IF given = {} THEN Nil
       ELSE c.turns[CHOOSE i \in given : \A j \in given : j <= i].value]
  /\ UNCHANGED <<menu, var, func, stolen, scopes, todo, env>>

Run ==
  /\ env' = [n \in {m \in Name : pending[m] # Nil \/ var[m].exported} |->
               IF pending[n] # Nil THEN pending[n] ELSE var[n].value]
  /\ pending' = NonePending
  /\ UNCHANGED <<menu, var, func, stolen, scopes, todo>>

Next ==
  \/ \E c \in menu : Begin(c) \/ Define(c) \/ Enter(c) \/ Set(c) \/ Shift(c) \/ Prepare(c)
  \/ Turn \/ Leave \/ Run

Spec == Init /\ [][Next]_vars
=============================================================================
