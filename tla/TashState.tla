------------------------------ MODULE TashState ------------------------------
(***************************************************************************)
(* The state of the shell that scripts see: variables (src/var.c),         *)
(* functions (src/func.c) and positional parameters (set, shift, source in *)
(* src/builtin.c, execute_func in src/execute.c), as tash keeps them.      *)
(*                                                                         *)
(* Variables and functions are vectors, from which an entry is removed by  *)
(* putting the last one in its place.  _argv is a pointer: into the        *)
(* arguments tash was started with, into the words of the call that is in  *)
(* progress, or into the one array of set.  A call saves the pointer, not  *)
(* what it points to.                                                      *)
(*                                                                         *)
(* A script is any sequence of the commands of a menu; a builtin that      *)
(* takes several names does one per step.  A value is a model value, and   *)
(* whether it could be expanded is a choice.  Not here: the flags of set,  *)
(* how words become commands (module TashExec).                            *)
(***************************************************************************)
EXTENDS Integers, Sequences

CONSTANTS
  Name,         \* names of variables and functions
  Value, Empty, \* values of variables; Empty is ""
  Body,         \* the bodies of the definitions in the scripts
  Word,         \* arguments and script names
  Nil,          \* the null pointer
  Environment,  \* the vectors of variables that setup_var may leave
  Started,      \* the arguments tash was started with
  Zero,         \* and its $0
  MaxArgs,      \* the length of the array of set: 256
  MaxDepth,     \* bound: how deep calls nest
  Menus         \* the sets of commands that scripts are made of

Var == [name : Name, value : Value, exported : BOOLEAN]
Func == [name : Name, node : Body \cup {Nil}]

\* One turn of the loop of a builtin, or one assignment.
Turns == [do : {"put", "export", "putexport", "unset", "unsetvar", "unsetfunc"},
          name : Name, value : Value]
\* An argument of set: some of -e, -u, -m and -f together, --, any other word that
\* starts with -, or a plain word.
SetWord == [kind : {"options", "end", "invalid", "word"}, word : Word]

\* The assignments in front of a command: for the shell itself, or exported to a program.
Assignments(do) == [do : {do}, name : Name, value : Value]

Command ==
  [type : {"assign"}, turns : Seq(Assignments("put"))]
    \cup [type : {"program"}, turns : Seq(Assignments("putexport"))]
    \cup [type : {"update"}, turns : Seq(Turns)]
    \cup [type : {"define"}, name : Name, body : Body]
    \cup [type : {"call"}, name : Name, words : Seq(Word)]
    \cup [type : {"source"}, file : Word, words : Seq(Word)]
    \cup [type : {"set"}, words : Seq(SetWord)]
    \cup [type : {"shift"}, amount : Int]

ASSUME NilAssumption == Nil \notin Value \cup Body \cup Word /\ Empty \in Value
ASSUME StartedAssumption == Started \in Seq(Word) /\ Zero \in Word
ASSUME ArgsAssumption == MaxArgs \in Nat \ {0} /\ MaxDepth \in Nat
ASSUME MenusAssumption == \A menu \in Menus : menu \subseteq Command
ASSUME EnvironmentAssumption ==
  \A t \in Environment :
    /\ t \in Seq(Var)
    /\ \A i, j \in DOMAIN t : t[i].name = t[j].name => i = j

VARIABLES
  menu,         \* the commands the script is made of
  shvars,       \* the vector of variables
  funcs,        \* the vector of functions
  stolen,       \* the definitions whose tree gave its body away
  freed,        \* the bodies that free_node has freed
  argc, argv,   \* _argc and _argv, a pointer: an array and an offset
  argv0,        \* _argv0
  arrays,       \* what _argv may point to
  calls,        \* functions and sourced scripts in progress, innermost first
  todo,         \* the turns that the running command still has to take
  child,        \* while a forked child applies the assignments in front of its program
  env           \* the environment of the last program

args == <<argc, argv, argv0, arrays, calls>>
vars == <<menu, shvars, funcs, stolen, freed, args, todo, child, env>>
-----------------------------------------------------------------------------
(***************************************************************************)
(* Vectors of named entries.                                               *)
(***************************************************************************)
Has(t, n) == \E i \in DOMAIN t : t[i].name = n

\* var_from_name, get_func: the first entry of that name
IndexOf(t, n) == CHOOSE i \in DOMAIN t : t[i].name = n /\ \A j \in 1..(i - 1) : t[j].name # n

\* mutant: the entries from the last one on are dropped, whichever was meant
Without_Last(t, n) == IF Has(t, n) THEN SubSeq(t, 1, Len(t) - 1) ELSE t

\* unset_var, unregister_func: the swap with last trick
Without(t, n) ==
  IF Has(t, n)
  THEN [i \in 1..(Len(t) - 1) |-> IF i = IndexOf(t, n) THEN t[Len(t)] ELSE t[i]]
  ELSE t

PutVar(t, n, v) ==
  IF Has(t, n)
  THEN [t EXCEPT ![IndexOf(t, n)].value = v]
  ELSE Append(t, [name |-> n, value |-> v, exported |-> FALSE])

\* mutant: an entry that is not exported yet is not found
ExportVar_Appends(t, n) ==
  IF \E i \in DOMAIN t : t[i].name = n /\ t[i].exported
  THEN t
  ELSE Append(t, [name |-> n, value |-> Empty, exported |-> TRUE])

ExportVar(t, n) ==
  IF Has(t, n)
  THEN [t EXCEPT ![IndexOf(t, n)].exported = TRUE]
  ELSE Append(t, [name |-> n, value |-> Empty, exported |-> TRUE])

\* setup_environ: putenv, in order, of what is exported
Environ(t) ==
  LET exported == {i \in DOMAIN t : t[i].exported}
      Last(n) == CHOOSE i \in exported :
                   t[i].name = n /\ \A j \in exported : t[j].name = n => j <= i
  IN [n \in {t[i].name : i \in exported} |-> t[Last(n)].value]

\* Arrays that _argv may point into: that of set, that of main, and the words of the
\* call at each depth.
Static == -1
Main == 0
ArrayId == Static..MaxDepth
Pointer == [array : ArrayId, at : Nat]

\* "$@" as _argc and _argv have it
Read(n, ptr) == [i \in 1..n |-> arrays[ptr.array][ptr.at + i]]

Call == [kind : {"func", "source"}, node : Body \cup {Nil}, name : Name \cup {Nil},
         argc : Nat, argv : Pointer, argv0 : Word]
Child == [vars : Seq(Var), given : Seq(Turns)]

Init ==
  /\ menu \in Menus
  /\ shvars \in Environment
  /\ funcs = <<>> /\ stolen = {} /\ freed = {}
  /\ argc = Len(Started)
  /\ argv = [array |-> Main, at |-> 0]
  /\ argv0 = Zero
  /\ arrays = [a \in ArrayId |-> CASE a = Static -> [i \in 1..MaxArgs |-> Nil]
                                   [] a = Main   -> Append(Started, Nil)
                                   [] OTHER      -> <<>>]
  /\ calls = <<>> /\ todo = <<>> /\ child = <<>>
  /\ env = [n \in {} |-> Empty]
-----------------------------------------------------------------------------
(***************************************************************************)
(* Commands on variables and functions.                                    *)
(***************************************************************************)
\* The script is about to run the command c: nothing else is running, and the
\* innermost call has a body to take it from.
Runs(c, types) ==
  /\ c \in menu
  /\ c.type \in types
  /\ todo = <<>> /\ child = <<>>
  /\ calls # <<>> /\ Head(calls).kind = "func" => Head(calls).node # Nil

\* apply_assignements for the shell itself: an assignment that does not expand ends it,
\* and those before it stay
Assign(c) ==
  /\ Runs(c, {"assign"})
  /\ \E k \in 0..Len(c.turns) : todo' = SubSeq(c.turns, 1, k)
  /\ UNCHANGED <<menu, shvars, funcs, stolen, freed, args, child, env>>

\* export and unset; the variable of a for loop; ${x=word}
Update(c) ==
  /\ Runs(c, {"update"})
  /\ todo' = c.turns
  /\ UNCHANGED <<menu, shvars, funcs, stolen, freed, args, child, env>>

\* job_single forks: what the child does to the variables, the shell does not see
Program(c) ==
  /\ Runs(c, {"program"})
  /\ todo' = c.turns
  /\ child' = <<[vars |-> shvars, given |-> c.turns]>>
  /\ UNCHANGED <<menu, shvars, funcs, stolen, freed, args, env>>

\* setup_environ and execvp: the child has become the program
StartsProgram ==
  /\ todo = <<>> /\ child # <<>>
  /\ env' = Environ(shvars)
  /\ shvars' = Head(child).vars
  /\ child' = <<>>
  /\ UNCHANGED <<menu, funcs, stolen, freed, args, todo>>

\* The turns that change the variables.
ChangedVars(t, turn) ==
  CASE turn.do = "put"       -> PutVar(t, turn.name, turn.value)
    [] turn.do = "export"    -> ExportVar(t, turn.name)
    [] turn.do = "putexport" -> ExportVar(PutVar(t, turn.name, turn.value), turn.name)
    [] turn.do \in {"unset", "unsetvar"} -> Without(t, turn.name)
    [] OTHER -> t

\* unset without options takes the function only if there was no variable
UnsetsFunc(turn) ==
  turn.do = "unsetfunc" \/ (turn.do = "unset" /\ ~Has(shvars, turn.name))

\* mutant: the body is freed with the entry
Turn_Frees ==
  /\ todo # <<>>
  /\ LET turn == Head(todo) IN
       /\ shvars' = ChangedVars(shvars, turn)
       /\ funcs' = IF UnsetsFunc(turn) THEN Without(funcs, turn.name) ELSE funcs
       /\ freed' = IF UnsetsFunc(turn) /\ Has(funcs, turn.name)
                   THEN freed \cup ({funcs[IndexOf(funcs, turn.name)].node} \ {Nil})
                   ELSE freed
  /\ todo' = Tail(todo)
  /\ UNCHANGED <<menu, stolen, args, child, env>>

Turn ==
  /\ todo # <<>>
  /\ LET turn == Head(todo) IN
       /\ shvars' = ChangedVars(shvars, turn)
       /\ funcs' = IF UnsetsFunc(turn) THEN Without(funcs, turn.name) ELSE funcs
  /\ todo' = Tail(todo)
  /\ UNCHANGED <<menu, stolen, freed, args, child, env>>

\* mutant: the tree of the definition keeps its body
Stolen_Kept(c) == c.body

\* NODE_FUNC gives its body to the table, and has none when it is executed again
Stolen(c) == IF c.body \in stolen THEN Nil ELSE c.body

\* register_func frees the body it replaces, running or not
Define(c) ==
  /\ Runs(c, {"define"})
  /\ IF Has(funcs, c.name)
     THEN /\ funcs' = [funcs EXCEPT ![IndexOf(funcs, c.name)].node = Stolen(c)]
          /\ freed' = freed \cup ({funcs[IndexOf(funcs, c.name)].node} \ {Nil})
     ELSE /\ funcs' = Append(funcs, [name |-> c.name, node |-> Stolen(c)])
          /\ UNCHANGED freed
  /\ stolen' = stolen \cup {c.body}
  /\ UNCHANGED <<menu, shvars, args, todo, child, env>>
-----------------------------------------------------------------------------
(***************************************************************************)
(* Positional parameters.                                                  *)
(***************************************************************************)
\* A call at depth Len(calls) + 1: its words are its parameters
Enter(kind, node, name, words, zero) ==
  /\ Len(calls) < MaxDepth
  /\ calls' = <<[kind |-> kind, node |-> node, name |-> name, argc |-> argc, argv |-> argv,
                 argv0 |-> argv0]>> \o calls
  /\ arrays' = [arrays EXCEPT ![Len(calls) + 1] = Append(words, Nil)]
  /\ argc' = Len(words)
  /\ argv' = [array |-> Len(calls) + 1, at |-> 0]
  /\ argv0' = zero
  /\ UNCHANGED <<menu, shvars, funcs, stolen, freed, todo, child, env>>

CallFunc(c) ==
  /\ Runs(c, {"call"})
  /\ Has(funcs, c.name)
  /\ Enter("func", funcs[IndexOf(funcs, c.name)].node, c.name, c.words, argv0)

Source(c) ==
  /\ Runs(c, {"source"})
  /\ Enter("source", Nil, Nil, c.words, c.file)

\* the end of the body, or return: load_args, and source also has $0 to restore
Leave ==
  /\ calls # <<>> /\ todo = <<>> /\ child = <<>>
  /\ argc' = Head(calls).argc
  /\ argv' = Head(calls).argv
  /\ argv0' = IF Head(calls).kind = "source" THEN Head(calls).argv0 ELSE argv0
  /\ calls' = Tail(calls)
  /\ UNCHANGED <<menu, shvars, funcs, stolen, freed, arrays, todo, child, env>>

\* The first argument of set that is not a group of options.
Operand(words) == CHOOSE i \in DOMAIN words :
  words[i].kind # "options" /\ \A j \in 1..(i - 1) : words[j].kind = "options"

\* set returns before it comes to the parameters
OnlyOptions(words) ==
  /\ words # <<>>
  /\ \/ \A i \in DOMAIN words : words[i].kind = "options"
     \/ words[Operand(words)].kind = "invalid"

\* mutant: one argument too many fits
Kept_OneMore(words) ==
  LET first == IF words = <<>> THEN 1
               ELSE Operand(words) + (IF words[Operand(words)].kind = "end" THEN 1 ELSE 0)
      n == Len(words) - first + 1
  IN SubSeq(words, IF n > MaxArgs THEN first + n - MaxArgs ELSE first, Len(words))

\* the arguments that become parameters: the last ones, if there are too many
Kept(words) ==
  LET first == IF words = <<>> THEN 1
               ELSE Operand(words) + (IF words[Operand(words)].kind = "end" THEN 1 ELSE 0)
      n == Len(words) - first + 1
  IN SubSeq(words, IF n >= MaxArgs THEN first + n - MaxArgs + 1 ELSE first, Len(words))

Set(c) ==
  /\ Runs(c, {"set"})
  /\ IF OnlyOptions(c.words) THEN UNCHANGED <<argc, argv, arrays>>
     ELSE LET kept == Kept(c.words) IN
          /\ argc' = Len(kept)
          /\ argv' = [array |-> Static, at |-> 0]
          /\ arrays' = [arrays EXCEPT ![Static] =
                          [i \in DOMAIN @ |-> CASE i <= Len(kept)     -> kept[i].word
                                                [] i = Len(kept) + 1 -> Nil
                                                [] OTHER             -> @[i]]]
  /\ UNCHANGED <<menu, shvars, funcs, stolen, freed, argv0, calls, todo, child, env>>

\* mutant: more than there are is not checked
Shift_Unchecked(c) ==
  /\ Runs(c, {"shift"})
  /\ IF c.amount >= 0
     THEN argc' = argc - c.amount /\ argv' = [argv EXCEPT !.at = @ + c.amount]
     ELSE UNCHANGED <<argc, argv>>
  /\ UNCHANGED <<menu, shvars, funcs, stolen, freed, argv0, arrays, calls, todo, child, env>>

Shift(c) ==
  /\ Runs(c, {"shift"})
  /\ IF c.amount > argc THEN argc' = 0 /\ UNCHANGED argv
     ELSE IF c.amount >= 0
     THEN argc' = argc - c.amount /\ argv' = [argv EXCEPT !.at = @ + c.amount]
     ELSE UNCHANGED <<argc, argv>>
  /\ UNCHANGED <<menu, shvars, funcs, stolen, freed, argv0, arrays, calls, todo, child, env>>
-----------------------------------------------------------------------------
Next ==
  \/ \E c \in menu : \/ Assign(c) \/ Update(c) \/ Program(c) \/ Define(c)
                     \/ CallFunc(c) \/ Source(c) \/ Set(c) \/ Shift(c)
  \/ Turn \/ StartsProgram \/ Leave

Spec == Init /\ [][Next]_vars
-----------------------------------------------------------------------------
TypeOK ==
  /\ menu \in Menus
  /\ shvars \in Seq(Var) /\ funcs \in Seq(Func)
  /\ stolen \subseteq Body /\ freed \subseteq stolen
  /\ argc \in Nat /\ argv \in Pointer /\ argv0 \in Word
  /\ arrays \in [ArrayId -> Seq(Word \cup {Nil})]
  /\ calls \in Seq(Call)
  /\ todo \in Seq(Turns)
  /\ child \in Seq(Child) /\ Len(child) <= 1
  /\ env \in UNION {[names -> Value] : names \in SUBSET Name}

\* A vector has at most one entry of a name, so that the first one found is the
\* only one, and unset leaves none.
OneEntryPerName ==
  /\ \A i, j \in DOMAIN shvars : shvars[i].name = shvars[j].name => i = j
  /\ \A i, j \in DOMAIN funcs : funcs[i].name = funcs[j].name => i = j

\* No function in the table has a body that was freed, and no two have the same one:
\* redefining the one would free the other's.
BodiesOwned ==
  \A i \in DOMAIN funcs : funcs[i].node # Nil =>
    /\ funcs[i].node \notin freed
    /\ \A j \in DOMAIN funcs : funcs[j].node = funcs[i].node => i = j

\* The body of a function in progress is freed only when that function is defined
\* again; unset -f, in the body or in one it calls, leaves it.
FreedOnlyWhenRedefined ==
  [][\A k \in DOMAIN calls :
       calls[k].node \in freed' \ freed =>
         \E i \in DOMAIN funcs' :
           funcs'[i].name = calls[k].name /\ funcs'[i].node # calls[k].node]_vars

Levels == <<[argc |-> argc, argv |-> argv]>>
            \o [k \in DOMAIN calls |-> [argc |-> calls[k].argc, argv |-> calls[k].argv]]

\* Every $1 to $#, of every call in progress, is an argument, and there is room for
\* the null pointer behind them.
ParametersReadable ==
  \A k \in DOMAIN Levels :
    LET array == arrays[Levels[k].argv.array]
        end == Levels[k].argv.at + Levels[k].argc
    IN /\ end < Len(array)
       /\ \A i \in (Levels[k].argv.at + 1)..end : array[i] \in Word

\* Vectors as maps, saved pointers as the parameters they lead to.
Variables == IF child = <<>> THEN shvars ELSE Head(child).vars
VarMap == [n \in Name |-> IF Has(Variables, n)
                          THEN [value |-> Variables[IndexOf(Variables, n)].value,
                                exported |-> Variables[IndexOf(Variables, n)].exported]
                          ELSE [value |-> Nil, exported |-> FALSE]]
FuncMap == [n \in Name |-> {funcs[i].node : i \in {j \in DOMAIN funcs : funcs[j].name = n}}]
Parameters == [k \in DOMAIN Levels |-> Read(Levels[k].argc, Levels[k].argv)]
Scopes == [k \in DOMAIN Levels |->
             [zero |-> IF k = 1 THEN argv0 ELSE calls[k - 1].argv0, args |-> Parameters[k]]]

\* The assignments in front of a program: the last one of a name counts.
Given(turns) ==
  [n \in Name |->
     IF \E i \in DOMAIN turns : turns[i].name = n
     THEN turns[CHOOSE i \in DOMAIN turns :
                  turns[i].name = n /\ \A j \in (i + 1)..Len(turns) : turns[j].name # n].value
     ELSE Nil]

Promised == INSTANCE ShellState WITH
  var <- VarMap, func <- FuncMap, scopes <- Scopes,
  todo <- IF child = <<>> THEN todo ELSE <<>>,
  pending <- IF child = <<>> THEN [n \in Name |-> Nil] ELSE Given(Head(child).given)

\* What tash does to variables, functions and parameters, by vectors and pointers, is
\* what a shell promises: each command changes what it names, and nothing else.
KeepsPromises == Promised!Spec

\* The array of set holds the parameters of one scope at a time.
StaticOnce == \A j, k \in DOMAIN Levels :
  Levels[j].argv.array = Static /\ Levels[k].argv.array = Static => j = k

\* The scripts that do not use set both in a call and around it.
SetOnceSpec == Init /\ [][Next /\ StaticOnce']_vars

\* What builtin.c:162 says: the parameters are saved by a call and are there after it,
\* whatever the commands in it do.
CallersKeepParameters ==
  [][calls' = calls => Tail(Parameters)' = Tail(Parameters)]_vars
=============================================================================
