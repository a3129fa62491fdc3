------------------------------ MODULE TashAst ------------------------------
(***************************************************************************)
(* The syntax trees that the parser hands to execute(): node_t of          *)
(* include/tash.h.  A tree is a nested record; its strings are abstracted  *)
(* to what execution tells apart, so the node of a simple command says     *)
(* which builtin or program it runs, the shape of its argument, and        *)
(* whether its expansions succeed.                                         *)
(*                                                                         *)
(* Fields of a simple command: cmd (the builtin, "ext" for a function or a *)
(* program, "empty" when no word is left), form (its argument: none, a     *)
(* number, junk after a number, too many), n (the number, or how many      *)
(* arguments a function gets), name (the function looked up), tag (what    *)
(* the history of the run calls it), ends (how the program ends), subst    *)
(* (the tree of a command substitution among its words), lines (what eval  *)
(* or source interprets), expand and assign (whether word_expansion        *)
(* succeeds on the words, and on the assignments).                         *)
(***************************************************************************)
EXTENDS Integers, Sequences

Null == [type |-> "null"]            \* a NULL node_t pointer
SyntaxError == [type |-> "error"]    \* a line on which parse_line fails

Sep(l, r)    == [type |-> "sep", redirs |-> TRUE, left |-> l, right |-> r]
And(l, r)    == [type |-> "and", redirs |-> TRUE, left |-> l, right |-> r]
Or(l, r)     == [type |-> "or", redirs |-> TRUE, left |-> l, right |-> r]
Pipe(l, r)   == [type |-> "pipe", redirs |-> TRUE, left |-> l, right |-> r]
Negate(c)    == [type |-> "negate", redirs |-> TRUE, child |-> c]
Group(c)     == [type |-> "group", redirs |-> TRUE, child |-> c]
Subshell(c)  == [type |-> "subshell", redirs |-> TRUE, child |-> c]
Bg(c)        == [type |-> "bg", redirs |-> TRUE, child |-> c]
If(c, b, e)  == [type |-> "if", redirs |-> TRUE, condition |-> c, body |-> b, else_body |-> e]
While(c, b)  == [type |-> "while", redirs |-> TRUE, condition |-> c, body |-> b]
Until(c, b)  == [type |-> "until", redirs |-> TRUE, condition |-> c, body |-> b]
\* the number of strings its words expand to, or that they do not expand
For(ws, b)   == [type |-> "for", redirs |-> TRUE, expand |-> TRUE, words |-> ws, body |-> b]
\* the body of the first case that matches, Null when none does
Case(b)      == [type |-> "case", redirs |-> TRUE, expand |-> TRUE, body |-> b]
\* id tells one definition in the text from another
Func(name, id, b) == [type |-> "func", redirs |-> TRUE, name |-> name, id |-> id, body |-> b]

Cmd(c) == [type |-> "cmd", redirs |-> TRUE, cmd |-> c, form |-> "none", n |-> 0, name |-> "",
           tag |-> "none", ends |-> 0, subst |-> Null, lines |-> <<>>,
           expand |-> TRUE, assign |-> TRUE]
CmdN(c, n)      == [Cmd(c) EXCEPT !.form = "num", !.n = n]
Echo(tag)       == [Cmd("echo") EXCEPT !.tag = tag]
Call(name)      == [Cmd("ext") EXCEPT !.name = name]
Ext(tag, ends)  == [Cmd("ext") EXCEPT !.tag = tag, !.ends = ends]
Eval(lines)     == [Cmd("eval") EXCEPT !.lines = lines]
Unset(name)     == [Cmd("unset") EXCEPT !.name = name]
Source(lines)   == [Cmd("source") EXCEPT !.form = "num", !.lines = lines]
WithSubst(c, s) == [c EXCEPT !.subst = s]

(***************************************************************************)
(* How a program ends, the field ends: an exit status, or one of these.    *)
(***************************************************************************)
NotFound == -1     \* execvp fails
SigInt   == -2     \* killed by SIGINT

Builtins == {"true", "false", "echo", "break", "continue", "return", "exit", "shift",
             "wait", "eval", "source", "sete", "unset"}
BinaryTypes == {"sep", "and", "or", "pipe"}
SingleTypes == {"negate", "group", "subshell", "bg"}
LoopTypes   == {"while", "until"}
NodeTypes   == BinaryTypes \cup SingleTypes \cup LoopTypes \cup {"if", "for", "case", "func", "cmd"}
Forms       == {"none", "num", "junk", "many"}

(***************************************************************************)
(* What makes a set of nodes closed: the children of a member are members  *)
(* or Null.  It stands for the type of node_t, which refers to itself.     *)
(***************************************************************************)
IsNodeSet(N, Names, Tags) ==
  LET Tree == N \cup {Null} IN
  \A n \in N :
    /\ n.type \in NodeTypes
    /\ n.redirs \in BOOLEAN
    /\ n.type \in BinaryTypes => n.left \in Tree /\ n.right \in Tree
    /\ n.type \in SingleTypes => n.child \in Tree
    /\ n.type \in LoopTypes => n.condition \in Tree /\ n.body \in Tree
    /\ n.type = "if" => n.condition \in Tree /\ n.body \in Tree /\ n.else_body \in Tree
    /\ n.type = "for" => n.expand \in BOOLEAN /\ n.words \in Nat /\ n.body \in Tree
    /\ n.type = "case" => n.expand \in BOOLEAN /\ n.body \in Tree
    /\ n.type = "func" => n.name \in Names /\ n.body \in Tree
    /\ n.type = "cmd" =>
         /\ n.cmd \in Builtins \cup {"ext", "empty"}
         /\ n.form \in Forms
         /\ n.n \in Int
         /\ n.tag \in Tags
         /\ n.cmd = "unset" => n.name \in Names
         /\ n.ends \in (0..255) \cup {NotFound, SigInt}
         /\ n.subst \in Tree
         /\ n.lines \in Seq(Tree \cup {SyntaxError})
         /\ n.expand \in BOOLEAN
         /\ n.assign \in BOOLEAN
=============================================================================
