------------------------------- MODULE MCExec -------------------------------
(***************************************************************************)
(* Scripts for the executor, and its comparison with the reference.        *)
(***************************************************************************)
EXTENDS TashExec, TashSemantics

CONSTANT Family      \* the set of scripts a run takes

Shifts == Cmd("shift")
Loops(b) == {For(2, b), While(Shifts, b), Until(Negate(Shifts), b)}
Jump == {Cmd("break"), CmdN("break", 2), Cmd("continue"), CmdN("continue", 2),
         CmdN("break", 9), Cmd("false"), Cmd("exit")}
Wrap(s) == {s, Group(s), And(Cmd("true"), s), Or(Cmd("false"), s), If(Cmd("true"), s, Null),
            If(Cmd("false"), Null, s), Case(s)}
InEval(s) == Eval(<<s, Echo("y")>>)

\* two nested loops, with a jump in the inner one under every construct
LoopScripts ==
  {<<Sep(o, Echo("d")), Echo("e")>> : o \in UNION {Loops(Sep(Echo("a"), Sep(i, Echo("c")))) :
     i \in UNION {Loops(Sep(w, Echo("b"))) : w \in UNION {Wrap(j) \cup {InEval(j)} : j \in Jump}}}}

\* a jump in the condition of a while, after the condition has been true once
InCondition(j) == Until(Negate(Shifts), Sep(While(And(Shifts, Sep(Echo("x"), j)), Echo("a")), Echo("b")))
ConditionScripts ==
  {<<Sep(For(2, Sep(InCondition(w), Echo("c"))), Echo("d")), Echo("e")>> : w \in UNION {Wrap(j) : j \in Jump}}

\* functions called in a loop, sourced files and set -e, with what leaves them
Leave == {Cmd("return"), CmdN("return", 3), Cmd("break"), Cmd("continue"), CmdN("exit", 260),
          Cmd("exit"), Shifts, CmdN("shift", 2), Ext("x", 3), Ext("x", NotFound),
          [Echo("x") EXCEPT !.expand = FALSE], [Group(Echo("x")) EXCEPT !.redirs = FALSE],
          [Cmd("empty") EXCEPT !.assign = FALSE], [Cmd("wait") EXCEPT !.form = "num"]}
Bodies == {Sep(w, Echo("b")) : w \in UNION {Wrap(l) : l \in Leave}}
            \cup UNION {Loops(Sep(l, Echo("b"))) : l \in Leave}
FuncScripts ==
  {<<Func("f", 1, b), Sep(For(2, Sep([Call("f") EXCEPT !.n = 1], Echo("c"))), Echo("d")),
     Cmd("sete"), Or(Call("f"), Echo("e")), Sep(Sep(Unset("f"), Call("f")), Echo("d")),
     Echo("e")>> : b \in Bodies}
  \cup
  {<<If(Source(<<b, Cmd("sete"), l, Echo("c")>>), Echo("d"), Null), Echo("e"), SyntaxError, Echo("d")>> :
     b \in {Sep(l, Echo("b")) : l \in Leave}, l \in {Cmd("false"), Cmd("return"), Shifts}}

\* processes: every way to make them around every way to end
Ends == {Ext("x", 0), Ext("x", 3), Cmd("false"), CmdN("exit", 4), Cmd("break"), Call("f"),
         CmdN("return", 2)}
Forks(c) ==
  {Subshell(c), Subshell(Sep(c, Echo("a"))), Subshell(Negate(Subshell(c))), Subshell(And(c, Ext("y", 1))),
   Subshell(For(2, c)), Subshell(While(Shifts, c)), Subshell(If(c, Ext("y", 0), c)),
   Subshell(Eval(<<c, c>>)), Subshell(Subshell(c)),
   Subshell(Sep(Func("g", 2, Sep(Echo("a"), c)), Call("g"))),
   Pipe(c, Ext("y", 1)), Pipe(Echo("a"), Pipe(Ext("y", 2), c)), Pipe(Subshell(c), Negate(Sep(Subshell(c), Ext("y", 0)))),
   Sep(Bg(c), CmdN("wait", 1)), Sep(Bg(c), Sep(Bg(Ext("y", 6)), CmdN("wait", 1))),
   Sep(Bg(Sep(Bg(c), c)), Cmd("wait")), Subshell(Sep(Bg(c), Ext("y", 0))),
   WithSubst(Echo("a"), c), WithSubst(Cmd("return"), Subshell(c)),
   WithSubst(Ext("y", 2), Sep(Bg(Ext("x", 0)), c))}
ProcScripts ==
  {<<Func("f", 1, Sep(Echo("b"), Ext("x", 5))), For(1, Sep(If(w, Echo("c"), Echo("d")), Echo("e")))>> :
     w \in UNION {Forks(c) : c \in Ends}}

\* a terminal: a program killed by SIGINT stops its line, not the script
Killed == {Ext("x", SigInt), Ext("x", 0), Group(Ext("x", SigInt)), CmdN("break", 2),
           Subshell(Echo("x")), Sep(CmdN("wait", 1), Ext("x", 2))}
TtyScripts ==
  {<<o, Echo("d"), SyntaxError, Echo("e")>> :
    o \in UNION {Loops(Sep(Echo("a"), Sep(i, Echo("c")))) :
                   i \in UNION {Loops(Sep(k, Echo("b"))) \cup {k, Case(k)} : k \in Killed}}}
  \cup {<<Func("f", 1, Sep(k, Echo("b"))), Sep(Call("f"), Echo("c")), Echo("d")>> : k \in Killed}

\* commands that fail in every way they can, under every kind of process
Odd == {[Cmd("ext") EXCEPT !.assign = FALSE], Ext("x", NotFound), CmdN("return", -1), CmdN("return", 300),
        [Cmd("exit") EXCEPT !.form = "many"], [Cmd("exit") EXCEPT !.form = "junk"],
        [Cmd("wait") EXCEPT !.form = "junk"], [CmdN("break", 5) EXCEPT !.form = "junk"],
        [Cmd("continue") EXCEPT !.form = "many"], [Cmd("return") EXCEPT !.form = "many"],
        CmdN("shift", -1), Source(<<CmdN("return", 3)>>), Cmd("source"),
        Source(<<Eval(<<CmdN("return", -1)>>)>>),
        [For(2, Echo("x")) EXCEPT !.expand = FALSE], For(0, Echo("x")),
        [Case(Echo("x")) EXCEPT !.expand = FALSE], [Echo("x") EXCEPT !.expand = FALSE],
        [Echo("x") EXCEPT !.redirs = FALSE], Cmd("empty"), [Cmd("empty") EXCEPT !.assign = FALSE],
        CmdN("wait", 1), Or(Cmd("true"), Echo("x")), Func("g", 2, Echo("x")), Cmd("sete")}
OddScripts ==
  UNION {{<<Func("f", 1, Sep(o, Echo("b"))), Sep(w, Echo("c")), Echo("d")>> :
    w \in {o, Subshell(o), Sep(Bg(o), CmdN("wait", 1)), Sep(Bg(o), Cmd("wait")),
           Pipe(o, Pipe(Echo("a"), o)), WithSubst(Echo("a"), o), While(Shifts, o),
           For(2, o), Call("f"), Subshell(Call("f")), Eval(<<o, o>>)}} : o \in Odd}

ExecScript ==
  CASE Family = "scripts" -> LoopScripts \cup ConditionScripts \cup FuncScripts \cup TtyScripts
                               \cup ProcScripts
    [] Family = "limits" -> ProcScripts \cup OddScripts
    [] Family = "until_break" -> {<<Until(Cmd("break"), Echo("a")), Echo("b")>>}
ExecNode == NodesOf(ExecScript)
ExecTag == {"none", "a", "b", "c", "d", "e", "x", "y"}

Outcome == Meaning(script, FuncName, Args, glob[Shell].job_control)

SameBag(s, t) ==
  /\ Len(s) = Len(t)
  /\ \A i \in DOMAIN s :
       Cardinality({j \in DOMAIN s : s[j] = s[i]}) = Cardinality({j \in DOMAIN t : t[j] = s[i]})

\* The executor means what the script means: tash ends with the status the
\* reference gives, and has run the same commands, each seeing the same $?; in
\* the same order, unless the script has processes that overlap.
SameMeaning ==
  AllDone => /\ proc[Shell].status = Outcome.st
             /\ IF script \in ProcScripts THEN SameBag(ran, Outcome.log) ELSE ran = Outcome.log
=============================================================================
