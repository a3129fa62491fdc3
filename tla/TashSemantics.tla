---------------------------- MODULE TashSemantics ----------------------------
(***************************************************************************)
(* What a script means, by structural recursion on its tree: the reference *)
(* that the executor is compared with.  There are no depths, no pending    *)
(* flags, no FLAG_NO_FORK, no stack to copy and no child to wait for: a    *)
(* jump is the value of a command, a subshell is the evaluation of its     *)
(* body in an environment that is thrown away, and only its status and     *)
(* what it ran are kept.                                                   *)
(*                                                                         *)
(* An environment e has st, the status; jump ("none", "break", "continue", *)
(* "return", "exit", "sigint") with its level; loops, the loops around the *)
(* command, and calls, the functions and scripts around it; argc; err_exit;*)
(* terminal, whether SIGINT stops a line; funcs; last, the status that     *)
(* wait $! would collect, or None; log, what has run.                      *)
(***************************************************************************)
EXTENDS TashAst

None == -1       \* nothing to collect with wait $!

Start(names, argc, terminal) ==
  [st |-> 0, jump |-> "none", level |-> 0, loops |-> 0, calls |-> 0, argc |-> argc,
   err_exit |-> FALSE, terminal |-> terminal, funcs |-> [f \in names |-> [type |-> "nofunc"]],
   last |-> None, log |-> <<>>]

Jumping(e) == e.jump # "none"
Gives(e, st) == [e EXCEPT !.st = st]
Jumps(e, jump, level) == [e EXCEPT !.jump = jump, !.level = level]
AtMost(n, max) == IF n > max THEN max ELSE n

\* a loop that a jump reached: it takes one level off, or passes the jump on
Level(e) == IF e.level = 1 THEN Jumps(e, "none", 0) ELSE [e EXCEPT !.level = @ - 1]
Proceeds(e) == ~Jumping(e) \/ (e.jump = "continue" /\ e.level = 1)
Unjump(e) == IF e.jump \in {"break", "continue"} THEN Level(e) ELSE e

\* what is left of a process: its status and what it ran
Ended(e, sub) == [e EXCEPT !.st = sub.st, !.log = sub.log]
Apart(e) == [e EXCEPT !.last = None, !.terminal = FALSE]

Depth(c, e) ==
  LET level == IF c.form = "none" THEN 1 ELSE AtMost(c.n, e.loops) IN
  IF e.loops = 0 \/ level <= 0 THEN Gives(e, 0) ELSE Jumps(Gives(e, 0), c.cmd, level)

ReturnFrom(c, e) ==
  IF e.calls = 0 THEN Gives(e, 1)
  ELSE Jumps(IF c.form = "none" THEN e ELSE Gives(e, c.n), "return", 0)

Shift(c, e) ==
  LET by == IF c.form = "none" THEN 1 ELSE c.n IN
  IF by > e.argc THEN Gives([e EXCEPT !.argc = 0], 1)
  ELSE Gives([e EXCEPT !.argc = @ - by], 0)

\* plain wait collects everything and reports success
Wait(c, e) ==
  IF c.form = "none" THEN Gives([e EXCEPT !.last = None], 0)
  ELSE IF e.last = None THEN Gives(e, 127)
  ELSE Gives([e EXCEPT !.last = None], e.last)

Program(c, e) ==
  IF ~c.assign THEN Gives(e, 1)
  ELSE IF c.ends = NotFound THEN Gives(e, 127)
  ELSE [e EXCEPT !.st = IF c.ends = SigInt THEN 130 ELSE c.ends,
                 !.jump = IF c.ends = SigInt /\ e.terminal THEN "sigint" ELSE @,
                 !.log = Append(@, <<c.tag, 0>>)]

RECURSIVE Run(_, _), Loop(_, _, _), Words(_, _, _), Lines(_, _)

\* a process of its own ends where its body ends, whatever jump is pending
Child(n, e) == Ended(e, Jumps(Run(n, Apart(e)), "none", 0))

Function(c, e) ==
  LET in  == [e EXCEPT !.calls = @ + 1, !.argc = c.n]
      out == Run(e.funcs[c.name], in)
  IN [out EXCEPT !.calls = e.calls, !.argc = e.argc,
                 !.jump = IF @ = "return" THEN "none" ELSE @]

Sourced(c, e) ==
  IF c.form = "none" \/ c.ends = NotFound THEN Gives(e, 1)
  ELSE LET out == Lines(c.lines, [e EXCEPT !.calls = @ + 1, !.argc = c.n])
       IN [out EXCEPT !.calls = e.calls, !.argc = e.argc,
                      !.jump = IF @ = "return" THEN "none" ELSE @]

Command(c, e) ==
  CASE ~c.expand -> Gives(e, 1)
    [] c.expand /\ c.cmd = "empty" -> Gives(e, IF c.assign THEN 0 ELSE 1)
    [] c.expand /\ c.cmd = "true"  -> Gives(e, 0)
    [] c.expand /\ c.cmd = "false" -> Gives(e, 1)
    [] c.expand /\ c.cmd = "echo"  -> [e EXCEPT !.log = Append(@, <<c.tag, e.st>>), !.st = 0]
    [] c.expand /\ c.cmd \in {"break", "continue"} -> Depth(c, e)
    [] c.expand /\ c.cmd = "return" -> ReturnFrom(c, e)
    [] c.expand /\ c.cmd = "exit" ->
         Jumps(IF c.form = "none" THEN e ELSE Gives(e, c.n % 256), "exit", 0)
    [] c.expand /\ c.cmd = "shift"  -> Shift(c, e)
    [] c.expand /\ c.cmd = "wait"   -> Wait(c, e)
    [] c.expand /\ c.cmd = "sete"   -> Gives([e EXCEPT !.err_exit = TRUE], 0)
    [] c.expand /\ c.cmd = "unset"  ->
         Gives([e EXCEPT !.funcs[c.name] = [type |-> "nofunc"]], 0)
    [] c.expand /\ c.cmd = "eval"   -> Lines(c.lines, e)
    [] c.expand /\ c.cmd = "source" -> Sourced(c, e)
    [] c.expand /\ c.cmd = "ext" ->
         IF c.name \in DOMAIN e.funcs /\ e.funcs[c.name] # [type |-> "nofunc"]
         THEN Function(c, e) ELSE Program(c, e)

\* while and until; st is the status of the last body
Loop(n, e, st) ==
  LET c == Run(n.condition, Gives(e, 0)) IN
  IF ~Proceeds(c) THEN Gives(Unjump(c), IF c.jump \in {"break", "continue"} THEN st ELSE c.st)
  ELSE IF Jumping(c) THEN Loop(n, Unjump(c), st)
  ELSE IF (c.st = 0) # (n.type = "while") THEN Gives(c, st)
  ELSE LET b == Run(n.body, c) IN
       IF Proceeds(b) THEN Loop(n, Unjump(b), b.st) ELSE Unjump(b)

Words(n, e, left) ==
  IF left = 0 THEN e
  ELSE LET b == Run(n.body, e) IN
       IF Proceeds(b) THEN Words(n, Unjump(b), left - 1) ELSE Unjump(b)

\* a pipeline's stages are processes; its status is that of the last
RECURSIVE Pipeline(_, _)
Pipeline(n, e) ==
  IF n.type = "pipe" THEN Pipeline(n.right, [Child(n.left, e) EXCEPT !.st = e.st])
  ELSE Child(n, e)

InLoop(e, out) == [out EXCEPT !.loops = e.loops]

Run(n, e) ==
  CASE n = Null \/ Jumping(e) -> e
    [] n # Null /\ ~Jumping(e) /\ ~n.redirs -> Gives(e, 1)
    [] OTHER ->
      CASE n.type = "cmd" ->
             Command(n, IF n.subst = Null THEN e ELSE Child(n.subst, e))
        [] n.type = "sep" -> Run(n.right, Run(n.left, e))
        [] n.type \in {"and", "or"} ->
             LET l == Run(n.left, e) IN
             IF (l.st = 0) = (n.type = "and") THEN Run(n.right, l) ELSE l
        [] n.type = "if" ->
             LET c == Run(n.condition, Gives(e, 0)) IN
             IF Jumping(c) THEN c
             ELSE Run(IF c.st = 0 THEN n.body ELSE n.else_body, Gives(c, 0))
        [] n.type \in LoopTypes -> InLoop(e, Loop(n, [e EXCEPT !.loops = @ + 1], 0))
        [] n.type = "for" ->
             IF ~n.expand THEN Gives(e, 1)
             ELSE InLoop(e, Words(n, Gives([e EXCEPT !.loops = @ + 1], 0), n.words))
        [] n.type = "case" ->
             IF n.expand THEN Run(n.body, Gives(e, 0)) ELSE Gives(e, 1)
        [] n.type = "negate" ->
             LET c == Run(n.child, e) IN
             IF Jumping(c) THEN c ELSE Gives(c, IF c.st = 0 THEN 1 ELSE 0)
        [] n.type = "group" -> Run(n.child, e)
        [] n.type = "subshell" -> Child(n.child, e)
        [] n.type = "bg" ->
             LET c == Child(n.child, e) IN [c EXCEPT !.st = e.st, !.last = c.st]
        [] n.type = "pipe" -> Pipeline(n, e)
        [] n.type = "func" -> [e EXCEPT !.funcs[n.name] = n.body]

\* the lines of a script, of a sourced file or of eval
Lines(ls, e) ==
  IF ls = <<>> \/ e.jump = "exit" THEN e
  ELSE IF Head(ls) = SyntaxError
  THEN IF e.terminal THEN Lines(Tail(ls), Gives(e, 1)) ELSE Gives(e, 1)
  ELSE LET all == Run(Head(ls), e)
           out == IF all.jump = "sigint" THEN Jumps(all, "none", 0) ELSE all
       IN
       IF out.jump = "return" \/ (out.err_exit /\ out.st # 0) THEN out
       ELSE Lines(Tail(ls), out)

\* the status tash ends with and the commands it ran
Meaning(lines, names, argc, terminal) ==
  LET e == Lines(lines, Start(names, argc, terminal)) IN [st |-> e.st % 256, log |-> e.log]

-----------------------------------------------------------------------------
(***************************************************************************)
(* The nodes of a tree, itself included.                                   *)
(***************************************************************************)
RECURSIVE Nodes(_)
SubTrees(n) ==
  CASE n.type \in BinaryTypes -> {n.left, n.right}
    [] n.type \in SingleTypes -> {n.child}
    [] n.type \in LoopTypes -> {n.condition, n.body}
    [] n.type = "if" -> {n.condition, n.body, n.else_body}
    [] n.type \in {"for", "case", "func"} -> {n.body}
    [] n.type = "cmd" -> {n.subst} \cup {n.lines[i] : i \in DOMAIN n.lines}
Nodes(n) ==
  IF n \in {Null, SyntaxError} THEN {}
  ELSE {n} \cup UNION {Nodes(c) : c \in SubTrees(n)}

NodesOf(scripts) == UNION {UNION {Nodes(s[i]) : i \in DOMAIN s} : s \in scripts}
=============================================================================
