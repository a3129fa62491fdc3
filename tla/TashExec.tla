------------------------------ MODULE TashExec ------------------------------
(***************************************************************************)
(* The executor of tash: execute() and the functions it calls walk the     *)
(* tree of one line (src/execute.c), the builtins that steer it            *)
(* (src/builtin.c), the loop that feeds it lines (interpret() in           *)
(* src/parser.c), command substitution (execute_subshell() in              *)
(* src/expand.c), and the processes it forks and waits for (src/jobs.c).   *)
(*                                                                         *)
(* Every process runs C code, so a process has a stack: a sequence of      *)
(* frames, the innermost first, each one a call in progress and the point  *)
(* it goes on from.  fork() copies the whole stack and all globals, which  *)
(* is why a child that returned instead of exiting would go on with its    *)
(* parent's script.  The processes interleave; fork, wait and the end of   *)
(* file of a substitution's pipe are the only ways they meet.              *)
(*                                                                         *)
(* Not here: the descriptors behind a redirection (module TashRedirs; a    *)
(* node only says whether apply_redirs succeeds), data in pipes, variables *)
(* and signals from outside.  Pids are not reused.                         *)
(***************************************************************************)
EXTENDS TashAst, FiniteSets

CONSTANTS
  Pid,          \* the process numbers the kernel may give: fork fails beyond them
  Shell,        \* the process tash is started in
  NoPid,        \* pid 0, which no process has
  Node,         \* the nodes of the scripts
  Script,       \* the scripts, each a sequence of lines, a line being a tree
  FuncName,     \* the names scripts define functions under
  Tag,          \* the names of echo commands and programs, for the history
  Args,         \* how many arguments tash is given: $# at the start
  Terminals     \* whether tash is on a terminal, and so has job control: TRUE, FALSE or both

Tree == Node \cup {Null}
Line == Tree \cup {SyntaxError}
NoFunc == [type |-> "nofunc"]      \* no function of that name is registered

ASSUME PidAssumption == Shell \in Pid /\ NoPid \notin Pid
ASSUME NodeAssumption == IsNodeSet(Node, FuncName, Tag)
ASSUME ScriptAssumption == Script \subseteq Seq(Line)
ASSUME ConfigAssumption == Args \in Nat /\ Terminals \subseteq BOOLEAN

VARIABLES
  script,       \* the lines tash was started on
  proc,         \* the kernel's table of processes
  frames,       \* the stack of each process, innermost frame first
  glob,         \* the globals of each process
  ran           \* history: the commands that ran, with the status each one saw

vars == <<script, proc, frames, glob, ran>>
-----------------------------------------------------------------------------
(***************************************************************************)
(* A frame: k is the point to go on from, n the node, nf FLAG_NO_FORK, i a *)
(* saved integer (prev_exit_status, the word of a for loop, _argc), ps the *)
(* children of the group, ls the lines left to interpret.                  *)
(***************************************************************************)
Kinds == {"exec", "run", "call", "child", "binary", "exit", "interp", "left", "if",
          "condition", "body", "for", "negate", "pipe", "func", "eval", "source", "wait",
          "waitall", "waitlast", "read"}

Frame == [k : Kinds, n : Tree, nf : BOOLEAN, i : Int, ps : Seq(Pid), ls : Seq(Line)]

F(k, n, nf) == [k |-> k, n |-> n, nf |-> nf, i |-> 0, ps |-> <<>>, ls |-> <<>>]
Exec(n, nf) == F("exec", n, nf)
Exit        == F("exit", Null, FALSE)
Interp(ls)  == [F("interp", Null, FALSE) EXCEPT !.ls = ls]
WaitFor(ps) == [F("wait", Null, FALSE) EXCEPT !.ps = ps]
Read(c)     == [F("read", Null, FALSE) EXCEPT !.ps = <<c>>]

Glob == [exit_status : Int, last_background : Pid \cup {NoPid},
         break_depth : Int, continue_depth : Int, loop_depth : Int, stack_depth : Int,
         sigint_break : BOOLEAN, return_break : BOOLEAN,
         job_control : BOOLEAN, err_exit : BOOLEAN, argc : Int,
         funcs : [FuncName -> Node \cup {Null, NoFunc}], stolen : SUBSET Node]

Proc == [state : {"free", "running", "zombie", "reaped"}, parent : Pid \cup {NoPid},
         status : 0..255, signalled : BOOLEAN, out : Pid \cup {NoPid}, base : Nat]

Top(p)      == Head(frames[p])
Rest(p)     == Tail(frames[p])
Running(p)  == proc[p].state = "running"
At(p, k)    == Running(p) /\ frames[p] # <<>> /\ Top(p).k = k
Status(g, s) == [g EXCEPT !.exit_status = s]

Children(p) == {c \in Pid : proc[c].parent = p /\ proc[c].state \in {"running", "zombie"}}
Free        == {c \in Pid : proc[c].state = "free"}
\* Pids are only compared for equality: which free one fork returns is immaterial.
FreshPid    == CHOOSE c \in Free : TRUE

Init ==
  /\ script \in Script
  /\ proc = [p \in Pid |-> [state |-> IF p = Shell THEN "running" ELSE "free",
                            parent |-> NoPid, status |-> 0, signalled |-> FALSE,
                            out |-> NoPid, base |-> 0]]
  /\ frames = [p \in Pid |-> IF p = Shell THEN <<Interp(script), Exit>> ELSE <<>>]
  /\ \E tty \in Terminals :
       glob = [p \in Pid |->
                 [exit_status |-> 0, last_background |-> NoPid, break_depth |-> 0,
                  continue_depth |-> 0, loop_depth |-> 0, stack_depth |-> 0,
                  sigint_break |-> FALSE, return_break |-> FALSE,
                  job_control |-> tty, err_exit |-> FALSE, argc |-> Args,
                  funcs |-> [f \in FuncName |-> NoFunc], stolen |-> {}]]
  /\ ran = <<>>
-----------------------------------------------------------------------------
(***************************************************************************)
(* The shapes of a step.                                                   *)
(***************************************************************************)
\* p replaces its innermost frame by fs and its globals by g
Local(p, fs, g) ==
  /\ frames' = [frames EXCEPT ![p] = fs \o Tail(@)]
  /\ glob' = [glob EXCEPT ![p] = g]
  /\ UNCHANGED <<script, proc, ran>>

\* p goes on with fs, and its new child c with child on top of a copy of p's stack
Fork(p, c, fs, g, child, out) ==
  /\ proc' = [proc EXCEPT ![c] = [state |-> "running", parent |-> p, status |-> 0,
                                  signalled |-> FALSE, out |-> out, base |-> Len(Rest(p))]]
  /\ frames' = [frames EXCEPT ![p] = fs \o Rest(p), ![c] = child \o Rest(p)]
  /\ glob' = [glob EXCEPT ![p] = g, ![c] = [glob[p] EXCEPT !.job_control = FALSE]]
  /\ UNCHANGED <<script, ran>>

\* the process ends: its parent may now learn the status
Die(p, status, signalled) ==
  /\ proc' = [proc EXCEPT ![p].state = "zombie", ![p].status = status,
                          ![p].signalled = signalled]
  /\ frames' = [frames EXCEPT ![p] = <<>>]
  /\ UNCHANGED <<script, glob>>

\* job_report_termination
Report(g, c) ==
  IF proc[c].signalled
  THEN [g EXCEPT !.exit_status = proc[c].status + 128,
                 !.sigint_break = @ \/ (proc[c].status = 2 /\ g.job_control)]
  ELSE Status(g, proc[c].status)

\* mutant: a child that is still running is taken for dead
Reap_Early(p, c, fs) ==
  /\ c \in Children(p)
  /\ proc' = [proc EXCEPT ![c].state = "reaped"]
  /\ frames' = [frames EXCEPT ![p] = fs \o Tail(@)]
  /\ glob' = [glob EXCEPT ![p] = Report(glob[p], c)]
  /\ UNCHANGED <<script, ran>>

\* waitpid returns the child c to p, which goes on with fs
Reap(p, c, fs) ==
  /\ c \in Children(p)
  /\ proc[c].state = "zombie"
  /\ proc' = [proc EXCEPT ![c].state = "reaped"]
  /\ frames' = [frames EXCEPT ![p] = fs \o Tail(@)]
  /\ glob' = [glob EXCEPT ![p] = Report(glob[p], c)]
  /\ UNCHANGED <<script, ran>>

\* job_single: the caller skips the command whether it waited or fork failed
Single(p, child) ==
  \/ Free # {} /\ Fork(p, FreshPid, <<WaitFor(<<FreshPid>>)>>, glob[p], child, proc[p].out)
  \/ Free = {} /\ Local(p, <<>>, glob[p])
-----------------------------------------------------------------------------
(***************************************************************************)
(* execute(): the checks at its head, then one action per case.            *)
(***************************************************************************)
Skips(g, n) ==
  \/ n = Null
  \/ g.break_depth > 0 \/ g.continue_depth > 0
  \/ g.sigint_break \/ g.return_break

Entering(p, types) ==
  /\ At(p, "exec")
  /\ ~Skips(glob[p], Top(p).n)
  /\ Top(p).n.redirs
  /\ Top(p).n.type \in types

Skip(p) ==
  /\ At(p, "exec")
  /\ Skips(glob[p], Top(p).n)
  /\ Local(p, <<>>, glob[p])

RedirsFail(p) ==
  /\ At(p, "exec")
  /\ ~Skips(glob[p], Top(p).n)
  /\ ~Top(p).n.redirs
  /\ Local(p, <<>>, Status(glob[p], 1))

ExecBinary(p) ==
  /\ Entering(p, {"sep", "and", "or"})
  /\ Local(p, <<Exec(Top(p).n.left, FALSE), F("left", Top(p).n, Top(p).nf)>>, glob[p])

RunsRight(type, status) ==
  type = "sep" \/ (type = "and" /\ status = 0) \/ (type = "or" /\ status # 0)

AfterLeft(p) ==
  /\ At(p, "left")
  /\ LET fr == Top(p) IN
     \/ /\ RunsRight(fr.n.type, glob[p].exit_status)
        /\ Local(p, <<Exec(fr.n.right, fr.nf)>>, glob[p])
     \/ /\ ~RunsRight(fr.n.type, glob[p].exit_status)
        /\ Local(p, <<>>, glob[p])

ExecIf(p) ==
  /\ Entering(p, {"if"})
  /\ Local(p, <<Exec(Top(p).n.condition, FALSE), F("if", Top(p).n, Top(p).nf)>>,
           Status(glob[p], 0))

AfterIf(p) ==
  /\ At(p, "if")
  /\ LET fr == Top(p)
         taken == IF glob[p].exit_status = 0 THEN fr.n.body ELSE fr.n.else_body
     IN Local(p, <<Exec(taken, fr.nf)>>, Status(glob[p], 0))

(***************************************************************************)
(* BREAK_CHECK, CONTINUE_CHECK and VARIOUS_BREAK_CHECK, in that order: a   *)
(* request is consumed by one level at the loop that meets it.             *)
(***************************************************************************)
Leaves(g) ==
  \/ g.break_depth > 0
  \/ g.continue_depth > 1
  \/ g.continue_depth <= 0 /\ (g.sigint_break \/ g.return_break)

Restarts(g) == g.break_depth <= 0 /\ g.continue_depth = 1

\* mutant: continue 2 is not counted down
Consume_KeepsContinue(g) ==
  [g EXCEPT !.break_depth = IF @ > 0 THEN @ - 1 ELSE @]

Consume(g) ==
  [g EXCEPT !.break_depth = IF @ > 0 THEN @ - 1 ELSE @,
            !.continue_depth = IF g.break_depth <= 0 /\ @ > 0 THEN @ - 1 ELSE @]

\* mutant: an early return forgets the loop_depth--
LeaveLoop_Forgets(g) == g

LeaveLoop(g) == [g EXCEPT !.loop_depth = @ - 1]

\* the head of while and until: the status is reset before each condition
Condition(p, fr, g) ==
  Local(p, <<Exec(fr.n.condition, FALSE), [fr EXCEPT !.k = "condition"]>>, Status(g, 0))

ExecLoop(p) ==
  /\ Entering(p, LoopTypes)
  /\ Condition(p, F("condition", Top(p).n, Top(p).nf),
               [glob[p] EXCEPT !.loop_depth = @ + 1])

LoopEnds(type, status) == IF type = "while" THEN status # 0 ELSE status = 0

AfterCondition(p) ==
  /\ At(p, "condition")
  /\ LET fr == Top(p)
         g == glob[p]
         ends == LoopEnds(fr.n.type, g.exit_status)
     IN \/ ends /\ Local(p, <<>>, Status(LeaveLoop(g), fr.i))
        \/ ~ends /\ Leaves(g) /\ Local(p, <<>>, Status(LeaveLoop(Consume(g)), fr.i))
        \/ ~ends /\ Restarts(g) /\ Condition(p, fr, Consume(g))
        \/ /\ ~ends /\ ~Leaves(g) /\ ~Restarts(g)
           /\ Local(p, <<Exec(fr.n.body, FALSE), [fr EXCEPT !.k = "body"]>>, g)

AfterBody(p) ==
  /\ At(p, "body")
  /\ LET g == glob[p]
         fr == [Top(p) EXCEPT !.i = g.exit_status]
     IN \/ Leaves(g) /\ Local(p, <<>>, LeaveLoop(Consume(g)))
        \/ ~Leaves(g) /\ Condition(p, fr, Consume(g))

\* the body for word i, with FLAG_NO_FORK only for the last word
ForWord(p, fr, g) ==
  Local(p, <<Exec(fr.n.body, fr.nf /\ fr.i = fr.n.words), fr>>, g)

ExecFor(p) ==
  /\ Entering(p, {"for"})
  /\ LET n == Top(p).n
         fr == [F("for", n, Top(p).nf) EXCEPT !.i = 1]
     IN \/ ~n.expand /\ Local(p, <<>>, Status(glob[p], 1))
        \/ n.expand /\ n.words = 0 /\ Local(p, <<>>, Status(glob[p], 0))
        \/ /\ n.expand /\ n.words > 0
           /\ ForWord(p, fr, Status([glob[p] EXCEPT !.loop_depth = @ + 1], 0))

AfterForBody(p) ==
  /\ At(p, "for")
  /\ LET fr == Top(p)
         g == glob[p]
     IN \/ /\ Leaves(g) \/ fr.i >= fr.n.words
           /\ Local(p, <<>>, LeaveLoop(Consume(g)))
        \/ /\ ~Leaves(g) /\ fr.i < fr.n.words
           /\ ForWord(p, [fr EXCEPT !.i = @ + 1], Consume(g))

ExecCase(p) ==
  /\ Entering(p, {"case"})
  /\ \/ ~Top(p).n.expand /\ Local(p, <<>>, Status(glob[p], 1))
     \/ /\ Top(p).n.expand
        /\ Local(p, <<Exec(Top(p).n.body, Top(p).nf)>>, Status(glob[p], 0))

\* mutant: FLAG_NO_FORK is passed through a negation
ExecNegate_NoFork(p) ==
  /\ Entering(p, {"negate"})
  /\ Local(p, <<Exec(Top(p).n.child, Top(p).nf), F("negate", Top(p).n, Top(p).nf)>>, glob[p])

ExecNegate(p) ==
  /\ Entering(p, {"negate"})
  /\ Local(p, <<Exec(Top(p).n.child, FALSE), F("negate", Top(p).n, Top(p).nf)>>, glob[p])

AfterNegate(p) ==
  /\ At(p, "negate")
  /\ Local(p, <<>>, Status(glob[p], IF glob[p].exit_status = 0 THEN 1 ELSE 0))

ExecGroup(p) ==
  /\ Entering(p, {"group"})
  /\ Local(p, <<Exec(Top(p).n.child, Top(p).nf)>>, glob[p])

ExecSubshell(p) ==
  /\ Entering(p, {"subshell"})
  /\ LET body == Exec(Top(p).n.child, TRUE) IN
     \/ Top(p).nf /\ Local(p, <<body>>, glob[p])
     \/ ~Top(p).nf /\ Single(p, <<body, Exit>>)

\* mutant: the child of an asynchronous list returns
ExecAsync_Returns(p) ==
  /\ Entering(p, {"bg"})
  /\ LET child == <<Exec(Top(p).n.child, TRUE)>> IN
     \/ /\ Free # {}
        /\ Fork(p, FreshPid, <<>>, [glob[p] EXCEPT !.last_background = FreshPid],
                child, proc[p].out)
     \/ /\ Free = {}
        /\ Local(p, <<>>, [glob[p] EXCEPT !.last_background = NoPid])

\* last_background is the group's pid, 0 when fork failed; the status is untouched
ExecAsync(p) ==
  /\ Entering(p, {"bg"})
  /\ LET child == <<Exec(Top(p).n.child, TRUE), Exit>> IN
     \/ /\ Free # {}
        /\ Fork(p, FreshPid, <<>>, [glob[p] EXCEPT !.last_background = FreshPid],
                child, proc[p].out)
     \/ /\ Free = {}
        /\ Local(p, <<>>, [glob[p] EXCEPT !.last_background = NoPid])

\* The node gives its body away: executed again, it registers a NULL body.
ExecFunc(p) ==
  /\ Entering(p, {"func"})
  /\ LET n == Top(p).n
         body == IF n \in glob[p].stolen THEN Null ELSE n.body
     IN Local(p, <<>>, [glob[p] EXCEPT !.funcs[n.name] = body, !.stolen = @ \cup {n}])

ExecPipe(p) ==
  /\ Entering(p, {"pipe"})
  /\ Local(p, <<F("pipe", Top(p).n, Top(p).nf)>>, glob[p])

\* mutant: a stage that could not be forked is waited for
PipeStage_WaitsForNone(p) ==
  /\ At(p, "pipe")
  /\ LET fr == Top(p)
         last == fr.n.type # "pipe"
         child == <<Exec(IF last THEN fr.n ELSE fr.n.left, TRUE), Exit>>
         next(ps) == IF last THEN <<WaitFor(ps)>>
                     ELSE <<[fr EXCEPT !.n = fr.n.right, !.ps = ps]>>
     IN \/ /\ Free # {}
           /\ Fork(p, FreshPid, next(Append(fr.ps, FreshPid)), glob[p], child,
                   IF last THEN proc[p].out ELSE NoPid)
        \/ Free = {} /\ Local(p, next(Append(fr.ps, NoPid)), glob[p])

\* One turn of the loop of execute_pipe, or its last child: a stage that cannot
\* be forked is left out, and the parent waits for the others.
PipeStage(p) ==
  /\ At(p, "pipe")
  /\ LET fr == Top(p)
         last == fr.n.type # "pipe"
         child == <<Exec(IF last THEN fr.n ELSE fr.n.left, TRUE), Exit>>
         next(ps) == IF last THEN <<WaitFor(ps)>>
                     ELSE <<[fr EXCEPT !.n = fr.n.right, !.ps = ps]>>
     IN \/ /\ Free # {}
           /\ Fork(p, FreshPid, next(Append(fr.ps, FreshPid)), glob[p], child,
                   IF last THEN proc[p].out ELSE NoPid)
        \/ Free = {} /\ Local(p, next(fr.ps), glob[p])
-----------------------------------------------------------------------------
(***************************************************************************)
(* execute_cmd(): expansion, with the substitution it may run, then the    *)
(* builtins, the functions, and a program in a child of its own.           *)
(***************************************************************************)
ExecCmd(p) ==
  /\ Entering(p, {"cmd"})
  /\ LET n == Top(p).n
         run == F("run", n, Top(p).nf)
     IN \/ n.subst = Null /\ Local(p, <<run>>, glob[p])
        \/ /\ n.subst # Null /\ Free # {}
           /\ Fork(p, FreshPid, <<Read(FreshPid), run>>, glob[p],
                   <<Exec(n.subst, TRUE), Exit>>, FreshPid)
        \/ n.subst # Null /\ Free = {} /\ Local(p, <<run>>, glob[p])

\* read() returns 0 once no process holds the write end of the pipe
ReadEof(p) ==
  /\ At(p, "read")
  /\ \A q \in Pid : ~(Running(q) /\ proc[q].out = Head(Top(p).ps))
  /\ Local(p, <<WaitFor(Top(p).ps)>>, glob[p])

ExpansionFails(p) ==
  /\ At(p, "run")
  /\ ~Top(p).n.expand
  /\ Local(p, <<>>, Status(glob[p], 1))

Runs(p, cmds) == At(p, "run") /\ Top(p).n.expand /\ Top(p).n.cmd \in cmds

RunEmpty(p) ==
  /\ Runs(p, {"empty"})
  /\ Local(p, <<>>, Status(glob[p], IF Top(p).n.assign THEN 0 ELSE 1))

\* mutant: break 9 in two loops asks for nine levels
Clamp_Unbounded(n, max) == n

Clamp(n, max) == IF n > max THEN max ELSE n

BuiltinBreak(g, n) ==
  IF g.loop_depth = 0 THEN Status(g, 0)
  ELSE CASE n.form = "none" -> Status([g EXCEPT !.break_depth = 1], 0)
         [] n.form = "num"  -> Status([g EXCEPT !.break_depth = Clamp(n.n, g.loop_depth)], 0)
         [] n.form = "junk" -> Status([g EXCEPT !.break_depth = n.n], 1)
         [] OTHER           -> Status(g, 1)

BuiltinContinue(g, n) ==
  IF g.loop_depth = 0 THEN Status(g, 0)
  ELSE CASE n.form = "none" -> Status([g EXCEPT !.continue_depth = 1], 0)
         [] n.form = "num"  -> Status([g EXCEPT !.continue_depth = Clamp(n.n, g.loop_depth)], 0)
         [] n.form = "junk" -> Status([g EXCEPT !.continue_depth = n.n], 1)
         [] OTHER           -> Status(g, 1)

BuiltinReturn(g, n) ==
  IF g.stack_depth = 0 \/ n.form = "many" THEN Status(g, 1)
  ELSE IF n.form = "none" THEN [g EXCEPT !.return_break = TRUE]
  ELSE [g EXCEPT !.return_break = TRUE, !.exit_status = n.n]

BuiltinShift(g, n) ==
  LET amount == IF n.form = "none" THEN 1 ELSE n.n IN
  IF n.form \in {"junk", "many"} \/ amount < 0 THEN Status(g, 1)
  ELSE IF amount > g.argc THEN Status([g EXCEPT !.argc = 0], 1)
  ELSE Status([g EXCEPT !.argc = @ - amount], 0)

BuiltinUnset(g, n) == Status([g EXCEPT !.funcs[n.name] = NoFunc], 0)

Builtin(g, n) ==
  CASE n.cmd = "true"     -> Status(g, 0)
    [] n.cmd = "false"    -> Status(g, 1)
    [] n.cmd = "break"    -> BuiltinBreak(g, n)
    [] n.cmd = "continue" -> BuiltinContinue(g, n)
    [] n.cmd = "return"   -> BuiltinReturn(g, n)
    [] n.cmd = "shift"    -> BuiltinShift(g, n)
    [] n.cmd = "unset"    -> BuiltinUnset(g, n)
    [] n.cmd = "sete"     -> Status([g EXCEPT !.err_exit = TRUE], 0)

\* try_builtin takes a negative result for "not a builtin"
BuiltinEnds(p, g) ==
  \/ g.exit_status >= 0 /\ Local(p, <<>>, g)
  \/ g.exit_status < 0 /\ Local(p, <<[Top(p) EXCEPT !.k = "call"]>>, g)

RunBuiltin(p) ==
  /\ Runs(p, {"true", "false", "break", "continue", "return", "shift", "unset", "sete"})
  /\ BuiltinEnds(p, Builtin(glob[p], Top(p).n))

RunEcho(p) ==
  /\ Runs(p, {"echo"})
  /\ ran' = Append(ran, <<Top(p).n.tag, glob[p].exit_status>>)
  /\ frames' = [frames EXCEPT ![p] = Tail(@)]
  /\ glob' = [glob EXCEPT ![p].exit_status = 0]
  /\ UNCHANGED <<script, proc>>

RunExit(p) ==
  /\ Runs(p, {"exit"})
  /\ LET n == Top(p).n IN
     \/ n.form = "many" /\ Local(p, <<>>, Status(glob[p], 1))
     \/ n.form = "none" /\ Die(p, glob[p].exit_status % 256, FALSE) /\ UNCHANGED ran
     \/ n.form = "num"  /\ Die(p, n.n % 256, FALSE) /\ UNCHANGED ran
     \/ n.form = "junk" /\ Die(p, 2, FALSE) /\ UNCHANGED ran

RunWait(p) ==
  /\ Runs(p, {"wait"})
  /\ LET g == Status(glob[p], 0) IN
     \/ Top(p).n.form = "none" /\ Local(p, <<F("waitall", Null, FALSE)>>, g)
     \/ Top(p).n.form = "num" /\ Local(p, <<F("waitlast", Null, FALSE)>>, g)
     \/ Top(p).n.form \in {"junk", "many"} /\ Local(p, <<>>, Status(g, 1))

RunEval(p) ==
  /\ Runs(p, {"eval"})
  /\ Local(p, <<Interp(Top(p).n.lines), F("eval", Top(p).n, Top(p).nf)>>, glob[p])

AfterEval(p) == At(p, "eval") /\ BuiltinEnds(p, glob[p])

\* form "none": no file is named; ends = NotFound: it cannot be opened
RunSource(p) ==
  /\ Runs(p, {"source"})
  /\ LET n == Top(p).n
         g == glob[p]
     IN \/ /\ n.form = "none" \/ n.ends = NotFound
           /\ Local(p, <<>>, Status(g, 1))
        \/ /\ n.form # "none" /\ n.ends # NotFound
           /\ Local(p, <<Interp(n.lines), [F("source", n, Top(p).nf) EXCEPT !.i = g.argc]>>,
                    [g EXCEPT !.stack_depth = @ + 1, !.argc = n.n])

AfterSource(p) ==
  /\ At(p, "source")
  /\ BuiltinEnds(p, [glob[p] EXCEPT !.stack_depth = @ - 1, !.argc = Top(p).i])

RunOther(p) ==
  /\ Runs(p, {"ext"})
  /\ Local(p, <<[Top(p) EXCEPT !.k = "call"]>>, glob[p])

HasFunc(p) == Top(p).n.name \in FuncName /\ glob[p].funcs[Top(p).n.name] # NoFunc

\* execute_func
CallFunc(p) ==
  /\ At(p, "call")
  /\ HasFunc(p)
  /\ LET fr == Top(p)
         g == glob[p]
     IN Local(p, <<Exec(g.funcs[fr.n.name], fr.nf),
                   [F("func", fr.n, fr.nf) EXCEPT !.i = g.argc]>>,
              [g EXCEPT !.stack_depth = @ + 1, !.argc = fr.n.n])

AfterFunc(p) ==
  /\ At(p, "func")
  /\ Local(p, <<>>, [glob[p] EXCEPT !.stack_depth = @ - 1, !.return_break = FALSE,
                                    !.argc = Top(p).i])

\* execvp replaces the image: the stack is gone, only the program is left to end
Image(p) ==
  /\ frames' = [frames EXCEPT ![p] = <<F("binary", Top(p).n, TRUE)>>]
  /\ proc' = [proc EXCEPT ![p].base = 0]
  /\ UNCHANGED <<script, glob, ran>>

\* a builtin whose result is negative is looked for as a program, in vain
Found(n) == n.cmd = "ext" /\ n.ends # NotFound

\* without FLAG_NO_FORK the rest of execute_cmd is the child's
CallProgram(p) ==
  /\ At(p, "call")
  /\ ~HasFunc(p)
  /\ LET n == Top(p).n IN
     \/ ~Top(p).nf /\ Single(p, <<F("child", n, FALSE)>>)
     \/ Top(p).nf /\ ~n.assign /\ Local(p, <<>>, Status(glob[p], 1))
     \/ Top(p).nf /\ n.assign /\ Found(n) /\ Image(p)
     \/ Top(p).nf /\ n.assign /\ ~Found(n) /\ Local(p, <<>>, glob[p])

\* the child of job_single; when an assignment does not expand it returns
ChildProgram(p) ==
  /\ At(p, "child")
  /\ LET n == Top(p).n IN
     \/ ~n.assign /\ Local(p, <<>>, Status(glob[p], 1))
     \/ n.assign /\ Found(n) /\ Image(p)
     \/ n.assign /\ ~Found(n) /\ Die(p, 127, FALSE) /\ UNCHANGED ran

ProgramEnds(p) ==
  /\ At(p, "binary")
  /\ LET n == Top(p).n IN
     \/ n.ends = SigInt /\ Die(p, 2, TRUE)
     \/ n.ends # SigInt /\ Die(p, n.ends, FALSE)
  /\ ran' = Append(ran, <<Top(p).n.tag, 0>>)
-----------------------------------------------------------------------------
(***************************************************************************)
(* job_wait() and job_wait_pid(), and the ends of a process.               *)
(***************************************************************************)
JobWait(p) ==
  /\ At(p, "wait")
  /\ \/ Top(p).ps = <<>> /\ Local(p, <<>>, glob[p])
     \/ Top(p).ps # <<>> /\ Reap(p, Head(Top(p).ps), <<[Top(p) EXCEPT !.ps = Tail(@)]>>)

\* mutant: that there is no child left does not end the loop of wait
WaitAll_Again(p) ==
  /\ At(p, "waitall")
  /\ \/ \E c \in Children(p) : Reap(p, c, <<Top(p)>>)
     \/ Children(p) = {} /\ Local(p, <<Top(p)>>, Status(glob[p], 0))

\* wait without operands: until waitpid fails, and then the result is 0
WaitAll(p) ==
  /\ At(p, "waitall")
  /\ \/ \E c \in Children(p) : Reap(p, c, <<Top(p)>>)
     \/ Children(p) = {} /\ Local(p, <<>>, Status(glob[p], 0))

\* wait $!: for pid 0 waitpid takes any child in the group of p, and with job
\* control every child has left that group
WaitLast(p) ==
  /\ At(p, "waitlast")
  /\ LET last == glob[p].last_background
         waited == IF last # NoPid THEN Children(p) \cap {last}
                   ELSE IF glob[p].job_control THEN {} ELSE Children(p)
     IN \/ \E c \in waited : Reap(p, c, <<>>)
        \/ waited = {} /\ Local(p, <<>>, Status(glob[p], 127))

\* mutant: the status is not cut to eight bits
ExitStatus_Wide(p) ==
  /\ At(p, "exit")
  /\ Die(p, glob[p].exit_status, FALSE)
  /\ UNCHANGED ran

ExitStatus(p) ==
  /\ At(p, "exit")
  /\ Die(p, glob[p].exit_status % 256, FALSE)
  /\ UNCHANGED ran

(***************************************************************************)
(* interpret(): i = 1 once a line has been executed.                       *)
(***************************************************************************)
Stops(g) == g.return_break \/ (g.exit_status # 0 /\ g.err_exit)

InterpretStops(p) ==
  /\ At(p, "interp")
  /\ LET g == glob[p]
         failed == g.exit_status # 0 /\ g.err_exit
     IN \/ /\ Top(p).i = 1 /\ Stops(g)
           /\ Local(p, <<>>, [g EXCEPT !.return_break = @ /\ failed])
        \/ /\ ~(Top(p).i = 1 /\ Stops(g))
           /\ Top(p).ls = <<>>
           /\ Local(p, <<>>, g)

InterpretLine(p) ==
  /\ At(p, "interp")
  /\ ~(Top(p).i = 1 /\ Stops(glob[p]))
  /\ Top(p).ls # <<>>
  /\ LET line == Head(Top(p).ls)
         next == [Top(p) EXCEPT !.ls = Tail(@)]
         g == glob[p]
     IN \/ /\ line # SyntaxError
           /\ Local(p, <<Exec(line, FALSE), [next EXCEPT !.i = 1]>>,
                    [g EXCEPT !.sigint_break = FALSE])
        \/ /\ line = SyntaxError
           /\ Local(p, IF g.job_control THEN <<[next EXCEPT !.i = 0]>> ELSE <<>>, Status(g, 1))
-----------------------------------------------------------------------------
Compound(p) ==
  \/ Skip(p) \/ RedirsFail(p)
  \/ ExecBinary(p) \/ AfterLeft(p) \/ ExecIf(p) \/ AfterIf(p)
  \/ ExecLoop(p) \/ AfterCondition(p) \/ AfterBody(p)
  \/ ExecFor(p) \/ AfterForBody(p) \/ ExecCase(p)
  \/ ExecNegate(p) \/ AfterNegate(p) \/ ExecGroup(p)
  \/ ExecSubshell(p) \/ ExecAsync(p) \/ ExecFunc(p)
  \/ ExecPipe(p) \/ PipeStage(p)

Simple(p) ==
  \/ ExecCmd(p) \/ ReadEof(p) \/ ExpansionFails(p) \/ RunEmpty(p)
  \/ RunBuiltin(p) \/ RunEcho(p) \/ RunExit(p) \/ RunWait(p)
  \/ RunEval(p) \/ AfterEval(p) \/ RunSource(p) \/ AfterSource(p)
  \/ RunOther(p) \/ CallFunc(p) \/ AfterFunc(p)
  \/ CallProgram(p) \/ ChildProgram(p) \/ ProgramEnds(p)

Job(p) ==
  \/ JobWait(p) \/ WaitAll(p) \/ WaitLast(p) \/ ExitStatus(p)
  \/ InterpretStops(p) \/ InterpretLine(p)

Process(p) == Compound(p) \/ Simple(p) \/ Job(p)

AllDone == \A p \in Pid : ~Running(p)

Next == (\E p \in Pid : Process(p)) \/ (AllDone /\ UNCHANGED vars)

\* the scheduler lets every process that can run, run
Fairness == \A p \in Pid : WF_vars(Process(p))

Spec == Init /\ [][Next]_vars /\ Fairness
-----------------------------------------------------------------------------
(***************************************************************************)
(* Properties.                                                             *)
(***************************************************************************)
\* Every variable keeps its type: frames only hold nodes of the scripts, the
\* children a frame waits for are pids, a status fits in eight bits.
TypeOK ==
  /\ script \in Script
  /\ proc \in [Pid -> Proc]
  /\ frames \in [Pid -> Seq(Frame)]
  /\ glob \in [Pid -> Glob]
  /\ ran \in Seq(Tag \X Int)

\* A break or continue asks for no more levels than there are loops around it:
\* a request left over when its loops are gone would make execute() skip every
\* later command of the script.
RequestsWithinLoops ==
  \A p \in Pid : Running(p) =>
    /\ glob[p].break_depth <= glob[p].loop_depth
    /\ glob[p].continue_depth <= glob[p].loop_depth

Count(p, kinds) == Cardinality({j \in DOMAIN frames[p] : frames[p][j].k \in kinds})

\* loop_depth and stack_depth count the loops, and the functions and scripts,
\* in progress, in every process, through each early return and each fork.
DepthsMatchStack ==
  \A p \in Pid : Running(p) /\ ~At(p, "binary") =>
    /\ glob[p].loop_depth = Count(p, {"condition", "body", "for"})
    /\ glob[p].stack_depth = Count(p, {"func", "source"})

\* A forked process never returns into the frames it got from its parent: it
\* would run the rest of the script a second time.
ChildStaysInChild == \A p \in Pid : Running(p) => Len(frames[p]) > proc[p].base

\* What may be left to do above the fork when the image of the process is
\* replaced: return from a function, end the last turn of a for, exit.
Inert(fr) == fr.k \in {"func", "exit"} \/ (fr.k = "for" /\ fr.i >= fr.n.words)

\* The no-fork optimisation: a call that may replace the process by a program
\* has nothing behind it in this process that still matters.
NoForkOnlyInTail ==
  \A p \in Pid : Running(p) /\ ~At(p, "binary") =>
    LET own == Len(frames[p]) - proc[p].base IN
    \A i \in 1..own : frames[p][i].nf /\ frames[p][i].k \in {"exec", "run", "call"} =>
      /\ proc[p].parent # NoPid
      /\ \A j \in (i + 1)..own : Inert(frames[p][j])

\* job_wait only waits for children of the process that nobody has reaped:
\* waitpid on another pid would fail, and its status would be read uninitialised.
WaitsForOwnChildren ==
  \A p \in Pid : At(p, "wait") \/ At(p, "read") =>
    \A j \in DOMAIN Top(p).ps : Top(p).ps[j] \in Children(p)

\* The steps of a process: free, running, zombie, reaped; a status that is there to
\* be read stays, and the parent that reaps the process gets it.
Lives(c) ==
  /\ \/ proc'[c].state = proc[c].state
     \/ <<proc[c].state, proc'[c].state>> \in
          {<<"free", "running">>, <<"running", "zombie">>, <<"zombie", "reaped">>}
  /\ proc[c].state \in {"zombie", "reaped"} =>
       /\ proc'[c].status = proc[c].status
       /\ proc'[c].signalled = proc[c].signalled
  /\ proc[c].state # "free" => proc'[c].parent = proc[c].parent
  /\ proc[c].state = "zombie" /\ proc'[c].state = "reaped" =>
       /\ proc[c].parent \in Pid
       /\ glob'[proc[c].parent].exit_status =
            proc[c].status + (IF proc[c].signalled THEN 128 ELSE 0)

\* Every process lives so: none is reaped before it has ended, or twice, or by
\* anyone but its parent, and no status is lost between waitpid and $?.
LifeCycle == [][\A c \in Pid : Lives(c)]_vars

\* A script whose loops are bounded ends, with every process it started.
Termination == <>[]AllDone
=============================================================================
