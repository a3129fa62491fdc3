--------------------------- MODULE TashExecProofs ---------------------------
(***************************************************************************)
(* Proofs about TashExec, for any scripts, nodes and number of processes.  *)
(* First types, and the life of a process.  Then the stacks: loop_depth    *)
(* and stack_depth count the frames they are said to count, a child stays  *)
(* above the frames it has from its parent, FLAG_NO_FORK is only set where *)
(* nothing of the process is left to do, and only the innermost frame      *)
(* waits, for children of its own that nobody has reaped.  Last the        *)
(* requests to leave loops: under which hypotheses, on the behaviour and   *)
(* then on the scripts, break and continue never ask for a loop that is    *)
(* not there.                                                              *)
(***************************************************************************)
EXTENDS TashExec, SequenceTheorems, FiniteSetTheorems, TLAPS

-----------------------------------------------------------------------------
(***************************************************************************)
(* The inductive form of TypeOK: a frame's node is of a type that the      *)
(* point it goes on from expects, and the program of a process exists.     *)
(***************************************************************************)
Expects(k) ==
  CASE k = "left" -> {"sep", "and", "or"}
    [] k = "if" -> {"if"}
    [] k \in {"condition", "body"} -> LoopTypes
    [] k = "for" -> {"for"}
    [] k \in {"run", "call", "child", "binary", "eval", "source"} -> {"cmd"}
    [] OTHER -> NodeTypes \cup {"null"}

Fit == {fr \in Frame : /\ fr.n.type \in Expects(fr.k)
                       /\ fr.k = "binary" => fr.n.ends # NotFound}

Fitting ==
  /\ script \in Script
  /\ proc \in [Pid -> Proc]
  /\ frames \in [Pid -> Seq(Fit)]
  /\ glob \in [Pid -> Glob]
  /\ ran \in Seq(Tag \X Int)

-----------------------------------------------------------------------------
(***************************************************************************)
(* Sequences and records.                                                  *)
(***************************************************************************)
LEMMA OneAndTwo ==
  ASSUME NEW S, NEW a \in S, NEW b \in S
  PROVE  <<>> \in Seq(S) /\ <<a>> \in Seq(S) /\ <<a, b>> \in Seq(S)
  OBVIOUS

\* What a node has, by its type.
LEMMA NodeHas ==
  ASSUME NEW n \in Node
  PROVE  /\ n.type \in NodeTypes /\ n.redirs \in BOOLEAN
         /\ n.type \in BinaryTypes => n.left \in Tree /\ n.right \in Tree
         /\ n.type \in SingleTypes => n.child \in Tree
         /\ n.type \in LoopTypes => n.condition \in Tree /\ n.body \in Tree
         /\ n.type = "if" => n.condition \in Tree /\ n.body \in Tree /\ n.else_body \in Tree
         /\ n.type = "for" => n.expand \in BOOLEAN /\ n.words \in Nat /\ n.body \in Tree
         /\ n.type = "case" => n.expand \in BOOLEAN /\ n.body \in Tree
         /\ n.type = "func" => n.name \in FuncName /\ n.body \in Tree
  BY NodeAssumption DEF IsNodeSet, Tree

LEMMA CmdHas ==
  ASSUME NEW n \in Node, n.type = "cmd"
  PROVE  /\ n.cmd \in Builtins \cup {"ext", "empty"}
         /\ n.form \in Forms
         /\ n.n \in Int
         /\ n.tag \in Tag
         /\ n.cmd = "unset" => n.name \in FuncName
         /\ n.ends \in (0..255) \cup {NotFound, SigInt}
         /\ n.subst \in Tree
         /\ n.lines \in Seq(Line)
         /\ n.expand \in BOOLEAN
         /\ n.assign \in BOOLEAN
  BY NodeAssumption DEF IsNodeSet, Tree, Line

LEMMA TreeHasType ==
  ASSUME NEW n \in Tree
  PROVE  n.type \in NodeTypes \cup {"null"} /\ (n.type \in NodeTypes => n \in Node)
  BY NodeHas DEF Tree, Null, NodeTypes, BinaryTypes, SingleTypes, LoopTypes

LEMMA FType ==
  ASSUME NEW k \in Kinds, NEW n \in Tree, NEW nf \in BOOLEAN
  PROVE  /\ F(k, n, nf) \in Frame
         /\ F(k, n, nf).k = k /\ F(k, n, nf).n = n /\ F(k, n, nf).nf = nf
  BY DEF F, Frame

LEMMA FFits ==
  ASSUME NEW k \in Kinds, NEW n \in Tree, NEW nf \in BOOLEAN,
         n.type \in Expects(k), k # "binary"
  PROVE  F(k, n, nf) \in Fit
  BY FType DEF Fit

LEMMA ExecFits ==
  ASSUME NEW n \in Tree, NEW nf \in BOOLEAN
  PROVE  Exec(n, nf) \in Fit
<1>1. "exec" \in Kinds /\ Expects("exec") = NodeTypes \cup {"null"}
  BY DEF Kinds, Expects
<1> QED
  BY <1>1, FFits, TreeHasType DEF Exec

\* Frames without a node.
LEMMA PlainFits ==
  /\ Null \in Tree
  /\ Exit \in Fit
  /\ \A k \in {"exit", "interp", "wait", "waitall", "waitlast", "read"} :
       F(k, Null, FALSE) \in Fit
<1>1. Null \in Tree /\ Null.type = "null"
  BY DEF Tree, Null
<1>2. ASSUME NEW k \in {"exit", "interp", "wait", "waitall", "waitlast", "read"}
      PROVE  F(k, Null, FALSE) \in Fit
  <2>1. k \in Kinds /\ k # "binary" /\ Expects(k) = NodeTypes \cup {"null"}
    BY DEF Kinds, Expects
  <2> QED
    BY <1>1, <2>1, FFits
<1> QED
  BY <1>1, <1>2 DEF Exit

\* Changing the fields of a frame that do not decide whether it fits.
LEMMA FrameUpdates ==
  ASSUME NEW fr \in Fit
  PROVE  /\ \A i \in Int : [fr EXCEPT !.i = i] \in Fit
         /\ \A ps \in Seq(Pid) : [fr EXCEPT !.ps = ps] \in Fit
         /\ \A ls \in Seq(Line) : [fr EXCEPT !.ls = ls] \in Fit
         /\ \A k \in Kinds : fr.n.type \in Expects(k) /\ k # "binary" => [fr EXCEPT !.k = k] \in Fit
<1>1. \A i \in Int : [fr EXCEPT !.i = i] \in Fit
  BY DEF Fit, Frame
<1>2. \A ps \in Seq(Pid) : [fr EXCEPT !.ps = ps] \in Fit
  BY DEF Fit, Frame
<1>3. \A ls \in Seq(Line) : [fr EXCEPT !.ls = ls] \in Fit
  BY DEF Fit, Frame
<1>4. \A k \in Kinds : fr.n.type \in Expects(k) /\ k # "binary" => [fr EXCEPT !.k = k] \in Fit
  BY DEF Fit, Frame
<1> QED
  BY <1>1, <1>2, <1>3, <1>4

\* Changing the globals.
LEMMA GlobUpdates ==
  ASSUME NEW g \in Glob
  PROVE  /\ \A s \in Int : Status(g, s) \in Glob
         /\ \A d \in Int : /\ [g EXCEPT !.break_depth = d] \in Glob
                           /\ [g EXCEPT !.continue_depth = d] \in Glob
                           /\ [g EXCEPT !.loop_depth = d] \in Glob
                           /\ [g EXCEPT !.stack_depth = d] \in Glob
                           /\ [g EXCEPT !.argc = d] \in Glob
         /\ \A b \in BOOLEAN : /\ [g EXCEPT !.sigint_break = b] \in Glob
                               /\ [g EXCEPT !.return_break = b] \in Glob
                               /\ [g EXCEPT !.job_control = b] \in Glob
                               /\ [g EXCEPT !.err_exit = b] \in Glob
         /\ \A c \in Pid \cup {NoPid} : [g EXCEPT !.last_background = c] \in Glob
  BY DEF Glob, Status
-----------------------------------------------------------------------------
(***************************************************************************)
(* The shapes of a step keep the types.                                    *)
(***************************************************************************)
\* The innermost frame of a process that is at k.
LEMMA AtHas ==
  ASSUME Fitting, NEW p \in Pid, NEW k, At(p, k)
  PROVE  /\ frames[p] # <<>> /\ frames[p] \in Seq(Fit) /\ Tail(frames[p]) \in Seq(Fit)
         /\ Top(p) \in Fit /\ Top(p).k = k
         /\ Top(p).n \in Tree /\ Top(p).nf \in BOOLEAN /\ Top(p).i \in Int
         /\ Top(p).ps \in Seq(Pid) /\ Top(p).ls \in Seq(Line)
         /\ Top(p).n.type \in Expects(k)
         /\ glob[p] \in Glob /\ proc[p] \in Proc
<1>1. frames[p] # <<>> /\ frames[p] \in Seq(Fit) /\ Top(p).k = k
  BY DEF Fitting, At
<1>2. Top(p) \in Fit /\ Tail(frames[p]) \in Seq(Fit)
  BY <1>1 DEF Top
<1>3. glob[p] \in Glob /\ proc[p] \in Proc
  BY DEF Fitting
<1> QED
  BY <1>1, <1>2, <1>3 DEF Fit, Frame

LEMMA LocalKeeps ==
  ASSUME Fitting, NEW p \in Pid, frames[p] # <<>>,
         NEW fs \in Seq(Fit), NEW g \in Glob, Local(p, fs, g)
  PROVE  Fitting'
<1>1. fs \o Tail(frames[p]) \in Seq(Fit)
  BY DEF Fitting
<1>2. frames' \in [Pid -> Seq(Fit)] /\ glob' \in [Pid -> Glob]
  BY <1>1 DEF Fitting, Local
<1> QED
  BY <1>2 DEF Fitting, Local

LEMMA ForkKeeps ==
  ASSUME Fitting, NEW p \in Pid, NEW c \in Pid, frames[p] # <<>>,
         NEW fs \in Seq(Fit), NEW g \in Glob, NEW child \in Seq(Fit),
         NEW out \in Pid \cup {NoPid}, Fork(p, c, fs, g, child, out)
  PROVE  Fitting'
<1>1. Rest(p) \in Seq(Fit) /\ Len(Rest(p)) \in Nat
  BY DEF Fitting, Rest
<1>2. fs \o Rest(p) \in Seq(Fit) /\ child \o Rest(p) \in Seq(Fit)
  BY <1>1
<1>3. [glob[p] EXCEPT !.job_control = FALSE] \in Glob
  BY GlobUpdates DEF Fitting
<1>4. [state |-> "running", parent |-> p, status |-> 0, signalled |-> FALSE, out |-> out,
       base |-> Len(Rest(p))] \in Proc
  BY <1>1 DEF Proc
<1>5. frames' \in [Pid -> Seq(Fit)]
  BY <1>2 DEF Fitting, Fork
<1>6. glob' \in [Pid -> Glob]
  BY <1>3 DEF Fitting, Fork
<1>7. proc' \in [Pid -> Proc]
  BY <1>4 DEF Fitting, Fork
<1> QED
  BY <1>5, <1>6, <1>7 DEF Fitting, Fork

LEMMA DieKeeps ==
  ASSUME Fitting, NEW p \in Pid, NEW status \in 0..255, NEW signalled \in BOOLEAN,
         Die(p, status, signalled), ran' \in Seq(Tag \X Int)
  PROVE  Fitting'
<1>1. proc[p] \in Proc
  BY DEF Fitting
<1>2. proc'[p] \in Proc
  BY <1>1 DEF Fitting, Die, Proc
<1>3. proc' \in [Pid -> Proc]
  BY <1>2 DEF Fitting, Die
<1>4. frames' \in [Pid -> Seq(Fit)]
  BY DEF Fitting, Die
<1> QED
  BY <1>3, <1>4 DEF Fitting, Die

LEMMA ReportType ==
  ASSUME NEW g \in Glob, NEW c \in Pid, proc[c] \in Proc
  PROVE  Report(g, c) \in Glob
<1>1. proc[c].status \in Int
  BY DEF Proc
<1>2. Status(g, proc[c].status) \in Glob
  BY <1>1, GlobUpdates
<1>3. ASSUME NEW s \in Int, NEW b \in BOOLEAN
      PROVE  [g EXCEPT !.exit_status = s, !.sigint_break = @ \/ b] \in Glob
  <2> DEFINE h == [g EXCEPT !.exit_status = s]
  <2>1. h \in Glob /\ h.sigint_break = g.sigint_break
    BY DEF Glob
  <2>2. g.sigint_break \/ b \in BOOLEAN
    OBVIOUS
  <2> QED
    BY <2>1, <2>2, GlobUpdates
<1>4. CASE proc[c].signalled
  <2> DEFINE b == proc[c].status = 2 /\ g.job_control
  <2>1. b \in BOOLEAN /\ proc[c].status + 128 \in Int
    BY <1>1
  <2>2. Report(g, c) = [g EXCEPT !.exit_status = proc[c].status + 128, !.sigint_break = @ \/ b]
    BY <1>4 DEF Report
  <2> HIDE DEF b
  <2> QED
    BY <1>3, <2>1, <2>2
<1>5. CASE ~proc[c].signalled
  BY <1>2, <1>5 DEF Report
<1> QED
  BY <1>4, <1>5

LEMMA ReapKeeps ==
  ASSUME Fitting, NEW p \in Pid, NEW c, frames[p] # <<>>,
         NEW fs \in Seq(Fit), Reap(p, c, fs)
  PROVE  Fitting'
<1>1. c \in Pid /\ proc[c] \in Proc /\ glob[p] \in Glob
  BY DEF Reap, Children, Fitting
<1>2. fs \o Tail(frames[p]) \in Seq(Fit)
  BY DEF Fitting
<1>3. frames' \in [Pid -> Seq(Fit)]
  BY <1>2 DEF Fitting, Reap
<1>4. glob' \in [Pid -> Glob]
  BY <1>1, ReportType DEF Fitting, Reap
<1>5. [proc[c] EXCEPT !.state = "reaped"] \in Proc
  BY <1>1 DEF Proc
<1>6. proc' \in [Pid -> Proc]
  BY <1>1, <1>5 DEF Fitting, Reap
<1> QED
  BY <1>3, <1>4, <1>6 DEF Fitting, Reap

\* fork returns a pid that no process has.
LEMMA FreshIsFree ==
  ASSUME Free # {}
  PROVE  FreshPid \in Free /\ FreshPid \in Pid
  BY DEF Free, FreshPid

LEMMA WaitForFits ==
  ASSUME NEW ps \in Seq(Pid)
  PROVE  WaitFor(ps) \in Fit
  BY PlainFits, FrameUpdates DEF WaitFor

LEMMA SingleKeeps ==
  ASSUME Fitting, NEW p \in Pid, frames[p] # <<>>, NEW child \in Seq(Fit), Single(p, child)
  PROVE  Fitting'
<1>1. proc[p].out \in Pid \cup {NoPid} /\ glob[p] \in Glob
  BY DEF Fitting, Proc
<1>2. CASE Free # {}
  <2>1. FreshPid \in Pid /\ <<FreshPid>> \in Seq(Pid)
    BY <1>2, FreshIsFree
  <2>2. WaitFor(<<FreshPid>>) \in Fit
    BY <2>1, WaitForFits
  <2>3. <<WaitFor(<<FreshPid>>)>> \in Seq(Fit)
    BY <2>2, OneAndTwo
  <2> QED
    BY <1>1, <1>2, <2>1, <2>3, ForkKeeps DEF Single
<1>3. CASE Free = {}
  <2>1. <<>> \in Seq(Fit)
    OBVIOUS
  <2> QED
    BY <1>1, <1>3, <2>1, LocalKeeps DEF Single
<1> QED
  BY <1>2, <1>3
\* A step of one process that puts no, one or two frames in place of its innermost.
LEMMA LocalSteps ==
  ASSUME Fitting, NEW p \in Pid, frames[p] # <<>>, NEW g \in Glob
  PROVE  /\ Local(p, <<>>, g) => Fitting'
         /\ \A a \in Fit : Local(p, <<a>>, g) => Fitting'
         /\ \A a, b \in Fit : Local(p, <<a, b>>, g) => Fitting'
<1>1. <<>> \in Seq(Fit) /\ \A a, b \in Fit : <<a>> \in Seq(Fit) /\ <<a, b>> \in Seq(Fit)
  BY OneAndTwo
<1> QED
  BY <1>1, LocalKeeps

\* A node that execute() enters is there, and of the type of its case.
LEMMA EnteringHas ==
  ASSUME Fitting, NEW p \in Pid, NEW types, Entering(p, types)
  PROVE  /\ frames[p] # <<>> /\ glob[p] \in Glob
         /\ Top(p).n \in Node /\ Top(p).n \in Tree /\ Top(p).n.type \in types
         /\ Top(p).nf \in BOOLEAN
<1>1. At(p, "exec") /\ Top(p).n # Null /\ Top(p).n.type \in types
  BY DEF Entering, Skips
<1> QED
  BY <1>1, AtHas DEF Tree

LEMMA LoopBookkeeping ==
  ASSUME NEW g \in Glob
  PROVE  /\ LeaveLoop(g) \in Glob /\ Consume(g) \in Glob /\ LeaveLoop(Consume(g)) \in Glob
         /\ [g EXCEPT !.loop_depth = @ + 1] \in Glob
         /\ g.exit_status \in Int
<1>1. /\ g.exit_status \in Int /\ g.loop_depth + 1 \in Int
      /\ g.break_depth \in Int /\ g.continue_depth \in Int
  BY DEF Glob
<1>2. Consume(g) \in Glob
  <2> DEFINE b == IF g.break_depth > 0 THEN g.break_depth - 1 ELSE g.break_depth
             c == IF g.break_depth <= 0 /\ g.continue_depth > 0
                  THEN g.continue_depth - 1 ELSE g.continue_depth
             h == [g EXCEPT !.break_depth = b]
  <2>1. b \in Int /\ c \in Int
    BY <1>1
  <2>2. h \in Glob /\ h.continue_depth = g.continue_depth
    <3> HIDE DEF b
    <3> QED
      BY <2>1 DEF Glob
  <2>3. Consume(g) = [h EXCEPT !.continue_depth = c]
    BY DEF Consume
  <2> HIDE DEF b, c, h
  <2> QED
    BY <2>1, <2>2, <2>3, GlobUpdates
<1>3. \A h \in Glob : LeaveLoop(h) \in Glob
  <2> TAKE h \in Glob
  <2>1. h.loop_depth - 1 \in Int
    BY DEF Glob
  <2> QED
    BY <2>1, GlobUpdates DEF LeaveLoop
<1> QED
  BY <1>1, <1>2, <1>3, GlobUpdates

LEMMA FramesFit ==
  ASSUME NEW n \in Node, NEW nf \in BOOLEAN
  PROVE  /\ n.type \in {"sep", "and", "or"} => F("left", n, nf) \in Fit
         /\ n.type = "if" => F("if", n, nf) \in Fit
         /\ n.type \in LoopTypes => F("condition", n, nf) \in Fit
         /\ n.type = "for" => F("for", n, nf) \in Fit
         /\ n.type = "cmd" => /\ F("run", n, nf) \in Fit
                              /\ F("call", n, nf) \in Fit
                              /\ F("child", n, nf) \in Fit
                              /\ F("eval", n, nf) \in Fit
                              /\ F("source", n, nf) \in Fit
         /\ F("negate", n, nf) \in Fit
         /\ F("pipe", n, nf) \in Fit
         /\ F("func", n, nf) \in Fit
<1>1. n \in Tree /\ n.type \in NodeTypes
  BY NodeHas DEF Tree
<1>2. /\ {"left", "if", "condition", "for", "run", "call", "child", "eval", "source",
          "negate", "pipe", "func"} \subseteq Kinds
      /\ Expects("left") = {"sep", "and", "or"} /\ Expects("if") = {"if"}
      /\ Expects("condition") = LoopTypes /\ Expects("for") = {"for"}
      /\ Expects("run") = {"cmd"} /\ Expects("call") = {"cmd"} /\ Expects("child") = {"cmd"}
      /\ Expects("eval") = {"cmd"} /\ Expects("source") = {"cmd"}
      /\ Expects("negate") = NodeTypes \cup {"null"} /\ Expects("pipe") = NodeTypes \cup {"null"}
      /\ Expects("func") = NodeTypes \cup {"null"}
  BY DEF Kinds, Expects
<1> QED
  BY <1>1, <1>2, FFits
-----------------------------------------------------------------------------
(***************************************************************************)
(* Compound commands.                                                      *)
(***************************************************************************)
LEMMA SkipKeeps ==
  ASSUME Fitting, NEW p \in Pid, Skip(p) \/ RedirsFail(p)
  PROVE  Fitting'
<1>1. At(p, "exec") /\ (Local(p, <<>>, glob[p]) \/ Local(p, <<>>, Status(glob[p], 1)))
  BY DEF Skip, RedirsFail
<1> QED
  BY <1>1, AtHas, LocalSteps, GlobUpdates

LEMMA BinaryKeeps ==
  ASSUME Fitting, NEW p \in Pid, ExecBinary(p) \/ AfterLeft(p)
  PROVE  Fitting'
<1>1. CASE ExecBinary(p)
  <2>1. Entering(p, {"sep", "and", "or"})
    BY <1>1 DEF ExecBinary
  <2>2. /\ frames[p] # <<>> /\ glob[p] \in Glob /\ Top(p).n \in Node /\ Top(p).nf \in BOOLEAN
        /\ Top(p).n.type \in {"sep", "and", "or"}
    BY <2>1, EnteringHas
  <2>3. Top(p).n.left \in Tree
    BY <2>2, NodeHas DEF BinaryTypes
  <2>4. Exec(Top(p).n.left, FALSE) \in Fit /\ F("left", Top(p).n, Top(p).nf) \in Fit
    BY <2>2, <2>3, ExecFits, FramesFit
  <2> QED
    BY <1>1, <2>2, <2>4, LocalSteps DEF ExecBinary
<1>2. CASE AfterLeft(p)
  <2>1. /\ frames[p] # <<>> /\ glob[p] \in Glob /\ Top(p).nf \in BOOLEAN
        /\ Top(p).n \in Tree /\ Top(p).n.type \in {"sep", "and", "or"}
    BY <1>2, AtHas DEF AfterLeft, Expects
  <2>2. Top(p).n.right \in Tree
    BY <2>1, TreeHasType, NodeHas DEF BinaryTypes, NodeTypes
  <2>3. Exec(Top(p).n.right, Top(p).nf) \in Fit
    BY <2>1, <2>2, ExecFits
  <2> QED
    BY <1>2, <2>1, <2>3, LocalSteps DEF AfterLeft
<1> QED
  BY <1>1, <1>2

LEMMA IfKeeps ==
  ASSUME Fitting, NEW p \in Pid, ExecIf(p) \/ AfterIf(p)
  PROVE  Fitting'
<1>1. CASE ExecIf(p)
  <2>1. /\ frames[p] # <<>> /\ glob[p] \in Glob /\ Top(p).n \in Node /\ Top(p).nf \in BOOLEAN
        /\ Top(p).n.type = "if"
    BY <1>1, EnteringHas DEF ExecIf
  <2>2. Exec(Top(p).n.condition, FALSE) \in Fit /\ F("if", Top(p).n, Top(p).nf) \in Fit
    BY <2>1, NodeHas, ExecFits, FramesFit
  <2>3. Status(glob[p], 0) \in Glob
    BY <2>1, GlobUpdates
  <2> QED
    BY <1>1, <2>1, <2>2, <2>3, LocalSteps DEF ExecIf
<1>2. CASE AfterIf(p)
  <2>1. /\ frames[p] # <<>> /\ glob[p] \in Glob /\ Top(p).nf \in BOOLEAN
        /\ Top(p).n \in Tree /\ Top(p).n.type = "if"
    BY <1>2, AtHas DEF AfterIf, Expects
  <2>2. Top(p).n.body \in Tree /\ Top(p).n.else_body \in Tree
    BY <2>1, TreeHasType, NodeHas DEF NodeTypes
  <2>3. Status(glob[p], 0) \in Glob
    BY <2>1, GlobUpdates
  <2>4. PICK taken \in Tree : Local(p, <<Exec(taken, Top(p).nf)>>, Status(glob[p], 0))
    BY <1>2, <2>2 DEF AfterIf
  <2>5. Exec(taken, Top(p).nf) \in Fit
    BY <2>1, ExecFits
  <2> QED
    BY <2>1, <2>3, <2>4, <2>5, LocalSteps
<1> QED
  BY <1>1, <1>2
\* The head of while and until.
LEMMA ConditionKeeps ==
  ASSUME Fitting, NEW p \in Pid, frames[p] # <<>>, NEW fr \in Fit, NEW g \in Glob,
         fr.n.type \in LoopTypes, Condition(p, fr, g)
  PROVE  Fitting'
<1>1. fr.n \in Tree
  BY DEF Fit, Frame
<1>2. fr.n.condition \in Tree
  BY <1>1, TreeHasType, NodeHas DEF LoopTypes, NodeTypes
<1>3. "condition" \in Kinds /\ Expects("condition") = LoopTypes
  BY DEF Kinds, Expects
<1>4. Exec(fr.n.condition, FALSE) \in Fit /\ [fr EXCEPT !.k = "condition"] \in Fit
  BY <1>2, <1>3, ExecFits, FrameUpdates
<1>5. Status(g, 0) \in Glob
  BY GlobUpdates
<1> QED
  BY <1>4, <1>5, LocalSteps DEF Condition

LEMMA LoopKeeps ==
  ASSUME Fitting, NEW p \in Pid, ExecLoop(p) \/ AfterCondition(p) \/ AfterBody(p)
  PROVE  Fitting'
<1>1. CASE ExecLoop(p)
  <2>1. /\ frames[p] # <<>> /\ glob[p] \in Glob /\ Top(p).n \in Node /\ Top(p).nf \in BOOLEAN
        /\ Top(p).n \in Tree /\ Top(p).n.type \in LoopTypes
    BY <1>1, EnteringHas DEF ExecLoop
  <2>2. F("condition", Top(p).n, Top(p).nf) \in Fit
    BY <2>1, FramesFit
  <2>3. "condition" \in Kinds /\ F("condition", Top(p).n, Top(p).nf).n = Top(p).n
    BY <2>1, FType DEF Kinds
  <2>4. [glob[p] EXCEPT !.loop_depth = @ + 1] \in Glob
    BY <2>1, LoopBookkeeping
  <2> QED
    BY <1>1, <2>1, <2>2, <2>3, <2>4, ConditionKeeps DEF ExecLoop
<1>2. CASE AfterCondition(p)
  <2>1. /\ frames[p] # <<>> /\ glob[p] \in Glob /\ Top(p) \in Fit /\ Top(p).i \in Int
        /\ Top(p).n \in Tree /\ Top(p).n.type \in LoopTypes
    BY <1>2, AtHas DEF AfterCondition, Expects
  <2>2. Top(p).n.body \in Tree
    BY <2>1, TreeHasType, NodeHas DEF LoopTypes, NodeTypes
  <2>3. "body" \in Kinds /\ Expects("body") = LoopTypes
    BY DEF Kinds, Expects
  <2>4. Exec(Top(p).n.body, FALSE) \in Fit /\ [Top(p) EXCEPT !.k = "body"] \in Fit
    BY <2>1, <2>2, <2>3, ExecFits, FrameUpdates
  <2>5. /\ Status(LeaveLoop(glob[p]), Top(p).i) \in Glob
        /\ Status(LeaveLoop(Consume(glob[p])), Top(p).i) \in Glob
        /\ Consume(glob[p]) \in Glob
    BY <2>1, LoopBookkeeping, GlobUpdates
  <2>6. \/ Local(p, <<>>, Status(LeaveLoop(glob[p]), Top(p).i))
        \/ Local(p, <<>>, Status(LeaveLoop(Consume(glob[p])), Top(p).i))
        \/ Condition(p, Top(p), Consume(glob[p]))
        \/ Local(p, <<Exec(Top(p).n.body, FALSE), [Top(p) EXCEPT !.k = "body"]>>, glob[p])
    BY <1>2 DEF AfterCondition
  <2> QED
    BY <2>1, <2>4, <2>5, <2>6, LocalSteps, ConditionKeeps
<1>3. CASE AfterBody(p)
  <2>1. /\ frames[p] # <<>> /\ glob[p] \in Glob /\ Top(p) \in Fit
        /\ Top(p).n.type \in LoopTypes
    BY <1>3, AtHas DEF AfterBody, Expects
  <2> DEFINE fr == [Top(p) EXCEPT !.i = glob[p].exit_status]
  <2>2. fr \in Fit /\ fr.n = Top(p).n
    BY <2>1, LoopBookkeeping, FrameUpdates DEF Fit, Frame
  <2>3. Local(p, <<>>, LeaveLoop(Consume(glob[p]))) \/ Condition(p, fr, Consume(glob[p]))
    BY <1>3 DEF AfterBody
  <2> HIDE DEF fr
  <2> QED
    BY <2>1, <2>2, <2>3, LoopBookkeeping, LocalSteps, ConditionKeeps
<1> QED
  BY <1>1, <1>2, <1>3

LEMMA WordKeeps ==
  ASSUME Fitting, NEW p \in Pid, frames[p] # <<>>, NEW fr \in Fit, NEW g \in Glob,
         fr.n.type = "for", ForWord(p, fr, g)
  PROVE  Fitting'
<1>1. fr.n \in Tree /\ fr.nf \in BOOLEAN
  BY DEF Fit, Frame
<1>2. fr.n.body \in Tree
  BY <1>1, TreeHasType, NodeHas DEF NodeTypes
<1>3. PICK nf \in BOOLEAN : Local(p, <<Exec(fr.n.body, nf), fr>>, g)
  BY <1>1 DEF ForWord
<1>4. Exec(fr.n.body, nf) \in Fit
  BY <1>2, ExecFits
<1> QED
  BY <1>3, <1>4, LocalSteps

LEMMA ForKeeps ==
  ASSUME Fitting, NEW p \in Pid, ExecFor(p) \/ AfterForBody(p)
  PROVE  Fitting'
<1>1. CASE ExecFor(p)
  <2>1. /\ frames[p] # <<>> /\ glob[p] \in Glob /\ Top(p).n \in Node /\ Top(p).nf \in BOOLEAN
        /\ Top(p).n \in Tree /\ Top(p).n.type = "for"
    BY <1>1, EnteringHas DEF ExecFor
  <2> DEFINE f == F("for", Top(p).n, Top(p).nf)
             fr == [f EXCEPT !.i = 1]
             g == [glob[p] EXCEPT !.loop_depth = @ + 1]
  <2>2. f \in Fit /\ f.n = Top(p).n
    BY <2>1, FramesFit, FType DEF Kinds
  <2>3. fr \in Fit /\ fr.n = Top(p).n
    <3> HIDE DEF f
    <3> QED
      BY <2>2, FrameUpdates DEF Fit, Frame
  <2>4. Status(g, 0) \in Glob /\ Status(glob[p], 0) \in Glob /\ Status(glob[p], 1) \in Glob
    BY <2>1, LoopBookkeeping, GlobUpdates
  <2>5. \/ Local(p, <<>>, Status(glob[p], 0)) \/ Local(p, <<>>, Status(glob[p], 1))
        \/ ForWord(p, fr, Status(g, 0))
    BY <1>1 DEF ExecFor
  <2> HIDE DEF f, fr, g
  <2> QED
    BY <2>1, <2>3, <2>4, <2>5, LocalSteps, WordKeeps
<1>2. CASE AfterForBody(p)
  <2>1. /\ frames[p] # <<>> /\ glob[p] \in Glob /\ Top(p) \in Fit
        /\ Top(p).n.type = "for" /\ Top(p).i + 1 \in Int
    BY <1>2, AtHas DEF AfterForBody, Expects
  <2> DEFINE fr == [Top(p) EXCEPT !.i = @ + 1]
  <2>2. fr \in Fit /\ fr.n = Top(p).n
    BY <2>1, FrameUpdates DEF Fit, Frame
  <2>3. \/ Local(p, <<>>, LeaveLoop(Consume(glob[p])))
        \/ ForWord(p, fr, Consume(glob[p]))
    BY <1>2 DEF AfterForBody
  <2> HIDE DEF fr
  <2> QED
    BY <2>1, <2>2, <2>3, LoopBookkeeping, LocalSteps, WordKeeps
<1> QED
  BY <1>1, <1>2

LEMMA CaseKeeps ==
  ASSUME Fitting, NEW p \in Pid, ExecCase(p)
  PROVE  Fitting'
<1>1. /\ frames[p] # <<>> /\ glob[p] \in Glob /\ Top(p).n \in Node /\ Top(p).nf \in BOOLEAN
      /\ Top(p).n.type = "case"
  BY EnteringHas DEF ExecCase
<1>2. Exec(Top(p).n.body, Top(p).nf) \in Fit
  BY <1>1, NodeHas, ExecFits
<1>3. Status(glob[p], 0) \in Glob /\ Status(glob[p], 1) \in Glob
  BY <1>1, GlobUpdates
<1> QED
  BY <1>1, <1>2, <1>3, LocalSteps DEF ExecCase

LEMMA SingleNodeKeeps ==
  ASSUME Fitting, NEW p \in Pid,
         ExecNegate(p) \/ AfterNegate(p) \/ ExecGroup(p) \/ ExecSubshell(p) \/ ExecAsync(p)
  PROVE  Fitting'
<1>1. CASE AfterNegate(p)
  <2>1. frames[p] # <<>> /\ glob[p] \in Glob
    BY <1>1, AtHas DEF AfterNegate
  <2>2. Status(glob[p], 0) \in Glob /\ Status(glob[p], 1) \in Glob
    BY <2>1, GlobUpdates
  <2>3. Local(p, <<>>, Status(glob[p], 0)) \/ Local(p, <<>>, Status(glob[p], 1))
    BY <1>1 DEF AfterNegate
  <2> QED
    BY <2>1, <2>2, <2>3, LocalSteps
<1>2. CASE ExecNegate(p) \/ ExecGroup(p) \/ ExecSubshell(p) \/ ExecAsync(p)
  <2>1. PICK type \in SingleTypes : Entering(p, {type})
    BY <1>2 DEF ExecNegate, ExecGroup, ExecSubshell, ExecAsync, SingleTypes
  <2>2. /\ frames[p] # <<>> /\ glob[p] \in Glob /\ Top(p).n \in Node /\ Top(p).nf \in BOOLEAN
        /\ Top(p).n.type \in SingleTypes
    BY <2>1, EnteringHas
  <2>3. /\ Exec(Top(p).n.child, Top(p).nf) \in Fit
        /\ Exec(Top(p).n.child, FALSE) \in Fit
        /\ Exec(Top(p).n.child, TRUE) \in Fit
        /\ Exit \in Fit
        /\ F("negate", Top(p).n, Top(p).nf) \in Fit
    BY <2>2, NodeHas, ExecFits, FramesFit, PlainFits
  <2>4. <<Exec(Top(p).n.child, TRUE), Exit>> \in Seq(Fit) /\ <<>> \in Seq(Fit)
    BY <2>3, OneAndTwo
  <2>5. CASE ExecNegate(p) \/ ExecGroup(p)
    BY <2>2, <2>3, <2>5, LocalSteps DEF ExecNegate, ExecGroup
  <2>6. CASE ExecSubshell(p)
    BY <2>2, <2>3, <2>4, <2>6, LocalSteps, SingleKeeps DEF ExecSubshell
  <2>7. CASE ExecAsync(p)
    <3>1. proc[p].out \in Pid \cup {NoPid}
      BY DEF Fitting, Proc
    <3>2. CASE Free # {}
      <4>1. FreshPid \in Pid
        BY <3>2, FreshIsFree
      <4>2. [glob[p] EXCEPT !.last_background = FreshPid] \in Glob
        BY <2>2, <4>1, GlobUpdates
      <4> QED
        BY <2>2, <2>4, <2>7, <3>1, <3>2, <4>1, <4>2, ForkKeeps DEF ExecAsync
    <3>3. CASE Free = {}
      <4>1. [glob[p] EXCEPT !.last_background = NoPid] \in Glob
        BY <2>2, GlobUpdates
      <4> QED
        BY <2>2, <2>7, <3>3, <4>1, LocalSteps DEF ExecAsync
    <3> QED
      BY <3>2, <3>3
  <2> QED
    BY <1>2, <2>5, <2>6, <2>7
<1> QED
  BY <1>1, <1>2
LEMMA FuncKeeps ==
  ASSUME Fitting, NEW p \in Pid, ExecFunc(p)
  PROVE  Fitting'
<1>1. /\ frames[p] # <<>> /\ glob[p] \in Glob /\ Top(p).n \in Node /\ Top(p).n.type = "func"
  BY EnteringHas DEF ExecFunc
<1>2. Top(p).n.name \in FuncName /\ Top(p).n.body \in Tree
  BY <1>1, NodeHas
<1>3. PICK body \in Tree :
        Local(p, <<>>, [glob[p] EXCEPT !.funcs[Top(p).n.name] = body,
                                       !.stolen = @ \cup {Top(p).n}])
  BY <1>2, PlainFits DEF ExecFunc
<1> DEFINE n == Top(p).n
           g == [glob[p] EXCEPT !.funcs[n.name] = body]
<1>4. g \in Glob /\ g.stolen = glob[p].stolen
  <2>1. [glob[p].funcs EXCEPT ![n.name] = body] \in [FuncName -> Node \cup {Null, NoFunc}]
    BY <1>1, <1>2 DEF Glob, Tree
  <2>2. g = [glob[p] EXCEPT !.funcs = [glob[p].funcs EXCEPT ![n.name] = body]]
    BY DEF Glob
  <2> QED
    BY <1>1, <2>1, <2>2 DEF Glob
<1>5. [g EXCEPT !.stolen = @ \cup {n}] \in Glob
  <2> HIDE DEF g
  <2> QED
    BY <1>1, <1>4 DEF Glob
<1>6. [glob[p] EXCEPT !.funcs[n.name] = body, !.stolen = @ \cup {n}]
        = [g EXCEPT !.stolen = @ \cup {n}]
  BY DEF Glob
<1> QED
  BY <1>1, <1>3, <1>5, <1>6, LocalSteps

\* A turn of the loop of execute_pipe.
LEMMA PipeKeeps ==
  ASSUME Fitting, NEW p \in Pid, ExecPipe(p) \/ PipeStage(p)
  PROVE  Fitting'
<1>1. CASE ExecPipe(p)
  <2>1. /\ frames[p] # <<>> /\ glob[p] \in Glob /\ Top(p).n \in Node /\ Top(p).nf \in BOOLEAN
    BY <1>1, EnteringHas DEF ExecPipe
  <2>2. F("pipe", Top(p).n, Top(p).nf) \in Fit
    BY <2>1, FramesFit
  <2> QED
    BY <1>1, <2>1, <2>2, LocalSteps DEF ExecPipe
<1>2. CASE PipeStage(p)
  <2> DEFINE fr == Top(p)
             last == fr.n.type # "pipe"
             child == <<Exec(IF last THEN fr.n ELSE fr.n.left, TRUE), Exit>>
             next(ps) == IF last THEN <<WaitFor(ps)>>
                         ELSE <<[fr EXCEPT !.n = fr.n.right, !.ps = ps]>>
  <2>1. /\ frames[p] # <<>> /\ glob[p] \in Glob /\ fr \in Fit /\ fr.k = "pipe"
        /\ fr.n \in Tree /\ fr.ps \in Seq(Pid)
    BY <1>2, AtHas DEF PipeStage
  <2>2. ~last => fr.n.left \in Tree /\ fr.n.right \in Tree
    BY <2>1, TreeHasType, NodeHas DEF BinaryTypes, NodeTypes
  <2>3. Exec(IF last THEN fr.n ELSE fr.n.left, TRUE) \in Fit
    BY <2>1, <2>2, ExecFits
  <2>4. child \in Seq(Fit)
    BY <2>3, PlainFits, OneAndTwo
  <2>5. ASSUME NEW n \in Tree, NEW ps \in Seq(Pid)
        PROVE  [fr EXCEPT !.n = n, !.ps = ps] \in Fit
    <3> DEFINE g == [fr EXCEPT !.n = n]
    <3>1. Expects("pipe") = NodeTypes \cup {"null"} /\ n.type \in NodeTypes \cup {"null"}
      BY TreeHasType DEF Expects
    <3>2. g \in Fit
      BY <2>1, <3>1 DEF Fit, Frame
    <3>3. [fr EXCEPT !.n = n, !.ps = ps] = [g EXCEPT !.ps = ps]
      BY Zenon
    <3> HIDE DEF g
    <3> QED
      BY <3>2, <3>3, FrameUpdates
  <2>6. ASSUME NEW ps \in Seq(Pid) PROVE next(ps) \in Seq(Fit)
    <3>1. WaitFor(ps) \in Fit
      BY WaitForFits
    <3>2. CASE last
      BY <3>1, <3>2, OneAndTwo
    <3>3. CASE ~last
      <4>1. [fr EXCEPT !.n = fr.n.right, !.ps = ps] \in Fit
        BY <2>2, <2>5, <3>3
      <4> QED
        BY <3>3, <4>1, OneAndTwo
    <3> QED
      BY <3>2, <3>3
  <2>7. (IF last THEN proc[p].out ELSE NoPid) \in Pid \cup {NoPid}
    BY DEF Fitting, Proc
  <2>8. \/ /\ Free # {}
           /\ Fork(p, FreshPid, next(Append(fr.ps, FreshPid)), glob[p], child,
                   IF last THEN proc[p].out ELSE NoPid)
        \/ Local(p, next(fr.ps), glob[p])
    BY <1>2 DEF PipeStage
  <2>9. CASE Local(p, next(fr.ps), glob[p])
    <3>1. next(fr.ps) \in Seq(Fit)
      BY <2>1, <2>6
    <3> HIDE DEF next, child, last, fr
    <3> QED
      BY <2>1, <2>9, <3>1, LocalKeeps
  <2>10. CASE /\ Free # {}
              /\ Fork(p, FreshPid, next(Append(fr.ps, FreshPid)), glob[p], child,
                      IF last THEN proc[p].out ELSE NoPid)
    <3>1. FreshPid \in Pid
      BY <2>10, FreshIsFree
    <3>2. Append(fr.ps, FreshPid) \in Seq(Pid)
      BY <2>1, <3>1
    <3>3. next(Append(fr.ps, FreshPid)) \in Seq(Fit)
      BY <2>6, <3>2
    <3> HIDE DEF next, child, last, fr
    <3> QED
      BY <2>1, <2>4, <2>7, <2>10, <3>1, <3>3, ForkKeeps
  <2> QED
    BY <2>8, <2>9, <2>10
<1> QED
  BY <1>1, <1>2

LEMMA CompoundKeeps ==
  ASSUME Fitting, NEW p \in Pid, Compound(p)
  PROVE  Fitting'
  BY SkipKeeps, BinaryKeeps, IfKeeps, LoopKeeps, ForKeeps, CaseKeeps, SingleNodeKeeps,
     FuncKeeps, PipeKeeps DEF Compound
-----------------------------------------------------------------------------
(***************************************************************************)
(* Simple commands.                                                        *)
(***************************************************************************)
\* The updates of several globals at once.
LEMMA GlobPairs ==
  ASSUME NEW g \in Glob, NEW d \in Int, NEW i \in Int, NEW b \in BOOLEAN
  PROVE  /\ [g EXCEPT !.stack_depth = d, !.argc = i] \in Glob
         /\ [g EXCEPT !.return_break = b, !.exit_status = i] \in Glob
         /\ [g EXCEPT !.stack_depth = d, !.return_break = b, !.argc = i] \in Glob
<1> DEFINE h == [g EXCEPT !.stack_depth = d]
           j == [g EXCEPT !.return_break = b]
           k == [h EXCEPT !.return_break = b]
<1>1. h \in Glob /\ j \in Glob
  BY GlobUpdates
<1>2. k \in Glob
  <2> HIDE DEF h
  <2> QED
    BY <1>1, GlobUpdates
<1>3. /\ [g EXCEPT !.stack_depth = d, !.argc = i] = [h EXCEPT !.argc = i]
      /\ [g EXCEPT !.return_break = b, !.exit_status = i] = Status(j, i)
      /\ [g EXCEPT !.stack_depth = d, !.return_break = b, !.argc = i] = [k EXCEPT !.argc = i]
  BY Zenon DEF Status
<1>4. [h EXCEPT !.argc = i] \in Glob /\ Status(j, i) \in Glob /\ [k EXCEPT !.argc = i] \in Glob
  <2> HIDE DEF h, j, k
  <2> QED
    BY <1>1, <1>2, GlobUpdates
<1> HIDE DEF h, j, k
<1> QED
  BY <1>3, <1>4, Zenon

\* A simple command of the innermost frame.
LEMMA CmdFrame ==
  ASSUME Fitting, NEW p \in Pid, NEW k \in {"run", "call", "child", "binary"}, At(p, k)
  PROVE  /\ frames[p] # <<>> /\ glob[p] \in Glob /\ Top(p) \in Fit
         /\ Top(p).n \in Node /\ Top(p).n.type = "cmd" /\ Top(p).nf \in BOOLEAN
<1>1. Expects(k) = {"cmd"}
  BY DEF Expects
<1>2. Top(p).n \in Tree /\ Top(p).n.type = "cmd"
  BY <1>1, AtHas
<1> QED
  BY <1>2, AtHas, TreeHasType DEF NodeTypes

LEMMA ExecCmdKeeps ==
  ASSUME Fitting, NEW p \in Pid, ExecCmd(p) \/ ReadEof(p)
  PROVE  Fitting'
<1>1. CASE ExecCmd(p)
  <2>1. /\ frames[p] # <<>> /\ glob[p] \in Glob /\ Top(p).n \in Node /\ Top(p).nf \in BOOLEAN
        /\ Top(p).n.type = "cmd"
    BY <1>1, EnteringHas DEF ExecCmd
  <2> DEFINE run == F("run", Top(p).n, Top(p).nf)
  <2>2. run \in Fit /\ Top(p).n.subst \in Tree
    BY <2>1, FramesFit, CmdHas
  <2>3. <<Exec(Top(p).n.subst, TRUE), Exit>> \in Seq(Fit)
    BY <2>2, ExecFits, PlainFits, OneAndTwo
  <2>4. \/ Local(p, <<run>>, glob[p])
        \/ /\ Free # {}
           /\ Fork(p, FreshPid, <<Read(FreshPid), run>>, glob[p],
                   <<Exec(Top(p).n.subst, TRUE), Exit>>, FreshPid)
    BY <1>1 DEF ExecCmd
  <2> HIDE DEF run
  <2>5. CASE Free # {}
    <3>1. FreshPid \in Pid /\ <<FreshPid>> \in Seq(Pid)
      BY <2>5, FreshIsFree
    <3>2. Read(FreshPid) \in Fit
      BY <3>1, PlainFits, FrameUpdates DEF Read
    <3>3. <<Read(FreshPid), run>> \in Seq(Fit)
      BY <2>2, <3>2, OneAndTwo
    <3> QED
      BY <2>1, <2>2, <2>3, <2>4, <3>1, <3>3, LocalSteps, ForkKeeps
  <2> QED
    BY <2>1, <2>2, <2>4, <2>5, LocalSteps
<1>2. CASE ReadEof(p)
  <2>1. frames[p] # <<>> /\ glob[p] \in Glob /\ Top(p).ps \in Seq(Pid)
    BY <1>2, AtHas DEF ReadEof
  <2> QED
    BY <1>2, <2>1, WaitForFits, LocalSteps DEF ReadEof
<1> QED
  BY <1>1, <1>2

LEMMA JumpType ==
  ASSUME NEW g \in Glob, NEW n \in Node, n.type = "cmd"
  PROVE  BuiltinBreak(g, n) \in Glob /\ BuiltinContinue(g, n) \in Glob
<1>1. n.n \in Int /\ g.loop_depth \in Int
  BY CmdHas DEF Glob
<1>2. Clamp(n.n, g.loop_depth) \in Int
  BY <1>1 DEF Clamp
<1>3. \A d, s \in Int : /\ Status([g EXCEPT !.break_depth = d], s) \in Glob
                        /\ Status([g EXCEPT !.continue_depth = d], s) \in Glob
                        /\ Status(g, s) \in Glob
  <2> TAKE d, s \in Int
  <2>1. [g EXCEPT !.break_depth = d] \in Glob /\ [g EXCEPT !.continue_depth = d] \in Glob
    BY GlobUpdates
  <2> QED
    BY <2>1, GlobUpdates
<1>4. BuiltinBreak(g, n) \in Glob
  <2>1. \E d, s \in Int : BuiltinBreak(g, n) \in {Status(g, s), Status([g EXCEPT !.break_depth = d], s)}
    BY <1>1, <1>2 DEF BuiltinBreak
  <2> QED
    BY <1>3, <2>1
<1>5. BuiltinContinue(g, n) \in Glob
  <2>1. \E d, s \in Int :
          BuiltinContinue(g, n) \in {Status(g, s), Status([g EXCEPT !.continue_depth = d], s)}
    BY <1>1, <1>2 DEF BuiltinContinue
  <2> QED
    BY <1>3, <2>1
<1> QED
  BY <1>4, <1>5

LEMMA ReturnType ==
  ASSUME NEW g \in Glob, NEW n \in Node, n.type = "cmd"
  PROVE  BuiltinReturn(g, n) \in Glob
<1>1. n.n \in Int
  BY CmdHas
<1>2. Status(g, 1) \in Glob /\ [g EXCEPT !.return_break = TRUE] \in Glob
  <2>1. Status(g, 1) \in Glob
    BY GlobUpdates
  <2>2. [g EXCEPT !.return_break = TRUE] \in Glob
    BY GlobUpdates, Zenon
  <2> QED
    BY <2>1, <2>2
<1>3. [g EXCEPT !.return_break = TRUE, !.exit_status = n.n] \in Glob
  BY <1>1, GlobPairs, Zenon
<1>4. BuiltinReturn(g, n) \in {Status(g, 1), [g EXCEPT !.return_break = TRUE],
                              [g EXCEPT !.return_break = TRUE, !.exit_status = n.n]}
  BY Zenon DEF BuiltinReturn
<1> QED
  BY <1>2, <1>3, <1>4, Zenon

LEMMA ShiftType ==
  ASSUME NEW g \in Glob, NEW n \in Node, n.type = "cmd"
  PROVE  BuiltinShift(g, n) \in Glob
<1> DEFINE amount == IF n.form = "none" THEN 1 ELSE n.n
<1>1. amount \in Int /\ g.argc \in Int
  BY CmdHas DEF Glob
<1>2. \A d, s \in Int : Status([g EXCEPT !.argc = d], s) \in Glob /\ Status(g, s) \in Glob
  <2> TAKE d, s \in Int
  <2>1. [g EXCEPT !.argc = d] \in Glob
    BY GlobUpdates
  <2> QED
    BY <2>1, GlobUpdates
<1>3. g.argc - amount \in Int
  BY <1>1
<1>4. /\ Status(g, 1) \in Glob
      /\ Status([g EXCEPT !.argc = 0], 1) \in Glob
      /\ Status([g EXCEPT !.argc = @ - amount], 0) \in Glob
  BY <1>2, <1>3
<1>5. \/ BuiltinShift(g, n) = Status(g, 1)
      \/ BuiltinShift(g, n) = Status([g EXCEPT !.argc = 0], 1)
      \/ BuiltinShift(g, n) = Status([g EXCEPT !.argc = @ - amount], 0)
  BY DEF BuiltinShift
<1> QED
  BY <1>4, <1>5

LEMMA BuiltinType ==
  ASSUME NEW g \in Glob, NEW n \in Node, n.type = "cmd",
         n.cmd \in {"true", "false", "break", "continue", "return", "shift", "unset", "sete"}
  PROVE  Builtin(g, n) \in Glob /\ Builtin(g, n).exit_status \in Int
<1> SUFFICES Builtin(g, n) \in Glob
  BY DEF Glob
<1>1. CASE n.cmd \in {"true", "false"}
  BY <1>1, GlobUpdates DEF Builtin
<1>2. CASE n.cmd \in {"break", "continue"}
  BY <1>2, JumpType DEF Builtin
<1>3. CASE n.cmd = "return"
  BY <1>3, ReturnType DEF Builtin
<1>4. CASE n.cmd = "shift"
  BY <1>4, ShiftType DEF Builtin
<1>5. CASE n.cmd = "unset"
  <2> DEFINE h == [g EXCEPT !.funcs[n.name] = NoFunc]
  <2>1. n.name \in FuncName
    BY <1>5, CmdHas
  <2>2. [g.funcs EXCEPT ![n.name] = NoFunc] \in [FuncName -> Node \cup {Null, NoFunc}]
    BY <2>1 DEF Glob
  <2>3. h \in Glob
    BY <2>2 DEF Glob
  <2>4. Builtin(g, n) = Status(h, 0)
    BY <1>5 DEF Builtin, BuiltinUnset
  <2> HIDE DEF h
  <2> QED
    BY <2>3, <2>4, GlobUpdates
<1>6. CASE n.cmd = "sete"
  <2>1. [g EXCEPT !.err_exit = TRUE] \in Glob
    BY GlobUpdates
  <2> QED
    BY <1>6, <2>1, GlobUpdates DEF Builtin
<1> QED
  BY <1>1, <1>2, <1>3, <1>4, <1>5, <1>6
\* A builtin, or the next stage of execute_cmd when there is none of that name.
LEMMA RunBuiltinKeeps ==
  ASSUME Fitting, NEW p \in Pid,
         ExpansionFails(p) \/ RunEmpty(p) \/ RunBuiltin(p) \/ RunOther(p)
  PROVE  Fitting'
<1>1. At(p, "run")
  BY DEF ExpansionFails, RunEmpty, RunBuiltin, RunOther, Runs
<1>2. /\ frames[p] # <<>> /\ glob[p] \in Glob /\ Top(p) \in Fit
      /\ Top(p).n \in Node /\ Top(p).n.type = "cmd"
  BY <1>1, CmdFrame
<1>3. [Top(p) EXCEPT !.k = "call"] \in Fit
  <2>1. "call" \in Kinds /\ Expects("call") = {"cmd"} /\ "call" # "binary"
    BY DEF Kinds, Expects
  <2> QED
    BY <1>2, <2>1, FrameUpdates
<1>4. Status(glob[p], 0) \in Glob /\ Status(glob[p], 1) \in Glob
  BY <1>2, GlobUpdates
<1>5. CASE ExpansionFails(p) \/ RunEmpty(p)
  <2>1. Local(p, <<>>, Status(glob[p], 0)) \/ Local(p, <<>>, Status(glob[p], 1))
    BY <1>5 DEF ExpansionFails, RunEmpty
  <2> QED
    BY <1>2, <1>4, <2>1, LocalSteps
<1>6. CASE RunBuiltin(p)
  <2>1. Builtin(glob[p], Top(p).n) \in Glob
    BY <1>2, <1>6, BuiltinType DEF RunBuiltin, Runs
  <2>2. \/ Local(p, <<>>, Builtin(glob[p], Top(p).n))
        \/ Local(p, <<[Top(p) EXCEPT !.k = "call"]>>, Builtin(glob[p], Top(p).n))
    BY <1>6 DEF RunBuiltin, BuiltinEnds
  <2> QED
    BY <1>2, <1>3, <2>1, <2>2, LocalSteps
<1>7. CASE RunOther(p)
  BY <1>2, <1>3, <1>7, LocalSteps DEF RunOther
<1> QED
  BY <1>5, <1>6, <1>7

LEMMA RunEchoKeeps ==
  ASSUME Fitting, NEW p \in Pid, RunEcho(p)
  PROVE  Fitting'
<1>1. /\ frames[p] # <<>> /\ frames[p] \in Seq(Fit) /\ glob[p] \in Glob
      /\ Top(p).n \in Node /\ Top(p).n.type = "cmd"
  BY CmdFrame, AtHas DEF RunEcho, Runs
<1>2. Top(p).n.tag \in Tag /\ glob[p].exit_status \in Int
  BY <1>1, CmdHas DEF Glob
<1>3. ran' \in Seq(Tag \X Int)
  BY <1>2 DEF RunEcho, Fitting
<1>4. frames' \in [Pid -> Seq(Fit)]
  BY <1>1 DEF RunEcho, Fitting
<1>5. glob' \in [Pid -> Glob]
  <2>1. Status(glob[p], 0) \in Glob
    BY <1>1, GlobUpdates
  <2>2. glob' = [glob EXCEPT ![p] = Status(glob[p], 0)]
    BY DEF RunEcho, Status, Fitting
  <2> QED
    BY <2>1, <2>2 DEF Fitting
<1> QED
  BY <1>3, <1>4, <1>5 DEF RunEcho, Fitting

LEMMA RunExitKeeps ==
  ASSUME Fitting, NEW p \in Pid, RunExit(p)
  PROVE  Fitting'
<1>1. /\ frames[p] # <<>> /\ glob[p] \in Glob
      /\ Top(p).n \in Node /\ Top(p).n.type = "cmd"
  BY CmdFrame DEF RunExit, Runs
<1>2. Top(p).n.n \in Int /\ glob[p].exit_status \in Int
  BY <1>1, CmdHas DEF Glob
<1>3. \A s \in Int : s % 256 \in 0..255
  OBVIOUS
<1>4. Status(glob[p], 1) \in Glob
  BY <1>1, GlobUpdates
<1>5. CASE Local(p, <<>>, Status(glob[p], 1))
  BY <1>1, <1>4, <1>5, LocalSteps
<1>6. CASE \E s \in 0..255 : Die(p, s, FALSE) /\ UNCHANGED ran
  <2>1. ran' \in Seq(Tag \X Int)
    BY <1>6 DEF Fitting
  <2> QED
    BY <1>6, <2>1, DieKeeps
<1>7. Local(p, <<>>, Status(glob[p], 1)) \/ \E s \in 0..255 : Die(p, s, FALSE) /\ UNCHANGED ran
  <2> DEFINE last == glob[p].exit_status % 256
             given == Top(p).n.n % 256
  <2>1. last \in 0..255 /\ given \in 0..255 /\ 2 \in 0..255
    BY <1>2, <1>3
  <2>2. \/ Local(p, <<>>, Status(glob[p], 1))
        \/ Die(p, last, FALSE) /\ UNCHANGED ran
        \/ Die(p, given, FALSE) /\ UNCHANGED ran
        \/ Die(p, 2, FALSE) /\ UNCHANGED ran
    BY Zenon DEF RunExit
  <2> HIDE DEF last, given
  <2> QED
    BY <2>1, <2>2, Zenon
<1> QED
  BY <1>5, <1>6, <1>7

LEMMA RunWaitKeeps ==
  ASSUME Fitting, NEW p \in Pid, RunWait(p)
  PROVE  Fitting'
<1>1. frames[p] # <<>> /\ glob[p] \in Glob
  BY CmdFrame DEF RunWait, Runs
<1> DEFINE g == Status(glob[p], 0)
<1>2. g \in Glob /\ Status(g, 1) \in Glob
  BY <1>1, GlobUpdates
<1>3. F("waitall", Null, FALSE) \in Fit /\ F("waitlast", Null, FALSE) \in Fit
  BY PlainFits
<1>4. \/ Local(p, <<F("waitall", Null, FALSE)>>, g) \/ Local(p, <<F("waitlast", Null, FALSE)>>, g)
      \/ Local(p, <<>>, Status(g, 1))
  BY DEF RunWait
<1> HIDE DEF g
<1> QED
  BY <1>1, <1>2, <1>3, <1>4, LocalSteps

LEMMA InterpFits ==
  ASSUME NEW ls \in Seq(Line)
  PROVE  Interp(ls) \in Fit
  BY PlainFits, FrameUpdates DEF Interp

\* The end of a builtin: its command is done, or is looked for elsewhere.
LEMMA BuiltinEndsKeeps ==
  ASSUME Fitting, NEW p \in Pid, NEW k \in {"run", "eval", "source"}, At(p, k),
         NEW g \in Glob, BuiltinEnds(p, g)
  PROVE  Fitting'
<1>1. frames[p] # <<>> /\ Top(p) \in Fit /\ Top(p).n.type \in Expects(k)
  BY AtHas
<1>2. "call" \in Kinds /\ Expects("call") = {"cmd"} /\ Expects(k) = {"cmd"} /\ "call" # "binary"
  BY DEF Kinds, Expects
<1>3. [Top(p) EXCEPT !.k = "call"] \in Fit
  BY <1>1, <1>2, FrameUpdates
<1> QED
  BY <1>1, <1>3, LocalSteps DEF BuiltinEnds

LEMMA EvalKeeps ==
  ASSUME Fitting, NEW p \in Pid,
         RunEval(p) \/ AfterEval(p) \/ RunSource(p) \/ AfterSource(p)
  PROVE  Fitting'
<1>1. CASE AfterSource(p)
  <2>1. At(p, "source") /\ frames[p] # <<>> /\ glob[p] \in Glob /\ Top(p).i \in Int
    BY <1>1, AtHas DEF AfterSource
  <2>2. glob[p].stack_depth - 1 \in Int
    BY <2>1 DEF Glob
  <2>3. [glob[p] EXCEPT !.stack_depth = @ - 1, !.argc = Top(p).i] \in Glob
    BY <2>1, <2>2, GlobPairs, Zenon
  <2> QED
    BY <1>1, <2>1, <2>3, BuiltinEndsKeeps, Zenon DEF AfterSource
<1>2. CASE AfterEval(p)
  <2>1. At(p, "eval") /\ glob[p] \in Glob
    BY <1>2, AtHas DEF AfterEval
  <2> QED
    BY <1>2, <2>1, BuiltinEndsKeeps, Zenon DEF AfterEval
<1>3. CASE RunEval(p) \/ RunSource(p)
  <2>1. /\ At(p, "run") /\ frames[p] # <<>> /\ glob[p] \in Glob
        /\ Top(p).n \in Node /\ Top(p).n.type = "cmd"
    BY <1>3, CmdFrame DEF RunEval, RunSource, Runs
  <2>2. Interp(Top(p).n.lines) \in Fit /\ Top(p).n.n \in Int
    BY <2>1, CmdHas, InterpFits
  <2>3. glob[p].argc \in Int /\ glob[p].stack_depth + 1 \in Int
    BY <2>1 DEF Glob
  <2>4. Top(p).nf \in BOOLEAN
    BY <2>1, AtHas
  <2>5. F("eval", Top(p).n, Top(p).nf) \in Fit /\ F("source", Top(p).n, Top(p).nf) \in Fit
    BY <2>1, <2>4, FramesFit
  <2>6. [F("source", Top(p).n, Top(p).nf) EXCEPT !.i = glob[p].argc] \in Fit
    BY <2>3, <2>5, FrameUpdates
  <2>7. [glob[p] EXCEPT !.stack_depth = @ + 1, !.argc = Top(p).n.n] \in Glob
    BY <2>1, <2>2, <2>3, GlobPairs, Zenon
  <2>8. Status(glob[p], 1) \in Glob
    BY <2>1, GlobUpdates
  <2>9. \/ Local(p, <<Interp(Top(p).n.lines), F("eval", Top(p).n, Top(p).nf)>>, glob[p])
        \/ Local(p, <<>>, Status(glob[p], 1))
        \/ Local(p, <<Interp(Top(p).n.lines),
                      [F("source", Top(p).n, Top(p).nf) EXCEPT !.i = glob[p].argc]>>,
                  [glob[p] EXCEPT !.stack_depth = @ + 1, !.argc = Top(p).n.n])
    BY <1>3, Zenon DEF RunEval, RunSource
  <2> QED
    BY <2>1, <2>2, <2>5, <2>6, <2>7, <2>8, <2>9, LocalSteps, Zenon
<1> QED
  BY <1>1, <1>2, <1>3
\* execute_func, and what comes after it.
LEMMA FunctionKeeps ==
  ASSUME Fitting, NEW p \in Pid, CallFunc(p) \/ AfterFunc(p)
  PROVE  Fitting'
<1>1. CASE CallFunc(p)
  <2>1. /\ frames[p] # <<>> /\ glob[p] \in Glob /\ Top(p).n \in Node /\ Top(p).n.type = "cmd"
        /\ Top(p).nf \in BOOLEAN
    BY <1>1, CmdFrame DEF CallFunc
  <2>2. glob[p].funcs[Top(p).n.name] \in Tree
    BY <1>1, <2>1 DEF CallFunc, HasFunc, Glob, Tree
  <2>3. Exec(glob[p].funcs[Top(p).n.name], Top(p).nf) \in Fit
    BY <2>1, <2>2, ExecFits
  <2>4. /\ Top(p).n.n \in Int /\ glob[p].argc \in Int /\ glob[p].stack_depth + 1 \in Int
    BY <2>1, CmdHas DEF Glob
  <2>5. [F("func", Top(p).n, Top(p).nf) EXCEPT !.i = glob[p].argc] \in Fit
    BY <2>1, <2>4, FramesFit, FrameUpdates
  <2>6. [glob[p] EXCEPT !.stack_depth = @ + 1, !.argc = Top(p).n.n] \in Glob
    BY <2>1, <2>4, GlobPairs, Zenon
  <2>7. Local(p, <<Exec(glob[p].funcs[Top(p).n.name], Top(p).nf),
                   [F("func", Top(p).n, Top(p).nf) EXCEPT !.i = glob[p].argc]>>,
              [glob[p] EXCEPT !.stack_depth = @ + 1, !.argc = Top(p).n.n])
    BY <1>1, Zenon DEF CallFunc
  <2> QED
    BY <2>1, <2>3, <2>5, <2>6, <2>7, LocalSteps, Zenon
<1>2. CASE AfterFunc(p)
  <2>1. frames[p] # <<>> /\ glob[p] \in Glob /\ Top(p).i \in Int
    BY <1>2, AtHas DEF AfterFunc
  <2>2. glob[p].stack_depth - 1 \in Int
    BY <2>1 DEF Glob
  <2>3. [glob[p] EXCEPT !.stack_depth = @ - 1, !.return_break = FALSE, !.argc = Top(p).i] \in Glob
    BY <2>1, <2>2, GlobPairs, Zenon
  <2> QED
    BY <1>2, <2>1, <2>3, LocalSteps, Zenon DEF AfterFunc
<1> QED
  BY <1>1, <1>2

LEMMA ImageKeeps ==
  ASSUME Fitting, NEW p \in Pid, Top(p).n \in Node, Top(p).n.type = "cmd",
         Found(Top(p).n), Image(p)
  PROVE  Fitting'
<1> DEFINE f == F("binary", Top(p).n, TRUE)
<1>1. "binary" \in Kinds /\ Expects("binary") = {"cmd"} /\ Top(p).n \in Tree
  BY DEF Kinds, Expects, Tree
<1>2. f \in Frame /\ f.k = "binary" /\ f.n = Top(p).n
  BY <1>1, FType
<1>3. f \in Fit
  <2> HIDE DEF f
  <2> QED
    BY <1>1, <1>2 DEF Fit, Found
<1>4. <<f>> \in Seq(Fit)
  BY <1>3, OneAndTwo
<1>5. frames' \in [Pid -> Seq(Fit)]
  <2>1. frames' = [frames EXCEPT ![p] = <<f>>]
    BY DEF Image
  <2> HIDE DEF f
  <2> QED
    BY <1>4, <2>1 DEF Fitting
<1>6. proc' \in [Pid -> Proc]
  <2>1. proc[p] \in Proc
    BY DEF Fitting
  <2>2. [proc[p] EXCEPT !.base = 0] \in Proc
    BY <2>1 DEF Proc
  <2>3. proc' = [proc EXCEPT ![p] = [proc[p] EXCEPT !.base = 0]]
    BY DEF Image, Fitting
  <2> QED
    BY <2>2, <2>3 DEF Fitting
<1> QED
  BY <1>5, <1>6 DEF Image, Fitting

LEMMA ProgramKeeps ==
  ASSUME Fitting, NEW p \in Pid, CallProgram(p) \/ ChildProgram(p) \/ ProgramEnds(p)
  PROVE  Fitting'
<1>1. PICK k \in {"call", "child", "binary"} : At(p, k)
  BY DEF CallProgram, ChildProgram, ProgramEnds
<1>2. /\ frames[p] # <<>> /\ glob[p] \in Glob /\ Top(p) \in Fit
      /\ Top(p).n \in Node /\ Top(p).n.type = "cmd" /\ Top(p).nf \in BOOLEAN
  BY <1>1, CmdFrame
<1>3. Status(glob[p], 1) \in Glob
  BY <1>2, GlobUpdates
<1>4. CASE CallProgram(p)
  <2>1. F("child", Top(p).n, FALSE) \in Fit
    BY <1>2, FramesFit
  <2>2. <<F("child", Top(p).n, FALSE)>> \in Seq(Fit)
    BY <2>1, OneAndTwo
  <2>3. \/ Single(p, <<F("child", Top(p).n, FALSE)>>)
        \/ Local(p, <<>>, Status(glob[p], 1)) \/ Local(p, <<>>, glob[p])
        \/ Found(Top(p).n) /\ Image(p)
    BY <1>4 DEF CallProgram
  <2> QED
    BY <1>2, <1>3, <2>2, <2>3, LocalSteps, SingleKeeps, ImageKeeps
<1>5. CASE ChildProgram(p)
  <2>1. \/ Local(p, <<>>, Status(glob[p], 1))
        \/ Found(Top(p).n) /\ Image(p)
        \/ Die(p, 127, FALSE) /\ ran' = ran
    BY <1>5 DEF ChildProgram
  <2>2. 127 \in 0..255 /\ FALSE \in BOOLEAN /\ (ran' = ran => ran' \in Seq(Tag \X Int))
    BY DEF Fitting
  <2>3. Die(p, 127, FALSE) /\ ran' = ran => Fitting'
    BY <2>2, DieKeeps, Zenon
  <2> QED
    BY <1>2, <1>3, <2>1, <2>3, LocalSteps, ImageKeeps
<1>6. CASE ProgramEnds(p)
  <2>1. Top(p).n.ends \in (0..255) \cup {NotFound, SigInt} /\ Top(p).n.tag \in Tag
    BY <1>2, CmdHas
  <2>2. Top(p).n.ends # NotFound
    BY <1>2, <1>6 DEF ProgramEnds, At, Fit
  <2>3. ran' \in Seq(Tag \X Int)
    BY <1>6, <2>1 DEF ProgramEnds, Fitting
  <2>4. PICK status \in 0..255, signalled \in BOOLEAN : Die(p, status, signalled)
    <3>1. CASE Top(p).n.ends = SigInt
      <4>1. Die(p, 2, TRUE)
        BY <1>6, <3>1, Zenon DEF ProgramEnds
      <4>2. 2 \in 0..255 /\ TRUE \in BOOLEAN
        OBVIOUS
      <4> QED
        BY <4>1, <4>2, Zenon
    <3>2. CASE Top(p).n.ends # SigInt
      <4>1. Die(p, Top(p).n.ends, FALSE) /\ Top(p).n.ends \in 0..255
        BY <1>6, <2>1, <2>2, <3>2 DEF ProgramEnds
      <4> QED
        BY <4>1, Zenon
    <3> QED
      BY <3>1, <3>2
  <2> QED
    BY <2>3, <2>4, DieKeeps
<1> QED
  BY <1>4, <1>5, <1>6

LEMMA SimpleKeeps ==
  ASSUME Fitting, NEW p \in Pid, Simple(p)
  PROVE  Fitting'
  BY ExecCmdKeeps, RunBuiltinKeeps, RunEchoKeeps, RunExitKeeps, RunWaitKeeps, EvalKeeps,
     FunctionKeeps, ProgramKeeps DEF Simple
-----------------------------------------------------------------------------
(***************************************************************************)
(* Waiting, ending, and the lines of a script.                             *)
(***************************************************************************)
LEMMA JobKeeps ==
  ASSUME Fitting, NEW p \in Pid, JobWait(p) \/ WaitAll(p) \/ WaitLast(p) \/ ExitStatus(p)
  PROVE  Fitting'
<1>1. PICK k : At(p, k)
  BY DEF JobWait, WaitAll, WaitLast, ExitStatus
<1>2. /\ frames[p] # <<>> /\ glob[p] \in Glob /\ Top(p) \in Fit
      /\ Top(p).ps \in Seq(Pid)
  BY <1>1, AtHas
<1>3. <<>> \in Seq(Fit) /\ <<Top(p)>> \in Seq(Fit)
  BY <1>2, OneAndTwo
<1>4. CASE JobWait(p)
  <2>1. CASE Top(p).ps = <<>> /\ Local(p, <<>>, glob[p])
    BY <1>2, <2>1, LocalSteps
  <2>2. CASE Top(p).ps # <<>> /\ Reap(p, Head(Top(p).ps), <<[Top(p) EXCEPT !.ps = Tail(@)]>>)
    <3>1. Tail(Top(p).ps) \in Seq(Pid)
      BY <1>2, <2>2
    <3>2. [Top(p) EXCEPT !.ps = Tail(@)] \in Fit
      BY <1>2, <3>1, FrameUpdates
    <3>3. <<[Top(p) EXCEPT !.ps = Tail(@)]>> \in Seq(Fit)
      BY <3>2, OneAndTwo
    <3> QED
      BY <1>2, <2>2, <3>3, ReapKeeps
  <2> QED
    BY <1>4, <2>1, <2>2 DEF JobWait
<1>5. CASE WaitAll(p) \/ WaitLast(p)
  <2>1. Status(glob[p], 0) \in Glob /\ Status(glob[p], 127) \in Glob
    BY <1>2, GlobUpdates
  <2>2. \/ \E c : Reap(p, c, <<Top(p)>>)
        \/ \E c : Reap(p, c, <<>>)
        \/ Local(p, <<>>, Status(glob[p], 0))
        \/ Local(p, <<>>, Status(glob[p], 127))
    BY <1>5 DEF WaitAll, WaitLast
  <2> QED
    BY <1>2, <1>3, <2>1, <2>2, LocalSteps, ReapKeeps
<1>6. CASE ExitStatus(p)
  <2>1. glob[p].exit_status % 256 \in 0..255
    <3>1. glob[p].exit_status \in Int
      BY <1>2 DEF Glob
    <3> QED
      BY <3>1
  <2>2. FALSE \in BOOLEAN /\ ran' \in Seq(Tag \X Int)
    BY <1>6 DEF ExitStatus, Fitting
  <2> QED
    BY <1>6, <2>1, <2>2, DieKeeps, Zenon DEF ExitStatus
<1> QED
  BY <1>4, <1>5, <1>6

LEMMA InterpretKeeps ==
  ASSUME Fitting, NEW p \in Pid, InterpretStops(p) \/ InterpretLine(p)
  PROVE  Fitting'
<1>1. /\ frames[p] # <<>> /\ glob[p] \in Glob /\ Top(p) \in Fit
      /\ Top(p).ls \in Seq(Line)
  BY AtHas DEF InterpretStops, InterpretLine
<1>2. CASE InterpretStops(p)
  <2>1. \A b \in BOOLEAN : [glob[p] EXCEPT !.return_break = b] \in Glob
    BY <1>1, GlobUpdates
  <2>2. PICK b \in BOOLEAN : \/ Local(p, <<>>, [glob[p] EXCEPT !.return_break = b])
                             \/ Local(p, <<>>, glob[p])
    <3> DEFINE b == glob[p].return_break /\ glob[p].exit_status # 0 /\ glob[p].err_exit
    <3>1. b \in BOOLEAN
      OBVIOUS
    <3>2. \/ Local(p, <<>>, [glob[p] EXCEPT !.return_break = b])
          \/ Local(p, <<>>, glob[p])
      BY <1>2 DEF InterpretStops
    <3> HIDE DEF b
    <3> QED
      BY <3>1, <3>2
  <2> QED
    BY <1>1, <2>1, <2>2, LocalSteps
<1>3. CASE InterpretLine(p)
  <2> DEFINE line == Head(Top(p).ls)
             next == [Top(p) EXCEPT !.ls = Tail(@)]
  <2>1. line \in Line /\ Tail(Top(p).ls) \in Seq(Line)
    BY <1>1, <1>3 DEF InterpretLine
  <2>2. next \in Fit
    BY <1>1, <2>1, FrameUpdates
  <2>3. [next EXCEPT !.i = 0] \in Fit /\ [next EXCEPT !.i = 1] \in Fit
    <3> HIDE DEF next
    <3> QED
      BY <2>2, FrameUpdates
  <2>4. Status(glob[p], 1) \in Glob
    BY <1>1, GlobUpdates
  <2>5. [glob[p] EXCEPT !.sigint_break = FALSE] \in Glob
    BY <1>1, GlobUpdates, Zenon
  <2>6. \/ /\ line # SyntaxError
           /\ Local(p, <<Exec(line, FALSE), [next EXCEPT !.i = 1]>>,
                    [glob[p] EXCEPT !.sigint_break = FALSE])
        \/ Local(p, <<[next EXCEPT !.i = 0]>>, Status(glob[p], 1))
        \/ Local(p, <<>>, Status(glob[p], 1))
    BY <1>3 DEF InterpretLine
  <2>7. line # SyntaxError => Exec(line, FALSE) \in Fit
    BY <2>1, ExecFits DEF Line
  <2> HIDE DEF line, next
  <2> QED
    BY <1>1, <2>3, <2>4, <2>5, <2>6, <2>7, LocalSteps
<1> QED
  BY <1>2, <1>3

LEMMA ProcessKeeps ==
  ASSUME Fitting, NEW p \in Pid, Process(p)
  PROVE  Fitting'
  BY CompoundKeeps, SimpleKeeps, JobKeeps, InterpretKeeps DEF Process, Job

LEMMA InitFits == Init => Fitting
<1> SUFFICES ASSUME Init PROVE Fitting
  OBVIOUS
<1>1. script \in Seq(Line) /\ script \in Script
  BY ScriptAssumption DEF Init
<1>2. Interp(script) \in Fit /\ Exit \in Fit
  BY <1>1, InterpFits, PlainFits
<1>3. frames \in [Pid -> Seq(Fit)]
  <2>1. <<Interp(script), Exit>> \in Seq(Fit) /\ <<>> \in Seq(Fit)
    BY <1>2, OneAndTwo
  <2> QED
    BY <2>1 DEF Init
<1>4. proc \in [Pid -> Proc]
  BY DEF Init, Proc
<1>5. glob \in [Pid -> Glob]
  <2>1. PICK tty \in Terminals :
          glob = [p \in Pid |->
                    [exit_status |-> 0, last_background |-> NoPid, break_depth |-> 0,
                     continue_depth |-> 0, loop_depth |-> 0, stack_depth |-> 0,
                     sigint_break |-> FALSE, return_break |-> FALSE,
                     job_control |-> tty, err_exit |-> FALSE, argc |-> Args,
                     funcs |-> [f \in FuncName |-> NoFunc], stolen |-> {}]]
    BY DEF Init
  <2>2. tty \in BOOLEAN /\ Args \in Int
    BY ConfigAssumption
  <2> QED
    BY <2>1, <2>2 DEF Glob
<1>6. ran \in Seq(Tag \X Int)
  BY DEF Init
<1> QED
  BY <1>1, <1>3, <1>4, <1>5, <1>6 DEF Fitting

LEMMA StepFits == Fitting /\ [Next]_vars => Fitting'
<1>1. ASSUME Fitting, UNCHANGED vars PROVE Fitting'
  BY <1>1 DEF vars, Fitting
<1> QED
  BY <1>1, ProcessKeeps DEF Next

LEMMA FittingTypes == Fitting => TypeOK
<1>1. Fit \subseteq Frame
  BY DEF Fit
<1>2. Seq(Fit) \subseteq Seq(Frame)
  BY <1>1
<1> QED
  BY <1>2 DEF Fitting, TypeOK

\* Whatever the scripts, the nodes and the number of processes, no step takes a
\* variable out of its type: in particular a frame goes on with a node of the type
\* its code expects, and a status that a parent may read has eight bits.
THEOREM TypeCorrect == Spec => []TypeOK
<1>1. Spec => []Fitting
  BY InitFits, StepFits, PTL DEF Spec
<1> QED
  BY <1>1, FittingTypes, PTL
-----------------------------------------------------------------------------
(***************************************************************************)
(* The life of a process.                                                  *)
(***************************************************************************)
LEMMA SameProc ==
  ASSUME proc' = proc
  PROVE  \A c \in Pid : Lives(c)
  BY DEF Lives

LEMMA ForkLives ==
  ASSUME Fitting, NEW p, NEW fs, NEW g, NEW child, NEW out, Free # {},
         Fork(p, FreshPid, fs, g, child, out)
  PROVE  \A c \in Pid : Lives(c)
<1> TAKE c \in Pid
<1>1. FreshPid \in Pid /\ proc[FreshPid].state = "free"
  BY FreshIsFree DEF Free
<1>2. CASE c = FreshPid
  <2>1. proc'[c].state = "running" /\ proc[c].state = "free"
    BY <1>1, <1>2 DEF Fork, Fitting
  <2> QED
    BY <2>1 DEF Lives
<1>3. CASE c # FreshPid
  <2>1. proc'[c] = proc[c]
    BY <1>3 DEF Fork, Fitting
  <2> QED
    BY <2>1 DEF Lives
<1> QED
  BY <1>2, <1>3

LEMMA SingleLives ==
  ASSUME Fitting, NEW p, NEW child, Single(p, child)
  PROVE  \A c \in Pid : Lives(c)
<1>1. CASE Free # {}
  BY <1>1, ForkLives DEF Single
<1>2. CASE Free = {}
  <2>1. proc' = proc
    BY <1>2 DEF Single, Local
  <2> QED
    BY <2>1, SameProc
<1> QED
  BY <1>1, <1>2

LEMMA DieLives ==
  ASSUME Fitting, NEW p \in Pid, NEW status, NEW signalled, Running(p), Die(p, status, signalled)
  PROVE  \A c \in Pid : Lives(c)
<1> TAKE c \in Pid
<1>1. proc[p] \in Proc /\ proc[p].state = "running"
  BY DEF Fitting, Running
<1>2. CASE c = p
  <2>1. proc'[c].state = "zombie" /\ proc'[c].parent = proc[c].parent
    BY <1>1, <1>2 DEF Die, Fitting, Proc
  <2> QED
    BY <1>1, <1>2, <2>1 DEF Lives
<1>3. CASE c # p
  <2>1. proc'[c] = proc[c]
    BY <1>3 DEF Die, Fitting
  <2> QED
    BY <2>1 DEF Lives
<1> QED
  BY <1>2, <1>3

LEMMA ReapLives ==
  ASSUME Fitting, NEW p \in Pid, NEW d, NEW fs, Reap(p, d, fs)
  PROVE  \A c \in Pid : Lives(c)
<1> TAKE c \in Pid
<1>1. d \in Pid /\ proc[d] \in Proc /\ proc[d].state = "zombie" /\ proc[d].parent = p
  BY DEF Fitting, Reap, Children
<1>2. CASE c = d
  <2>1. /\ proc'[c].state = "reaped" /\ proc'[c].status = proc[c].status
        /\ proc'[c].signalled = proc[c].signalled /\ proc'[c].parent = proc[c].parent
    BY <1>1, <1>2 DEF Reap, Fitting, Proc
  <2>2. glob'[p] = Report(glob[p], d) /\ glob[p] \in Glob
    BY DEF Reap, Fitting
  <2>3. Report(glob[p], d).exit_status = proc[d].status + (IF proc[d].signalled THEN 128 ELSE 0)
    <3>1. proc[d].status \in Int
      BY <1>1 DEF Proc
    <3> QED
      BY <2>2, <3>1 DEF Report, Status, Glob
  <2> QED
    BY <1>1, <1>2, <2>1, <2>2, <2>3 DEF Lives
<1>3. CASE c # d
  <2>1. proc'[c] = proc[c]
    BY <1>3 DEF Reap, Fitting
  <2> QED
    BY <2>1 DEF Lives
<1> QED
  BY <1>2, <1>3

LEMMA ImageLives ==
  ASSUME Fitting, NEW p \in Pid, Image(p)
  PROVE  \A c \in Pid : Lives(c)
<1> TAKE c \in Pid
<1>1. proc[p] \in Proc
  BY DEF Fitting
<1>2. /\ proc'[c].state = proc[c].state /\ proc'[c].parent = proc[c].parent
      /\ proc'[c].status = proc[c].status /\ proc'[c].signalled = proc[c].signalled
  BY <1>1 DEF Image, Fitting, Proc
<1> QED
  BY <1>2 DEF Lives

\* The steps in which no process begins, ends, or is reaped.
LEMMA QuietSteps ==
  ASSUME NEW p \in Pid,
         \/ Skip(p) \/ RedirsFail(p) \/ ExecBinary(p) \/ AfterLeft(p) \/ ExecIf(p) \/ AfterIf(p)
         \/ ExecLoop(p) \/ AfterCondition(p) \/ AfterBody(p) \/ ExecFor(p) \/ AfterForBody(p)
         \/ ExecCase(p) \/ ExecNegate(p) \/ AfterNegate(p) \/ ExecGroup(p) \/ ExecFunc(p)
         \/ ExecPipe(p) \/ ReadEof(p) \/ ExpansionFails(p) \/ RunEmpty(p) \/ RunBuiltin(p)
         \/ RunEcho(p) \/ RunWait(p) \/ RunEval(p) \/ AfterEval(p) \/ RunSource(p) \/ AfterSource(p)
         \/ RunOther(p) \/ CallFunc(p) \/ AfterFunc(p) \/ InterpretStops(p) \/ InterpretLine(p)
  PROVE  proc' = proc
<1>1. ASSUME NEW fs, NEW g, Local(p, fs, g) PROVE proc' = proc
  BY <1>1 DEF Local
<1>2. CASE \/ Skip(p) \/ RedirsFail(p) \/ ExecBinary(p) \/ AfterLeft(p) \/ ExecIf(p) \/ AfterIf(p)
           \/ ExecCase(p) \/ ExecNegate(p) \/ AfterNegate(p) \/ ExecGroup(p) \/ ExecFunc(p)
  BY <1>1, <1>2 DEF Skip, RedirsFail, ExecBinary, AfterLeft, ExecIf, AfterIf, ExecCase, ExecNegate,
     AfterNegate, ExecGroup, ExecFunc
<1>3. CASE \/ ExecLoop(p) \/ AfterCondition(p) \/ AfterBody(p) \/ ExecFor(p) \/ AfterForBody(p)
  BY <1>1, <1>3 DEF ExecLoop, AfterCondition, AfterBody, ExecFor, AfterForBody, Condition, ForWord
<1>4. CASE \/ ExecPipe(p) \/ ReadEof(p) \/ ExpansionFails(p) \/ RunEmpty(p) \/ RunBuiltin(p)
           \/ RunEcho(p) \/ RunWait(p) \/ RunEval(p) \/ AfterEval(p) \/ RunSource(p) \/ AfterSource(p)
  BY <1>1, <1>4 DEF ExecPipe, ReadEof, ExpansionFails, RunEmpty, RunBuiltin, RunEcho, RunWait,
     RunEval, AfterEval, RunSource, AfterSource, BuiltinEnds
<1>5. CASE RunOther(p) \/ CallFunc(p) \/ AfterFunc(p) \/ InterpretStops(p) \/ InterpretLine(p)
  BY <1>1, <1>5 DEF RunOther, CallFunc, AfterFunc, InterpretStops, InterpretLine
<1> QED
  BY <1>2, <1>3, <1>4, <1>5

LEMMA ProcessLives ==
  ASSUME Fitting, NEW p \in Pid, Process(p)
  PROVE  \A c \in Pid : Lives(c)
<1>1. ASSUME NEW fs, NEW g, Local(p, fs, g) PROVE \A c \in Pid : Lives(c)
  BY <1>1, SameProc DEF Local
<1>2. CASE ExecSubshell(p)
  BY <1>1, <1>2, SingleLives DEF ExecSubshell
<1>3. CASE ExecAsync(p)
  BY <1>1, <1>3, ForkLives DEF ExecAsync
<1>4. CASE PipeStage(p)
  <2>1. CASE Free # {}
    <3>1. PICK fs, child, out : Fork(p, FreshPid, fs, glob[p], child, out)
      BY <1>4, <2>1 DEF PipeStage
    <3> QED
      BY <2>1, <3>1, ForkLives
  <2>2. CASE Free = {}
    BY <1>1, <1>4, <2>2 DEF PipeStage
  <2> QED
    BY <2>1, <2>2
<1>5. CASE ExecCmd(p)
  <2>1. CASE Free # {}
    BY <1>1, <1>5, <2>1, ForkLives DEF ExecCmd
  <2>2. CASE Free = {}
    BY <1>1, <1>5, <2>2 DEF ExecCmd
  <2> QED
    BY <2>1, <2>2
<1>6. CASE RunExit(p) \/ ProgramEnds(p) \/ ExitStatus(p)
  <2>1. Running(p)
    BY <1>6 DEF RunExit, Runs, ProgramEnds, ExitStatus, At
  <2>2. \/ \E status, signalled : Die(p, status, signalled)
        \/ Local(p, <<>>, Status(glob[p], 1))
    BY <1>6, Zenon DEF RunExit, ProgramEnds, ExitStatus
  <2> QED
    BY <1>1, <2>1, <2>2, DieLives
<1>7. CASE CallProgram(p) \/ ChildProgram(p)
  <2>1. Running(p)
    BY <1>7 DEF CallProgram, ChildProgram, At
  <2>2. CASE CallProgram(p)
    BY <1>1, <2>2, SingleLives, ImageLives DEF CallProgram
  <2>3. CASE ChildProgram(p)
    BY <1>1, <2>1, <2>3, DieLives, ImageLives DEF ChildProgram
  <2> QED
    BY <1>7, <2>2, <2>3
<1>8. CASE JobWait(p) \/ WaitAll(p) \/ WaitLast(p)
  <2>1. (\E c, fs : Reap(p, c, fs)) \/ (\E g : Local(p, <<>>, g))
    BY <1>8 DEF JobWait, WaitAll, WaitLast
  <2> QED
    BY <1>1, <2>1, ReapLives
<1> QED
  BY <1>2, <1>3, <1>4, <1>5, <1>6, <1>7, <1>8, QuietSteps, SameProc
     DEF Process, Compound, Simple, Job

\* Whatever the scripts and however the processes interleave: a process is reaped
\* once, by its parent, after it has ended, and its status becomes the parent's $?.
THEOREM LivesOnce == Spec => LifeCycle
<1>1. Spec => []Fitting
  BY InitFits, StepFits, PTL DEF Spec
<1>2. Fitting /\ [Next]_vars => [\A c \in Pid : Lives(c)]_vars
  <2>1. ASSUME Fitting, Next PROVE (\A c \in Pid : Lives(c)) \/ UNCHANGED vars
    BY <2>1, ProcessLives DEF Next
  <2> QED
    BY <2>1
<1> QED
  BY <1>1, <1>2, PTL DEF Spec, LifeCycle

-----------------------------------------------------------------------------
(***************************************************************************)
(* How many frames of some kinds a stack holds.                            *)
(***************************************************************************)
Number(s, kinds) == Cardinality({j \in DOMAIN s : s[j].k \in kinds})
One(k, kinds) == IF k \in kinds THEN 1 ELSE 0

\* It is finite, and nothing is in an empty stack.
LEMMA NumberFinite ==
  ASSUME NEW S, NEW s \in Seq(S), NEW kinds
  PROVE  /\ IsFiniteSet({j \in DOMAIN s : s[j].k \in kinds})
         /\ Number(s, kinds) \in Nat
<1>1. DOMAIN s = 1..Len(s) /\ Len(s) \in Int
  OBVIOUS
<1>2. IsFiniteSet(DOMAIN s)
  BY <1>1, FS_Interval
<1>3. {j \in DOMAIN s : s[j].k \in kinds} \in SUBSET DOMAIN s
  OBVIOUS
<1>4. IsFiniteSet({j \in DOMAIN s : s[j].k \in kinds})
  BY <1>2, <1>3, FS_Subset
<1>5. QED BY <1>4, FS_CardinalityType DEF Number

LEMMA NumberEmpty == ASSUME NEW kinds PROVE Number(<<>>, kinds) = 0
<1>1. {j \in DOMAIN <<>> : <<>>[j].k \in kinds} = {}
  OBVIOUS
<1>2. QED BY <1>1, FS_EmptySet DEF Number

LEMMA NumberOne == ASSUME NEW a, NEW kinds PROVE Number(<<a>>, kinds) = One(a.k, kinds)
<1>1. DOMAIN <<a>> = {1} /\ <<a>>[1] = a
  OBVIOUS
<1>2. CASE a.k \in kinds
  <2>1. {j \in DOMAIN <<a>> : <<a>>[j].k \in kinds} = {1}
    BY <1>1, <1>2
  <2>2. Cardinality({1}) = 1
    BY FS_Singleton
  <2>3. QED BY <1>2, <2>1, <2>2 DEF Number, One
<1>3. CASE a.k \notin kinds
  <2>1. {j \in DOMAIN <<a>> : <<a>>[j].k \in kinds} = {}
    BY <1>1, <1>3
  <2>2. QED BY <1>3, <2>1, FS_EmptySet DEF Number, One
<1>4. QED BY <1>2, <1>3

\* It is added up when stacks are put on each other.
LEMMA NumberSum ==
  ASSUME NEW S, NEW s \in Seq(S), NEW t \in Seq(S), NEW kinds
  PROVE  Number(s \o t, kinds) = Number(s, kinds) + Number(t, kinds)
<1> DEFINE n == Len(s)
           A == {j \in DOMAIN s : s[j].k \in kinds}
           B == {j \in DOMAIN t : t[j].k \in kinds}
           C == {j \in (n + 1)..(n + Len(t)) : t[j - n].k \in kinds}
           D == {j \in DOMAIN (s \o t) : (s \o t)[j].k \in kinds}
<1>1. n \in Nat /\ Len(t) \in Nat /\ DOMAIN s = 1..n /\ DOMAIN t = 1..Len(t)
  OBVIOUS
<1>2. /\ DOMAIN (s \o t) = 1..(n + Len(t))
      /\ \A j \in 1..n : (s \o t)[j] = s[j]
      /\ \A j \in (n + 1)..(n + Len(t)) : (s \o t)[j] = t[j - n]
  OBVIOUS
<1>3. D = A \cup C
  BY <1>1, <1>2
<1>4. A \cap C = {}
  BY <1>1
<1>5. IsFiniteSet(A) /\ IsFiniteSet(B)
  BY NumberFinite
<1>6. IsFiniteSet(C) /\ Cardinality(C) = Cardinality(B)
  <2> DEFINE f == [j \in B |-> j + n]
  <2>1. f \in Bijection(B, C)
    <3>1. f \in [B -> C]
      BY <1>1
    <3>2. \A x, y \in B : f[x] = f[y] => x = y
      BY <1>1
    <3>3. \A y \in C : y - n \in B /\ f[y - n] = y
      BY <1>1
    <3>4. f \in Injection(B, C)
      BY <3>1, <3>2 DEF Injection, IsInjective
    <3>5. f \in Surjection(B, C)
      BY <3>1, <3>3 DEF Surjection
    <3>6. QED BY <3>4, <3>5 DEF Bijection
  <2>2. ExistsBijection(B, C)
    BY <2>1 DEF ExistsBijection
  <2>3. QED BY <1>5, <2>2, FS_Bijection
<1>7. Cardinality(D) = Cardinality(A) + Cardinality(C)
  <2>1. Cardinality(A \cup C) = Cardinality(A) + Cardinality(C) - Cardinality(A \cap C)
    BY <1>5, <1>6, FS_Union
  <2>2. Cardinality(A \cap C) = 0
    BY <1>4, FS_EmptySet
  <2>3. Cardinality(A) \in Nat /\ Cardinality(C) \in Nat
    BY <1>5, <1>6, FS_CardinalityType
  <2> HIDE DEF A, C, D
  <2>4. QED BY <1>3, <2>1, <2>2, <2>3
<1>8. QED BY <1>6, <1>7 DEF Number

\* The innermost frame, and the others.
LEMMA NumberTop ==
  ASSUME NEW S, NEW s \in Seq(S), s # <<>>, NEW kinds
  PROVE  Number(s, kinds) = One(Head(s).k, kinds) + Number(Tail(s), kinds)
<1> DEFINE h == <<Head(s)>>
           t == Tail(s)
<1>1. h \in Seq(S) /\ t \in Seq(S) /\ s = h \o t
  OBVIOUS
<1>2. Number(h, kinds) = One(Head(s).k, kinds)
  BY NumberOne
<1> HIDE DEF h
<1>3. Number(h \o t, kinds) = Number(h, kinds) + Number(t, kinds)
  BY <1>1, NumberSum
<1>4. QED BY <1>1, <1>2, <1>3

LEMMA NumberTwo ==
  ASSUME NEW a, NEW b, NEW kinds
  PROVE  Number(<<a, b>>, kinds) = One(a.k, kinds) + One(b.k, kinds)
<1>1. <<a, b>> \in Seq({a, b}) /\ <<a, b>> # <<>> /\ Head(<<a, b>>) = a /\ Tail(<<a, b>>) = <<b>>
  OBVIOUS
<1>2. Number(<<a, b>>, kinds) = One(a.k, kinds) + Number(<<b>>, kinds)
  BY <1>1, NumberTop
<1>3. QED BY <1>2, NumberOne
-----------------------------------------------------------------------------
(***************************************************************************)
(* What is proved of each running process.                                 *)
(***************************************************************************)
Loops == {"condition", "body", "for"}
Calls == {"func", "source"}

Deep(p) ==
  /\ glob[p].loop_depth = Number(frames[p], Loops)
  /\ glob[p].stack_depth = Number(frames[p], Calls)

\* where a process ends, and the child that returns when an assignment fails
Ends == {"exit", "child", "binary"}
Own(p) == Len(frames[p]) - proc[p].base

\* The last of the frames a process has for itself does not return.
Inside(p) == Own(p) >= 1 /\ frames[p][Own(p)].k \in Ends

\* a call with FLAG_NO_FORK, and a construct that will pass the flag on
Carriers == {"exec", "run", "call", "eval", "source", "left", "if", "for"}
Passes(fr) == fr.nf /\ fr.k \in Carriers

\* Behind such a frame the process has nothing left to do that matters.
InTail(p) ==
  \A i \in 1..Own(p) : Passes(frames[p][i]) =>
    /\ proc[p].parent # NoPid
    /\ \A j \in (i + 1)..Own(p) : Inert(frames[p][j])

\* Only the innermost frame waits, and for children that nobody has reaped.
Waiting == {"wait", "read", "pipe"}

Distinct(ps) == \A i, j \in DOMAIN ps : ps[i] = ps[j] => i = j

Waits(p) ==
  \A i \in 1..Len(frames[p]) : frames[p][i].k \in Waiting =>
    /\ i = 1
    /\ \A j \in DOMAIN frames[p][i].ps : frames[p][i].ps[j] \in Children(p)
    /\ Distinct(frames[p][i].ps)

(***************************************************************************)
(* What a step does to the stacks: one process goes on with fs in place of *)
(* its innermost frame, or ends, or becomes a program; another is born or  *)
(* reaped.                                                                 *)
(***************************************************************************)
Depths(g, h, l, c) == h.loop_depth = g.loop_depth + l /\ h.stack_depth = g.stack_depth + c

\* after the step c is a child of p
IsChild(p, c) == c \in Pid /\ proc'[c].parent = p /\ proc'[c].state \in {"running", "zombie"}

Gets(p, ps) == Distinct(ps) /\ \A j \in DOMAIN ps : IsChild(p, ps[j])

Follows(p, fs, g) ==
  /\ Top(p).k \notin {"exit", "binary"}
  /\ Top(p).k = "child" => ~Top(p).n.assign
  /\ Depths(glob[p], g, Number(fs, Loops) - One(Top(p).k, Loops), Number(fs, Calls) - One(Top(p).k, Calls))
  /\ \A i \in DOMAIN fs : Passes(fs[i]) =>
       Passes(Top(p)) /\ \A j \in DOMAIN fs : j > i => Inert(fs[j])
  /\ \A i \in DOMAIN fs : fs[i].k \in Waiting => i = 1 /\ Gets(p, fs[i].ps)

\* the kernel knows the process as before
SameProcess(q) ==
  /\ proc'[q].state = proc[q].state
  /\ proc'[q].base = proc[q].base /\ proc'[q].parent = proc[q].parent

Goes(p) ==
  /\ SameProcess(p)
  /\ \E S : \E fs \in Seq(S) : frames'[p] = fs \o Tail(frames[p]) /\ Follows(p, fs, glob'[p])

Becomes(p) ==
  /\ proc'[p].base = 0
  /\ \E fr : frames'[p] = <<fr>> /\ fr.k = "binary"

Stays(q) ==
  /\ SameProcess(q) /\ frames'[q] = frames[q] /\ glob'[q] = glob[q]
  /\ \A c \in Children(q) : IsChild(q, c)

\* where a process forks
Forks == {"exec", "pipe", "call"}

Born(p, c) ==
  /\ Top(p).k \in Forks
  /\ proc'[c].parent = p /\ proc'[c].base = Len(Tail(frames[p]))
  /\ glob'[c] = [glob[p] EXCEPT !.job_control = FALSE]
  /\ \/ \E n : frames'[c] = <<Exec(n, TRUE), Exit>> \o Tail(frames[p])
     \/ \E n : frames'[c] = <<F("child", n, FALSE)>> \o Tail(frames[p])

Shaped(p) ==
  /\ Goes(p) \/ Becomes(p) \/ proc'[p].state # "running"
  /\ \A q \in Pid \ {p} : Stays(q) \/ proc'[q].state # "running" \/ Born(p, q)

\* What is in place of the innermost frame, and what is behind it.
LEMMA Places ==
  ASSUME NEW S, NEW s \in Seq(S), s # <<>>, NEW fs \in Seq(S), NEW t, t = fs \o Tail(s)
  PROVE  /\ Len(t) = Len(s) + Len(fs) - 1 /\ Len(fs) \in Nat /\ Len(s) \in Nat
         /\ DOMAIN fs = 1..Len(fs)
         /\ \A i \in 1..Len(fs) : t[i] = fs[i]
         /\ \A i \in (Len(fs) + 1)..Len(t) : t[i] = s[i - Len(fs) + 1]
OBVIOUS

LEMMA FrameHas ==
  ASSUME NEW k, NEW n, NEW nf
  PROVE  /\ F(k, n, nf).k = k /\ F(k, n, nf).n = n /\ F(k, n, nf).nf = nf /\ F(k, n, nf).i = 0
         /\ Exec(n, nf).k = "exec" /\ Exec(n, nf).n = n /\ Exec(n, nf).nf = nf
         /\ Exit.k = "exit" /\ ~Exit.nf /\ Inert(Exit)
BY DEF F, Exec, Exit, Inert

\* Where the i-th frame was, when it is behind the n that are new.
LEMMA Moved ==
  ASSUME NEW own \in Int, NEW n \in Nat, NEW last \in Int, NEW now, now = own + n - 1, now <= last,
         NEW i \in 1..now, i > n
  PROVE  /\ i \in (n + 1)..last /\ i - n + 1 \in 2..own
         /\ \A j \in (i + 1)..now : j \in 1..now /\ j > n /\ j - n + 1 \in (i - n + 2)..own
OBVIOUS

LEMMA GoesKeeps ==
  ASSUME Fitting, NEW p \in Pid, Running(p), frames[p] # <<>>, Goes(p)
  PROVE  /\ Deep(p) => Deep(p)'
         /\ (\A n \in Node : n.type = "cmd" => n.assign) /\ Inside(p) /\ InTail(p) => Inside(p)' /\ InTail(p)'
         /\ Waits(p) => Waits(p)'
<1>1. PICK S : \E fs \in Seq(S) : frames'[p] = fs \o Tail(frames[p]) /\ Follows(p, fs, glob'[p])
  BY DEF Goes
<1>2. PICK fs \in Seq(S) : frames'[p] = fs \o Tail(frames[p]) /\ Follows(p, fs, glob'[p])
  BY <1>1
<1>3. frames[p] \in Seq(Fit) /\ glob[p] \in Glob /\ proc[p].base \in Nat
  BY DEF Fitting, Proc
<1> DEFINE U == S \cup Fit
           t == frames'[p]
           s == frames[p]
<1>4. fs \in Seq(U) /\ s \in Seq(U) /\ Tail(s) \in Seq(U)
  BY <1>2, <1>3
<1> HIDE DEF U
<1>5. ASSUME Deep(p) PROVE Deep(p)'
  <2>1. ASSUME NEW K PROVE /\ Number(t, K) = Number(fs, K) + Number(Tail(s), K)
                           /\ Number(s, K) = One(Top(p).k, K) + Number(Tail(s), K)
                           /\ Number(fs, K) \in Int /\ Number(Tail(s), K) \in Int /\ One(Top(p).k, K) \in Int
    <3>1. Number(fs \o Tail(s), K) = Number(fs, K) + Number(Tail(s), K)
      BY <1>4, NumberSum
    <3>2. Number(s, K) = One(Head(s).k, K) + Number(Tail(s), K)
      BY <1>4, NumberTop
    <3>3. Number(fs, K) \in Nat /\ Number(Tail(s), K) \in Nat
      <4>1. ASSUME NEW x \in Seq(U) PROVE Number(x, K) \in Nat
        BY NumberFinite
      <4>2. QED BY <1>4, <4>1
    <3>4. QED BY <1>2, <3>1, <3>2, <3>3 DEF Top, One
  <2>2. /\ glob'[p].loop_depth = glob[p].loop_depth + (Number(fs, Loops) - One(Top(p).k, Loops))
        /\ glob'[p].stack_depth = glob[p].stack_depth + (Number(fs, Calls) - One(Top(p).k, Calls))
    BY <1>2 DEF Follows, Depths
  <2>3. glob[p].loop_depth = Number(s, Loops) /\ glob[p].stack_depth = Number(s, Calls)
    BY <1>5 DEF Deep
  <2>4. glob'[p].loop_depth = Number(t, Loops)
    BY <2>1, <2>2, <2>3
  <2>5. glob'[p].stack_depth = Number(t, Calls)
    BY <2>1, <2>2, <2>3
  <2>6. QED BY <2>4, <2>5 DEF Deep
<1>6. ASSUME \A n \in Node : n.type = "cmd" => n.assign, Inside(p), InTail(p)
      PROVE  Inside(p)' /\ InTail(p)'
  <2>1. Top(p).k \notin Ends
    <3>1. Top(p).k \notin {"exit", "binary"} /\ (Top(p).k = "child" => ~Top(p).n.assign)
      BY <1>2 DEF Follows
    <3>2. ASSUME Top(p).k = "child" PROVE Top(p).n \in Node /\ Top(p).n.type = "cmd"
      <4>1. Top(p).n \in Tree /\ Top(p).n.type \in Expects("child")
        BY <3>2, AtHas DEF At
      <4>2. QED BY <4>1, TreeHasType DEF Expects, NodeTypes
    <3>3. QED BY <1>6, <3>1, <3>2 DEF Ends
  <2>2. /\ Len(t) = Len(s) + Len(fs) - 1 /\ Len(fs) \in Nat /\ Len(s) \in Nat
        /\ DOMAIN fs = 1..Len(fs)
        /\ \A i \in 1..Len(fs) : t[i] = fs[i]
        /\ \A i \in (Len(fs) + 1)..Len(t) : t[i] = s[i - Len(fs) + 1]
    BY <1>2, <1>4, Places
  <2>3. Top(p) = s[1]
    BY <1>3 DEF Top
  <2>4. proc'[p].base = proc[p].base /\ proc'[p].parent = proc[p].parent
    BY DEF Goes, SameProcess
  <2>5. Own(p) \in Int /\ Own(p) <= Len(s) /\ Own(p) >= 2
    BY <1>3, <1>6, <2>1, <2>2, <2>3 DEF Inside, Own
  <2>6. Own(p)' = Own(p) + Len(fs) - 1 /\ Own(p)' <= Len(t)
    <3>1. Own(p)' = Len(t) - proc[p].base /\ Own(p) = Len(s) - proc[p].base
      BY <2>4 DEF Own
    <3>2. proc[p].base \in Nat /\ Len(s) \in Nat /\ Len(fs) \in Nat /\ Len(t) = Len(s) + Len(fs) - 1
      BY <1>3, <2>2
    <3>3. ASSUME NEW a \in Nat, NEW b \in Nat, NEW c \in Nat, NEW d, d = b + c - 1
          PROVE  d - a = (b - a) + c - 1 /\ d - a <= d
      BY <3>3
    <3>4. QED BY <2>4, <3>2, <3>3 DEF Own
  <2>7. Inside(p)'
    BY <1>6, <2>2, <2>5, <2>6 DEF Inside
  <2>8. ASSUME NEW i \in 1..Own(p)', Passes(t[i])
        PROVE  proc[p].parent # NoPid /\ \A j \in (i + 1)..Own(p)' : Inert(t[j])
    <3>1. CASE i <= Len(fs)
      <4>1. Passes(s[1]) /\ \A j \in DOMAIN fs : j > i => Inert(fs[j])
        BY <1>2, <2>2, <2>3, <2>8, <3>1 DEF Follows
      <4>2. proc[p].parent # NoPid /\ \A j \in 2..Own(p) : Inert(s[j])
        BY <1>6, <2>5, <4>1 DEF InTail
      <4>3. ASSUME NEW j \in (i + 1)..Own(p)' PROVE Inert(t[j])
        <5>1. CASE j <= Len(fs)
          <6>1. j \in DOMAIN fs /\ j > i /\ t[j] = fs[j]
            BY <2>2, <2>5, <2>6, <5>1
          <6>2. QED BY <4>1, <6>1
        <5>2. CASE j > Len(fs)
          <6>1. j \in 1..Own(p)'
            BY <2>8
          <6>2. j \in (Len(fs) + 1)..Len(t) /\ j - Len(fs) + 1 \in 2..Own(p)
            BY <2>2, <2>5, <2>6, <5>2, <6>1, Moved
          <6>3. t[j] = s[j - Len(fs) + 1]
            BY <2>2, <6>2
          <6>4. QED BY <4>2, <6>2, <6>3
        <5>3. QED BY <2>2, <5>1, <5>2
      <4>4. QED BY <4>2, <4>3
    <3>2. CASE i > Len(fs)
      <4>1. t[i] = s[i - Len(fs) + 1] /\ i - Len(fs) + 1 \in 1..Own(p)
        <5>1. i \in (Len(fs) + 1)..Len(t) /\ i - Len(fs) + 1 \in 2..Own(p)
          BY <2>2, <2>5, <2>6, <3>2, Moved
        <5>2. t[i] = s[i - Len(fs) + 1]
          <6>1. \A k \in (Len(fs) + 1)..Len(t) : t[k] = s[k - Len(fs) + 1]
            BY <2>2
          <6>2. QED BY <5>1, <6>1, Zenon
        <5>3. 2..Own(p) \subseteq 1..Own(p)
          BY <2>5
        <5>4. QED BY <5>1, <5>2, <5>3, Zenon
      <4>2. proc[p].parent # NoPid /\ \A j \in (i - Len(fs) + 2)..Own(p) : Inert(s[j])
        BY <1>6, <2>2, <2>5, <2>8, <4>1 DEF InTail
      <4>3. ASSUME NEW j \in (i + 1)..Own(p)' PROVE Inert(t[j])
        <5>1. j \in 1..Own(p)' /\ j > Len(fs) /\ j - Len(fs) + 1 \in (i - Len(fs) + 2)..Own(p)
          BY <2>2, <2>5, <2>6, <3>2, Moved
        <5>2. j \in (Len(fs) + 1)..Len(t)
          BY <2>2, <2>5, <2>6, <5>1, Moved
        <5>3. QED BY <2>2, <4>2, <5>1, <5>2
      <4>4. QED BY <4>2, <4>3
    <3>3. QED BY <2>2, <2>5, <2>6, <3>1, <3>2
  <2>9. InTail(p)'
    BY <2>4, <2>8 DEF InTail
  <2>10. QED BY <2>7, <2>9
<1>7. ASSUME Waits(p) PROVE Waits(p)'
  <2>1. /\ Len(t) = Len(s) + Len(fs) - 1 /\ Len(fs) \in Nat /\ Len(s) \in Nat
        /\ DOMAIN fs = 1..Len(fs)
        /\ \A i \in 1..Len(fs) : t[i] = fs[i]
        /\ \A i \in (Len(fs) + 1)..Len(t) : t[i] = s[i - Len(fs) + 1]
    BY <1>2, <1>4, Places
  <2>2. ASSUME NEW i \in 1..Len(t), t[i].k \in Waiting
        PROVE  i = 1 /\ Gets(p, t[i].ps)
    <3>1. CASE i <= Len(fs)
      BY <1>2, <2>1, <2>2, <3>1 DEF Follows
    <3>2. CASE i > Len(fs)
      <4>1. t[i] = s[i - Len(fs) + 1] /\ i - Len(fs) + 1 \in 2..Len(s)
        BY <2>1, <2>2, <3>2
      <4>2. PICK m \in 2..Len(s) : s[m].k \in Waiting
        BY <2>2, <4>1
      <4>3. m \in 1..Len(s) /\ m # 1
        BY <2>1
      <4>4. QED BY <1>7, <4>2, <4>3 DEF Waits
    <3>3. QED BY <2>1, <3>1, <3>2
  <2>3. QED BY <2>2 DEF Waits, Gets, IsChild, Children
<1>8. QED BY <1>5, <1>6, <1>7

LEMMA BornKeeps ==
  ASSUME Fitting, NEW p \in Pid, Running(p), frames[p] # <<>>, NEW c \in Pid, Born(p, c)
  PROVE  /\ Deep(p) => Deep(c)'
         /\ Inside(c)' /\ InTail(c)'
         /\ Waits(p) => Waits(c)'
<1>1. PICK n, fs : /\ frames'[c] = fs \o Tail(frames[p])
                   /\ fs = <<Exec(n, TRUE), Exit>> \/ fs = <<F("child", n, FALSE)>>
  BY DEF Born
<1>2. /\ Exec(n, TRUE).k = "exec" /\ Exit.k = "exit" /\ ~Exit.nf /\ Inert(Exit)
      /\ F("child", n, FALSE).k = "child" /\ ~F("child", n, FALSE).nf
  BY Zenon DEF F, Exec, Exit, Inert
<1>3. frames[p] \in Seq(Fit) /\ Tail(frames[p]) \in Seq(Fit) /\ glob[p] \in Glob
  BY DEF Fitting
<1> DEFINE e == Exec(n, TRUE)
           f == F("child", n, FALSE)
<1>21. e.k = "exec" /\ f.k = "child" /\ ~f.nf /\ (fs = <<e, Exit>> \/ fs = <<f>>)
  BY <1>1, <1>2
<1> HIDE DEF e, f
<1> DEFINE U == Fit \cup {e, Exit, f}
<1>4. fs \in Seq(U) /\ frames[p] \in Seq(U) /\ Tail(frames[p]) \in Seq(U)
  <2>1. e \in U /\ Exit \in U /\ f \in U /\ Fit \subseteq U
    OBVIOUS
  <2> HIDE DEF U
  <2>2. <<e, Exit>> \in Seq(U) /\ <<f>> \in Seq(U)
    BY <2>1, OneAndTwo
  <2>3. \A x \in Seq(Fit) : x \in Seq(U)
    BY <2>1
  <2>4. QED BY <1>21, <1>3, <2>2, <2>3
<1> HIDE DEF U
<1>5. ASSUME NEW K, K = Loops \/ K = Calls PROVE Number(frames'[c], K) = Number(frames[p], K)
  <2>1. Number(fs, K) = 0
    BY <1>21, <1>2, <1>5, NumberOne, NumberTwo DEF One, Loops, Calls
  <2>2. Number(fs \o Tail(frames[p]), K) = Number(fs, K) + Number(Tail(frames[p]), K)
    BY <1>4, NumberSum
  <2>3. Number(frames[p], K) = One(Head(frames[p]).k, K) + Number(Tail(frames[p]), K)
    BY <1>4, NumberTop
  <2>4. One(Head(frames[p]).k, K) = 0
    BY <1>5 DEF Born, Forks, Loops, Calls, Top, One
  <2>5. QED BY <1>1, <2>1, <2>2, <2>3, <2>4
<1>6. Deep(p) => Deep(c)'
  <2>1. glob'[c].loop_depth = glob[p].loop_depth /\ glob'[c].stack_depth = glob[p].stack_depth
    BY <1>3 DEF Born, Glob
  <2>2. QED BY <1>5, <2>1 DEF Deep
<1>7. /\ Len(frames'[c]) = Len(Tail(frames[p])) + Len(fs) /\ Len(Tail(frames[p])) \in Nat
      /\ \A i \in 1..Len(fs) : frames'[c][i] = fs[i]
  BY <1>1, <1>4
<1>8. Own(c)' = Len(fs)
  BY <1>1, <1>7 DEF Own, Born
<1>9. proc'[c].parent # NoPid
  BY PidAssumption DEF Born
<1>10. Inside(c)' /\ InTail(c)'
  <2>1. CASE fs = <<e, Exit>>
    <3>1. Len(fs) = 2 /\ frames'[c][1] = e /\ frames'[c][2] = Exit
      BY <1>7, <2>1
    <3>2. Inside(c)'
      BY <1>2, <1>8, <3>1 DEF Inside, Ends
    <3>3. InTail(c)'
      BY <1>2, <1>8, <1>9, <3>1 DEF InTail, Passes
    <3>4. QED BY <3>2, <3>3
  <2>2. CASE fs = <<f>>
    <3>1. Len(fs) = 1 /\ frames'[c][1] = f
      BY <1>7, <2>2
    <3>2. Inside(c)'
      BY <1>21, <1>8, <3>1 DEF Inside, Ends
    <3>3. InTail(c)'
      BY <1>21, <1>8, <1>9, <3>1 DEF InTail, Passes
    <3>4. QED BY <3>2, <3>3
  <2>3. QED BY <1>21, <2>1, <2>2
<1>11. ASSUME Waits(p) PROVE Waits(c)'
  <2>1. ASSUME NEW i \in 1..Len(frames'[c]) PROVE frames'[c][i].k \notin Waiting
    <3>1. CASE i <= Len(fs)
      BY <1>2, <1>21, <1>7, <3>1 DEF Waiting
    <3>2. CASE i > Len(fs)
      <4>1. frames'[c][i] = frames[p][i - Len(fs) + 1] /\ i - Len(fs) + 1 \in 2..Len(frames[p])
        BY <1>1, <1>4, <3>2
      <4>2. QED BY <1>11, <4>1 DEF Waits
    <3>3. QED BY <1>7, <3>1, <3>2
  <2>2. QED BY <2>1 DEF Waits
<1>12. QED BY <1>6, <1>10, <1>11

LEMMA StaysKeeps ==
  ASSUME NEW q, Stays(q)
  PROVE  /\ Deep(q) => Deep(q)'
         /\ Inside(q) /\ InTail(q) => Inside(q)' /\ InTail(q)'
         /\ Waits(q) => Waits(q)'
<1>1. /\ Deep(q) => Deep(q)'
      /\ Inside(q) /\ InTail(q) => Inside(q)' /\ InTail(q)'
  BY DEF Stays, SameProcess, Deep, Inside, InTail, Own
<1>2. Waits(q) => Waits(q)'
  BY DEF Stays, Waits, IsChild, Children
<1>3. QED BY <1>1, <1>2

LEMMA BecomesKeeps ==
  ASSUME NEW p, Becomes(p)
  PROVE  /\ proc'[p].state = "running" => At(p, "binary")'
         /\ Inside(p)' /\ Waits(p)'
<1>1. PICK fr : frames'[p] = <<fr>> /\ fr.k = "binary"
  BY DEF Becomes
<1>2. Len(frames'[p]) = 1 /\ frames'[p][1] = fr /\ Head(frames'[p]) = fr /\ frames'[p] # <<>>
  BY <1>1
<1>3. /\ proc'[p].state = "running" => At(p, "binary")'
      /\ Inside(p)'
  BY <1>1, <1>2 DEF Becomes, Inside, Own, Ends, At, Running, Top
<1>4. Waits(p)'
  BY <1>1, <1>2 DEF Waits, Waiting
<1>5. QED BY <1>3, <1>4
-----------------------------------------------------------------------------
(***************************************************************************)
(* The shapes of a step.                                                   *)
(***************************************************************************)
\* A step of p that does not touch the table of processes, but for who is reaped.
LEMMA Alone ==
  ASSUME Fitting, NEW p \in Pid, Running(p), frames[p] # <<>>, NEW S, NEW fs \in Seq(S), NEW g,
         frames' = [frames EXCEPT ![p] = fs \o Tail(@)], glob' = [glob EXCEPT ![p] = g],
         \A q \in Pid : SameProcess(q) \/ (q # p /\ proc[q].parent = p /\ proc'[q].state # "running"),
         Follows(p, fs, g)
  PROVE  Shaped(p)
<1>1. /\ frames'[p] = fs \o Tail(frames[p]) /\ glob'[p] = g
      /\ \A q \in Pid \ {p} : frames'[q] = frames[q] /\ glob'[q] = glob[q]
  BY DEF Fitting
<1>2. Goes(p)
  BY <1>1 DEF Goes
<1>3. \A q \in Pid \ {p} : Stays(q) \/ proc'[q].state # "running"
  BY <1>1 DEF Stays, SameProcess, Children, IsChild
<1>4. QED BY <1>2, <1>3 DEF Shaped

LEMMA LocalAlone ==
  ASSUME Fitting, NEW p \in Pid, Running(p), frames[p] # <<>>, NEW S, NEW fs \in Seq(S), NEW g,
         Local(p, fs, g), Follows(p, fs, g)
  PROVE  Shaped(p)
<1>1. \A q \in Pid : SameProcess(q)
  BY DEF Local, SameProcess
<1>2. frames' = [frames EXCEPT ![p] = fs \o Tail(@)] /\ glob' = [glob EXCEPT ![p] = g]
  BY DEF Local
<1>3. QED BY <1>1, <1>2, Alone

\* no frame, one, or two in place of the innermost
LEMMA NoneFollows ==
  ASSUME NEW p, NEW k, Top(p).k = k, NEW g,
         k \notin {"exit", "binary"}, k = "child" => ~Top(p).n.assign,
         Depths(glob[p], g, 0 - One(k, Loops), 0 - One(k, Calls))
  PROVE  Follows(p, <<>>, g)
<1>1. Number(<<>>, Loops) = 0 /\ Number(<<>>, Calls) = 0
  BY NumberEmpty
<1>2. DOMAIN <<>> = {}
  OBVIOUS
<1>3. QED BY <1>1, <1>2 DEF Follows

LEMMA OneFollows ==
  ASSUME NEW p, NEW k, Top(p).k = k, NEW g, NEW a,
         k \notin Ends,
         Depths(glob[p], g, One(a.k, Loops) - One(k, Loops), One(a.k, Calls) - One(k, Calls)),
         Passes(a) => Passes(Top(p)),
         a.k \in Waiting => Gets(p, a.ps)
  PROVE  Follows(p, <<a>>, g)
<1>1. Number(<<a>>, Loops) = One(a.k, Loops) /\ Number(<<a>>, Calls) = One(a.k, Calls)
  BY NumberOne
<1>2. DOMAIN <<a>> = {1} /\ <<a>>[1] = a
  OBVIOUS
<1>3. \A i \in DOMAIN <<a>> : Passes(<<a>>[i]) =>
        Passes(Top(p)) /\ \A j \in DOMAIN <<a>> : j > i => Inert(<<a>>[j])
  BY <1>2
<1>4. \A i \in DOMAIN <<a>> : <<a>>[i].k \in Waiting => i = 1 /\ Gets(p, <<a>>[i].ps)
  BY <1>2
<1>5. QED BY <1>1, <1>3, <1>4 DEF Follows, Ends

LEMMA TwoFollow ==
  ASSUME NEW p, NEW k, Top(p).k = k, NEW g, NEW a, NEW b,
         k \notin Ends,
         Depths(glob[p], g, One(a.k, Loops) + One(b.k, Loops) - One(k, Loops),
                            One(a.k, Calls) + One(b.k, Calls) - One(k, Calls)),
         Passes(a) => Passes(Top(p)) /\ Inert(b),
         Passes(b) => Passes(Top(p)),
         a.k \in Waiting => Gets(p, a.ps), b.k \notin Waiting
  PROVE  Follows(p, <<a, b>>, g)
<1>1. /\ Number(<<a, b>>, Loops) = One(a.k, Loops) + One(b.k, Loops)
      /\ Number(<<a, b>>, Calls) = One(a.k, Calls) + One(b.k, Calls)
  BY NumberTwo
<1>2. DOMAIN <<a, b>> = {1, 2} /\ <<a, b>>[1] = a /\ <<a, b>>[2] = b
  OBVIOUS
<1>3. \A i \in DOMAIN <<a, b>> : Passes(<<a, b>>[i]) =>
        Passes(Top(p)) /\ \A j \in DOMAIN <<a, b>> : j > i => Inert(<<a, b>>[j])
  BY <1>2
<1>4. Depths(glob[p], g, Number(<<a, b>>, Loops) - One(Top(p).k, Loops), Number(<<a, b>>, Calls) - One(Top(p).k, Calls))
  <2> DEFINE l == Number(<<a, b>>, Loops)
             c == Number(<<a, b>>, Calls)
  <2>1. l = One(a.k, Loops) + One(b.k, Loops) /\ c = One(a.k, Calls) + One(b.k, Calls)
    BY <1>1
  <2> HIDE DEF l, c
  <2>2. /\ l - One(Top(p).k, Loops) = One(a.k, Loops) + One(b.k, Loops) - One(k, Loops)
        /\ c - One(Top(p).k, Calls) = One(a.k, Calls) + One(b.k, Calls) - One(k, Calls)
    <3>1. \A x, kinds : One(x, kinds) \in Int
      BY DEF One
    <3>2. QED BY <2>1, <3>1
  <2>4. Depths(glob[p], g, l - One(Top(p).k, Loops), c - One(Top(p).k, Calls))
    BY <2>2, Zenon
  <2>5. QED BY <2>4 DEF l, c
<1>5. Top(p).k \notin {"exit", "binary"} /\ (Top(p).k = "child" => ~Top(p).n.assign)
  BY DEF Ends
<1>6. \A i \in DOMAIN <<a, b>> : <<a, b>>[i].k \in Waiting => i = 1 /\ Gets(p, <<a, b>>[i].ps)
  BY <1>2
<1> DEFINE fs == <<a, b>>
<1> HIDE DEF fs
<1>7. QED BY <1>3, <1>4, <1>5, <1>6 DEF Follows, fs

LEMMA LocalNone ==
  ASSUME Fitting, NEW p \in Pid, NEW k, At(p, k), NEW g, Local(p, <<>>, g),
         k \notin {"exit", "binary"}, k = "child" => ~Top(p).n.assign,
         Depths(glob[p], g, 0 - One(k, Loops), 0 - One(k, Calls))
  PROVE  Shaped(p)
<1>1. Running(p) /\ frames[p] # <<>> /\ Top(p).k = k /\ <<>> \in Seq(Fit)
  BY DEF At
<1>2. QED BY <1>1, NoneFollows, LocalAlone

LEMMA LocalOne ==
  ASSUME Fitting, NEW p \in Pid, NEW k, At(p, k), NEW g, NEW a, Local(p, <<a>>, g),
         k \notin Ends,
         Depths(glob[p], g, One(a.k, Loops) - One(k, Loops), One(a.k, Calls) - One(k, Calls)),
         Passes(a) => Passes(Top(p)),
         a.k \in Waiting => Gets(p, a.ps)
  PROVE  Shaped(p)
<1>1. Running(p) /\ frames[p] # <<>> /\ Top(p).k = k /\ <<a>> \in Seq({a})
  BY DEF At
<1>2. QED BY <1>1, OneFollows, LocalAlone

LEMMA LocalTwo ==
  ASSUME Fitting, NEW p \in Pid, NEW k, At(p, k), NEW g, NEW a, NEW b, Local(p, <<a, b>>, g),
         k \notin Ends,
         Depths(glob[p], g, One(a.k, Loops) + One(b.k, Loops) - One(k, Loops),
                            One(a.k, Calls) + One(b.k, Calls) - One(k, Calls)),
         Passes(a) => Passes(Top(p)) /\ Inert(b),
         Passes(b) => Passes(Top(p)),
         a.k \in Waiting => Gets(p, a.ps), b.k \notin Waiting
  PROVE  Shaped(p)
<1>1. Running(p) /\ frames[p] # <<>> /\ Top(p).k = k /\ <<a, b>> \in Seq({a, b})
  BY DEF At
<1>2. Follows(p, <<a, b>>, g)
  BY <1>1, TwoFollow
<1> DEFINE fs == <<a, b>>
<1> HIDE DEF fs
<1>3. fs \in Seq({a, b}) /\ Local(p, fs, g) /\ Follows(p, fs, g)
  BY <1>1, <1>2 DEF fs
<1>4. QED BY <1>1, <1>3, LocalAlone

\* The points that neither end a process nor count as a depth.
Plain == Kinds \ (Loops \cup Calls \cup Ends)
Quiet == Plain \ Waiting

\* most steps: nothing is counted, and at most one frame gets the flag
LEMMA PlainNone ==
  ASSUME Fitting, NEW p \in Pid, NEW k \in Plain, At(p, k), NEW g, Local(p, <<>>, g),
         Depths(glob[p], g, 0, 0)
  PROVE  Shaped(p)
<1>1. k \notin {"exit", "binary"} /\ k # "child" /\ One(k, Loops) = 0 /\ One(k, Calls) = 0
  BY DEF Plain, Ends, One
<1>2. QED BY <1>1, LocalNone

LEMMA PlainOne ==
  ASSUME Fitting, NEW p \in Pid, NEW k \in Plain, At(p, k), NEW g, NEW a, Local(p, <<a>>, g),
         Depths(glob[p], g, 0, 0), a.k \in Quiet, Passes(a) => Passes(Top(p))
  PROVE  Shaped(p)
<1>1. /\ k \notin Ends /\ One(k, Loops) = 0 /\ One(k, Calls) = 0
      /\ One(a.k, Loops) = 0 /\ One(a.k, Calls) = 0 /\ a.k \notin Waiting
  BY DEF Plain, Quiet, One
<1>2. QED BY <1>1, LocalOne

\* the steps that wait
LEMMA WaitOne ==
  ASSUME Fitting, NEW p \in Pid, NEW k \in Plain, At(p, k), NEW g, NEW a, Local(p, <<a>>, g),
         Depths(glob[p], g, 0, 0), a.k \in Waiting, Gets(p, a.ps)
  PROVE  Shaped(p)
<1>1. /\ k \notin Ends /\ One(k, Loops) = 0 /\ One(k, Calls) = 0
      /\ One(a.k, Loops) = 0 /\ One(a.k, Calls) = 0 /\ ~Passes(a)
  BY DEF Plain, Waiting, One, Loops, Calls, Ends, Passes, Carriers
<1>2. QED BY <1>1, LocalOne

LEMMA PlainTwo ==
  ASSUME Fitting, NEW p \in Pid, NEW k \in Plain, At(p, k), NEW g, NEW a, NEW b, Local(p, <<a, b>>, g),
         Depths(glob[p], g, 0, 0), a.k \in Quiet, b.k \in Quiet,
         ~Passes(a), Passes(b) => Passes(Top(p))
  PROVE  Shaped(p)
<1>1. /\ k \notin Ends /\ One(k, Loops) = 0 /\ One(k, Calls) = 0
      /\ One(a.k, Loops) = 0 /\ One(a.k, Calls) = 0
      /\ One(b.k, Loops) = 0 /\ One(b.k, Calls) = 0
      /\ a.k \notin Waiting /\ b.k \notin Waiting
  BY DEF Plain, Quiet, One
<1>2. QED BY <1>1, LocalTwo

\* who dies is not running any more
LEMMA DieShaped ==
  ASSUME Fitting, NEW p \in Pid, NEW status, NEW signalled, Die(p, status, signalled)
  PROVE  Shaped(p)
<1>1. proc[p] \in Proc
  BY DEF Fitting
<1>2. proc'[p].state = "zombie" /\ \A q \in Pid \ {p} : proc'[q] = proc[q]
  BY <1>1 DEF Die, Fitting, Proc
<1>3. proc'[p].parent = proc[p].parent
  BY <1>1 DEF Die, Fitting, Proc
<1>4. \A q \in Pid \ {p} : Stays(q)
  BY <1>2, <1>3 DEF Die, Fitting, Stays, SameProcess, Children, IsChild
<1>5. QED BY <1>2, <1>4 DEF Shaped

\* waitpid: the frames that follow are no calls
LEMMA ReapShaped ==
  ASSUME Fitting, NEW p \in Pid, NEW k \in Plain, At(p, k), NEW c,
         NEW fs, Reap(p, c, fs),
         \/ fs = <<>>
         \/ \E a : fs = <<a>> /\ a.k \in Plain \ Carriers /\ (a.k \in Waiting => Gets(p, a.ps))
  PROVE  Shaped(p)
<1>1. Running(p) /\ frames[p] # <<>> /\ Top(p).k = k /\ glob[p] \in Glob
  BY DEF At, Fitting
<1>2. c \in Pid /\ proc[c] \in Proc /\ proc[c].state = "zombie" /\ c # p /\ proc[c].parent = p
  BY <1>1 DEF Reap, Children, Fitting, Running
<1>3. \A q \in Pid : SameProcess(q) \/ (q # p /\ proc[q].parent = p /\ proc'[q].state # "running")
  BY <1>2 DEF Reap, Fitting, SameProcess, Proc
<1>4. Depths(glob[p], Report(glob[p], c), 0, 0)
  BY <1>1 DEF Depths, Report, Status, Glob
<1>5. /\ frames' = [frames EXCEPT ![p] = fs \o Tail(@)]
      /\ glob' = [glob EXCEPT ![p] = Report(glob[p], c)]
  BY DEF Reap
<1>6. CASE fs = <<>>
  <2>1. k \notin {"exit", "binary"} /\ k # "child" /\ One(k, Loops) = 0 /\ One(k, Calls) = 0
    BY DEF Plain, Ends, One
  <2>2. Follows(p, fs, Report(glob[p], c))
    BY <1>1, <1>4, <1>6, <2>1, NoneFollows
  <2>3. fs \in Seq(Fit)
    BY <1>6
  <2>4. QED BY <1>1, <1>3, <1>5, <2>2, <2>3, Alone
<1>7. ASSUME NEW a, fs = <<a>>, a.k \in Plain \ Carriers, a.k \in Waiting => Gets(p, a.ps)
      PROVE  Shaped(p)
  <2>1. /\ k \notin Ends /\ One(k, Loops) = 0 /\ One(k, Calls) = 0
        /\ One(a.k, Loops) = 0 /\ One(a.k, Calls) = 0 /\ ~Passes(a)
    BY <1>7 DEF Plain, One, Passes
  <2>2. Follows(p, fs, Report(glob[p], c))
    BY <1>1, <1>4, <1>7, <2>1, OneFollows
  <2>3. fs \in Seq({a})
    BY <1>7
  <2>4. QED BY <1>1, <1>3, <1>5, <2>2, <2>3, Alone
<1>8. QED BY <1>6, <1>7

LEMMA ForkShaped ==
  ASSUME Fitting, NEW p \in Pid, Running(p), frames[p] # <<>>, Free # {},
         NEW S, NEW fs \in Seq(S), NEW g, NEW child, NEW out,
         Fork(p, FreshPid, fs, g, child, out), Follows(p, fs, g), Top(p).k \in Forks,
         \/ \E n : child = <<Exec(n, TRUE), Exit>>
         \/ \E n : child = <<F("child", n, FALSE)>>
  PROVE  Shaped(p)
<1> DEFINE c == FreshPid
<1>1. c \in Pid /\ c # p
  BY FreshIsFree DEF Free, Running
<1> HIDE DEF c
<1>3. /\ \A q \in Pid : q # c => proc'[q] = proc[q]
      /\ proc'[c].parent = p /\ proc'[c].base = Len(Tail(frames[p]))
  BY <1>1 DEF Fork, Fitting, Rest, c
<1>4. /\ frames'[p] = fs \o Tail(frames[p]) /\ frames'[c] = child \o Tail(frames[p])
      /\ \A q \in Pid \ {p, c} : frames'[q] = frames[q]
  BY <1>1 DEF Fork, Fitting, Rest, c
<1>5. /\ glob'[p] = g /\ glob'[c] = [glob[p] EXCEPT !.job_control = FALSE]
      /\ \A q \in Pid \ {p, c} : glob'[q] = glob[q]
  BY <1>1 DEF Fork, Fitting, c
<1>6. Goes(p)
  BY <1>1, <1>3, <1>4, <1>5 DEF Goes, SameProcess
<1>8. Born(p, c)
  BY <1>3, <1>4, <1>5 DEF Born
<1>9. \A q \in Pid \ {p, c} : Stays(q)
  <2>1. proc[c].state = "free"
    BY FreshIsFree DEF Free, c
  <2>2. \A q \in Pid : \A d \in Children(q) : IsChild(q, d)
    BY <1>3, <2>1 DEF Children, IsChild
  <2>3. QED BY <1>3, <1>4, <1>5, <2>2 DEF Stays, SameProcess
<1>10. QED BY <1>6, <1>8, <1>9 DEF Shaped

\* the child that fork makes, the one that is waited for
LEMMA NewChild ==
  ASSUME Fitting, NEW p \in Pid, Free # {}, NEW fs, NEW g, NEW child, NEW out,
         Fork(p, FreshPid, fs, g, child, out)
  PROVE  /\ IsChild(p, FreshPid)
         /\ \A c \in Children(p) : c # FreshPid /\ IsChild(p, c)
         /\ Gets(p, WaitFor(<<FreshPid>>).ps) /\ Gets(p, Read(FreshPid).ps)
<1> DEFINE c == FreshPid
<1>1. c \in Pid /\ proc[c].state = "free"
  BY FreshIsFree DEF Free
<1>2. proc' = [proc EXCEPT ![c] = [state |-> "running", parent |-> p, status |-> 0,
                                   signalled |-> FALSE, out |-> out, base |-> Len(Rest(p))]]
  BY DEF Fork
<1> HIDE DEF c
<1>3. IsChild(p, c) /\ \A d \in Children(p) : d # c /\ IsChild(p, d)
  BY <1>1, <1>2 DEF IsChild, Children, Fitting
<1>4. Gets(p, <<c>>)
  BY <1>3 DEF Gets, Distinct
<1>5. WaitFor(<<c>>).ps = <<c>> /\ Read(c).ps = <<c>>
  BY DEF WaitFor, Read, F
<1>6. QED BY <1>3, <1>4, <1>5 DEF c

\* job_single, from a call that is not counted
LEMMA SingleShaped ==
  ASSUME Fitting, NEW p \in Pid, NEW k \in Plain \cap Forks, At(p, k), NEW child, Single(p, child),
         \/ \E n : child = <<Exec(n, TRUE), Exit>>
         \/ \E n : child = <<F("child", n, FALSE)>>
  PROVE  Shaped(p)
<1>1. Running(p) /\ frames[p] # <<>> /\ Top(p).k = k /\ glob[p] \in Glob
  BY DEF At, Fitting
<1>2. Depths(glob[p], glob[p], 0, 0)
  BY <1>1 DEF Depths, Glob
<1>3. CASE Free # {}
  <2> DEFINE a == WaitFor(<<FreshPid>>)
  <2>1. a.k = "wait" /\ <<a>> \in Seq({a})
    BY DEF WaitFor, F
  <2>2. Fork(p, FreshPid, <<a>>, glob[p], child, proc[p].out)
    BY <1>3 DEF Single
  <2> HIDE DEF a
  <2>3. /\ k \notin Ends /\ One(k, Loops) = 0 /\ One(k, Calls) = 0
        /\ One(a.k, Loops) = 0 /\ One(a.k, Calls) = 0 /\ ~Passes(a)
    BY <2>1 DEF Plain, One, Passes, Loops, Calls, Carriers
  <2>4. Follows(p, <<a>>, glob[p])
    <3>1. Gets(p, a.ps)
      BY <1>3, <2>2, NewChild, Zenon DEF a
    <3>2. QED BY <1>1, <1>2, <2>3, <3>1, OneFollows
  <2>5. QED BY <1>1, <1>3, <2>1, <2>2, <2>4, ForkShaped
<1>4. CASE Free = {}
  <2>1. Local(p, <<>>, glob[p])
    BY <1>4 DEF Single
  <2>2. QED BY <1>2, <2>1, PlainNone
<1>5. QED BY <1>3, <1>4

LEMMA ImageShaped ==
  ASSUME Fitting, NEW p \in Pid, Image(p)
  PROVE  Shaped(p)
<1>1. proc[p] \in Proc
  BY DEF Fitting
<1> DEFINE fr == F("binary", Top(p).n, TRUE)
<1>2. fr.k = "binary"
  BY Zenon DEF F
<1> HIDE DEF fr
<1>3. frames'[p] = <<fr>> /\ \A q \in Pid \ {p} : frames'[q] = frames[q] /\ glob'[q] = glob[q]
  BY DEF Image, Fitting, fr
<1>4. proc'[p].base = 0 /\ \A q \in Pid \ {p} : proc'[q] = proc[q]
  BY <1>1 DEF Image, Fitting, Proc
<1>5. proc'[p].state = proc[p].state /\ proc'[p].parent = proc[p].parent
  BY <1>1 DEF Image, Fitting, Proc
<1>6. \A q \in Pid : \A c \in Children(q) : IsChild(q, c)
  BY <1>4, <1>5 DEF Children, IsChild
<1>7. QED BY <1>2, <1>3, <1>4, <1>6 DEF Shaped, Becomes, Stays, SameProcess
-----------------------------------------------------------------------------
(***************************************************************************)
(* Every action has that shape.                                            *)
(***************************************************************************)
LEMMA PlainPoints ==
  /\ {"exec", "run", "call", "eval", "interp", "left", "if", "negate", "pipe",
      "wait", "waitall", "waitlast", "read"} \subseteq Plain
  /\ {"exec", "run", "call", "interp", "left", "if", "negate", "waitall", "waitlast"} \subseteq Quiet
  /\ Quiet \subseteq Plain
BY DEF Plain, Quiet, Waiting, Kinds, Loops, Calls, Ends

LEMMA DepthsSame ==
  ASSUME NEW g \in Glob
  PROVE  /\ Depths(g, g, 0, 0)
         /\ \A s : Depths(g, Status(g, s), 0, 0)
         /\ Depths(g, Consume(g), 0, 0)
BY DEF Glob, Depths, Status, Consume

\* without the flag
LEMMA NoFlag ==
  ASSUME NEW k, NEW n
  PROVE  /\ ~Passes(F(k, n, FALSE)) /\ F(k, n, FALSE).k = k
         /\ ~Passes(Exec(n, FALSE)) /\ Exec(n, FALSE).k = "exec" /\ "exec" \in Quiet /\ "exec" \in Plain
<1>1. ~Passes(F(k, n, FALSE)) /\ F(k, n, FALSE).k = k
  BY Zenon DEF Passes, F
<1>2. ~Passes(Exec(n, FALSE)) /\ Exec(n, FALSE).k = "exec"
  BY Zenon DEF Passes, F, Exec
<1>3. "exec" \in Quiet /\ "exec" \in Plain
  BY PlainPoints
<1>4. QED BY <1>1, <1>2, <1>3, Zenon

\* with the flag of the innermost frame
LEMMA SameFlag ==
  ASSUME Fitting, NEW p \in Pid, NEW k \in Carriers, At(p, k), NEW j, NEW n
  PROVE  /\ Passes(F(j, n, Top(p).nf)) => Passes(Top(p))
         /\ F(j, n, Top(p).nf).k = j
         /\ Passes(Exec(n, Top(p).nf)) => Passes(Top(p))
         /\ Exec(n, Top(p).nf).k = "exec" /\ "exec" \in Quiet /\ "exec" \in Plain
<1>1. Top(p).k \in Carriers
  BY DEF At
<1> DEFINE nf == Top(p).nf
<1>2. F(j, n, nf).k = j /\ F(j, n, nf).nf = nf
  BY Zenon DEF F
<1>3. Exec(n, nf).k = "exec" /\ Exec(n, nf).nf = nf
  BY Zenon DEF F, Exec
<1>4. "exec" \in Quiet /\ "exec" \in Plain
  BY PlainPoints
<1>5. QED BY <1>1, <1>2, <1>3, <1>4, Zenon DEF Passes

LEMMA SkipShaped ==
  ASSUME Fitting, NEW p \in Pid, Skip(p) \/ RedirsFail(p)
  PROVE  Shaped(p)
<1>1. At(p, "exec") /\ (Local(p, <<>>, glob[p]) \/ Local(p, <<>>, Status(glob[p], 1)))
  BY DEF Skip, RedirsFail
<1>2. glob[p] \in Glob /\ "exec" \in Quiet /\ "exec" \in Plain
  BY <1>1, AtHas, PlainPoints
<1>3. QED BY <1>1, <1>2, DepthsSame, PlainNone

LEMMA BinaryShaped ==
  ASSUME Fitting, NEW p \in Pid, ExecBinary(p) \/ AfterLeft(p)
  PROVE  Shaped(p)
<1>1. CASE ExecBinary(p)
  <2> DEFINE a == Exec(Top(p).n.left, FALSE)
             b == F("left", Top(p).n, Top(p).nf)
  <2>1. At(p, "exec") /\ Local(p, <<a, b>>, glob[p])
    BY <1>1 DEF ExecBinary, Entering
  <2>2. a.k \in Quiet /\ ~Passes(a)
    BY NoFlag, Zenon
  <2>3. b.k = "left" /\ (Passes(b) => Passes(Top(p)))
    <3>1. "exec" \in Carriers
      BY DEF Carriers
    <3>2. QED BY <2>1, <3>1, SameFlag, Zenon
  <2> HIDE DEF a, b
  <2>4. glob[p] \in Glob /\ "exec" \in Quiet /\ "exec" \in Plain /\ "left" \in Quiet /\ "left" \in Plain
    BY <2>1, AtHas, PlainPoints
  <2>5. QED BY <2>1, <2>2, <2>3, <2>4, DepthsSame, PlainTwo
<1>2. CASE AfterLeft(p)
  <2> DEFINE a == Exec(Top(p).n.right, Top(p).nf)
  <2>1. At(p, "left") /\ (Local(p, <<a>>, glob[p]) \/ Local(p, <<>>, glob[p]))
    BY <1>2 DEF AfterLeft
  <2>2. a.k \in Quiet /\ (Passes(a) => Passes(Top(p)))
    <3>1. "left" \in Carriers
      BY DEF Carriers
    <3>2. QED BY <2>1, <3>1, SameFlag, Zenon
  <2> HIDE DEF a
  <2>3. glob[p] \in Glob /\ "left" \in Quiet /\ "left" \in Plain
    BY <2>1, AtHas, PlainPoints
  <2>4. QED BY <2>1, <2>2, <2>3, DepthsSame, PlainOne, PlainNone
<1>3. QED BY <1>1, <1>2

LEMMA IfShaped ==
  ASSUME Fitting, NEW p \in Pid, ExecIf(p) \/ AfterIf(p)
  PROVE  Shaped(p)
<1>1. CASE ExecIf(p)
  <2> DEFINE a == Exec(Top(p).n.condition, FALSE)
             b == F("if", Top(p).n, Top(p).nf)
  <2>1. At(p, "exec") /\ Local(p, <<a, b>>, Status(glob[p], 0))
    BY <1>1 DEF ExecIf, Entering
  <2>2. a.k \in Quiet /\ ~Passes(a)
    BY NoFlag, Zenon
  <2>3. b.k = "if" /\ (Passes(b) => Passes(Top(p)))
    <3>1. "exec" \in Carriers
      BY DEF Carriers
    <3>2. QED BY <2>1, <3>1, SameFlag, Zenon
  <2> HIDE DEF a, b
  <2>4. glob[p] \in Glob /\ "exec" \in Quiet /\ "exec" \in Plain /\ "if" \in Quiet /\ "if" \in Plain
    BY <2>1, AtHas, PlainPoints
  <2>5. QED BY <2>1, <2>2, <2>3, <2>4, DepthsSame, PlainTwo
<1>2. CASE AfterIf(p)
  <2>1. PICK taken : At(p, "if") /\ Local(p, <<Exec(taken, Top(p).nf)>>, Status(glob[p], 0))
    BY <1>2 DEF AfterIf
  <2> DEFINE a == Exec(taken, Top(p).nf)
  <2>2. a.k \in Quiet /\ (Passes(a) => Passes(Top(p)))
    <3>1. "if" \in Carriers
      BY DEF Carriers
    <3>2. QED BY <2>1, <3>1, SameFlag, Zenon
  <2>3. Local(p, <<a>>, Status(glob[p], 0))
    BY <2>1
  <2> HIDE DEF a
  <2>4. glob[p] \in Glob /\ "if" \in Quiet /\ "if" \in Plain
    BY <2>1, AtHas, PlainPoints
  <2>5. QED BY <2>1, <2>2, <2>3, <2>4, DepthsSame, PlainOne
<1>3. QED BY <1>1, <1>2

\* the weights of the points
LEMMA Weights ==
  /\ \A k \in Loops : One(k, Loops) = 1 /\ One(k, Calls) = 0 /\ k \notin Ends /\ (k # "for" => k \notin Carriers)
  /\ \A k \in Calls : One(k, Loops) = 0 /\ One(k, Calls) = 1 /\ k \notin Ends
  /\ \A k \in Plain : One(k, Loops) = 0 /\ One(k, Calls) = 0 /\ k \notin Ends
BY DEF One, Loops, Calls, Ends, Carriers, Plain

LEMMA LoopDepths ==
  ASSUME NEW g \in Glob
  PROVE  /\ \A s : Depths(g, Status([g EXCEPT !.loop_depth = @ + 1], s), 1, 0)
         /\ \A s : Depths(g, Status(LeaveLoop(g), s), -1, 0)
         /\ \A s : Depths(g, Status(LeaveLoop(Consume(g)), s), -1, 0)
         /\ Depths(g, LeaveLoop(Consume(g)), -1, 0)
         /\ \A s : Depths(g, Status(Consume(g), s), 0, 0)
BY DEF Glob, Depths, Status, Consume, LeaveLoop

LEMMA ConditionShaped ==
  ASSUME Fitting, NEW p \in Pid, NEW k \in {"exec", "condition", "body"}, At(p, k),
         NEW fr \in Fit, NEW g, Condition(p, fr, g),
         Depths(glob[p], Status(g, 0), 1 - One(k, Loops), 0)
  PROVE  Shaped(p)
<1> DEFINE a == Exec(fr.n.condition, FALSE)
           b == [fr EXCEPT !.k = "condition"]
<1>1. Local(p, <<a, b>>, Status(g, 0))
  BY DEF Condition
<1>2. a.k = "exec" /\ ~Passes(a)
  BY NoFlag, Zenon
<1>3. b.k = "condition"
  BY DEF Fit, Frame
<1> HIDE DEF a, b
<1>4. /\ One(a.k, Loops) = 0 /\ One(a.k, Calls) = 0
      /\ One(b.k, Loops) = 1 /\ One(b.k, Calls) = 0
      /\ One(k, Calls) = 0 /\ One(k, Loops) \in Int /\ k \notin Ends
  BY <1>2, <1>3 DEF One, Loops, Calls, Ends
<1>5. ~Passes(b) /\ a.k \notin Waiting /\ b.k \notin Waiting
  BY <1>2, <1>3 DEF Passes, Carriers, Waiting
<1> DEFINE h == Status(g, 0)
           l == One(k, Loops)
<1>6. Depths(glob[p], h, One(a.k, Loops) + One(b.k, Loops) - l, One(a.k, Calls) + One(b.k, Calls) - One(k, Calls))
  <2>1. One(a.k, Loops) + One(b.k, Loops) - l = 1 - l /\ One(a.k, Calls) + One(b.k, Calls) - One(k, Calls) = 0
    BY <1>4
  <2>2. QED BY <2>1
<1>7. QED BY <1>1, <1>2, <1>4, <1>5, <1>6, LocalTwo

LEMMA LoopShaped ==
  ASSUME Fitting, NEW p \in Pid, ExecLoop(p) \/ AfterCondition(p) \/ AfterBody(p)
  PROVE  Shaped(p)
<1>1. CASE ExecLoop(p)
  <2> DEFINE fr == F("condition", Top(p).n, Top(p).nf)
             g == [glob[p] EXCEPT !.loop_depth = @ + 1]
  <2>1. At(p, "exec") /\ Entering(p, LoopTypes) /\ Condition(p, fr, g)
    BY <1>1 DEF ExecLoop, Entering
  <2>2. fr \in Fit /\ glob[p] \in Glob
    BY <2>1, EnteringHas, FramesFit
  <2>3. Depths(glob[p], Status(g, 0), 1, 0)
    BY <2>2, LoopDepths
  <2> HIDE DEF fr, g
  <2>4. 1 - One("exec", Loops) = 1
    BY DEF One, Loops
  <2>5. Depths(glob[p], Status(g, 0), 1 - One("exec", Loops), 0)
    BY <2>3, <2>4
  <2>6. QED BY <2>1, <2>2, <2>5, ConditionShaped
<1>2. CASE AfterCondition(p)
  <2>1. At(p, "condition") /\ One("condition", Loops) = 1 /\ One("condition", Calls) = 0
    BY <1>2 DEF AfterCondition, One, Loops, Calls
  <2>2. glob[p] \in Glob /\ Top(p) \in Fit
    BY <2>1, AtHas
  <2> DEFINE a == Exec(Top(p).n.body, FALSE)
             b == [Top(p) EXCEPT !.k = "body"]
  <2>3. \/ Local(p, <<>>, Status(LeaveLoop(glob[p]), Top(p).i))
        \/ Local(p, <<>>, Status(LeaveLoop(Consume(glob[p])), Top(p).i))
        \/ Condition(p, Top(p), Consume(glob[p]))
        \/ Local(p, <<a, b>>, glob[p])
    BY <1>2 DEF AfterCondition
  <2>4. a.k = "exec" /\ ~Passes(a)
    BY NoFlag, Zenon
  <2>5. b.k = "body"
    BY <2>2 DEF Fit, Frame
  <2> HIDE DEF a, b
  <2>6. ASSUME NEW g, Local(p, <<>>, g), Depths(glob[p], g, -1, 0) PROVE Shaped(p)
    BY <2>1, <2>6, LocalNone
  <2>7. CASE Condition(p, Top(p), Consume(glob[p]))
    <3>1. Depths(glob[p], Status(Consume(glob[p]), 0), 1 - One("condition", Loops), 0)
      <4>1. Depths(glob[p], Status(Consume(glob[p]), 0), 0, 0)
        BY <2>2, LoopDepths, Zenon
      <4>2. 1 - One("condition", Loops) = 0
        BY <2>1
      <4>3. QED BY <4>1, <4>2
    <3>2. QED BY <2>1, <2>2, <2>7, <3>1, ConditionShaped
  <2>8. CASE Local(p, <<a, b>>, glob[p])
    <3>1. ~Passes(b) /\ a.k \notin Waiting /\ b.k \notin Waiting
      BY <2>4, <2>5 DEF Passes, Carriers, Waiting
    <3>2. /\ One(a.k, Loops) + One(b.k, Loops) - One("condition", Loops) = 0
          /\ One(a.k, Calls) + One(b.k, Calls) - One("condition", Calls) = 0
          /\ "condition" \notin Ends
      BY <2>4, <2>5 DEF One, Loops, Calls, Ends
    <3>3. Depths(glob[p], glob[p], 0, 0)
      BY <2>2, DepthsSame
    <3>4. QED BY <2>1, <2>4, <2>8, <3>1, <3>2, <3>3, LocalTwo
  <2>9. QED BY <2>2, <2>3, <2>6, <2>7, <2>8, LoopDepths
<1>3. CASE AfterBody(p)
  <2>1. At(p, "body") /\ One("body", Loops) = 1 /\ One("body", Calls) = 0
    BY <1>3 DEF AfterBody, One, Loops, Calls
  <2>2. glob[p] \in Glob /\ Top(p) \in Fit
    BY <2>1, AtHas
  <2> DEFINE fr == [Top(p) EXCEPT !.i = glob[p].exit_status]
  <2>3. fr \in Fit
    BY <2>2, LoopBookkeeping, FrameUpdates
  <2>4. Local(p, <<>>, LeaveLoop(Consume(glob[p]))) \/ Condition(p, fr, Consume(glob[p]))
    BY <1>3 DEF AfterBody
  <2> HIDE DEF fr
  <2>5. CASE Local(p, <<>>, LeaveLoop(Consume(glob[p])))
    <3>1. Depths(glob[p], LeaveLoop(Consume(glob[p])), -1, 0)
      BY <2>2, LoopDepths
    <3>2. QED BY <2>1, <2>5, <3>1, LocalNone
  <2>6. CASE Condition(p, fr, Consume(glob[p]))
    <3>1. Depths(glob[p], Status(Consume(glob[p]), 0), 1 - One("body", Loops), 0)
      <4>1. Depths(glob[p], Status(Consume(glob[p]), 0), 0, 0)
        BY <2>2, LoopDepths, Zenon
      <4>2. 1 - One("body", Loops) = 0
        BY <2>1
      <4>3. QED BY <4>1, <4>2
    <3>2. QED BY <2>1, <2>3, <2>6, <3>1, ConditionShaped
  <2>7. QED BY <2>4, <2>5, <2>6
<1>4. QED BY <1>1, <1>2, <1>3

\* the flag goes to the body of the last word
LEMMA WordShaped ==
  ASSUME Fitting, NEW p \in Pid, NEW k \in {"exec", "for"}, At(p, k),
         NEW fr \in Fit, fr.k = "for", fr.nf => Top(p).nf, NEW g, ForWord(p, fr, g),
         Depths(glob[p], g, 1 - One(k, Loops), 0)
  PROVE  Shaped(p)
<1> DEFINE nf == fr.nf /\ fr.i = fr.n.words
           a == Exec(fr.n.body, nf)
<1>1. Local(p, <<a, fr>>, g)
  BY DEF ForWord
<1>2. a.k = "exec" /\ a.nf = nf
  BY Zenon DEF Exec, F
<1>3. Passes(a) => Passes(Top(p)) /\ Inert(fr)
  <2>1. fr.n \in Node /\ fr.n.words \in Int /\ fr.i \in Int
    <3>1. fr.n \in Tree /\ fr.n.type = "for" /\ fr.i \in Int
      BY DEF Fit, Frame, Expects
    <3>2. QED BY <3>1, TreeHasType, NodeHas DEF NodeTypes
  <2>2. Top(p).k = k /\ k \in Carriers
    BY DEF At, Carriers
  <2>3. CASE nf
    <3>1. fr.i >= fr.n.words /\ Top(p).nf
      BY <2>1, <2>3
    <3>2. QED BY <2>2, <3>1 DEF Passes, Inert
  <2>4. CASE ~nf
    BY <1>2, <2>4 DEF Passes
  <2>5. QED BY <2>3, <2>4
<1> HIDE DEF a, nf
<1>4. Passes(fr) => Passes(Top(p))
  <2>1. Top(p).k = k /\ k \in Carriers
    BY DEF At, Carriers
  <2>2. QED BY <2>1 DEF Passes
<1>5. /\ One(a.k, Loops) = 0 /\ One(a.k, Calls) = 0
      /\ One(fr.k, Loops) = 1 /\ One(fr.k, Calls) = 0
      /\ One(k, Calls) = 0 /\ One(k, Loops) \in Int /\ k \notin Ends
      /\ a.k \notin Waiting /\ fr.k \notin Waiting
  BY <1>2 DEF One, Loops, Calls, Ends, Waiting
<1> DEFINE l == One(k, Loops)
<1>6. Depths(glob[p], g, One(a.k, Loops) + One(fr.k, Loops) - l, One(a.k, Calls) + One(fr.k, Calls) - One(k, Calls))
  <2>1. One(a.k, Loops) + One(fr.k, Loops) - l = 1 - l /\ One(a.k, Calls) + One(fr.k, Calls) - One(k, Calls) = 0
    BY <1>5
  <2>2. QED BY <2>1
<1>7. QED BY <1>1, <1>3, <1>4, <1>5, <1>6, LocalTwo

LEMMA ForShaped ==
  ASSUME Fitting, NEW p \in Pid, ExecFor(p) \/ AfterForBody(p)
  PROVE  Shaped(p)
<1>1. CASE ExecFor(p)
  <2>1. /\ At(p, "exec") /\ glob[p] \in Glob /\ Top(p).n \in Node /\ Top(p).nf \in BOOLEAN
        /\ Top(p).n \in Tree /\ Top(p).n.type = "for"
    BY <1>1, EnteringHas DEF ExecFor, Entering
  <2> DEFINE f == F("for", Top(p).n, Top(p).nf)
             fr == [f EXCEPT !.i = 1]
             g == [glob[p] EXCEPT !.loop_depth = @ + 1]
  <2>2. f \in Fit /\ f.k = "for" /\ f.nf = Top(p).nf
    BY <2>1, FramesFit, FType DEF Kinds
  <2>3. fr \in Fit /\ fr.k = "for" /\ fr.nf = Top(p).nf
    <3> HIDE DEF f
    <3>1. QED BY <2>2, FrameUpdates DEF Fit, Frame
  <2>4. Depths(glob[p], Status(g, 0), 1, 0)
    BY <2>1, LoopDepths
  <2>5. \/ Local(p, <<>>, Status(glob[p], 0)) \/ Local(p, <<>>, Status(glob[p], 1))
        \/ ForWord(p, fr, Status(g, 0))
    BY <1>1 DEF ExecFor
  <2> HIDE DEF f, fr, g
  <2>6. "exec" \in Plain /\ 1 - One("exec", Loops) = 1
    BY PlainPoints DEF One, Loops
  <2>7. CASE ForWord(p, fr, Status(g, 0))
    <3>1. Depths(glob[p], Status(g, 0), 1 - One("exec", Loops), 0)
      BY <2>4, <2>6
    <3>2. fr.nf => Top(p).nf
      BY <2>3
    <3>3. QED BY <2>1, <2>3, <2>7, <3>1, <3>2, WordShaped
  <2>8. CASE Local(p, <<>>, Status(glob[p], 0)) \/ Local(p, <<>>, Status(glob[p], 1))
    BY <2>1, <2>6, <2>8, DepthsSame, PlainNone
  <2>9. QED BY <2>5, <2>7, <2>8
<1>2. CASE AfterForBody(p)
  <2>1. /\ At(p, "for") /\ One("for", Loops) = 1 /\ One("for", Calls) = 0
    BY <1>2 DEF AfterForBody, One, Loops, Calls
  <2>2. glob[p] \in Glob /\ Top(p) \in Fit /\ Top(p).i + 1 \in Int /\ Top(p).k = "for"
    BY <2>1, AtHas
  <2> DEFINE fr == [Top(p) EXCEPT !.i = @ + 1]
  <2>3. fr \in Fit /\ fr.k = "for" /\ fr.nf = Top(p).nf
    BY <2>2, FrameUpdates DEF Fit, Frame
  <2>4. \/ Local(p, <<>>, LeaveLoop(Consume(glob[p])))
        \/ ForWord(p, fr, Consume(glob[p]))
    BY <1>2 DEF AfterForBody
  <2> HIDE DEF fr
  <2>5. CASE Local(p, <<>>, LeaveLoop(Consume(glob[p])))
    <3>1. Depths(glob[p], LeaveLoop(Consume(glob[p])), -1, 0)
      BY <2>2, LoopDepths
    <3>2. QED BY <2>1, <2>5, <3>1, LocalNone
  <2>6. CASE ForWord(p, fr, Consume(glob[p]))
    <3>1. Depths(glob[p], Consume(glob[p]), 1 - One("for", Loops), 0)
      BY <2>1, <2>2, DepthsSame
    <3>2. fr.nf => Top(p).nf
      BY <2>3
    <3>3. QED BY <2>1, <2>3, <2>6, <3>1, <3>2, WordShaped
  <2>7. QED BY <2>4, <2>5, <2>6
<1>3. QED BY <1>1, <1>2

\* a node that is entered from "exec", and what its step needs of the process
LEMMA Entered ==
  ASSUME Fitting, NEW p \in Pid, NEW types, Entering(p, types)
  PROVE  /\ At(p, "exec") /\ glob[p] \in Glob /\ Top(p).nf \in BOOLEAN
         /\ "exec" \in Plain /\ "exec" \in Quiet /\ "exec" \in Carriers
BY AtHas, PlainPoints DEF Entering, Carriers

LEMMA SingleNodeShaped ==
  ASSUME Fitting, NEW p \in Pid,
         ExecCase(p) \/ ExecNegate(p) \/ AfterNegate(p) \/ ExecGroup(p) \/ ExecSubshell(p)
  PROVE  Shaped(p)
<1>1. CASE AfterNegate(p)
  <2>1. At(p, "negate") /\ "negate" \in Plain
    BY <1>1, PlainPoints DEF AfterNegate
  <2>2. glob[p] \in Glob
    BY <2>1, AtHas
  <2>3. Local(p, <<>>, Status(glob[p], 0)) \/ Local(p, <<>>, Status(glob[p], 1))
    BY <1>1 DEF AfterNegate
  <2>4. QED BY <2>1, <2>2, <2>3, DepthsSame, PlainNone
<1>2. CASE ExecCase(p) \/ ExecNegate(p) \/ ExecGroup(p) \/ ExecSubshell(p)
  <2>1. PICK types : Entering(p, types)
    BY <1>2 DEF ExecCase, ExecNegate, ExecGroup, ExecSubshell
  <2>2. /\ At(p, "exec") /\ glob[p] \in Glob /\ Top(p).nf \in BOOLEAN
        /\ "exec" \in Plain /\ "exec" \in Carriers /\ "negate" \in Quiet
    BY <2>1, Entered, PlainPoints
  <2>3. ASSUME NEW n, NEW g, Local(p, <<Exec(n, Top(p).nf)>>, g), Depths(glob[p], g, 0, 0)
        PROVE  Shaped(p)
    <3> DEFINE a == Exec(n, Top(p).nf)
    <3>1. a.k \in Quiet /\ (Passes(a) => Passes(Top(p)))
      BY <2>2, SameFlag, Zenon
    <3>2. Local(p, <<a>>, g)
      BY <2>3
    <3> HIDE DEF a
    <3>3. QED BY <2>2, <2>3, <3>1, <3>2, PlainOne
  <2>4. CASE ExecCase(p)
    <3>1. \/ Local(p, <<>>, Status(glob[p], 1))
          \/ Local(p, <<Exec(Top(p).n.body, Top(p).nf)>>, Status(glob[p], 0))
      BY <2>4 DEF ExecCase
    <3>2. QED BY <2>2, <2>3, <3>1, DepthsSame, PlainNone
  <2>5. CASE ExecGroup(p)
    BY <2>2, <2>3, <2>5, DepthsSame DEF ExecGroup
  <2>6. CASE ExecNegate(p)
    <3> DEFINE a == Exec(Top(p).n.child, FALSE)
               b == F("negate", Top(p).n, Top(p).nf)
    <3>1. Local(p, <<a, b>>, glob[p])
      BY <2>6 DEF ExecNegate
    <3>2. a.k \in Quiet /\ ~Passes(a)
      BY NoFlag, Zenon
    <3>3. b.k = "negate" /\ (Passes(b) => Passes(Top(p)))
      BY <2>2, SameFlag, Zenon
    <3> HIDE DEF a, b
    <3>4. QED BY <2>2, <3>1, <3>2, <3>3, DepthsSame, PlainTwo
  <2>7. CASE ExecSubshell(p)
    <3>1. CASE Top(p).nf
      <4>1. Local(p, <<Exec(Top(p).n.child, TRUE)>>, glob[p])
        BY <2>7, <3>1 DEF ExecSubshell
      <4>2. Top(p).nf = TRUE
        BY <3>1, <2>2
      <4>3. Local(p, <<Exec(Top(p).n.child, Top(p).nf)>>, glob[p])
        BY <4>1, <4>2, Zenon
      <4>4. QED BY <2>2, <2>3, <4>3, DepthsSame
    <3>2. CASE ~Top(p).nf
      <4> DEFINE child == <<Exec(Top(p).n.child, TRUE), Exit>>
      <4>1. Single(p, child)
        BY <2>7, <3>2, Zenon DEF ExecSubshell
      <4>2. \E n : child = <<Exec(n, TRUE), Exit>>
        BY Zenon
      <4> HIDE DEF child
      <4>3. "exec" \in Plain \cap Forks
        BY <2>2 DEF Forks
      <4>4. QED BY <2>2, <4>1, <4>2, <4>3, SingleShaped, Zenon
    <3>3. QED BY <3>1, <3>2
  <2>8. QED BY <1>2, <2>4, <2>5, <2>6, <2>7
<1>3. QED BY <1>1, <1>2

LEMMA AsyncShaped ==
  ASSUME Fitting, NEW p \in Pid, ExecAsync(p)
  PROVE  Shaped(p)
<1>1. Entering(p, {"bg"})
  BY DEF ExecAsync
<1>2. /\ At(p, "exec") /\ glob[p] \in Glob /\ "exec" \in Plain
      /\ Running(p) /\ frames[p] # <<>> /\ Top(p).k = "exec"
  BY <1>1, Entered DEF At
<1>3. \A c : Depths(glob[p], [glob[p] EXCEPT !.last_background = c], 0, 0)
  BY <1>2 DEF Depths, Glob
<1>4. CASE Free # {}
  <2> DEFINE child == <<Exec(Top(p).n.child, TRUE), Exit>>
             g == [glob[p] EXCEPT !.last_background = FreshPid]
  <2>1. Fork(p, FreshPid, <<>>, g, child, proc[p].out)
    BY <1>4, Zenon DEF ExecAsync
  <2>2. \E n : child = <<Exec(n, TRUE), Exit>>
    BY Zenon
  <2>3. Depths(glob[p], g, 0, 0)
    BY <1>3
  <2> HIDE DEF child, g
  <2>4. One("exec", Loops) = 0 /\ One("exec", Calls) = 0
    BY DEF One, Loops, Calls
  <2>5. Follows(p, <<>>, g)
    BY <1>2, <2>3, <2>4, NoneFollows
  <2>6. <<>> \in Seq(Fit)
    OBVIOUS
  <2> DEFINE out == proc[p].out
             fs == <<>>
  <2>7. Fork(p, FreshPid, fs, g, child, out) /\ Follows(p, fs, g) /\ fs \in Seq(Fit) /\ Top(p).k \in Forks
    BY <1>2, <2>1, <2>5, <2>6 DEF Forks
  <2> HIDE DEF out, fs
  <2>8. QED BY <1>2, <1>4, <2>2, <2>7, ForkShaped, Zenon
<1>5. CASE Free = {}
  <2>1. Local(p, <<>>, [glob[p] EXCEPT !.last_background = NoPid])
    BY <1>5 DEF ExecAsync
  <2>2. QED BY <1>2, <1>3, <2>1, PlainNone
<1>6. QED BY <1>4, <1>5

LEMMA FuncShaped ==
  ASSUME Fitting, NEW p \in Pid, ExecFunc(p)
  PROVE  Shaped(p)
<1>1. Entering(p, {"func"})
  BY DEF ExecFunc
<1>2. At(p, "exec") /\ glob[p] \in Glob /\ "exec" \in Plain
  BY <1>1, Entered
<1>3. PICK body :
        Local(p, <<>>, [glob[p] EXCEPT !.funcs[Top(p).n.name] = body,
                                       !.stolen = @ \cup {Top(p).n}])
  BY DEF ExecFunc
<1> DEFINE n == Top(p).n
           g == [glob[p] EXCEPT !.funcs[n.name] = body]
           h == [g EXCEPT !.stolen = @ \cup {n}]
<1>4. g.loop_depth = glob[p].loop_depth /\ g.stack_depth = glob[p].stack_depth
      /\ "loop_depth" \in DOMAIN g /\ "stack_depth" \in DOMAIN g
  BY <1>2, Zenon DEF Glob
<1>5. [glob[p] EXCEPT !.funcs[n.name] = body, !.stolen = @ \cup {n}] = h
  BY DEF Glob
<1>6. Depths(glob[p], h, 0, 0)
  <2> HIDE DEF g
  <2>1. QED BY <1>2, <1>4 DEF Depths, Glob
<1> HIDE DEF h
<1>7. QED BY <1>2, <1>3, <1>5, <1>6, PlainNone

LEMMA PipeShaped ==
  ASSUME Fitting, NEW p \in Pid, Waits(p), ExecPipe(p) \/ PipeStage(p)
  PROVE  Shaped(p)
<1>1. CASE ExecPipe(p)
  <2> DEFINE a == F("pipe", Top(p).n, Top(p).nf)
  <2>1. At(p, "exec") /\ Local(p, <<a>>, glob[p])
    BY <1>1 DEF ExecPipe, Entering
  <2>2. a.k = "pipe" /\ (Passes(a) => Passes(Top(p)))
    <3>1. "exec" \in Carriers
      BY DEF Carriers
    <3>2. QED BY <2>1, <3>1, SameFlag, Zenon
  <2>3. a.ps = <<>> /\ Gets(p, <<>>)
    BY DEF F, Gets, Distinct
  <2> HIDE DEF a
  <2>4. glob[p] \in Glob /\ "exec" \in Plain /\ "pipe" \in Waiting
    BY <2>1, AtHas, PlainPoints DEF Waiting
  <2>5. QED BY <2>1, <2>2, <2>3, <2>4, DepthsSame, WaitOne
<1>2. CASE PipeStage(p)
  <2> DEFINE fr == Top(p)
             last == fr.n.type # "pipe"
             child == <<Exec(IF last THEN fr.n ELSE fr.n.left, TRUE), Exit>>
             next(ps) == IF last THEN <<WaitFor(ps)>>
                         ELSE <<[fr EXCEPT !.n = fr.n.right, !.ps = ps]>>
             out == IF last THEN proc[p].out ELSE NoPid
  <2>1. /\ At(p, "pipe") /\ frames[p] # <<>> /\ Running(p) /\ glob[p] \in Glob /\ fr \in Fit
        /\ fr.k = "pipe" /\ "pipe" \in Plain /\ Depths(glob[p], glob[p], 0, 0)
    <3>1. At(p, "pipe")
      BY <1>2 DEF PipeStage
    <3>2. glob[p] \in Glob /\ fr \in Fit
      BY <3>1, AtHas
    <3>3. QED BY <3>1, <3>2, PlainPoints, DepthsSame DEF At
  <2>2. ASSUME NEW ps
        PROVE  \E a : next(ps) = <<a>> /\ a.k \in {"wait", "pipe"} /\ a.ps = ps
    <3>1. WaitFor(ps).k = "wait" /\ WaitFor(ps).ps = ps
      BY Zenon DEF WaitFor, F
    <3> DEFINE a == [fr EXCEPT !.n = fr.n.right, !.ps = ps]
    <3>2. a.k = "pipe" /\ a.ps = ps
      <4>1. fr.k = "pipe" /\ "k" \in DOMAIN fr /\ "ps" \in DOMAIN fr
        BY <2>1 DEF Fit, Frame
      <4>2. QED BY <4>1, Zenon
    <3>3. next(ps) = <<WaitFor(ps)>> \/ next(ps) = <<a>>
      OBVIOUS
    <3> HIDE DEF a, next
    <3>4. QED BY <3>1, <3>2, <3>3
  <2>3. \/ /\ Free # {}
           /\ Fork(p, FreshPid, next(Append(fr.ps, FreshPid)), glob[p], child, out)
        \/ Local(p, next(fr.ps), glob[p])
    BY <1>2, Zenon DEF PipeStage
  <2>4. \E n : child = <<Exec(n, TRUE), Exit>>
    BY Zenon
  <2>5. fr.ps \in Seq(Pid) /\ Distinct(fr.ps) /\ \A j \in DOMAIN fr.ps : fr.ps[j] \in Children(p)
    <3>1. frames[p] \in Seq(Fit) /\ fr = frames[p][1] /\ 1 \in 1..Len(frames[p]) /\ fr.ps \in Seq(Pid)
      BY <2>1, AtHas DEF Top
    <3>2. fr.k \in Waiting
      BY <2>1 DEF Waiting
    <3> HIDE DEF fr
    <3>3. QED BY <3>1, <3>2 DEF Waits
  <2> HIDE DEF fr, last, child, next, out
  <2>6. ASSUME NEW a, a.k \in {"wait", "pipe"}, Gets(p, a.ps)
        PROVE  Follows(p, <<a>>, glob[p])
    <3>1. ~Passes(a)
      BY <2>6 DEF Passes, Carriers
    <3>2. /\ One(a.k, Loops) = 0 /\ One(a.k, Calls) = 0 /\ One("pipe", Loops) = 0 /\ One("pipe", Calls) = 0
          /\ "pipe" \notin Ends
      BY <2>1, <2>6, PlainPoints, Weights
    <3>3. QED BY <2>1, <2>6, <3>1, <3>2, OneFollows DEF fr
  <2>7. CASE Local(p, next(fr.ps), glob[p])
    <3>1. PICK a : next(fr.ps) = <<a>> /\ a.k \in {"wait", "pipe"} /\ a.ps = fr.ps
      BY <2>2
    <3>2. Gets(p, fr.ps)
      BY <2>5, <2>7 DEF Gets, IsChild, Children, Local
    <3>3. a.k \in Waiting
      BY <3>1 DEF Waiting
    <3>4. QED BY <2>1, <2>7, <3>1, <3>2, <3>3, WaitOne
  <2>8. CASE /\ Free # {}
             /\ Fork(p, FreshPid, next(Append(fr.ps, FreshPid)), glob[p], child, out)
    <3> DEFINE ps == Append(fr.ps, FreshPid)
    <3>1. PICK a : next(ps) = <<a>> /\ a.k \in {"wait", "pipe"} /\ a.ps = ps
      BY <2>2
    <3>2. /\ IsChild(p, FreshPid)
          /\ \A c \in Children(p) : c # FreshPid /\ IsChild(p, c)
      BY <2>8, NewChild, Zenon
    <3>3. Gets(p, ps)
      BY <2>5, <3>2 DEF Gets, Distinct
    <3> DEFINE fs == <<a>>
               g == glob[p]
               c == FreshPid
    <3> HIDE DEF ps
    <3>4. Follows(p, fs, g)
      BY <2>6, <3>1, <3>3
    <3>5. Fork(p, c, fs, g, child, out) /\ fs \in Seq({a})
      <4>1. Fork(p, FreshPid, next(ps), glob[p], child, out)
        BY <2>8 DEF ps
      <4>2. QED BY <3>1, <4>1
    <3>6. Top(p).k \in Forks
      BY <2>1 DEF fr, Forks
    <3> HIDE DEF fs, g, c
    <3>7. QED BY <2>1, <2>4, <2>8, <3>4, <3>5, <3>6, ForkShaped, Zenon DEF c
  <2>9. QED BY <2>3, <2>7, <2>8
<1>3. QED BY <1>1, <1>2

LEMMA CompoundShaped ==
  ASSUME Fitting, NEW p \in Pid, Waits(p), Compound(p)
  PROVE  Shaped(p)
BY SkipShaped, BinaryShaped, IfShaped, LoopShaped, ForShaped, SingleNodeShaped, AsyncShaped,
   FuncShaped, PipeShaped DEF Compound

LEMMA ExecCmdShaped ==
  ASSUME Fitting, NEW p \in Pid, Waits(p), ExecCmd(p) \/ ReadEof(p)
  PROVE  Shaped(p)
<1>1. CASE ExecCmd(p)
  <2>1. Entering(p, {"cmd"})
    BY <1>1 DEF ExecCmd
  <2>2. /\ At(p, "exec") /\ glob[p] \in Glob /\ "exec" \in Plain /\ "exec" \in Carriers
        /\ Running(p) /\ frames[p] # <<>> /\ Top(p).k = "exec" /\ "run" \in Quiet
    BY <2>1, Entered, PlainPoints DEF At
  <2>3. Depths(glob[p], glob[p], 0, 0)
    BY <2>2, DepthsSame
  <2> DEFINE run == F("run", Top(p).n, Top(p).nf)
             read == Read(FreshPid)
             fs == <<read, run>>
             child == <<Exec(Top(p).n.subst, TRUE), Exit>>
  <2>4. run.k = "run" /\ (Passes(run) => Passes(Top(p)))
    BY <2>2, SameFlag, Zenon
  <2>5. read.k = "read" /\ ~Passes(read) /\ run.k \notin Waiting
    BY <2>4 DEF Read, F, Passes, Carriers, Waiting
  <2>6. \/ Local(p, <<run>>, glob[p])
        \/ Free # {} /\ Fork(p, FreshPid, fs, glob[p], child, FreshPid)
    BY <1>1, Zenon DEF ExecCmd
  <2>7. \E n : child = <<Exec(n, TRUE), Exit>>
    BY Zenon
  <2>8. fs \in Seq({read, run}) /\ fs = <<read, run>>
    OBVIOUS
  <2> HIDE DEF run, read, child, fs
  <2>9. CASE Local(p, <<run>>, glob[p])
    BY <2>2, <2>3, <2>4, <2>9, PlainOne
  <2>10. CASE Free # {} /\ Fork(p, FreshPid, fs, glob[p], child, FreshPid)
    <3>1. /\ One("exec", Loops) = 0 /\ One("exec", Calls) = 0 /\ "exec" \notin Ends
          /\ One(read.k, Loops) = 0 /\ One(read.k, Calls) = 0
          /\ One(run.k, Loops) = 0 /\ One(run.k, Calls) = 0
      BY <2>2, <2>4, <2>5, PlainPoints, Weights
    <3>5. Gets(p, read.ps)
      BY <2>10, NewChild, Zenon DEF read
    <3>2. Follows(p, <<read, run>>, glob[p])
      <4>1. Depths(glob[p], glob[p], One(read.k, Loops) + One(run.k, Loops) - One("exec", Loops),
                                     One(read.k, Calls) + One(run.k, Calls) - One("exec", Calls))
        BY <2>3, <3>1
      <4>2. QED BY <2>2, <2>4, <2>5, <3>1, <3>5, <4>1, TwoFollow
    <3> DEFINE g == glob[p]
               c == FreshPid
    <3>3. Fork(p, FreshPid, fs, g, child, c) /\ Follows(p, fs, g) /\ Top(p).k \in Forks
      BY <2>2, <2>8, <2>10, <3>2 DEF Forks
    <3> HIDE DEF g, c
    <3>4. QED BY <2>2, <2>7, <2>8, <2>10, <3>3, ForkShaped, Zenon
  <2>11. QED BY <2>6, <2>9, <2>10
<1>2. CASE ReadEof(p)
  <2> DEFINE a == WaitFor(Top(p).ps)
  <2>1. At(p, "read") /\ Local(p, <<a>>, glob[p])
    BY <1>2 DEF ReadEof
  <2>2. a.k = "wait" /\ ~Passes(a)
    BY DEF WaitFor, F, Passes, Carriers
  <2>3. a.ps = Top(p).ps /\ Top(p).k = "read"
    BY <2>1 DEF WaitFor, F, At
  <2> HIDE DEF a
  <2>4. glob[p] \in Glob /\ "read" \in Plain /\ "read" \in Waiting /\ "wait" \in Waiting
    BY <2>1, AtHas, PlainPoints DEF Waiting
  <2>5. Gets(p, Top(p).ps)
    <3>1. frames[p] \in Seq(Fit) /\ Top(p) = frames[p][1] /\ 1 \in 1..Len(frames[p])
      BY <2>1, AtHas DEF Top
    <3>2. Distinct(Top(p).ps) /\ \A j \in DOMAIN Top(p).ps : Top(p).ps[j] \in Children(p)
      BY <2>3, <2>4, <3>1 DEF Waits
    <3>3. QED BY <2>1, <3>2 DEF Gets, IsChild, Children, Local
  <2>6. QED BY <2>1, <2>2, <2>3, <2>4, <2>5, DepthsSame, WaitOne
<1>3. QED BY <1>1, <1>2

LEMMA BuiltinDepths ==
  ASSUME NEW g \in Glob, NEW n
  PROVE  n.cmd \in {"true", "false", "break", "continue", "return", "shift", "unset", "sete"}
           => Depths(g, Builtin(g, n), 0, 0)
<1>1. \A s : Depths(g, Status(g, s), 0, 0)
  BY DepthsSame
<1>2. \A d, s : /\ Depths(g, Status([g EXCEPT !.break_depth = d], s), 0, 0)
                /\ Depths(g, Status([g EXCEPT !.continue_depth = d], s), 0, 0)
                /\ Depths(g, Status([g EXCEPT !.argc = d], s), 0, 0)
  BY DEF Depths, Status, Glob
<1>3. Depths(g, BuiltinBreak(g, n), 0, 0)
  BY <1>1, <1>2 DEF BuiltinBreak
<1>4. Depths(g, BuiltinContinue(g, n), 0, 0)
  BY <1>1, <1>2 DEF BuiltinContinue
<1>5. Depths(g, BuiltinShift(g, n), 0, 0)
  BY <1>1, <1>2 DEF BuiltinShift
<1>6. Depths(g, BuiltinReturn(g, n), 0, 0)
  <2>1. ASSUME NEW b PROVE Depths(g, [g EXCEPT !.return_break = b], 0, 0)
    BY DEF Depths, Glob
  <2>2. ASSUME NEW b, NEW s PROVE Depths(g, [g EXCEPT !.return_break = b, !.exit_status = s], 0, 0)
    BY DEF Depths, Glob
  <2>3. /\ Depths(g, Status(g, 1), 0, 0)
        /\ Depths(g, [g EXCEPT !.return_break = TRUE], 0, 0)
        /\ Depths(g, [g EXCEPT !.return_break = TRUE, !.exit_status = n.n], 0, 0)
    <3>1. Depths(g, [g EXCEPT !.return_break = TRUE], 0, 0)
      BY <2>1, Zenon
    <3>2. Depths(g, [g EXCEPT !.return_break = TRUE, !.exit_status = n.n], 0, 0)
      BY <2>2, Zenon
    <3>3. QED BY <1>1, <3>1, <3>2, Zenon
  <2>4. QED BY <2>3, Zenon DEF BuiltinReturn
<1>7. Depths(g, BuiltinUnset(g, n), 0, 0)
  <2> DEFINE h == [g EXCEPT !.funcs[n.name] = NoFunc]
  <2>1. /\ h.loop_depth = g.loop_depth /\ h.stack_depth = g.stack_depth
        /\ "loop_depth" \in DOMAIN h /\ "stack_depth" \in DOMAIN h
    BY Zenon DEF Glob
  <2>2. Status(h, 0).loop_depth = h.loop_depth /\ Status(h, 0).stack_depth = h.stack_depth
    <3> HIDE DEF h
    <3>1. QED BY <2>1 DEF Status
  <2>3. g.loop_depth \in Int /\ g.stack_depth \in Int
    BY DEF Glob
  <2>4. BuiltinUnset(g, n) = Status(h, 0)
    BY DEF BuiltinUnset
  <2> HIDE DEF h
  <2>5. QED BY <2>1, <2>2, <2>3, <2>4 DEF Depths
<1>8. Depths(g, Status([g EXCEPT !.err_exit = TRUE], 0), 0, 0)
  BY DEF Depths, Status, Glob
<1>9. QED BY <1>1, <1>3, <1>4, <1>5, <1>6, <1>7, <1>8 DEF Builtin

LEMMA RunBuiltinShaped ==
  ASSUME Fitting, NEW p \in Pid,
         ExpansionFails(p) \/ RunEmpty(p) \/ RunBuiltin(p) \/ RunOther(p)
  PROVE  Shaped(p)
<1>1. At(p, "run") /\ "run" \in Plain /\ "call" \in Quiet
  BY PlainPoints DEF ExpansionFails, RunEmpty, RunBuiltin, RunOther, Runs
<1>2. glob[p] \in Glob /\ Top(p) \in Fit /\ Top(p).k = "run"
  BY <1>1, AtHas
<1> DEFINE a == [Top(p) EXCEPT !.k = "call"]
<1>3. a.k = "call" /\ (Passes(a) => Passes(Top(p)))
  BY <1>2 DEF Fit, Frame, Passes, Carriers
<1>4. CASE ExpansionFails(p) \/ RunEmpty(p)
  <2>1. Local(p, <<>>, Status(glob[p], 0)) \/ Local(p, <<>>, Status(glob[p], 1))
    BY <1>4 DEF ExpansionFails, RunEmpty
  <2>2. QED BY <1>1, <1>2, <2>1, DepthsSame, PlainNone
<1>5. CASE RunBuiltin(p)
  <2> DEFINE g == Builtin(glob[p], Top(p).n)
  <2>1. Depths(glob[p], g, 0, 0)
    BY <1>2, <1>5, BuiltinDepths DEF RunBuiltin, Runs
  <2>2. Local(p, <<>>, g) \/ Local(p, <<a>>, g)
    BY <1>5 DEF RunBuiltin, BuiltinEnds
  <2> HIDE DEF g, a
  <2>3. QED BY <1>1, <1>3, <2>1, <2>2, PlainNone, PlainOne
<1>6. CASE RunOther(p)
  <2>1. Local(p, <<a>>, glob[p])
    BY <1>6 DEF RunOther
  <2> HIDE DEF a
  <2>2. QED BY <1>1, <1>2, <1>3, <2>1, DepthsSame, PlainOne
<1>7. QED BY <1>4, <1>5, <1>6

LEMMA RunEchoShaped ==
  ASSUME Fitting, NEW p \in Pid, RunEcho(p)
  PROVE  Shaped(p)
<1>1. At(p, "run") /\ Running(p) /\ frames[p] # <<>> /\ Top(p).k = "run"
  BY DEF RunEcho, Runs, At
<1>2. glob[p] \in Glob /\ frames[p] \in Seq(Fit) /\ Tail(frames[p]) \in Seq(Fit)
  BY <1>1, AtHas
<1> DEFINE g == Status(glob[p], 0)
<1>3. Follows(p, <<>>, g)
  <2>1. Depths(glob[p], g, 0, 0)
    BY <1>2, DepthsSame
  <2>2. One("run", Loops) = 0 /\ One("run", Calls) = 0
    BY PlainPoints, Weights
  <2> HIDE DEF g
  <2>3. QED BY <1>1, <2>1, <2>2, NoneFollows
<1>4. glob' = [glob EXCEPT ![p] = g]
  BY DEF RunEcho, Status, Fitting
<1>5. frames' = [frames EXCEPT ![p] = <<>> \o Tail(@)]
  <2>1. <<>> \o Tail(frames[p]) = Tail(frames[p])
    BY <1>2
  <2>2. frames' = [frames EXCEPT ![p] = Tail(frames[p])]
    BY DEF RunEcho
  <2>3. QED BY <2>1, <2>2
<1>6. \A q \in Pid : SameProcess(q)
  BY DEF RunEcho, SameProcess
<1> HIDE DEF g
<1>7. <<>> \in Seq(Fit)
  OBVIOUS
<1>8. QED BY <1>1, <1>3, <1>4, <1>5, <1>6, <1>7, Alone

LEMMA RunExitShaped ==
  ASSUME Fitting, NEW p \in Pid, RunExit(p)
  PROVE  Shaped(p)
<1>1. At(p, "run") /\ "run" \in Plain
  BY PlainPoints DEF RunExit, Runs
<1>2. glob[p] \in Glob
  BY <1>1, AtHas
<1>3. \/ Local(p, <<>>, Status(glob[p], 1))
      \/ \E s : Die(p, s, FALSE)
  BY Zenon DEF RunExit
<1>4. CASE \E s : Die(p, s, FALSE)
  BY <1>4, DieShaped, Zenon
<1>5. QED BY <1>1, <1>2, <1>3, <1>4, DepthsSame, PlainNone

LEMMA RunWaitShaped ==
  ASSUME Fitting, NEW p \in Pid, RunWait(p)
  PROVE  Shaped(p)
<1>1. At(p, "run") /\ "run" \in Plain /\ {"waitall", "waitlast"} \subseteq Quiet
  BY PlainPoints DEF RunWait, Runs
<1>2. glob[p] \in Glob
  BY <1>1, AtHas
<1> DEFINE g == Status(glob[p], 0)
           a == F("waitall", Null, FALSE)
           b == F("waitlast", Null, FALSE)
<1>3. Local(p, <<a>>, g) \/ Local(p, <<b>>, g) \/ Local(p, <<>>, Status(g, 1))
  BY DEF RunWait
<1>4. a.k = "waitall" /\ ~Passes(a) /\ b.k = "waitlast" /\ ~Passes(b)
  BY DEF F, Passes, Carriers
<1>5. Depths(glob[p], g, 0, 0) /\ Depths(glob[p], Status(g, 1), 0, 0)
  BY <1>2 DEF Depths, Status, Glob
<1> HIDE DEF a, b, g
<1>6. QED BY <1>1, <1>3, <1>4, <1>5, PlainNone, PlainOne

\* calls are counted: what another frame does to stack_depth
LEMMA CallDepths ==
  ASSUME NEW g \in Glob
  PROVE  /\ \A i : Depths(g, [g EXCEPT !.stack_depth = @ + 1, !.argc = i], 0, 1)
         /\ \A i : Depths(g, [g EXCEPT !.stack_depth = @ - 1, !.argc = i], 0, -1)
         /\ \A i : Depths(g, [g EXCEPT !.stack_depth = @ - 1, !.return_break = FALSE, !.argc = i], 0, -1)
<1>1. g.loop_depth \in Int /\ g.stack_depth \in Int
  BY DEF Glob
<1>2. ASSUME NEW d, NEW i
      PROVE  LET h == [g EXCEPT !.stack_depth = d, !.argc = i] IN
             h.loop_depth = g.loop_depth /\ h.stack_depth = d
  BY DEF Glob
<1>3. ASSUME NEW d, NEW i, NEW b
      PROVE  LET h == [g EXCEPT !.stack_depth = d, !.return_break = b, !.argc = i] IN
             h.loop_depth = g.loop_depth /\ h.stack_depth = d
  BY DEF Glob
<1>4. ASSUME NEW i PROVE Depths(g, [g EXCEPT !.stack_depth = @ + 1, !.argc = i], 0, 1)
  BY <1>1, <1>2 DEF Depths
<1>5. ASSUME NEW i PROVE Depths(g, [g EXCEPT !.stack_depth = @ - 1, !.argc = i], 0, -1)
  BY <1>1, <1>2 DEF Depths
<1>6. ASSUME NEW i
      PROVE  Depths(g, [g EXCEPT !.stack_depth = @ - 1, !.return_break = FALSE, !.argc = i], 0, -1)
  <2> DEFINE d == g.stack_depth - 1
             h == [g EXCEPT !.stack_depth = d, !.return_break = FALSE, !.argc = i]
  <2>1. h.loop_depth = g.loop_depth /\ h.stack_depth = d
    BY <1>3, Zenon
  <2> HIDE DEF h
  <2>2. Depths(g, h, 0, -1)
    BY <1>1, <2>1 DEF Depths
  <2>3. QED BY <2>2 DEF h
<1>7. QED BY <1>4, <1>5, <1>6, Zenon

LEMMA EvalShaped ==
  ASSUME Fitting, NEW p \in Pid,
         RunEval(p) \/ AfterEval(p) \/ RunSource(p) \/ AfterSource(p)
  PROVE  Shaped(p)
<1>1. ASSUME NEW ls PROVE Interp(ls).k = "interp" /\ ~Passes(Interp(ls))
  BY DEF Interp, F, Passes, Carriers
<1>2. CASE AfterSource(p)
  <2>1. At(p, "source")
    BY <1>2 DEF AfterSource
  <2>2. glob[p] \in Glob /\ Top(p) \in Fit /\ Top(p).k = "source"
    BY <2>1, AtHas
  <2> DEFINE g == [glob[p] EXCEPT !.stack_depth = @ - 1, !.argc = Top(p).i]
             a == [Top(p) EXCEPT !.k = "call"]
  <2>3. Local(p, <<>>, g) \/ Local(p, <<a>>, g)
    BY <1>2, Zenon DEF AfterSource, BuiltinEnds
  <2>4. Depths(glob[p], g, 0, -1)
    BY <2>2, CallDepths
  <2>5. a.k = "call" /\ (Passes(a) => Passes(Top(p))) /\ a.k \notin Waiting
    BY <2>2 DEF Fit, Frame, Passes, Carriers, Waiting
  <2> HIDE DEF g, a
  <2>6. /\ One("source", Loops) = 0 /\ One("source", Calls) = 1
        /\ One("call", Loops) = 0 /\ One("call", Calls) = 0 /\ "source" \notin Ends
    BY DEF One, Loops, Calls, Ends
  <2>7. CASE Local(p, <<>>, g)
    BY <2>1, <2>4, <2>6, <2>7, LocalNone
  <2>8. CASE Local(p, <<a>>, g)
    BY <2>1, <2>4, <2>5, <2>6, <2>8, LocalOne
  <2>9. QED BY <2>3, <2>7, <2>8
<1>3. CASE AfterEval(p)
  <2>1. At(p, "eval") /\ "eval" \in Plain /\ "call" \in Quiet
    BY <1>3, PlainPoints DEF AfterEval
  <2>2. glob[p] \in Glob /\ Top(p) \in Fit /\ Top(p).k = "eval"
    BY <2>1, AtHas
  <2> DEFINE a == [Top(p) EXCEPT !.k = "call"]
  <2>3. Local(p, <<>>, glob[p]) \/ Local(p, <<a>>, glob[p])
    BY <1>3, Zenon DEF AfterEval, BuiltinEnds
  <2>4. a.k = "call" /\ (Passes(a) => Passes(Top(p)))
    BY <2>2 DEF Fit, Frame, Passes, Carriers
  <2> HIDE DEF a
  <2>5. QED BY <2>1, <2>2, <2>3, <2>4, DepthsSame, PlainNone, PlainOne
<1>4. CASE RunEval(p) \/ RunSource(p)
  <2>1. At(p, "run") /\ "run" \in Plain /\ "run" \in Carriers
    BY <1>4, PlainPoints DEF RunEval, RunSource, Runs, Carriers
  <2>2. glob[p] \in Glob
    BY <2>1, AtHas
  <2> DEFINE a == Interp(Top(p).n.lines)
             e == F("eval", Top(p).n, Top(p).nf)
             f == F("source", Top(p).n, Top(p).nf)
             b == [f EXCEPT !.i = glob[p].argc]
             g == [glob[p] EXCEPT !.stack_depth = @ + 1, !.argc = Top(p).n.n]
  <2>3. \/ Local(p, <<a, e>>, glob[p]) \/ Local(p, <<>>, Status(glob[p], 1))
        \/ Local(p, <<a, b>>, g)
    BY <1>4, Zenon DEF RunEval, RunSource
  <2>4. a.k = "interp" /\ ~Passes(a) /\ a.k \notin Waiting
    BY <1>1 DEF Waiting
  <2>5. /\ e.k = "eval" /\ (Passes(e) => Passes(Top(p)))
        /\ f.k = "source" /\ (Passes(f) => Passes(Top(p)))
    <3>1. e.k = "eval" /\ (Passes(e) => Passes(Top(p)))
      BY <2>1, SameFlag, Zenon
    <3>2. f.k = "source" /\ (Passes(f) => Passes(Top(p)))
      BY <2>1, SameFlag, Zenon
    <3>3. QED BY <3>1, <3>2, Zenon
  <2>6. b.k = "source" /\ (Passes(b) => Passes(Top(p)))
    <3>1. b.k = f.k /\ b.nf = f.nf
      BY DEF F
    <3> HIDE DEF b, f
    <3>2. QED BY <2>5, <3>1 DEF Passes
  <2>7. Depths(glob[p], g, 0, 1) /\ Depths(glob[p], glob[p], 0, 0)
    BY <2>2, CallDepths, DepthsSame
  <2> HIDE DEF a, b, e, f, g
  <2>8. /\ One(a.k, Loops) + One(b.k, Loops) - One("run", Loops) = 0
        /\ One(a.k, Calls) + One(b.k, Calls) - One("run", Calls) = 1
        /\ One(a.k, Loops) + One(e.k, Loops) - One("run", Loops) = 0
        /\ One(a.k, Calls) + One(e.k, Calls) - One("run", Calls) = 0
        /\ "run" \notin Ends /\ b.k \notin Waiting /\ e.k \notin Waiting
    BY <2>4, <2>5, <2>6 DEF One, Loops, Calls, Ends, Waiting
  <2>9. CASE Local(p, <<a, b>>, g)
    BY <2>1, <2>4, <2>6, <2>7, <2>8, <2>9, LocalTwo
  <2>10. CASE Local(p, <<a, e>>, glob[p])
    BY <2>1, <2>4, <2>5, <2>7, <2>8, <2>10, LocalTwo
  <2>11. CASE Local(p, <<>>, Status(glob[p], 1))
    BY <2>1, <2>2, <2>11, DepthsSame, PlainNone
  <2>12. QED BY <2>3, <2>9, <2>10, <2>11
<1>5. QED BY <1>2, <1>3, <1>4

LEMMA FunctionShaped ==
  ASSUME Fitting, NEW p \in Pid, CallFunc(p) \/ AfterFunc(p)
  PROVE  Shaped(p)
<1>1. CASE CallFunc(p)
  <2>1. At(p, "call") /\ "call" \in Plain /\ "call" \in Carriers
    BY <1>1, PlainPoints DEF CallFunc, Carriers
  <2>2. glob[p] \in Glob
    BY <2>1, AtHas
  <2> DEFINE f == F("func", Top(p).n, Top(p).nf)
             a == Exec(glob[p].funcs[Top(p).n.name], Top(p).nf)
             b == [f EXCEPT !.i = glob[p].argc]
             g == [glob[p] EXCEPT !.stack_depth = @ + 1, !.argc = Top(p).n.n]
  <2>3. Local(p, <<a, b>>, g)
    BY <1>1, Zenon DEF CallFunc
  <2>4. a.k = "exec" /\ (Passes(a) => Passes(Top(p)))
    BY <2>1, SameFlag, Zenon
  <2>5. b.k = "func"
    BY Zenon DEF F
  <2>6. Depths(glob[p], g, 0, 1)
    BY <2>2, CallDepths
  <2> HIDE DEF f, a, b, g
  <2>7. Inert(b) /\ ~Passes(b) /\ a.k \notin Waiting /\ b.k \notin Waiting
    BY <2>4, <2>5 DEF Inert, Passes, Carriers, Waiting
  <2>8. /\ One(a.k, Loops) + One(b.k, Loops) - One("call", Loops) = 0
        /\ One(a.k, Calls) + One(b.k, Calls) - One("call", Calls) = 1
        /\ "call" \notin Ends
    BY <2>4, <2>5 DEF One, Loops, Calls, Ends
  <2>9. QED BY <2>1, <2>3, <2>4, <2>6, <2>7, <2>8, LocalTwo
<1>2. CASE AfterFunc(p)
  <2>1. At(p, "func")
    BY <1>2 DEF AfterFunc
  <2>2. glob[p] \in Glob
    BY <2>1, AtHas
  <2> DEFINE g == [glob[p] EXCEPT !.stack_depth = @ - 1, !.return_break = FALSE, !.argc = Top(p).i]
  <2>3. Local(p, <<>>, g)
    BY <1>2, Zenon DEF AfterFunc
  <2>4. Depths(glob[p], g, 0, -1)
    BY <2>2, CallDepths, Zenon
  <2> HIDE DEF g
  <2>5. One("func", Loops) = 0 /\ One("func", Calls) = 1
    BY DEF One, Loops, Calls
  <2>6. QED BY <2>1, <2>3, <2>4, <2>5, LocalNone
<1>3. QED BY <1>1, <1>2

LEMMA ProgramShaped ==
  ASSUME Fitting, NEW p \in Pid, CallProgram(p) \/ ChildProgram(p) \/ ProgramEnds(p)
  PROVE  Shaped(p)
<1>1. CASE CallProgram(p)
  <2>1. At(p, "call") /\ "call" \in Plain
    BY <1>1, PlainPoints DEF CallProgram
  <2>2. glob[p] \in Glob
    BY <2>1, AtHas
  <2> DEFINE child == <<F("child", Top(p).n, FALSE)>>
  <2>3. \/ Single(p, child) \/ Image(p)
        \/ Local(p, <<>>, Status(glob[p], 1)) \/ Local(p, <<>>, glob[p])
    BY <1>1, Zenon DEF CallProgram
  <2>4. \E n : child = <<F("child", n, FALSE)>>
    BY Zenon
  <2> HIDE DEF child
  <2>5. CASE Single(p, child)
    <3>1. "call" \in Plain \cap Forks
      BY <2>1 DEF Forks
    <3>2. QED BY <2>1, <2>4, <2>5, <3>1, SingleShaped, Zenon
  <2>6. QED BY <2>1, <2>2, <2>3, <2>5, ImageShaped, DepthsSame, PlainNone
<1>2. CASE ChildProgram(p)
  <2>1. At(p, "child") /\ One("child", Loops) = 0 /\ One("child", Calls) = 0
    BY <1>2 DEF ChildProgram, One, Loops, Calls
  <2>2. glob[p] \in Glob
    BY <2>1, AtHas
  <2>3. \/ ~Top(p).n.assign /\ Local(p, <<>>, Status(glob[p], 1))
        \/ Image(p)
        \/ Die(p, 127, FALSE)
    BY <1>2, Zenon DEF ChildProgram
  <2>4. CASE ~Top(p).n.assign /\ Local(p, <<>>, Status(glob[p], 1))
    <3> DEFINE g == Status(glob[p], 1)
    <3>1. Depths(glob[p], g, 0, 0) /\ Local(p, <<>>, g)
      BY <2>2, <2>4, DepthsSame
    <3> HIDE DEF g
    <3>2. QED BY <2>1, <2>4, <3>1, LocalNone
  <2>5. CASE Die(p, 127, FALSE)
    BY <2>5, DieShaped, Zenon
  <2>6. QED BY <2>3, <2>4, <2>5, ImageShaped
<1>3. CASE ProgramEnds(p)
  <2>1. \E s, b : Die(p, s, b)
    BY <1>3, Zenon DEF ProgramEnds
  <2>2. QED BY <2>1, DieShaped, Zenon
<1>4. QED BY <1>1, <1>2, <1>3

LEMMA SimpleShaped ==
  ASSUME Fitting, NEW p \in Pid, Waits(p), Simple(p)
  PROVE  Shaped(p)
BY ExecCmdShaped, RunBuiltinShaped, RunEchoShaped, RunExitShaped, RunWaitShaped, EvalShaped,
   FunctionShaped, ProgramShaped DEF Simple
-----------------------------------------------------------------------------
LEMMA JobShaped ==
  ASSUME Fitting, NEW p \in Pid, Waits(p), JobWait(p) \/ WaitAll(p) \/ WaitLast(p) \/ ExitStatus(p)
  PROVE  Shaped(p)
<1>1. CASE ExitStatus(p)
  BY <1>1, DieShaped, Zenon DEF ExitStatus
<1>2. CASE JobWait(p)
  <2>1. At(p, "wait") /\ "wait" \in Plain
    BY <1>2, PlainPoints DEF JobWait
  <2>2. glob[p] \in Glob /\ Top(p) \in Fit /\ Top(p).k = "wait"
    BY <2>1, AtHas
  <2> DEFINE a == [Top(p) EXCEPT !.ps = Tail(@)]
  <2>3. Local(p, <<>>, glob[p]) \/ (Top(p).ps # <<>> /\ Reap(p, Head(Top(p).ps), <<a>>))
    BY <1>2 DEF JobWait
  <2>4. a.k = "wait" /\ a.ps = Tail(Top(p).ps)
    BY <2>2 DEF Fit, Frame
  <2> HIDE DEF a
  <2>5. "wait" \in Plain \ Carriers /\ "wait" \in Waiting
    BY <2>1 DEF Carriers, Waiting
  <2>6. CASE Local(p, <<>>, glob[p])
    BY <2>1, <2>2, <2>6, DepthsSame, PlainNone
  <2>7. CASE Top(p).ps # <<>> /\ Reap(p, Head(Top(p).ps), <<a>>)
    <3> DEFINE fs == <<a>>
               ps == Top(p).ps
               c == Head(ps)
    <3>1. Reap(p, c, fs)
      BY <2>7
    <3>2. Gets(p, Tail(ps))
      <4>1. frames[p] \in Seq(Fit) /\ Top(p) = frames[p][1] /\ 1 \in 1..Len(frames[p]) /\ ps \in Seq(Pid)
        BY <2>1, AtHas DEF Top
      <4>2. Distinct(ps) /\ \A j \in DOMAIN ps : ps[j] \in Children(p)
        BY <2>2, <2>5, <4>1 DEF Waits
      <4>3. \A d \in Children(p) : d # c => IsChild(p, d)
        BY <3>1 DEF Reap, Children, IsChild, Fitting
      <4> HIDE DEF fs, ps
      <4>4. ps # <<>>
        BY <2>7 DEF ps
      <4>5. Tail(ps) \in Seq(Pid) /\ \A j \in DOMAIN Tail(ps) : j + 1 \in DOMAIN ps /\ Tail(ps)[j] = ps[j + 1] /\ j \in Nat /\ j # 0
        BY <4>1, <4>4
      <4>6. c = ps[1] /\ 1 \in DOMAIN ps
        BY <4>1, <4>4
      <4>7. ASSUME NEW j \in DOMAIN Tail(ps) PROVE IsChild(p, Tail(ps)[j])
        <5>1. j + 1 \in DOMAIN ps /\ Tail(ps)[j] = ps[j + 1] /\ j + 1 # 1
          BY <4>5
        <5>2. ps[j + 1] # c
          BY <4>2, <4>6, <5>1 DEF Distinct
        <5>3. QED BY <4>2, <4>3, <5>1, <5>2
      <4>8. Distinct(Tail(ps))
        <5> SUFFICES ASSUME NEW i \in DOMAIN Tail(ps), NEW j \in DOMAIN Tail(ps), Tail(ps)[i] = Tail(ps)[j]
                     PROVE  i = j
          BY DEF Distinct
        <5>1. ps[i + 1] = ps[j + 1] /\ i + 1 \in DOMAIN ps /\ j + 1 \in DOMAIN ps
          BY <4>5
        <5>2. i + 1 = j + 1
          BY <4>2, <5>1 DEF Distinct
        <5>3. QED BY <4>5, <5>2
      <4>9. QED BY <4>7, <4>8 DEF Gets
    <3>3. \E x : fs = <<x>> /\ x.k \in Plain \ Carriers /\ (x.k \in Waiting => Gets(p, x.ps))
      BY <2>4, <2>5, <3>2
    <3> HIDE DEF fs, ps, c
    <3>4. QED BY <2>1, <3>1, <3>3, ReapShaped
  <2>8. QED BY <2>3, <2>6, <2>7
<1>3. CASE WaitAll(p) \/ WaitLast(p)
  <2>1. PICK k \in {"waitall", "waitlast"} : At(p, k)
    BY <1>3 DEF WaitAll, WaitLast
  <2>2. k \in Plain \ Carriers /\ k \notin Waiting /\ glob[p] \in Glob /\ Top(p).k = k
    BY <2>1, AtHas, PlainPoints DEF Carriers, Waiting
  <2>3. \/ \E c : Reap(p, c, <<Top(p)>>)
        \/ \E c : Reap(p, c, <<>>)
        \/ Local(p, <<>>, Status(glob[p], 0))
        \/ Local(p, <<>>, Status(glob[p], 127))
    BY <1>3 DEF WaitAll, WaitLast
  <2>4. ASSUME NEW c, NEW fs, Reap(p, c, fs), fs = <<>> \/ fs = <<Top(p)>> PROVE Shaped(p)
    <3>1. \/ fs = <<>>
          \/ \E a : fs = <<a>> /\ a.k \in Plain \ Carriers /\ (a.k \in Waiting => Gets(p, a.ps))
      BY <2>2, <2>4
    <3>2. QED BY <2>1, <2>2, <2>4, <3>1, ReapShaped
  <2>5. QED BY <2>1, <2>2, <2>3, <2>4, DepthsSame, PlainNone
<1>4. QED BY <1>1, <1>2, <1>3

LEMMA InterpretShaped ==
  ASSUME Fitting, NEW p \in Pid, InterpretStops(p) \/ InterpretLine(p)
  PROVE  Shaped(p)
<1>1. At(p, "interp") /\ "interp" \in Quiet /\ "interp" \in Plain
  BY PlainPoints DEF InterpretStops, InterpretLine
<1>2. glob[p] \in Glob /\ Top(p) \in Fit /\ Top(p).k = "interp"
  BY <1>1, AtHas
<1>3. ASSUME NEW b
      PROVE  /\ Depths(glob[p], [glob[p] EXCEPT !.return_break = b], 0, 0)
             /\ Depths(glob[p], [glob[p] EXCEPT !.sigint_break = b], 0, 0)
  BY <1>2 DEF Depths, Glob
<1>4. CASE InterpretStops(p)
  <2>1. \/ \E b : Local(p, <<>>, [glob[p] EXCEPT !.return_break = b])
        \/ Local(p, <<>>, glob[p])
    <3> DEFINE b == glob[p].return_break /\ glob[p].exit_status # 0 /\ glob[p].err_exit
    <3>1. \/ Local(p, <<>>, [glob[p] EXCEPT !.return_break = b])
          \/ Local(p, <<>>, glob[p])
      BY <1>4 DEF InterpretStops
    <3> HIDE DEF b
    <3>2. QED BY <3>1
  <2>2. QED BY <1>1, <1>2, <1>3, <2>1, DepthsSame, PlainNone
<1>5. CASE InterpretLine(p)
  <2> DEFINE line == Head(Top(p).ls)
             next == [Top(p) EXCEPT !.ls = Tail(@)]
             a == Exec(line, FALSE)
             b == [next EXCEPT !.i = 1]
             c == [next EXCEPT !.i = 0]
             g == [glob[p] EXCEPT !.sigint_break = FALSE]
  <2>1. \/ Local(p, <<a, b>>, g)
        \/ Local(p, <<c>>, Status(glob[p], 1))
        \/ Local(p, <<>>, Status(glob[p], 1))
    BY <1>5, Zenon DEF InterpretLine
  <2>2. a.k = "exec" /\ ~Passes(a) /\ "exec" \in Quiet
    BY NoFlag, Zenon
  <2>3. b.k = "interp" /\ c.k = "interp"
    <3>1. next.k = "interp" /\ "k" \in DOMAIN next
      BY <1>2 DEF Fit, Frame
    <3> HIDE DEF next
    <3>2. QED BY <3>1
  <2>4. Depths(glob[p], g, 0, 0)
    BY <1>3, Zenon
  <2> HIDE DEF line, next, a, b, c, g
  <2>5. ~Passes(b) /\ ~Passes(c)
    BY <2>3 DEF Passes, Carriers
  <2>6. CASE Local(p, <<a, b>>, g)
    BY <1>1, <2>2, <2>3, <2>4, <2>5, <2>6, PlainTwo
  <2>7. CASE Local(p, <<c>>, Status(glob[p], 1))
    BY <1>1, <1>2, <2>3, <2>5, <2>7, DepthsSame, PlainOne
  <2>8. CASE Local(p, <<>>, Status(glob[p], 1))
    BY <1>1, <1>2, <2>8, DepthsSame, PlainNone
  <2>9. QED BY <2>1, <2>6, <2>7, <2>8
<1>6. QED BY <1>4, <1>5

LEMMA ProcessShaped ==
  ASSUME Fitting, NEW p \in Pid, Waits(p), Process(p)
  PROVE  Shaped(p)
BY CompoundShaped, SimpleShaped, JobShaped, InterpretShaped DEF Process, Job
-----------------------------------------------------------------------------
(***************************************************************************)
(* The theorems.                                                           *)
(***************************************************************************)
WaitInv == \A p \in Pid : Running(p) => Waits(p)

DeepInv == \A p \in Pid : Running(p) /\ ~At(p, "binary") => Deep(p)

StackInv ==
  \A p \in Pid : Running(p) =>
    /\ Inside(p)
    /\ ~At(p, "binary") => InTail(p)

Assigns == \A n \in Node : n.type = "cmd" => n.assign

\* The process of a step is running, and has a frame.
LEMMA WhoSteps == ASSUME NEW p, Process(p) PROVE Running(p) /\ frames[p] # <<>>
BY DEF Process, Compound, Simple, Job, At, Entering, Runs,
       Skip, RedirsFail, ExecBinary, AfterLeft, ExecIf, AfterIf, ExecLoop, AfterCondition,
       AfterBody, ExecFor, AfterForBody, ExecCase, ExecNegate, AfterNegate, ExecGroup,
       ExecSubshell, ExecAsync, ExecFunc, ExecPipe, PipeStage, ExecCmd, ReadEof,
       ExpansionFails, RunEmpty, RunBuiltin, RunEcho, RunExit, RunWait, RunEval, AfterEval, RunSource,
       AfterSource, RunOther, CallFunc, AfterFunc, CallProgram, ChildProgram, ProgramEnds,
       JobWait, WaitAll, WaitLast, ExitStatus, InterpretStops, InterpretLine

LEMMA InitStacks == Init => WaitInv /\ DeepInv /\ StackInv
<1> SUFFICES ASSUME Init, NEW p \in Pid, Running(p)
             PROVE  Waits(p) /\ Deep(p) /\ Inside(p) /\ InTail(p)
  BY DEF WaitInv, DeepInv, StackInv
<1>1. p = Shell /\ proc[p].base = 0
  BY DEF Init, Running
<1> DEFINE a == Interp(script)
           fs == <<a, Exit>>
<1>2. frames[p] = fs
  BY <1>1 DEF Init
<1>3. glob[p].loop_depth = 0 /\ glob[p].stack_depth = 0
  BY DEF Init
<1>4. a.k = "interp" /\ Exit.k = "exit"
  BY DEF Interp, Exit, F
<1>5. Len(fs) = 2 /\ fs[1] = a /\ fs[2] = Exit
  OBVIOUS
<1>6. Number(fs, Loops) = 0 /\ Number(fs, Calls) = 0
  BY <1>4, NumberTwo DEF One, Loops, Calls
<1> HIDE DEF a, fs
<1>7. Own(p) = 2
  BY <1>1, <1>2, <1>5 DEF Own
<1>8. Deep(p)
  BY <1>2, <1>3, <1>6 DEF Deep
<1>9. Inside(p)
  BY <1>2, <1>4, <1>5, <1>7 DEF Inside, Ends
<1>10. ~Passes(fs[1]) /\ ~Passes(fs[2])
  BY <1>4, <1>5 DEF Passes, Carriers
<1>11. InTail(p)
  BY <1>2, <1>7, <1>10 DEF InTail
<1>12. Waits(p)
  BY <1>2, <1>4, <1>5 DEF Waits, Waiting
<1>13. QED BY <1>8, <1>9, <1>11, <1>12

\* who stays is where it was
LEMMA StaysAt ==
  ASSUME NEW q, Stays(q)
  PROVE  Running(q)' = Running(q) /\ At(q, "binary")' = At(q, "binary")
BY DEF Stays, SameProcess, Running, At, Top

\* Only the innermost frame waits, after a step as before it.
LEMMA StepWaits == Fitting /\ WaitInv /\ [Next]_vars => WaitInv'
<1> SUFFICES ASSUME Fitting, WaitInv, [Next]_vars PROVE WaitInv'
  OBVIOUS
<1>1. CASE UNCHANGED vars
  BY <1>1 DEF vars, WaitInv, Waits, Running, Children
<1>2. ASSUME NEW p \in Pid, Process(p) PROVE WaitInv'
  <2>1. Running(p) /\ frames[p] # <<>> /\ Waits(p)
    BY <1>2, WhoSteps DEF WaitInv
  <2>2. Shaped(p)
    BY <1>2, <2>1, ProcessShaped
  <2>3. ASSUME Goes(p) \/ Becomes(p) PROVE Waits(p)'
    BY <2>1, <2>3, GoesKeeps, BecomesKeeps
  <2>4. ASSUME NEW q \in Pid \ {p}, Stays(q), Running(q)' PROVE Waits(q)'
    <3>1. Waits(q)
      BY <2>4, StaysAt DEF WaitInv
    <3>2. QED BY <2>4, <3>1, StaysKeeps
  <2>5. ASSUME NEW q \in Pid \ {p}, Born(p, q) PROVE Waits(q)'
    BY <2>1, <2>5, BornKeeps
  <2>6. ASSUME NEW q \in Pid, Running(q)' PROVE Waits(q)'
    <3>1. proc'[q].state = "running"
      BY <2>6 DEF Running
    <3>2. CASE q = p
      BY <2>2, <2>3, <3>1, <3>2 DEF Shaped
    <3>3. CASE q # p
      BY <2>2, <2>4, <2>5, <2>6, <3>1, <3>3 DEF Shaped
    <3>4. QED BY <3>2, <3>3
  <2>7. QED BY <2>6 DEF WaitInv
<1>3. QED BY <1>1, <1>2 DEF Next

\* The depths count the frames after a step as before it.
LEMMA StepDeep == Fitting /\ WaitInv /\ DeepInv /\ [Next]_vars => DeepInv'
<1> SUFFICES ASSUME Fitting, WaitInv, DeepInv, [Next]_vars PROVE DeepInv'
  OBVIOUS
<1>1. CASE UNCHANGED vars
  BY <1>1 DEF vars, DeepInv, Deep, Running, At, Top
<1>2. ASSUME NEW p \in Pid, Process(p) PROVE DeepInv'
  <2>1. Shaped(p) /\ Running(p) /\ frames[p] # <<>>
    <3>1. Running(p) /\ frames[p] # <<>> /\ Waits(p)
      BY <1>2, WhoSteps DEF WaitInv
    <3>2. QED BY <1>2, <3>1, ProcessShaped
  <2>2. ASSUME Goes(p) PROVE Deep(p)'
    <3>1. Top(p).k # "binary"
      BY <2>2 DEF Goes, Follows
    <3>2. Deep(p)
      BY <2>1, <3>1 DEF DeepInv, At
    <3>3. QED BY <2>1, <2>2, <3>2, GoesKeeps
  <2>3. ASSUME Becomes(p), proc'[p].state = "running" PROVE At(p, "binary")'
    BY <2>3, BecomesKeeps
  <2>4. ASSUME NEW q \in Pid \ {p}, Stays(q), Running(q)', ~At(q, "binary")' PROVE Deep(q)'
    <3>1. Deep(q)
      BY <2>4, StaysAt DEF DeepInv
    <3>2. QED BY <2>4, <3>1, StaysKeeps
  <2>5. ASSUME NEW q \in Pid \ {p}, Born(p, q) PROVE Deep(q)'
    <3>1. Top(p).k # "binary"
      BY <2>5 DEF Born, Forks
    <3>2. Deep(p)
      BY <2>1, <3>1 DEF DeepInv, At
    <3>3. QED BY <2>1, <2>5, <3>2, BornKeeps
  <2>6. ASSUME NEW q \in Pid, Running(q)', ~At(q, "binary")' PROVE Deep(q)'
    <3>1. proc'[q].state = "running"
      BY <2>6 DEF Running
    <3>2. CASE q = p
      BY <2>1, <2>2, <2>3, <2>6, <3>1, <3>2 DEF Shaped
    <3>3. CASE q # p
      BY <2>1, <2>4, <2>5, <2>6, <3>1, <3>3 DEF Shaped
    <3>4. QED BY <3>2, <3>3
  <2>7. QED BY <2>6 DEF DeepInv
<1>3. QED BY <1>1, <1>2 DEF Next

\* Each process stays above the frames it got, and the flag in the tail.
LEMMA StepStacks == Assigns /\ Fitting /\ WaitInv /\ StackInv /\ [Next]_vars => StackInv'
<1> SUFFICES ASSUME Assigns, Fitting, WaitInv, StackInv, [Next]_vars PROVE StackInv'
  OBVIOUS
<1>1. CASE UNCHANGED vars
  BY <1>1 DEF vars, StackInv, Inside, InTail, Own, Running, At, Top
<1>2. ASSUME NEW p \in Pid, Process(p) PROVE StackInv'
  <2>1. Shaped(p) /\ Running(p) /\ frames[p] # <<>>
    <3>1. Running(p) /\ frames[p] # <<>> /\ Waits(p)
      BY <1>2, WhoSteps DEF WaitInv
    <3>2. QED BY <1>2, <3>1, ProcessShaped
  <2>2. ASSUME Goes(p) PROVE Inside(p)' /\ InTail(p)'
    <3>1. Top(p).k # "binary"
      BY <2>2 DEF Goes, Follows
    <3>2. Inside(p) /\ InTail(p)
      BY <2>1, <3>1 DEF StackInv, At
    <3>3. QED BY <2>1, <2>2, <3>2, GoesKeeps DEF Assigns
  <2>3. ASSUME Becomes(p), proc'[p].state = "running" PROVE Inside(p)' /\ At(p, "binary")'
    BY <2>3, BecomesKeeps
  <2>4. ASSUME NEW q \in Pid \ {p}, Stays(q), Running(q)'
        PROVE  Inside(q)' /\ (~At(q, "binary")' => InTail(q)')
    <3>1. Running(q) /\ At(q, "binary")' = At(q, "binary")
      BY <2>4, StaysAt
    <3>2. Inside(q) /\ (~At(q, "binary") => InTail(q))
      BY <3>1 DEF StackInv
    <3>3. /\ Inside(q)' = Inside(q) /\ InTail(q)' = InTail(q)
      BY <2>4 DEF Stays, SameProcess, Inside, InTail, Own
    <3>4. QED BY <3>1, <3>2, <3>3
  <2>5. ASSUME NEW q \in Pid \ {p}, Born(p, q) PROVE Inside(q)' /\ InTail(q)'
    BY <2>1, <2>5, BornKeeps
  <2>6. ASSUME NEW q \in Pid, Running(q)'
        PROVE  Inside(q)' /\ (~At(q, "binary")' => InTail(q)')
    <3>1. proc'[q].state = "running"
      BY <2>6 DEF Running
    <3>2. CASE q = p
      BY <2>1, <2>2, <2>3, <3>1, <3>2 DEF Shaped
    <3>3. CASE q # p
      BY <2>1, <2>4, <2>5, <2>6, <3>1, <3>3 DEF Shaped
    <3>4. QED BY <3>2, <3>3
  <2>7. QED BY <2>6 DEF StackInv
<1>3. QED BY <1>1, <1>2 DEF Next

LEMMA Fits == Spec => [](Fitting /\ WaitInv)
BY InitFits, StepFits, InitStacks, StepWaits, PTL DEF Spec

\* For any scripts, nodes and number of processes, however forks fail and whatever
\* interleaves: job_wait waits for children of its own process that nobody reaped
\* before it, so that waitpid succeeds and the status it reports has been written.
THEOREM WaitsForOwn == Spec => []WaitsForOwnChildren
<1>1. Fitting /\ WaitInv => WaitsForOwnChildren
  <2> SUFFICES ASSUME Fitting, WaitInv, NEW p \in Pid, NEW k \in {"wait", "read"}, At(p, k),
                      NEW j \in DOMAIN Top(p).ps
               PROVE  Top(p).ps[j] \in Children(p)
    BY DEF WaitsForOwnChildren
  <2>1. /\ Waits(p) /\ frames[p] # <<>> /\ frames[p] \in Seq(Fit) /\ Top(p).k = k
        /\ Top(p) = frames[p][1] /\ 1 \in 1..Len(frames[p])
    BY AtHas DEF At, WaitInv, Top
  <2>2. k \in Waiting
    BY DEF Waiting
  <2>3. QED BY <2>1, <2>2 DEF Waits
<1>2. QED BY <1>1, Fits, PTL

\* For any scripts: after every early return of a loop, every return from a function
\* and every fork, loop_depth and stack_depth are the number of loops and of calls in
\* progress (the ++ and -- of execute.c and builtin.c are paired on every path).
THEOREM DepthsCount == Spec => []DepthsMatchStack
<1>1. Spec => []DeepInv
  BY InitStacks, StepDeep, Fits, PTL DEF Spec
<1>2. DeepInv => DepthsMatchStack
  <2> SUFFICES ASSUME DeepInv, NEW p \in Pid, Running(p), ~At(p, "binary")
               PROVE  /\ glob[p].loop_depth = Count(p, {"condition", "body", "for"})
                      /\ glob[p].stack_depth = Count(p, {"func", "source"})
    BY DEF DepthsMatchStack
  <2>1. Deep(p)
    BY DEF DeepInv
  <2>2. QED BY <2>1 DEF Deep, Count, Number, Loops, Calls
<1>3. QED BY <1>1, <1>2, PTL

LEMMA Stacks ==
  ASSUME Assigns
  PROVE  Spec => [](Fitting /\ StackInv)
<1>1. Fitting /\ WaitInv /\ StackInv /\ [Next]_vars => StackInv'
  BY StepStacks
<1>2. QED BY <1>1, InitStacks, Fits, PTL DEF Spec

\* For any scripts in which every assignment expands (execute.c:307 is the one place
\* where a child returns): a forked process exits or becomes a program before it
\* reaches the frames it got from its parent.
THEOREM ChildStays ==
  ASSUME Assigns
  PROVE  Spec => []ChildStaysInChild
<1>1. Fitting /\ StackInv => ChildStaysInChild
  <2> SUFFICES ASSUME Fitting, StackInv, NEW p \in Pid, Running(p)
               PROVE  Len(frames[p]) > proc[p].base
    BY DEF ChildStaysInChild
  <2>1. Len(frames[p]) \in Nat /\ proc[p].base \in Nat
    BY DEF Fitting, Proc
  <2>2. Len(frames[p]) - proc[p].base >= 1
    BY DEF StackInv, Inside, Own
  <2>3. QED BY <2>1, <2>2
<1>2. QED BY <1>1, Stacks, PTL

\* Under the same hypothesis: a call that may replace the process by a program is in
\* a forked process, which then has nothing left but to return, to end a for and to exit.
THEOREM NoForkInTail ==
  ASSUME Assigns
  PROVE  Spec => []NoForkOnlyInTail
<1>1. StackInv => NoForkOnlyInTail
  <2> SUFFICES ASSUME StackInv, NEW p \in Pid, Running(p), ~At(p, "binary"),
                      NEW i \in 1..Own(p), frames[p][i].nf, frames[p][i].k \in {"exec", "run", "call"}
               PROVE  /\ proc[p].parent # NoPid
                      /\ \A j \in (i + 1)..Own(p) : Inert(frames[p][j])
    BY DEF NoForkOnlyInTail, Own
  <2>1. InTail(p)
    BY DEF StackInv
  <2>2. Passes(frames[p][i])
    BY DEF Passes, Carriers
  <2>3. QED BY <2>1, <2>2 DEF InTail
<1>2. QED BY <1>1, Stacks, PTL
-----------------------------------------------------------------------------
(***************************************************************************)
(* Requests to leave loops.  break and continue are only run where none is *)
(* pending: the frame of a command that is being expanded has nothing      *)
(* above it but the substitution it reads.                                 *)
(***************************************************************************)
Asked(g) == g.break_depth > 0 \/ g.continue_depth > 0

Levels(g) ==
  /\ g.break_depth <= g.loop_depth /\ g.continue_depth <= g.loop_depth
  /\ ~(g.break_depth > 0 /\ g.continue_depth > 0)

Above == {"read", "wait"}

Commands(p) ==
  \A i \in 1..Len(frames[p]) : frames[p][i].k = "run" =>
    /\ ~Asked(glob[p])
    /\ \A j \in 1..(i - 1) : frames[p][j].k \in Above

Requests(p) == Levels(glob[p]) /\ Commands(p)

\* An argument that break or continue refuses (break 5x), but has stored already, asks
\* for no more levels than there are loops (builtin.c:249 and 273).
Refused ==
  \A p \in Pid :
    At(p, "run") /\ Top(p).n.cmd \in {"break", "continue"} /\ Top(p).n.form = "junk" =>
      glob[p].loop_depth = 0 \/ Top(p).n.n <= glob[p].loop_depth

\* No while and no until ends by the status of its condition when the condition has
\* asked to leave a loop (execute.c:520).
Heeded ==
  \A p \in Pid : At(p, "condition") /\ Asked(glob[p]) =>
    ~LoopEnds(Top(p).n.type, glob[p].exit_status)

\* what most steps do to the requests
SameRequests(g, h) ==
  /\ h.break_depth = g.break_depth /\ h.continue_depth = g.continue_depth
  /\ h.loop_depth >= g.loop_depth

LEMMA LevelsSame ==
  ASSUME NEW g \in Glob, NEW h \in Glob, SameRequests(g, h), Levels(g)
  PROVE  Levels(h) /\ (Asked(h) => Asked(g))
BY DEF Glob, SameRequests, Levels, Asked

\* Nothing is being expanded behind a frame that is not above an expansion.
LEMMA NoneBehind ==
  ASSUME NEW p, NEW S, frames[p] \in Seq(S), frames[p] # <<>>, Commands(p), Top(p).k \notin Above
  PROVE  \A i \in 2..Len(frames[p]) : frames[p][i].k # "run"
<1> SUFFICES ASSUME NEW i \in 2..Len(frames[p]), frames[p][i].k = "run" PROVE FALSE
  OBVIOUS
<1>1. i \in 1..Len(frames[p]) /\ 1 \in 1..(i - 1) /\ Top(p) = frames[p][1]
  BY DEF Top
<1>2. QED BY <1>1 DEF Commands

\* The frames change, and none of the new ones is an expansion.
LEMMA CommandsLeft ==
  ASSUME NEW p, NEW S, frames[p] \in Seq(S), frames[p] # <<>>, NEW T, NEW fs \in Seq(T),
         frames'[p] = fs \o Tail(frames[p]), \A i \in DOMAIN fs : fs[i].k # "run",
         Commands(p), Top(p).k \notin Above
  PROVE  Commands(p)'
<1> DEFINE U == S \cup T
           s == frames[p]
           t == frames'[p]
<1>1. s \in Seq(U) /\ fs \in Seq(U) /\ s # <<>> /\ t = fs \o Tail(s)
  OBVIOUS
<1> HIDE DEF U
<1>2. /\ Len(t) = Len(s) + Len(fs) - 1 /\ Len(fs) \in Nat /\ Len(s) \in Nat
      /\ DOMAIN fs = 1..Len(fs)
      /\ \A i \in 1..Len(fs) : t[i] = fs[i]
      /\ \A i \in (Len(fs) + 1)..Len(t) : t[i] = s[i - Len(fs) + 1]
  BY <1>1, Places
<1>3. \A i \in 2..Len(s) : s[i].k # "run"
  BY NoneBehind
<1>4. ASSUME NEW i \in 1..Len(t) PROVE t[i].k # "run"
  <2>1. CASE i <= Len(fs)
    BY <1>2, <2>1
  <2>2. CASE i > Len(fs)
    <3>1. i - Len(fs) + 1 \in 2..Len(s) /\ t[i] = s[i - Len(fs) + 1]
      BY <1>2, <2>2
    <3>2. QED BY <1>3, <3>1
  <2>3. QED BY <1>2, <2>1, <2>2
<1>5. QED BY <1>4 DEF Commands

\* What is above an expansion goes on.
LEMMA CommandsStay ==
  ASSUME NEW p, NEW S, frames[p] \in Seq(S), frames[p] # <<>>, NEW T, NEW fs \in Seq(T),
         frames'[p] = fs \o Tail(frames[p]), Len(fs) <= 1, \A i \in DOMAIN fs : fs[i].k \in Above,
         Commands(p), Asked(glob'[p]) => Asked(glob[p])
  PROVE  Commands(p)'
<1> DEFINE U == S \cup T
           s == frames[p]
           t == frames'[p]
<1>1. s \in Seq(U) /\ fs \in Seq(U) /\ s # <<>> /\ t = fs \o Tail(s)
  OBVIOUS
<1> HIDE DEF U
<1>2. /\ Len(t) = Len(s) + Len(fs) - 1 /\ Len(fs) \in Nat /\ Len(s) \in Nat
      /\ DOMAIN fs = 1..Len(fs)
      /\ \A i \in 1..Len(fs) : t[i] = fs[i]
      /\ \A i \in (Len(fs) + 1)..Len(t) : t[i] = s[i - Len(fs) + 1]
  BY <1>1, Places
<1>3. ASSUME NEW i \in 1..Len(t), t[i].k = "run"
      PROVE  ~Asked(glob'[p]) /\ \A j \in 1..(i - 1) : t[j].k \in Above
  <2>1. i > Len(fs)
    BY <1>2, <1>3 DEF Above
  <2>2. i - Len(fs) + 1 \in 1..Len(s) /\ t[i] = s[i - Len(fs) + 1]
    BY <1>2, <2>1
  <2>3. ~Asked(glob[p]) /\ \A j \in 1..(i - Len(fs)) : s[j].k \in Above
    <3>1. ~Asked(glob[p]) /\ \A j \in 1..(i - Len(fs) + 1 - 1) : s[j].k \in Above
      BY <1>3, <2>2 DEF Commands
    <3>2. i - Len(fs) + 1 - 1 = i - Len(fs)
      BY <1>2
    <3>3. QED BY <3>1, <3>2
  <2>4. ASSUME NEW j \in 1..(i - 1) PROVE t[j].k \in Above
    <3>1. CASE j <= Len(fs)
      BY <1>2, <3>1
    <3>2. CASE j > Len(fs)
      <4>1. j - Len(fs) + 1 \in 1..(i - Len(fs)) /\ j \in (Len(fs) + 1)..Len(t)
        BY <1>2, <3>2
      <4>2. QED BY <1>2, <2>3, <4>1
    <3>3. QED BY <1>2, <3>1, <3>2
  <2>5. QED BY <2>3, <2>4
<1>4. QED BY <1>3 DEF Commands

-----------------------------------------------------------------------------
\* one frame, two, or none
LEMMA FewFrames ==
  ASSUME NEW a, NEW b
  PROVE  /\ <<>> \in Seq({a, b}) /\ DOMAIN <<>> = {}
         /\ <<a>> \in Seq({a, b}) /\ DOMAIN <<a>> = {1} /\ <<a>>[1] = a /\ Len(<<a>>) = 1
         /\ <<a, b>> \in Seq({a, b}) /\ DOMAIN <<a, b>> = {1, 2} /\ <<a, b>>[1] = a /\ <<a, b>>[2] = b
OBVIOUS

LEMMA LocalTo ==
  ASSUME Fitting, NEW p \in Pid, NEW fs, NEW g, Local(p, fs, g)
  PROVE  frames'[p] = fs \o Tail(frames[p]) /\ glob'[p] = g
BY DEF Local, Fitting

LEMMA NoneAsks ==
  ASSUME Fitting, NEW p \in Pid, NEW k, At(p, k), k \notin Above, NEW g, Local(p, <<>>, g),
         Requests(p), Levels(g)
  PROVE  Requests(p)'
<1>1. frames[p] \in Seq(Fit) /\ frames[p] # <<>> /\ Top(p).k = k
  BY AtHas
<1>2. frames'[p] = <<>> \o Tail(frames[p]) /\ glob'[p] = g
  BY LocalTo
<1>3. <<>> \in Seq(Fit) /\ \A i \in DOMAIN <<>> : <<>>[i].k # "run"
  OBVIOUS
<1>4. Commands(p)'
  BY <1>1, <1>2, <1>3, CommandsLeft DEF Requests
<1>5. QED BY <1>2, <1>4 DEF Requests

LEMMA OneAsks ==
  ASSUME Fitting, NEW p \in Pid, NEW k, At(p, k), k \notin Above, NEW g, NEW a, Local(p, <<a>>, g),
         a.k # "run", Requests(p), Levels(g)
  PROVE  Requests(p)'
<1>1. frames[p] \in Seq(Fit) /\ frames[p] # <<>> /\ Top(p).k = k
  BY AtHas
<1> DEFINE fs == <<a>>
<1>2. fs \in Seq({a}) /\ \A i \in DOMAIN fs : fs[i].k # "run"
  OBVIOUS
<1>3. frames'[p] = fs \o Tail(frames[p]) /\ glob'[p] = g
  BY LocalTo
<1> HIDE DEF fs
<1>4. Commands(p)'
  BY <1>1, <1>2, <1>3, CommandsLeft DEF Requests
<1>5. QED BY <1>3, <1>4 DEF Requests

LEMMA TwoAsk ==
  ASSUME Fitting, NEW p \in Pid, NEW k, At(p, k), k \notin Above, NEW g, NEW a, NEW b,
         Local(p, <<a, b>>, g), a.k # "run", b.k # "run", Requests(p), Levels(g)
  PROVE  Requests(p)'
<1>1. frames[p] \in Seq(Fit) /\ frames[p] # <<>> /\ Top(p).k = k
  BY AtHas
<1> DEFINE fs == <<a, b>>
<1>2. fs \in Seq({a, b}) /\ \A i \in DOMAIN fs : fs[i].k # "run"
  BY FewFrames
<1>3. frames'[p] = fs \o Tail(frames[p]) /\ glob'[p] = g
  BY LocalTo
<1> HIDE DEF fs
<1>4. Commands(p)'
  BY <1>1, <1>2, <1>3, CommandsLeft DEF Requests
<1>5. QED BY <1>3, <1>4 DEF Requests

\* The globals that most steps leave, and what calls and loops add.
LEMMA LevelsKept ==
  ASSUME NEW g \in Glob, Levels(g)
  PROVE  /\ \A s : Levels(Status(g, s))
         /\ \A s : Levels(Status([g EXCEPT !.loop_depth = @ + 1], s))
         /\ \A d, i : Levels([g EXCEPT !.stack_depth = d, !.argc = i])
         /\ \A d, b, i : Levels([g EXCEPT !.stack_depth = d, !.return_break = b, !.argc = i])
         /\ \A b : Levels([g EXCEPT !.return_break = b])
         /\ \A b : Levels([g EXCEPT !.sigint_break = b])
         /\ \A c : Levels([g EXCEPT !.last_background = c])
BY DEF Glob, Levels, Status

-----------------------------------------------------------------------------
\* Where a call begins or returns, and asks for nothing.
LEMMA PassingAsks ==
  ASSUME Fitting, NEW p \in Pid, Requests(p),
         \/ Skip(p) \/ RedirsFail(p) \/ ExecBinary(p) \/ AfterLeft(p) \/ ExecIf(p) \/ AfterIf(p)
         \/ ExecCase(p) \/ ExecNegate(p) \/ AfterNegate(p) \/ ExecGroup(p) \/ ExecPipe(p)
  PROVE  Requests(p)'
<1>1. PICK k \in {"exec", "left", "if", "negate"} : At(p, k)
  BY DEF Skip, RedirsFail, ExecBinary, AfterLeft, ExecIf, AfterIf, ExecCase, ExecNegate, AfterNegate,
         ExecGroup, ExecPipe, Entering
<1>2. k \notin Above /\ glob[p] \in Glob /\ Levels(glob[p]) /\ \A s : Levels(Status(glob[p], s))
  BY <1>1, AtHas, LevelsKept DEF Above, Requests
<1>3. \A n, nf : Exec(n, nf).k = "exec" /\ F("left", n, nf).k = "left" /\ F("if", n, nf).k = "if"
                 /\ F("negate", n, nf).k = "negate" /\ F("pipe", n, nf).k = "pipe"
  BY Zenon DEF F, Exec
<1>4. \E g : /\ g = glob[p] \/ \E s : g = Status(glob[p], s)
             /\ \/ Local(p, <<>>, g)
                \/ \E a : a.k # "run" /\ Local(p, <<a>>, g)
                \/ \E a, b : a.k # "run" /\ b.k # "run" /\ Local(p, <<a, b>>, g)
  <2>1. CASE Skip(p) \/ RedirsFail(p) \/ AfterNegate(p)
    BY <2>1, Zenon DEF Skip, RedirsFail, AfterNegate
  <2>2. CASE ExecBinary(p) \/ ExecIf(p) \/ ExecNegate(p)
    <3>1. ASSUME NEW n, NEW j \in {"left", "if", "negate"}
          PROVE  Exec(n, FALSE).k # "run" /\ F(j, Top(p).n, Top(p).nf).k # "run"
      <4>1. Exec(n, FALSE).k = "exec" /\ F(j, Top(p).n, Top(p).nf).k = j
        BY Zenon DEF F, Exec
      <4>2. QED BY <4>1
    <3>2. ASSUME NEW n, NEW j \in {"left", "if", "negate"}, NEW g,
                 g = glob[p] \/ \E s : g = Status(glob[p], s),
                 Local(p, <<Exec(n, FALSE), F(j, Top(p).n, Top(p).nf)>>, g)
          PROVE  \E h : /\ h = glob[p] \/ \E s : h = Status(glob[p], s)
                     /\ \/ Local(p, <<>>, h)
                        \/ \E a : a.k # "run" /\ Local(p, <<a>>, h)
                        \/ \E a, b : a.k # "run" /\ b.k # "run" /\ Local(p, <<a, b>>, h)
      BY <3>1, <3>2, Zenon
    <3>3. CASE ExecBinary(p)
      BY <3>2, <3>3 DEF ExecBinary
    <3>4. CASE ExecIf(p)
      BY <3>2, <3>4 DEF ExecIf
    <3>5. CASE ExecNegate(p)
      BY <3>2, <3>5 DEF ExecNegate
    <3>6. QED BY <2>2, <3>3, <3>4, <3>5
  <2>3. CASE AfterLeft(p) \/ AfterIf(p) \/ ExecCase(p) \/ ExecGroup(p)
    <3>1. PICK g : /\ g = glob[p] \/ \E s : g = Status(glob[p], s)
                   /\ \/ Local(p, <<>>, g)
                      \/ \E n : Local(p, <<Exec(n, Top(p).nf)>>, g)
      BY <2>3, Zenon DEF AfterLeft, AfterIf, ExecCase, ExecGroup
    <3>2. \A n : Exec(n, Top(p).nf).k # "run"
      <4> TAKE n
      <4>1. Exec(n, Top(p).nf).k = "exec"
        BY <1>3, Zenon
      <4>2. QED BY <4>1
    <3>3. QED BY <3>1, <3>2, Zenon
  <2>4. CASE ExecPipe(p)
    <3>1. Local(p, <<F("pipe", Top(p).n, Top(p).nf)>>, glob[p])
      BY <2>4 DEF ExecPipe
    <3>2. F("pipe", Top(p).n, Top(p).nf).k # "run"
      <4>1. F("pipe", Top(p).n, Top(p).nf).k = "pipe"
        BY <1>3, Zenon
      <4>2. QED BY <4>1
    <3>3. QED BY <3>1, <3>2, Zenon
  <2>5. QED BY <2>1, <2>2, <2>3, <2>4
<1>5. PICK g : /\ g = glob[p] \/ \E s : g = Status(glob[p], s)
               /\ \/ Local(p, <<>>, g)
                  \/ \E a : a.k # "run" /\ Local(p, <<a>>, g)
                  \/ \E a, b : a.k # "run" /\ b.k # "run" /\ Local(p, <<a, b>>, g)
  BY <1>4
<1>6. Levels(g)
  BY <1>2, <1>5
<1>7. QED BY <1>1, <1>2, <1>5, <1>6, NoneAsks, OneAsks, TwoAsk

\* Forks leave the requests of the parent.
LEMMA ForkAsks ==
  ASSUME Fitting, NEW p \in Pid, Running(p), frames[p] # <<>>, Requests(p), Free # {},
         NEW T, NEW fs \in Seq(T), NEW g, NEW child, NEW out, Fork(p, FreshPid, fs, g, child, out),
         \A i \in DOMAIN fs : fs[i].k # "run", Top(p).k \notin Above, Levels(g)
  PROVE  Requests(p)'
<1> DEFINE c == FreshPid
<1>1. c \in Pid /\ c # p
  BY FreshIsFree DEF Free, Running
<1> HIDE DEF c
<1>2. frames'[p] = fs \o Tail(frames[p]) /\ glob'[p] = g
  BY <1>1 DEF Fork, Fitting, Rest, c
<1>3. frames[p] \in Seq(Fit)
  BY DEF Fitting
<1>4. Commands(p)'
  BY <1>2, <1>3, CommandsLeft DEF Requests
<1>5. QED BY <1>2, <1>4 DEF Requests

LEMMA SingleAsks ==
  ASSUME Fitting, NEW p \in Pid, Requests(p), NEW k, At(p, k), k \notin Above, NEW child, Single(p, child)
  PROVE  Requests(p)'
<1>1. Running(p) /\ frames[p] # <<>> /\ Top(p).k = k /\ Levels(glob[p])
  BY DEF At, Requests
<1> DEFINE a == WaitFor(<<FreshPid>>)
           fs == <<a>>
           g == glob[p]
           out == proc[p].out
<1>2. \/ Free # {} /\ Fork(p, FreshPid, fs, g, child, out)
      \/ Local(p, <<>>, g)
  BY Zenon DEF Single
<1>3. a.k = "wait"
  BY DEF WaitFor, F
<1> HIDE DEF a
<1>4. fs \in Seq({a}) /\ \A i \in DOMAIN fs : fs[i].k # "run"
  BY <1>3
<1>5. CASE Local(p, <<>>, g)
  BY <1>1, <1>5, NoneAsks
<1> HIDE DEF fs, g, out
<1>6. CASE Free # {} /\ Fork(p, FreshPid, fs, g, child, out)
  BY <1>1, <1>4, <1>6, ForkAsks DEF g
<1>7. QED BY <1>2, <1>5, <1>6

LEMMA ForkingAsks ==
  ASSUME Fitting, NEW p \in Pid, Requests(p), ExecSubshell(p) \/ ExecAsync(p) \/ ExecFunc(p) \/ PipeStage(p)
  PROVE  Requests(p)'
<1>1. PICK k \in {"exec", "pipe"} : At(p, k)
  BY DEF ExecSubshell, ExecAsync, ExecFunc, PipeStage, Entering
<1>2. /\ k \notin Above /\ glob[p] \in Glob /\ Levels(glob[p])
      /\ Running(p) /\ frames[p] # <<>> /\ Top(p).k = k
  BY <1>1, AtHas DEF Above, Requests, At
<1>3. CASE ExecSubshell(p)
  <2> DEFINE a == Exec(Top(p).n.child, TRUE)
             child == <<a, Exit>>
  <2>1. Local(p, <<a>>, glob[p]) \/ Single(p, child)
    BY <1>3, Zenon DEF ExecSubshell
  <2>2. a.k = "exec"
    BY Zenon DEF F, Exec
  <2> HIDE DEF a, child
  <2>3. QED BY <1>1, <1>2, <2>1, <2>2, OneAsks, SingleAsks
<1>4. CASE ExecAsync(p)
  <2> DEFINE child == <<Exec(Top(p).n.child, TRUE), Exit>>
             g == [glob[p] EXCEPT !.last_background = FreshPid]
             h == [glob[p] EXCEPT !.last_background = NoPid]
             out == proc[p].out
             fs == <<>>
  <2>1. \/ Free # {} /\ Fork(p, FreshPid, fs, g, child, out)
        \/ Local(p, <<>>, h)
    BY <1>4, Zenon DEF ExecAsync
  <2>2. Levels(g) /\ Levels(h)
    BY <1>2, LevelsKept, Zenon
  <2>3. fs \in Seq(Fit) /\ \A i \in DOMAIN fs : fs[i].k # "run"
    OBVIOUS
  <2>4. CASE Local(p, <<>>, h)
    <3> HIDE DEF h
    <3>1. QED BY <1>1, <1>2, <2>2, <2>4, NoneAsks
  <2> HIDE DEF child, g, h, out, fs
  <2>5. CASE Free # {} /\ Fork(p, FreshPid, fs, g, child, out)
    BY <1>2, <2>2, <2>3, <2>5, ForkAsks
  <2>6. QED BY <2>1, <2>4, <2>5
<1>5. CASE ExecFunc(p)
  <2>1. PICK body :
          Local(p, <<>>, [glob[p] EXCEPT !.funcs[Top(p).n.name] = body,
                                         !.stolen = @ \cup {Top(p).n}])
    BY <1>5 DEF ExecFunc
  <2> DEFINE n == Top(p).n
             g == [glob[p] EXCEPT !.funcs[n.name] = body]
             h == [g EXCEPT !.stolen = @ \cup {n}]
  <2>2. /\ g.break_depth = glob[p].break_depth /\ g.continue_depth = glob[p].continue_depth
        /\ g.loop_depth = glob[p].loop_depth
        /\ "break_depth" \in DOMAIN g /\ "continue_depth" \in DOMAIN g /\ "loop_depth" \in DOMAIN g
    BY <1>2, Zenon DEF Glob
  <2>3. [glob[p] EXCEPT !.funcs[n.name] = body, !.stolen = @ \cup {n}] = h
    BY DEF Glob
  <2>4. Levels(h)
    <3> HIDE DEF g
    <3>1. QED BY <1>2, <2>2 DEF Levels
  <2> HIDE DEF h
  <2>5. QED BY <1>1, <1>2, <2>1, <2>3, <2>4, NoneAsks
<1>6. CASE PipeStage(p)
  <2>1. PICK child, out, ps, a :
          /\ a.k # "run"
          /\ \/ Free # {} /\ Fork(p, FreshPid, <<a>>, glob[p], child, out)
             \/ Local(p, <<a>>, glob[p])
    <3> DEFINE fr == Top(p)
               last == fr.n.type # "pipe"
               child == <<Exec(IF last THEN fr.n ELSE fr.n.left, TRUE), Exit>>
               stage(ps) == [fr EXCEPT !.n = fr.n.right, !.ps = ps]
               next(ps) == IF last THEN <<WaitFor(ps)>> ELSE <<stage(ps)>>
               out == IF last THEN proc[p].out ELSE NoPid
    <3>1. \/ /\ Free # {}
             /\ Fork(p, FreshPid, next(Append(fr.ps, FreshPid)), glob[p], child, out)
          \/ Local(p, next(fr.ps), glob[p])
      BY <1>6, Zenon DEF PipeStage
    <3>2. fr.k = "pipe" /\ fr \in Fit
      <4>1. At(p, "pipe")
        BY <1>6 DEF PipeStage
      <4>2. QED BY <4>1, AtHas
    <3>3. ASSUME NEW ps PROVE \E a : next(ps) = <<a>> /\ a.k # "run"
      <4>1. WaitFor(ps).k = "wait"
        BY Zenon DEF WaitFor, F
      <4>2. stage(ps).k = "pipe"
        <5>1. "k" \in DOMAIN fr
          BY <3>2 DEF Fit, Frame
        <5>2. QED BY <3>2, <5>1, Zenon
      <4>3. next(ps) = <<WaitFor(ps)>> \/ next(ps) = <<stage(ps)>>
        OBVIOUS
      <4> HIDE DEF next, stage
      <4>4. QED BY <4>1, <4>2, <4>3
    <3> HIDE DEF fr, last, child, stage, next, out
    <3>4. QED BY <3>1, <3>3, Zenon
  <2>2. CASE Local(p, <<a>>, glob[p])
    BY <1>1, <1>2, <2>1, <2>2, OneAsks
  <2>3. CASE Free # {} /\ Fork(p, FreshPid, <<a>>, glob[p], child, out)
    <3> DEFINE fs == <<a>>
               g == glob[p]
    <3>1. fs \in Seq({a}) /\ (\A i \in DOMAIN fs : fs[i].k # "run") /\ Levels(g)
      BY <1>2, <2>1
    <3>2. Fork(p, FreshPid, fs, g, child, out)
      BY <2>3
    <3> HIDE DEF fs, g
    <3>3. QED BY <1>2, <2>3, <3>1, <3>2, ForkAsks
  <2>4. QED BY <2>1, <2>2, <2>3
<1>7. QED BY <1>3, <1>4, <1>5, <1>6
-----------------------------------------------------------------------------
(***************************************************************************)
(* Loops, commands, builtins and programs, and the requests they leave.    *)
(***************************************************************************)
\* A loop that ends has counted itself.
LEMMA InLoop ==
  ASSUME Fitting, NEW p \in Pid, NEW k \in Loops, At(p, k), Deep(p)
  PROVE  glob[p].loop_depth >= 1
<1>1. frames[p] \in Seq(Fit) /\ frames[p] # <<>> /\ Head(frames[p]).k = k /\ Tail(frames[p]) \in Seq(Fit)
  BY AtHas DEF Top
<1>2. Number(frames[p], Loops) = One(k, Loops) + Number(Tail(frames[p]), Loops)
  BY <1>1, NumberTop
<1>3. One(k, Loops) = 1 /\ Number(Tail(frames[p]), Loops) \in Nat
  <2>1. \A s \in Seq(Fit) : Number(s, Loops) \in Nat
    BY NumberFinite
  <2>2. QED BY <1>1, <2>1 DEF One
<1>4. glob[p].loop_depth = Number(frames[p], Loops)
  BY DEF Deep
<1>5. QED BY <1>2, <1>3, <1>4

\* A request is counted down with its loop, or met by none.
LEMMA LevelsConsumed ==
  ASSUME NEW g \in Glob, Levels(g)
  PROVE  /\ \A s : Levels(Status(Consume(g), s))
         /\ Levels(Consume(g))
         /\ g.loop_depth >= 1 => \A s : Levels(Status(LeaveLoop(Consume(g)), s))
         /\ g.loop_depth >= 1 => Levels(LeaveLoop(Consume(g)))
         /\ g.loop_depth >= 1 /\ ~Asked(g) => \A s : Levels(Status(LeaveLoop(g), s))
BY DEF Glob, Levels, Status, Consume, LeaveLoop, Asked

LEMMA ConditionAsks ==
  ASSUME Fitting, NEW p \in Pid, Requests(p), NEW k, At(p, k), k \notin Above,
         NEW fr \in Fit, NEW g, Condition(p, fr, g), Levels(Status(g, 0))
  PROVE  Requests(p)'
<1> DEFINE a == Exec(fr.n.condition, FALSE)
           b == [fr EXCEPT !.k = "condition"]
           h == Status(g, 0)
<1>1. Local(p, <<a, b>>, h)
  BY DEF Condition
<1>2. a.k = "exec"
  BY Zenon DEF Exec, F
<1>3. b.k = "condition"
  BY DEF Fit, Frame
<1>4. Levels(h)
  OBVIOUS
<1> HIDE DEF a, b, h
<1>5. QED BY <1>1, <1>2, <1>3, <1>4, TwoAsk

LEMMA WordAsks ==
  ASSUME Fitting, NEW p \in Pid, Requests(p), NEW k, At(p, k), k \notin Above,
         NEW fr, fr.k = "for", NEW g, ForWord(p, fr, g), Levels(g)
  PROVE  Requests(p)'
<1> DEFINE nf == fr.nf /\ fr.i = fr.n.words
           a == Exec(fr.n.body, nf)
<1>1. Local(p, <<a, fr>>, g)
  BY DEF ForWord
<1>2. a.k = "exec"
  BY Zenon DEF Exec, F
<1> HIDE DEF a
<1>3. QED BY <1>1, <1>2, TwoAsk

LEMMA LoopAsks ==
  ASSUME Fitting, NEW p \in Pid, Requests(p), Deep(p), Heeded, ExecLoop(p) \/ AfterCondition(p) \/ AfterBody(p)
  PROVE  Requests(p)'
<1>1. PICK k \in {"exec", "condition", "body"} : At(p, k)
  BY DEF ExecLoop, AfterCondition, AfterBody, Entering
<1>2. /\ k \notin Above /\ glob[p] \in Glob /\ Levels(glob[p])
      /\ k # "exec" => glob[p].loop_depth >= 1
  <2>1. k \notin Above /\ glob[p] \in Glob /\ Levels(glob[p])
    BY <1>1, AtHas DEF Above, Requests
  <2>2. k # "exec" => k \in Loops
    BY DEF Loops
  <2>3. QED BY <1>1, <2>1, <2>2, InLoop
<1>3. CASE ExecLoop(p)
  <2> DEFINE fr == F("condition", Top(p).n, Top(p).nf)
             g == [glob[p] EXCEPT !.loop_depth = @ + 1]
  <2>1. Entering(p, LoopTypes) /\ Condition(p, fr, g)
    BY <1>3 DEF ExecLoop
  <2>2. fr \in Fit
    BY <2>1, EnteringHas, FramesFit
  <2>3. Levels(Status(g, 0))
    BY <1>2, LevelsKept
  <2> HIDE DEF fr, g
  <2>4. QED BY <1>1, <1>2, <2>1, <2>2, <2>3, ConditionAsks
<1>4. CASE AfterCondition(p)
  <2>1. At(p, "condition") /\ Top(p) \in Fit /\ "condition" \notin Above /\ glob[p].loop_depth >= 1
    <3>1. At(p, "condition")
      BY <1>4 DEF AfterCondition
    <3>2. "condition" \in Loops /\ "condition" \notin Above
      BY DEF Loops, Above
    <3>3. QED BY <3>1, <3>2, AtHas, InLoop
  <2> DEFINE a == Exec(Top(p).n.body, FALSE)
             b == [Top(p) EXCEPT !.k = "body"]
             i == Top(p).i
  <2>2. \/ LoopEnds(Top(p).n.type, glob[p].exit_status) /\ Local(p, <<>>, Status(LeaveLoop(glob[p]), i))
        \/ Local(p, <<>>, Status(LeaveLoop(Consume(glob[p])), i))
        \/ Condition(p, Top(p), Consume(glob[p]))
        \/ Local(p, <<a, b>>, glob[p])
    BY <1>4 DEF AfterCondition
  <2>3. a.k = "exec"
    BY Zenon DEF Exec, F
  <2>4. b.k = "body"
    BY <2>1 DEF Fit, Frame
  <2> HIDE DEF a, b, i
  <2>5. CASE LoopEnds(Top(p).n.type, glob[p].exit_status) /\ Local(p, <<>>, Status(LeaveLoop(glob[p]), i))
    <3>1. ~Asked(glob[p])
      BY <2>1, <2>5 DEF Heeded
    <3>2. Levels(Status(LeaveLoop(glob[p]), i))
      BY <1>2, <2>1, <3>1, LevelsConsumed
    <3>3. QED BY <2>1, <2>5, <3>2, NoneAsks
  <2>6. CASE Local(p, <<>>, Status(LeaveLoop(Consume(glob[p])), i))
    <3>1. Levels(Status(LeaveLoop(Consume(glob[p])), i))
      BY <1>2, <2>1, LevelsConsumed
    <3>2. QED BY <2>1, <2>6, <3>1, NoneAsks
  <2>7. CASE Condition(p, Top(p), Consume(glob[p]))
    <3>1. Levels(Status(Consume(glob[p]), 0))
      BY <1>2, LevelsConsumed
    <3>2. QED BY <2>1, <2>7, <3>1, ConditionAsks
  <2>8. CASE Local(p, <<a, b>>, glob[p])
    BY <1>2, <2>1, <2>3, <2>4, <2>8, TwoAsk
  <2>9. QED BY <2>2, <2>5, <2>6, <2>7, <2>8
<1>5. CASE AfterBody(p)
  <2>1. At(p, "body") /\ Top(p) \in Fit /\ "body" \notin Above /\ glob[p].loop_depth >= 1
    <3>1. At(p, "body")
      BY <1>5 DEF AfterBody
    <3>2. "body" \in Loops /\ "body" \notin Above
      BY DEF Loops, Above
    <3>3. QED BY <3>1, <3>2, AtHas, InLoop
  <2> DEFINE fr == [Top(p) EXCEPT !.i = glob[p].exit_status]
  <2>2. fr \in Fit
    BY <1>2, <2>1, LoopBookkeeping, FrameUpdates
  <2>3. Local(p, <<>>, LeaveLoop(Consume(glob[p]))) \/ Condition(p, fr, Consume(glob[p]))
    BY <1>5 DEF AfterBody
  <2> HIDE DEF fr
  <2>4. Levels(LeaveLoop(Consume(glob[p]))) /\ Levels(Status(Consume(glob[p]), 0))
    BY <1>2, <2>1, LevelsConsumed
  <2>5. CASE Local(p, <<>>, LeaveLoop(Consume(glob[p])))
    BY <2>1, <2>4, <2>5, NoneAsks
  <2>6. CASE Condition(p, fr, Consume(glob[p]))
    BY <2>1, <2>2, <2>4, <2>6, ConditionAsks
  <2>7. QED BY <2>3, <2>5, <2>6
<1>6. QED BY <1>3, <1>4, <1>5

LEMMA ForAsks ==
  ASSUME Fitting, NEW p \in Pid, Requests(p), Deep(p), ExecFor(p) \/ AfterForBody(p)
  PROVE  Requests(p)'
<1>1. CASE ExecFor(p)
  <2> DEFINE n == Top(p).n
             f == F("for", n, Top(p).nf)
             fr == [f EXCEPT !.i = 1]
             g == Status([glob[p] EXCEPT !.loop_depth = @ + 1], 0)
  <2>1. /\ At(p, "exec")
        /\ \/ Local(p, <<>>, Status(glob[p], 1)) \/ Local(p, <<>>, Status(glob[p], 0))
           \/ ForWord(p, fr, g)
    BY <1>1, Zenon DEF ExecFor, Entering
  <2>2. "exec" \notin Above /\ glob[p] \in Glob /\ Levels(glob[p])
    BY <2>1, AtHas DEF Above, Requests
  <2>3. fr.k = "for"
    BY Zenon DEF F
  <2>4. Levels(g) /\ Levels(Status(glob[p], 1)) /\ Levels(Status(glob[p], 0))
    BY <2>2, LevelsKept, Zenon
  <2> HIDE DEF n, f, fr, g
  <2>5. QED BY <2>1, <2>2, <2>3, <2>4, NoneAsks, WordAsks
<1>2. CASE AfterForBody(p)
  <2> DEFINE fr == [Top(p) EXCEPT !.i = @ + 1]
             g == Consume(glob[p])
  <2>1. /\ At(p, "for")
        /\ Local(p, <<>>, LeaveLoop(g)) \/ ForWord(p, fr, g)
    BY <1>2 DEF AfterForBody
  <2>2. /\ "for" \notin Above /\ glob[p] \in Glob /\ Levels(glob[p]) /\ Top(p) \in Fit /\ Top(p).k = "for"
        /\ "for" \in Loops
    BY <2>1, AtHas DEF Above, Requests, Loops
  <2>3. glob[p].loop_depth >= 1
    BY <2>1, <2>2, InLoop
  <2>4. fr.k = "for"
    BY <2>2 DEF Fit, Frame
  <2>5. Levels(g) /\ Levels(LeaveLoop(g))
    BY <2>2, <2>3, LevelsConsumed
  <2> HIDE DEF fr, g
  <2>6. QED BY <2>1, <2>2, <2>4, <2>5, NoneAsks, WordAsks
<1>3. QED BY <1>1, <1>2
-----------------------------------------------------------------------------
\* the frames of q that are being expanded are among fs, which is on top
OnTop(q, fs) ==
  \A i \in 1..Len(frames[q]) : frames[q][i].k = "run" =>
    i \in DOMAIN fs /\ \A j \in 1..i : frames[q][j] = fs[j]

\* The step pushes frames on a stack with no expansion behind.
LEMMA NonePushed ==
  ASSUME NEW p, NEW S, frames[p] \in Seq(S), frames[p] # <<>>, NEW T, NEW fs \in Seq(T),
         NEW q, frames'[q] = fs \o Tail(frames[p]), Commands(p), Top(p).k \notin Above
  PROVE  OnTop(q, fs)'
<1> DEFINE U == S \cup T
           s == frames[p]
           t == frames'[q]
<1>1. s \in Seq(U) /\ fs \in Seq(U) /\ s # <<>> /\ t = fs \o Tail(s)
  OBVIOUS
<1> HIDE DEF U
<1>2. /\ Len(t) = Len(s) + Len(fs) - 1 /\ Len(fs) \in Nat /\ Len(s) \in Nat
      /\ DOMAIN fs = 1..Len(fs)
      /\ \A i \in 1..Len(fs) : t[i] = fs[i]
      /\ \A i \in (Len(fs) + 1)..Len(t) : t[i] = s[i - Len(fs) + 1]
  BY <1>1, Places
<1>3. \A i \in 2..Len(s) : s[i].k # "run"
  BY NoneBehind
<1>4. ASSUME NEW i \in 1..Len(t), t[i].k = "run"
      PROVE  i \in DOMAIN fs /\ \A j \in 1..i : t[j] = fs[j]
  <2>1. CASE i <= Len(fs)
    BY <1>2, <2>1
  <2>2. CASE i > Len(fs)
    <3>1. i - Len(fs) + 1 \in 2..Len(s) /\ t[i] = s[i - Len(fs) + 1]
      BY <1>2, <2>2
    <3>2. QED BY <1>3, <1>4, <3>1
  <2>3. QED BY <1>2, <2>1, <2>2
<1>5. QED BY <1>4 DEF OnTop

\* A command begins to be expanded where nothing is pending.
LEMMA CommandsPushed ==
  ASSUME NEW p, NEW S, frames[p] \in Seq(S), frames[p] # <<>>, NEW T, NEW fs \in Seq(T),
         frames'[p] = fs \o Tail(frames[p]), Commands(p), Top(p).k \notin Above,
         \A i \in DOMAIN fs : fs[i].k = "run" => \A j \in 1..(i - 1) : fs[j].k \in Above,
         ~Asked(glob'[p])
  PROVE  Commands(p)'
<1> DEFINE t == frames'[p]
<1>1. \A i \in 1..Len(t) : t[i].k = "run" => i \in DOMAIN fs /\ \A j \in 1..i : t[j] = fs[j]
  <2>1. OnTop(p, fs)'
    BY NonePushed
  <2>2. QED BY <2>1 DEF OnTop
<1>2. ASSUME NEW i \in 1..Len(t), t[i].k = "run"
      PROVE  \A j \in 1..(i - 1) : t[j].k \in Above
  <2>1. i \in DOMAIN fs /\ \A j \in 1..i : t[j] = fs[j]
    BY <1>1, <1>2
  <2>2. i \in 1..i /\ \A j \in 1..(i - 1) : j \in 1..i
    OBVIOUS
  <2>3. fs[i].k = "run"
    BY <1>2, <2>1, <2>2
  <2>4. \A j \in 1..(i - 1) : fs[j].k \in Above
    BY <2>1, <2>3
  <2>5. QED BY <2>1, <2>2, <2>4
<1>3. QED BY <1>2 DEF Commands

\* The command that is being expanded has met no request.
LEMMA RunAt ==
  ASSUME Fitting, NEW p \in Pid, At(p, "run"), Requests(p)
  PROVE  /\ ~Asked(glob[p]) /\ Levels(glob[p]) /\ glob[p] \in Glob
         /\ Top(p) \in Fit /\ Top(p).k = "run" /\ "run" \notin Above
         /\ Top(p).n \in Node /\ Top(p).n.type = "cmd"
<1>1. frames[p] \in Seq(Fit) /\ frames[p] # <<>> /\ Top(p) \in Fit /\ Top(p).k = "run"
      /\ glob[p] \in Glob /\ Top(p).n \in Tree /\ Top(p).n.type \in Expects("run")
  BY AtHas
<1>2. 1 \in 1..Len(frames[p]) /\ frames[p][1] = Top(p)
  BY <1>1 DEF Top
<1>3. ~Asked(glob[p])
  BY <1>1, <1>2 DEF Requests, Commands
<1>4. Top(p).n.type = "cmd" /\ Top(p).n \in Node
  BY <1>1 DEF Expects, Tree, Null
<1>5. QED BY <1>1, <1>3, <1>4 DEF Requests, Above

LEMMA ExecCmdAsks ==
  ASSUME Fitting, NEW p \in Pid, Requests(p), ExecCmd(p)
  PROVE  Requests(p)'
<1>1. At(p, "exec") /\ ~Asked(glob[p])
  BY DEF ExecCmd, Entering, Skips, Asked
<1>2. /\ frames[p] \in Seq(Fit) /\ frames[p] # <<>> /\ Top(p).k \notin Above
      /\ Running(p) /\ Levels(glob[p]) /\ glob \in [Pid -> Glob]
  BY <1>1, AtHas DEF Above, Requests, At, Fitting
<1> DEFINE run == F("run", Top(p).n, Top(p).nf)
           read == Read(FreshPid)
           one == <<run>>
           two == <<read, run>>
           child == <<Exec(Top(p).n.subst, TRUE), Exit>>
<1>3. run.k = "run" /\ read.k = "read"
  BY DEF Read, F
<1>4. \/ Local(p, one, glob[p])
      \/ Free # {} /\ Fork(p, FreshPid, two, glob[p], child, FreshPid)
  BY Zenon DEF ExecCmd
<1> HIDE DEF run, read, child
<1>5. one \in Seq({run}) /\ \A i \in DOMAIN one : one[i].k = "run" => \A j \in 1..(i - 1) : one[j].k \in Above
  OBVIOUS
<1>6. two \in Seq({read, run}) /\ \A i \in DOMAIN two : two[i].k = "run" => \A j \in 1..(i - 1) : two[j].k \in Above
  BY <1>3 DEF Above
<1> HIDE DEF one, two
<1>7. CASE Local(p, one, glob[p])
  <2>1. frames'[p] = one \o Tail(frames[p]) /\ glob'[p] = glob[p]
    BY <1>7, LocalTo
  <2>2. Commands(p)'
    BY <1>1, <1>2, <1>5, <2>1, CommandsPushed DEF Requests
  <2>3. QED BY <1>2, <2>1, <2>2 DEF Requests
<1>8. CASE Free # {} /\ Fork(p, FreshPid, two, glob[p], child, FreshPid)
  <2> DEFINE c == FreshPid
  <2>1. c \in Pid /\ c # p
    BY <1>2, <1>8, FreshIsFree DEF Free, Running
  <2> HIDE DEF c
  <2>2. frames'[p] = two \o Tail(frames[p]) /\ glob'[p] = glob[p]
    BY <1>8, <2>1 DEF Fork, Fitting, Rest, c
  <2>3. Commands(p)'
    BY <1>1, <1>2, <1>6, <2>2, CommandsPushed DEF Requests
  <2>4. QED BY <1>2, <2>2, <2>3 DEF Requests
<1>9. QED BY <1>4, <1>7, <1>8

-----------------------------------------------------------------------------
\* break, continue and what else a builtin does to the requests (builtin.c:239-283).
LEMMA BuiltinAsks ==
  ASSUME NEW g \in Glob, NEW n, ~Asked(g), Levels(g), g.loop_depth \in Nat,
         n.cmd \in {"true", "false", "break", "continue", "return", "shift", "unset", "sete"},
         n.n \in Int,
         n.cmd \in {"break", "continue"} /\ n.form = "junk" => g.loop_depth = 0 \/ n.n <= g.loop_depth
  PROVE  Levels(Builtin(g, n))
<1>1. \A s : Levels(Status(g, s))
  BY LevelsKept
<1>2. ASSUME NEW d, d \in Int, d <= g.loop_depth
      PROVE  \A s : /\ Levels(Status([g EXCEPT !.break_depth = d], s))
                    /\ Levels(Status([g EXCEPT !.continue_depth = d], s))
  BY <1>2 DEF Levels, Asked, Status, Glob
<1>3. Clamp(n.n, g.loop_depth) \in Int /\ Clamp(n.n, g.loop_depth) <= g.loop_depth
  BY DEF Clamp
<1>4. 1 \in Int /\ (g.loop_depth # 0 => 1 <= g.loop_depth)
  OBVIOUS
<1>5. CASE n.cmd = "break"
  <2> DEFINE by(d) == [g EXCEPT !.break_depth = d]
             most == Clamp(n.n, g.loop_depth)
  <2>1. Levels(Status(by(most), 0))
    BY <1>2, <1>3, Zenon
  <2>2. g.loop_depth # 0 => Levels(Status(by(1), 0))
    BY <1>2, <1>4, Zenon
  <2>3. g.loop_depth # 0 /\ n.form = "junk" => Levels(Status(by(n.n), 1))
    <3>1. g.loop_depth # 0 /\ n.form = "junk" => n.n <= g.loop_depth
      BY <1>5
    <3>2. QED BY <1>2, <3>1, Zenon
  <2>4. Levels(BuiltinBreak(g, n))
    <3>1. \/ BuiltinBreak(g, n) = Status(g, 0)
          \/ BuiltinBreak(g, n) = Status(g, 1)
          \/ BuiltinBreak(g, n) = Status(by(most), 0)
          \/ g.loop_depth # 0 /\ BuiltinBreak(g, n) = Status(by(1), 0)
          \/ g.loop_depth # 0 /\ n.form = "junk" /\ BuiltinBreak(g, n) = Status(by(n.n), 1)
      BY DEF BuiltinBreak
    <3> HIDE DEF by, most
    <3>2. QED BY <1>1, <2>1, <2>2, <2>3, <3>1
  <2>5. QED BY <1>5, <2>4 DEF Builtin
<1>6. CASE n.cmd = "continue"
  <2> DEFINE by(d) == [g EXCEPT !.continue_depth = d]
             most == Clamp(n.n, g.loop_depth)
  <2>1. Levels(Status(by(most), 0))
    BY <1>2, <1>3, Zenon
  <2>2. g.loop_depth # 0 => Levels(Status(by(1), 0))
    BY <1>2, <1>4, Zenon
  <2>3. g.loop_depth # 0 /\ n.form = "junk" => Levels(Status(by(n.n), 1))
    <3>1. g.loop_depth # 0 /\ n.form = "junk" => n.n <= g.loop_depth
      BY <1>6
    <3>2. QED BY <1>2, <3>1, Zenon
  <2>4. Levels(BuiltinContinue(g, n))
    <3>1. \/ BuiltinContinue(g, n) = Status(g, 0)
          \/ BuiltinContinue(g, n) = Status(g, 1)
          \/ BuiltinContinue(g, n) = Status(by(most), 0)
          \/ g.loop_depth # 0 /\ BuiltinContinue(g, n) = Status(by(1), 0)
          \/ g.loop_depth # 0 /\ n.form = "junk" /\ BuiltinContinue(g, n) = Status(by(n.n), 1)
      BY DEF BuiltinContinue
    <3> HIDE DEF by, most
    <3>2. QED BY <1>1, <2>1, <2>2, <2>3, <3>1
  <2>5. QED BY <1>6, <2>4 DEF Builtin
<1>7. CASE n.cmd = "return"
  <2>1. \A b, s : Levels([g EXCEPT !.return_break = b, !.exit_status = s])
    BY DEF Glob, Levels
  <2>2. \A b : Levels([g EXCEPT !.return_break = b])
    BY LevelsKept
  <2>3. Levels(BuiltinReturn(g, n))
    BY <1>1, <2>1, <2>2, Zenon DEF BuiltinReturn
  <2>4. QED BY <1>7, <2>3 DEF Builtin
<1>8. CASE n.cmd = "shift"
  <2>1. \A a, s : Levels(Status([g EXCEPT !.argc = a], s))
    BY DEF Glob, Levels, Status
  <2>2. Levels(BuiltinShift(g, n))
    BY <1>1, <2>1 DEF BuiltinShift
  <2>3. QED BY <1>8, <2>2 DEF Builtin
<1>9. CASE n.cmd = "unset"
  <2> DEFINE h == [g EXCEPT !.funcs[n.name] = NoFunc]
  <2>1. /\ h.loop_depth = g.loop_depth /\ h.break_depth = g.break_depth
        /\ h.continue_depth = g.continue_depth
        /\ {"loop_depth", "break_depth", "continue_depth"} \subseteq DOMAIN h
    <3>1. DOMAIN h = DOMAIN g
      BY Zenon DEF Glob
    <3>2. {"loop_depth", "break_depth", "continue_depth"} \subseteq DOMAIN g
      BY DEF Glob
    <3>3. h.loop_depth = g.loop_depth
      BY Zenon DEF Glob
    <3>4. h.break_depth = g.break_depth
      BY Zenon DEF Glob
    <3>5. h.continue_depth = g.continue_depth
      BY Zenon DEF Glob
    <3> HIDE DEF h
    <3>6. QED BY <3>1, <3>2, <3>3, <3>4, <3>5
  <2>2. BuiltinUnset(g, n) = Status(h, 0)
    BY DEF BuiltinUnset
  <2> HIDE DEF h
  <2>3. Levels(Status(h, 0))
    BY <2>1 DEF Levels, Status
  <2>4. QED BY <1>9, <2>2, <2>3 DEF Builtin
<1>10. CASE n.cmd = "sete"
  <2>1. Levels(Status([g EXCEPT !.err_exit = TRUE], 0))
    BY DEF Glob, Levels, Status
  <2>2. QED BY <1>10, <2>1 DEF Builtin
<1>11. CASE n.cmd \in {"true", "false"}
  BY <1>1, <1>11 DEF Builtin
<1>12. QED BY <1>5, <1>6, <1>7, <1>8, <1>9, <1>10, <1>11

LEMMA RunBuiltinAsks ==
  ASSUME Fitting, Refused, NEW p \in Pid, Requests(p), Deep(p),
         ExpansionFails(p) \/ RunEmpty(p) \/ RunBuiltin(p) \/ RunOther(p)
  PROVE  Requests(p)'
<1>1. At(p, "run")
  BY DEF ExpansionFails, RunEmpty, RunBuiltin, RunOther, Runs
<1>2. /\ ~Asked(glob[p]) /\ Levels(glob[p]) /\ glob[p] \in Glob
      /\ Top(p) \in Fit /\ Top(p).k = "run" /\ "run" \notin Above
      /\ Top(p).n \in Node /\ Top(p).n.type = "cmd"
  BY <1>1, RunAt
<1> DEFINE a == [Top(p) EXCEPT !.k = "call"]
<1>3. a.k # "run"
  BY <1>2 DEF Fit, Frame
<1>4. CASE ExpansionFails(p) \/ RunEmpty(p)
  <2>1. PICK s : Local(p, <<>>, Status(glob[p], s))
    BY <1>4 DEF ExpansionFails, RunEmpty
  <2> DEFINE g == Status(glob[p], s)
  <2>2. Levels(g) /\ Local(p, <<>>, g)
    BY <1>2, <2>1, LevelsKept
  <2> HIDE DEF g
  <2>3. QED BY <1>1, <1>2, <2>2, NoneAsks
<1>5. CASE RunBuiltin(p)
  <2> DEFINE g == Builtin(glob[p], Top(p).n)
  <2>1. glob[p].loop_depth \in Nat
    <3>1. frames[p] \in Seq(Fit) /\ glob[p].loop_depth = Number(frames[p], Loops)
      BY <1>1, AtHas DEF Deep
    <3>2. QED BY <3>1, NumberFinite
  <2>2. Top(p).n.n \in Int
    BY <1>2, NodeAssumption DEF IsNodeSet
  <2>3. Levels(g)
    <3>1. Top(p).n.cmd \in {"true", "false", "break", "continue", "return", "shift", "unset", "sete"}
      BY <1>5 DEF RunBuiltin, Runs
    <3>2. Top(p).n.cmd \in {"break", "continue"} /\ Top(p).n.form = "junk" =>
            glob[p].loop_depth = 0 \/ Top(p).n.n <= glob[p].loop_depth
      BY <1>1 DEF Refused
    <3> DEFINE h == glob[p]
               n == Top(p).n
    <3>3. /\ h \in Glob /\ ~Asked(h) /\ Levels(h) /\ h.loop_depth \in Nat
          /\ n.cmd \in {"true", "false", "break", "continue", "return", "shift", "unset", "sete"}
          /\ n.n \in Int
          /\ n.cmd \in {"break", "continue"} /\ n.form = "junk" => h.loop_depth = 0 \/ n.n <= h.loop_depth
      BY <1>2, <2>1, <2>2, <3>1, <3>2
    <3> HIDE DEF h, n
    <3>4. Levels(Builtin(h, n))
      BY <3>3, BuiltinAsks
    <3>5. QED BY <3>4 DEF h, n
  <2>4. Local(p, <<>>, g) \/ Local(p, <<a>>, g)
    BY <1>5 DEF RunBuiltin, BuiltinEnds
  <2> HIDE DEF g, a
  <2>5. QED BY <1>1, <1>2, <1>3, <2>3, <2>4, NoneAsks, OneAsks
<1>6. CASE RunOther(p)
  <2>1. Local(p, <<a>>, glob[p])
    BY <1>6 DEF RunOther
  <2> HIDE DEF a
  <2>2. QED BY <1>1, <1>2, <1>3, <2>1, OneAsks
<1>7. QED BY <1>4, <1>5, <1>6

\* The other commands of the shell.
LEMMA RunAsks ==
  ASSUME Fitting, NEW p \in Pid, Requests(p),
         RunEcho(p) \/ RunExit(p) \/ RunWait(p) \/ RunEval(p) \/ RunSource(p)
  PROVE  Requests(p)' \/ proc'[p].state # "running"
<1>1. At(p, "run")
  BY DEF RunEcho, RunExit, RunWait, RunEval, RunSource, Runs
<1>2. /\ Levels(glob[p]) /\ glob[p] \in Glob /\ "run" \notin Above
      /\ \A s : Levels(Status(glob[p], s))
      /\ \A d, i : Levels([glob[p] EXCEPT !.stack_depth = d, !.argc = i])
  <2>1. Levels(glob[p]) /\ glob[p] \in Glob /\ "run" \notin Above
    BY <1>1, RunAt
  <2>2. QED BY <2>1, LevelsKept
<1>3. CASE RunEcho(p)
  <2> DEFINE g == Status(glob[p], 0)
  <2>1. glob' = [glob EXCEPT ![p] = g]
    BY <1>3 DEF RunEcho, Status, Fitting
  <2>2. frames[p] \in Seq(Fit) /\ frames[p] # <<>> /\ Tail(frames[p]) \in Seq(Fit) /\ Top(p).k = "run"
    BY <1>1, AtHas
  <2>3. frames'[p] = Tail(frames[p])
    BY <1>3 DEF RunEcho, Fitting
  <2> DEFINE fs == <<>>
  <2>4. fs \in Seq(Fit) /\ (\A i \in DOMAIN fs : fs[i].k # "run") /\ frames'[p] = fs \o Tail(frames[p])
    BY <2>2, <2>3
  <2> HIDE DEF fs
  <2>5. Commands(p)'
    BY <1>2, <2>2, <2>4, CommandsLeft DEF Requests
  <2>6. glob'[p] = g
    BY <2>1 DEF Fitting
  <2> HIDE DEF g
  <2>7. Levels(g)
    BY <1>2 DEF g
  <2>8. QED BY <2>5, <2>6, <2>7 DEF Requests
<1>4. CASE RunExit(p)
  <2>1. \/ Local(p, <<>>, Status(glob[p], 1))
        \/ \E s : Die(p, s, FALSE)
    BY <1>4, Zenon DEF RunExit
  <2>2. ASSUME NEW s, Die(p, s, FALSE) PROVE proc'[p].state # "running"
    BY <2>2 DEF Die, Fitting, Proc
  <2>3. CASE Local(p, <<>>, Status(glob[p], 1))
    BY <1>1, <1>2, <2>3, NoneAsks
  <2>4. QED BY <2>1, <2>2, <2>3
<1>5. CASE RunWait(p)
  <2> DEFINE a == F("waitall", Null, FALSE)
             b == F("waitlast", Null, FALSE)
             g == Status(glob[p], 0)
             h == Status(g, 1)
  <2>1. Local(p, <<a>>, g) \/ Local(p, <<b>>, g) \/ Local(p, <<>>, h)
    BY <1>5 DEF RunWait
  <2>2. a.k # "run" /\ b.k # "run"
    BY DEF F
  <2>3. Levels(g) /\ Levels(h)
    BY <1>2 DEF Levels, Status, Glob
  <2> HIDE DEF a, b, g, h
  <2>4. QED BY <1>1, <1>2, <2>1, <2>2, <2>3, NoneAsks, OneAsks
<1>6. CASE RunEval(p) \/ RunSource(p)
  <2> DEFINE a == Interp(Top(p).n.lines)
             e == F("eval", Top(p).n, Top(p).nf)
             b == [F("source", Top(p).n, Top(p).nf) EXCEPT !.i = glob[p].argc]
             g == [glob[p] EXCEPT !.stack_depth = @ + 1, !.argc = Top(p).n.n]
             h == Status(glob[p], 1)
  <2>1. \/ Local(p, <<a, e>>, glob[p]) \/ Local(p, <<>>, h)
        \/ Local(p, <<a, b>>, g)
    BY <1>6, Zenon DEF RunEval, RunSource
  <2>2. a.k # "run" /\ b.k # "run" /\ e.k # "run"
    BY DEF Interp, F
  <2>3. Levels(g) /\ Levels(h)
    BY <1>2
  <2> HIDE DEF a, b, e, g, h
  <2>4. QED BY <1>1, <1>2, <2>1, <2>2, <2>3, NoneAsks, TwoAsk
<1>7. QED BY <1>3, <1>4, <1>5, <1>6
-----------------------------------------------------------------------------
\* waitpid, and the report of what it returned
LEMMA ReportAsks ==
  ASSUME NEW g \in Glob, NEW c, Levels(g)
  PROVE  Levels(Report(g, c)) /\ (Asked(Report(g, c)) => Asked(g))
BY DEF Levels, Asked, Report, Status, Glob

LEMMA ReapAsks ==
  ASSUME Fitting, NEW p \in Pid, Running(p), frames[p] # <<>>, Requests(p), NEW c,
         NEW T, NEW fs \in Seq(T), Reap(p, c, fs),
         \/ Top(p).k \notin Above /\ \A i \in DOMAIN fs : fs[i].k # "run"
         \/ Len(fs) <= 1 /\ \A i \in DOMAIN fs : fs[i].k \in Above
  PROVE  Requests(p)'
<1>1. frames'[p] = fs \o Tail(frames[p]) /\ glob'[p] = Report(glob[p], c)
  BY DEF Reap, Fitting
<1>2. frames[p] \in Seq(Fit) /\ glob[p] \in Glob
  BY DEF Fitting
<1>3. Levels(glob'[p]) /\ (Asked(glob'[p]) => Asked(glob[p]))
  BY <1>1, <1>2, ReportAsks DEF Requests
<1>4. Commands(p)'
  BY <1>1, <1>2, <1>3, CommandsLeft, CommandsStay DEF Requests
<1>5. QED BY <1>3, <1>4 DEF Requests

\* What a process waits for while it expands a command.
LEMMA WaitAsks ==
  ASSUME Fitting, NEW p \in Pid, Requests(p), ReadEof(p) \/ JobWait(p)
  PROVE  Requests(p)'
<1>1. PICK k \in {"read", "wait"} : At(p, k)
  BY DEF ReadEof, JobWait
<1>2. /\ frames[p] \in Seq(Fit) /\ frames[p] # <<>> /\ Running(p) /\ Top(p) \in Fit
      /\ glob[p] \in Glob /\ Levels(glob[p])
  BY <1>1, AtHas DEF At, Requests
<1>3. ASSUME NEW T, NEW fs \in Seq(T), Local(p, fs, glob[p]), Len(fs) <= 1,
             \A i \in DOMAIN fs : fs[i].k \in Above
      PROVE  Requests(p)'
  <2>1. frames'[p] = fs \o Tail(frames[p]) /\ glob'[p] = glob[p]
    BY <1>3, LocalTo
  <2>2. Commands(p)'
    BY <1>2, <1>3, <2>1, CommandsStay DEF Requests
  <2>3. QED BY <1>2, <2>1, <2>2 DEF Requests
<1>4. CASE ReadEof(p)
  <2> DEFINE a == WaitFor(Top(p).ps)
             fs == <<a>>
  <2>1. Local(p, fs, glob[p])
    BY <1>4 DEF ReadEof
  <2>2. a.k = "wait"
    BY DEF WaitFor, F
  <2> HIDE DEF a
  <2>3. fs \in Seq({a}) /\ Len(fs) <= 1 /\ \A i \in DOMAIN fs : fs[i].k \in Above
    BY <2>2 DEF Above
  <2> HIDE DEF fs
  <2>4. QED BY <1>3, <2>1, <2>3
<1>5. CASE JobWait(p)
  <2> DEFINE a == [Top(p) EXCEPT !.ps = Tail(@)]
             fs == <<a>>
             none == <<>>
  <2>1. Local(p, none, glob[p]) \/ \E c : Reap(p, c, fs)
    BY <1>5, Zenon DEF JobWait
  <2>2. a.k = "wait"
    BY <1>2, <1>5 DEF JobWait, At, Fit, Frame
  <2> HIDE DEF a
  <2>3. fs \in Seq({a}) /\ Len(fs) <= 1 /\ \A i \in DOMAIN fs : fs[i].k \in Above
    BY <2>2 DEF Above
  <2>4. none \in Seq(Fit) /\ Len(none) <= 1 /\ \A i \in DOMAIN none : none[i].k \in Above
    OBVIOUS
  <2> HIDE DEF fs, none
  <2>5. QED BY <1>2, <1>3, <2>1, <2>3, <2>4, ReapAsks
<1>6. QED BY <1>4, <1>5

\* wait, as a command: the command itself is done.
LEMMA WaitAllAsks ==
  ASSUME Fitting, NEW p \in Pid, Requests(p), WaitAll(p) \/ WaitLast(p)
  PROVE  Requests(p)'
<1>1. PICK k \in {"waitall", "waitlast"} : At(p, k)
  BY DEF WaitAll, WaitLast
<1>2. /\ frames[p] # <<>> /\ Running(p) /\ Top(p).k = k /\ k \notin Above /\ k # "run"
      /\ glob[p] \in Glob /\ Levels(glob[p])
  BY <1>1, AtHas DEF At, Requests, Above
<1>3. \/ \E c : Reap(p, c, <<Top(p)>>)
      \/ \E c : Reap(p, c, <<>>)
      \/ Local(p, <<>>, Status(glob[p], 0))
      \/ Local(p, <<>>, Status(glob[p], 127))
  BY DEF WaitAll, WaitLast
<1>4. ASSUME NEW c, Reap(p, c, <<Top(p)>>) PROVE Requests(p)'
  <2> DEFINE a == Top(p)
             fs == <<a>>
  <2>1. fs \in Seq({a}) /\ (\A i \in DOMAIN fs : fs[i].k # "run") /\ Reap(p, c, fs)
    BY <1>2, <1>4
  <2> HIDE DEF a, fs
  <2>2. QED BY <1>2, <2>1, ReapAsks
<1>5. ASSUME NEW c, Reap(p, c, <<>>) PROVE Requests(p)'
  <2> DEFINE fs == <<>>
  <2>1. fs \in Seq(Fit) /\ (\A i \in DOMAIN fs : fs[i].k # "run") /\ Reap(p, c, fs)
    BY <1>5
  <2> HIDE DEF fs
  <2>2. QED BY <1>2, <2>1, ReapAsks
<1>6. ASSUME NEW s, Local(p, <<>>, Status(glob[p], s)) PROVE Requests(p)'
  <2>1. Levels(Status(glob[p], s))
    BY <1>2, LevelsKept
  <2>2. QED BY <1>1, <1>2, <1>6, <2>1, NoneAsks
<1>7. QED BY <1>3, <1>4, <1>5, <1>6

LEMMA CallAsks ==
  ASSUME Fitting, NEW p \in Pid, Requests(p), CallFunc(p) \/ AfterFunc(p) \/ AfterEval(p) \/ AfterSource(p)
  PROVE  Requests(p)'
<1>1. PICK k \in {"call", "func", "eval", "source"} : At(p, k)
  BY DEF CallFunc, AfterFunc, AfterEval, AfterSource
<1>2. /\ k \notin Above /\ glob[p] \in Glob /\ Levels(glob[p])
      /\ \A d, i : Levels([glob[p] EXCEPT !.stack_depth = d, !.argc = i])
      /\ \A d, b, i : Levels([glob[p] EXCEPT !.stack_depth = d, !.return_break = b, !.argc = i])
  <2>1. k \notin Above /\ glob[p] \in Glob /\ Levels(glob[p])
    BY <1>1, AtHas DEF Above, Requests
  <2>2. QED BY <2>1, LevelsKept
<1>3. CASE CallFunc(p)
  <2> DEFINE f == F("func", Top(p).n, Top(p).nf)
             a == Exec(glob[p].funcs[Top(p).n.name], Top(p).nf)
             b == [f EXCEPT !.i = glob[p].argc]
             g == [glob[p] EXCEPT !.stack_depth = @ + 1, !.argc = Top(p).n.n]
  <2>1. Local(p, <<a, b>>, g)
    BY <1>3, Zenon DEF CallFunc
  <2>2. a.k = "exec"
    BY Zenon DEF F, Exec
  <2>3. b.k = "func"
    BY Zenon DEF F
  <2>4. Levels(g)
    BY <1>2
  <2> HIDE DEF f, a, b, g
  <2>5. QED BY <1>1, <1>2, <2>1, <2>2, <2>3, <2>4, TwoAsk
<1>4. CASE AfterFunc(p)
  <2> DEFINE g == [glob[p] EXCEPT !.stack_depth = @ - 1, !.return_break = FALSE, !.argc = Top(p).i]
  <2>1. Local(p, <<>>, g)
    BY <1>4, Zenon DEF AfterFunc
  <2>2. Levels(g)
    BY <1>2, Zenon
  <2> HIDE DEF g
  <2>3. QED BY <1>1, <1>2, <2>1, <2>2, NoneAsks
<1>5. CASE AfterEval(p) \/ AfterSource(p)
  <2> DEFINE g == [glob[p] EXCEPT !.stack_depth = @ - 1, !.argc = Top(p).i]
             a == [Top(p) EXCEPT !.k = "call"]
  <2>1. \E h \in {glob[p], g} : Local(p, <<>>, h) \/ Local(p, <<a>>, h)
    BY <1>5, Zenon DEF AfterEval, AfterSource, BuiltinEnds
  <2>2. Levels(g)
    BY <1>2, Zenon
  <2>3. a.k # "run"
    <3>1. Top(p) \in Frame
      BY <1>1, AtHas DEF Fit
    <3>2. QED BY <3>1 DEF Frame
  <2> HIDE DEF g, a
  <2>4. QED BY <1>1, <1>2, <2>1, <2>2, <2>3, NoneAsks, OneAsks
<1>6. QED BY <1>3, <1>4, <1>5

\* programs, and what ends
LEMMA ProgramAsks ==
  ASSUME Fitting, NEW p \in Pid, Requests(p),
         CallProgram(p) \/ ChildProgram(p) \/ ProgramEnds(p) \/ ExitStatus(p)
  PROVE  Requests(p)' \/ proc'[p].state # "running"
<1>1. PICK k \in {"call", "child", "binary", "exit"} : At(p, k)
  BY DEF CallProgram, ChildProgram, ProgramEnds, ExitStatus
<1>2. /\ k \notin Above /\ glob[p] \in Glob /\ Levels(glob[p])
      /\ \A s : Levels(Status(glob[p], s))
  <2>1. k \notin Above /\ glob[p] \in Glob /\ Levels(glob[p])
    BY <1>1, AtHas DEF Above, Requests
  <2>2. QED BY <2>1, LevelsKept
<1> DEFINE child == <<F("child", Top(p).n, FALSE)>>
<1>3. \/ Single(p, child)
      \/ Image(p)
      \/ \E s, b : Die(p, s, b)
      \/ Local(p, <<>>, Status(glob[p], 1))
      \/ Local(p, <<>>, glob[p])
  BY Zenon DEF CallProgram, ChildProgram, ProgramEnds, ExitStatus
<1>4. ASSUME NEW s, NEW b, Die(p, s, b) PROVE proc'[p].state # "running"
  BY <1>4 DEF Die, Fitting, Proc
<1>5. CASE Image(p)
  <2> DEFINE fr == F("binary", Top(p).n, TRUE)
  <2>1. fr.k = "binary"
    BY Zenon DEF F
  <2> HIDE DEF fr
  <2>2. frames'[p] = <<fr>> /\ glob'[p] = glob[p]
    BY <1>5 DEF Image, Fitting, fr
  <2>3. Commands(p)'
    BY <2>1, <2>2 DEF Commands
  <2>4. QED BY <1>2, <2>2, <2>3 DEF Requests
<1> HIDE DEF child
<1>6. QED BY <1>1, <1>2, <1>3, <1>4, <1>5, SingleAsks, NoneAsks

\* interpret() goes to the next line, or returns
LEMMA InterpretAsks ==
  ASSUME Fitting, NEW p \in Pid, Requests(p), InterpretStops(p) \/ InterpretLine(p)
  PROVE  Requests(p)'
<1>1. At(p, "interp")
  BY DEF InterpretStops, InterpretLine
<1>2. /\ "interp" \notin Above /\ glob[p] \in Glob /\ Levels(glob[p])
      /\ Top(p) \in Fit /\ Top(p).k = "interp"
  BY <1>1, AtHas DEF Above, Requests
<1>3. /\ \A s : Levels(Status(glob[p], s))
      /\ \A b : Levels([glob[p] EXCEPT !.return_break = b])
      /\ \A b : Levels([glob[p] EXCEPT !.sigint_break = b])
  BY <1>2, LevelsKept
<1>4. CASE InterpretStops(p)
  <2> DEFINE b == glob[p].return_break /\ glob[p].exit_status # 0 /\ glob[p].err_exit
             g == [glob[p] EXCEPT !.return_break = b]
  <2>1. Local(p, <<>>, g) \/ Local(p, <<>>, glob[p])
    BY <1>4 DEF InterpretStops
  <2>2. Levels(g)
    BY <1>3, Zenon
  <2> HIDE DEF b, g
  <2>3. QED BY <1>1, <1>2, <2>1, <2>2, NoneAsks
<1>5. CASE InterpretLine(p)
  <2> DEFINE line == Head(Top(p).ls)
             next == [Top(p) EXCEPT !.ls = Tail(@)]
             a == Exec(line, FALSE)
             b == [next EXCEPT !.i = 1]
             c == [next EXCEPT !.i = 0]
             g == [glob[p] EXCEPT !.sigint_break = FALSE]
             h == Status(glob[p], 1)
  <2>1. \/ Local(p, <<a, b>>, g)
        \/ Local(p, <<c>>, h)
        \/ Local(p, <<>>, h)
    BY <1>5, Zenon DEF InterpretLine
  <2>2. a.k = "exec"
    BY Zenon DEF F, Exec
  <2>3. b.k = "interp" /\ c.k = "interp"
    BY <1>2 DEF Fit, Frame
  <2>4. Levels(g) /\ Levels(h)
    BY <1>3, Zenon
  <2> HIDE DEF line, next, a, b, c, g, h
  <2>5. QED BY <1>1, <1>2, <2>1, <2>2, <2>3, <2>4, NoneAsks, OneAsks, TwoAsk
<1>6. QED BY <1>4, <1>5

\* Every step of a process keeps what is known of its requests.
LEMMA ProcessAsks ==
  ASSUME Fitting, Refused, Heeded, NEW p \in Pid, Requests(p), ~At(p, "binary") => Deep(p), Process(p)
  PROVE  Requests(p)' \/ proc'[p].state # "running"
<1>1. CASE Compound(p)
  <2>1. CASE \/ Skip(p) \/ RedirsFail(p) \/ ExecBinary(p) \/ AfterLeft(p) \/ ExecIf(p) \/ AfterIf(p)
             \/ ExecCase(p) \/ ExecNegate(p) \/ AfterNegate(p) \/ ExecGroup(p) \/ ExecPipe(p)
    BY <2>1, PassingAsks
  <2>2. CASE ExecSubshell(p) \/ ExecAsync(p) \/ ExecFunc(p) \/ PipeStage(p)
    BY <2>2, ForkingAsks
  <2>3. CASE \/ ExecLoop(p) \/ AfterCondition(p) \/ AfterBody(p) \/ ExecFor(p) \/ AfterForBody(p)
    <3>1. ~At(p, "binary")
      BY <2>3 DEF ExecLoop, AfterCondition, AfterBody, ExecFor, AfterForBody, Entering, At
    <3>2. QED BY <2>3, <3>1, LoopAsks, ForAsks
  <2>4. QED BY <1>1, <2>1, <2>2, <2>3 DEF Compound
<1>2. CASE Simple(p)
  <2>1. CASE ExecCmd(p) \/ ReadEof(p)
    BY <2>1, ExecCmdAsks, WaitAsks
  <2>2. CASE ExpansionFails(p) \/ RunEmpty(p) \/ RunBuiltin(p) \/ RunOther(p)
    <3>1. ~At(p, "binary")
      BY <2>2 DEF ExpansionFails, RunEmpty, RunBuiltin, RunOther, Runs, At
    <3>2. QED BY <2>2, <3>1, RunBuiltinAsks
  <2>3. CASE RunEcho(p) \/ RunExit(p) \/ RunWait(p) \/ RunEval(p) \/ RunSource(p)
    BY <2>3, RunAsks
  <2>4. CASE CallFunc(p) \/ AfterFunc(p) \/ AfterEval(p) \/ AfterSource(p)
    BY <2>4, CallAsks
  <2>5. CASE CallProgram(p) \/ ChildProgram(p) \/ ProgramEnds(p)
    BY <2>5, ProgramAsks
  <2>6. QED BY <1>2, <2>1, <2>2, <2>3, <2>4, <2>5 DEF Simple
<1>3. CASE Job(p)
  BY <1>3, WaitAsks, WaitAllAsks, ProgramAsks, InterpretAsks DEF Job
<1>4. QED BY <1>1, <1>2, <1>3 DEF Process

\* A child begins with the requests of its parent, and expands nothing.
LEMMA BornAsks ==
  ASSUME Fitting, NEW p \in Pid, Running(p), frames[p] # <<>>, Requests(p), NEW c, Born(p, c)
  PROVE  Requests(c)'
<1>1. Top(p).k \notin Above /\ frames[p] \in Seq(Fit) /\ glob[p] \in Glob /\ Levels(glob[p])
  BY DEF Born, Forks, Above, Fitting, Requests
<1>2. Levels(glob'[c])
  BY <1>1 DEF Born, Levels, Glob
<1>3. ASSUME NEW a, NEW b, a.k # "run", b.k # "run",
             \/ frames'[c] = <<a, b>> \o Tail(frames[p])
             \/ frames'[c] = <<a>> \o Tail(frames[p])
      PROVE  Commands(c)'
  <2> DEFINE one == <<a>>
             two == <<a, b>>
  <2>1. one \in Seq({a}) /\ \A i \in DOMAIN one : one[i].k # "run"
    BY <1>3
  <2>2. two \in Seq({a, b}) /\ \A i \in DOMAIN two : two[i].k # "run"
    BY <1>3
  <2>3. frames'[c] = two \o Tail(frames[p]) \/ frames'[c] = one \o Tail(frames[p])
    BY <1>3
  <2> HIDE DEF one, two
  <2>4. ASSUME NEW T, NEW fs \in Seq(T), \A i \in DOMAIN fs : fs[i].k # "run",
               frames'[c] = fs \o Tail(frames[p])
        PROVE  Commands(c)'
    <3>1. OnTop(c, fs)'
      BY <1>1, <2>4, NonePushed DEF Requests
    <3>2. ASSUME NEW i \in 1..Len(frames'[c]) PROVE frames'[c][i].k # "run"
      <4>1. SUFFICES ASSUME frames'[c][i].k = "run" PROVE FALSE
        OBVIOUS
      <4>2. i \in DOMAIN fs /\ frames'[c][i] = fs[i]
        BY <3>1, <4>1 DEF OnTop
      <4>3. QED BY <2>4, <4>1, <4>2
    <3>3. QED BY <3>2 DEF Commands
  <2>5. QED BY <2>1, <2>2, <2>3, <2>4
<1>4. Commands(c)'
  <2>1. Exit.k # "run" /\ \A n : Exec(n, TRUE).k = "exec" /\ F("child", n, FALSE).k = "child"
    BY Zenon DEF F, Exec, Exit
  <2>2. CASE \E n : frames'[c] = <<Exec(n, TRUE), Exit>> \o Tail(frames[p])
    <3>1. PICK n : frames'[c] = <<Exec(n, TRUE), Exit>> \o Tail(frames[p])
      BY <2>2
    <3> DEFINE a == Exec(n, TRUE)
    <3>2. a.k = "exec"
      BY <2>1, Zenon
    <3>3. frames'[c] = <<a, Exit>> \o Tail(frames[p])
      BY <3>1
    <3> HIDE DEF a
    <3>4. QED BY <1>3, <2>1, <3>2, <3>3
  <2>3. CASE \E n : frames'[c] = <<F("child", n, FALSE)>> \o Tail(frames[p])
    <3>1. PICK n : frames'[c] = <<F("child", n, FALSE)>> \o Tail(frames[p])
      BY <2>3
    <3> DEFINE a == F("child", n, FALSE)
    <3>2. a.k = "child"
      BY <2>1, Zenon
    <3>3. frames'[c] = <<a>> \o Tail(frames[p])
      BY <3>1
    <3> HIDE DEF a
    <3>4. QED BY <1>3, <3>2, <3>3
  <2>4. QED BY <2>2, <2>3 DEF Born
<1>5. QED BY <1>2, <1>4 DEF Requests

RequestInv == \A p \in Pid : Running(p) => Requests(p)

LEMMA InitRequests == Init => RequestInv
<1> SUFFICES ASSUME Init, NEW p \in Pid, Running(p) PROVE Requests(p)
  BY DEF RequestInv
<1>1. p = Shell
  BY DEF Init, Running
<1> DEFINE a == Interp(script)
           fs == <<a, Exit>>
<1>2. frames[p] = fs
  BY <1>1 DEF Init
<1>3. Levels(glob[p])
  BY DEF Init, Levels
<1>4. a.k = "interp" /\ Exit.k = "exit"
  BY DEF Interp, Exit, F
<1> HIDE DEF a
<1>5. \A i \in 1..Len(fs) : fs[i].k # "run"
  BY <1>4
<1> HIDE DEF fs
<1>6. QED BY <1>2, <1>3, <1>5 DEF Requests, Commands

LEMMA StepRequests ==
  Refused /\ Fitting /\ WaitInv /\ DeepInv /\ RequestInv /\ Heeded /\ [Next]_vars => RequestInv'
<1> SUFFICES ASSUME Refused, Fitting, WaitInv, DeepInv, RequestInv, Heeded, [Next]_vars
             PROVE  RequestInv'
  OBVIOUS
<1>1. CASE UNCHANGED vars
  BY <1>1 DEF vars, RequestInv, Requests, Commands, Running
<1>2. ASSUME NEW p \in Pid, Process(p) PROVE RequestInv'
  <2>1. Shaped(p) /\ Running(p) /\ frames[p] # <<>> /\ Requests(p)
    <3>1. Running(p) /\ frames[p] # <<>> /\ Waits(p) /\ Requests(p)
      BY <1>2, WhoSteps DEF WaitInv, RequestInv
    <3>2. QED BY <1>2, <3>1, ProcessShaped
  <2>2. Requests(p)' \/ proc'[p].state # "running"
    BY <1>2, <2>1, ProcessAsks DEF DeepInv
  <2>3. ASSUME NEW q \in Pid \ {p}, Stays(q), Running(q)' PROVE Requests(q)'
    <3>1. Requests(q)
      BY <2>3, StaysAt DEF RequestInv
    <3>2. QED BY <2>3, <3>1 DEF Stays, Requests, Commands
  <2>4. ASSUME NEW q \in Pid \ {p}, Born(p, q) PROVE Requests(q)'
    BY <2>1, <2>4, BornAsks
  <2>5. ASSUME NEW q \in Pid, Running(q)' PROVE Requests(q)'
    <3>1. proc'[q].state = "running"
      BY <2>5 DEF Running
    <3>2. CASE q = p
      BY <2>2, <3>1, <3>2
    <3>3. CASE q # p
      BY <2>1, <2>3, <2>4, <2>5, <3>1, <3>3 DEF Shaped
    <3>4. QED BY <3>2, <3>3
  <2>6. QED BY <2>5 DEF RequestInv
<1>3. QED BY <1>1, <1>2 DEF Next

\* For any scripts, trees and number of processes: break and continue never ask for more
\* levels than there are loops around them, so that no request is left over when the
\* loops are gone and execute() does not skip the rest of the script.  Under two
\* hypotheses on the behaviour, which are the two ways the code has to break this: an
\* argument it refuses, but has stored, is not larger than the number of loops, and no
\* while or until ends by the status of its condition while the condition has asked to
\* leave a loop (the run until_break).
THEOREM RequestsConsumed == Spec /\ []Refused /\ []Heeded => []RequestsWithinLoops
<1>1. Spec => []DeepInv
  BY InitStacks, StepDeep, Fits, PTL DEF Spec
<1>2. Spec /\ []Refused /\ []Heeded => []RequestInv
  BY <1>1, InitRequests, StepRequests, Fits, PTL DEF Spec
<1>3. RequestInv => RequestsWithinLoops
  BY DEF RequestInv, Requests, Levels, RequestsWithinLoops
<1>4. QED BY <1>2, <1>3, PTL
-----------------------------------------------------------------------------
(***************************************************************************)
(* The same from the trees alone: it is enough that the conditions of      *)
(* while and until are silent.  Above a condition every frame is of a      *)
(* silent tree, and so is every command that is still to be read there;    *)
(* the functions that it may call are those of the scripts.                *)
(***************************************************************************)
\* the bodies that scripts give a function
Bodies(f) == {n.body : n \in {m \in Node : m.type = "func" /\ m.name = f}}

SilentSet(Q) ==
  /\ IsNodeSet(Q, FuncName, Tag)
  /\ \A n \in Q : n.type = "cmd" =>
       n.cmd \notin {"break", "continue"} /\ Bodies(n.name) \subseteq Q \cup {Null}

\* The trees that ask for nothing: no break and no continue is in them, nor in what
\* they interpret or call.
Silent == UNION {Q \in SUBSET Node : SilentSet(Q)}
SilentTree == Silent \cup {Null}
SilentLine == SilentTree \cup {SyntaxError}

Harmless(fr) == fr.n \in SilentTree /\ fr.ls \in Seq(SilentLine)

\* the functions are those of the scripts
Known(g) == \A f \in FuncName : g.funcs[f] \in {Null, NoFunc} \cup Bodies(f)

\* Above a condition nothing asks to leave a loop.
Calm(p) ==
  /\ Known(glob[p])
  /\ \A i \in 1..Len(frames[p]) : frames[p][i].k = "condition" =>
       ~Asked(glob[p]) /\ \A j \in 1..(i - 1) : Harmless(frames[p][j])

CalmInv == \A p \in Pid : Calm(p)

QuietConditions == \A n \in Node : n.type \in LoopTypes => n.condition \in SilentTree
-----------------------------------------------------------------------------
LEMMA SilentHas ==
  ASSUME NEW n \in Silent
  PROVE  /\ n \in Node
         /\ n.type \in BinaryTypes => n.left \in SilentTree /\ n.right \in SilentTree
         /\ n.type \in SingleTypes => n.child \in SilentTree
         /\ n.type \in LoopTypes => n.condition \in SilentTree /\ n.body \in SilentTree
         /\ n.type = "if" => /\ n.condition \in SilentTree
                             /\ n.body \in SilentTree /\ n.else_body \in SilentTree
         /\ n.type \in {"for", "case", "func"} => n.body \in SilentTree
         /\ n.type = "cmd" => /\ n.cmd \notin {"break", "continue"}
                              /\ n.subst \in SilentTree /\ n.lines \in Seq(SilentLine)
                              /\ Bodies(n.name) \subseteq SilentTree
<1>1. PICK Q \in SUBSET Node : SilentSet(Q) /\ n \in Q
  BY DEF Silent
<1>2. Q \cup {Null} \subseteq SilentTree
  BY <1>1 DEF Silent, SilentTree
<1>3. IsNodeSet(Q, FuncName, Tag)
  BY <1>1 DEF SilentSet
<1> DEFINE T == Q \cup {Null}
<1>4. /\ n.type \in BinaryTypes => n.left \in T /\ n.right \in T
      /\ n.type \in SingleTypes => n.child \in T
      /\ n.type \in LoopTypes => n.condition \in T /\ n.body \in T
      /\ n.type = "if" => n.condition \in T /\ n.body \in T /\ n.else_body \in T
      /\ n.type \in {"for", "case", "func"} => n.body \in T
      /\ n.type = "cmd" => n.subst \in T /\ n.lines \in Seq(T \cup {SyntaxError})
  BY <1>1, <1>3 DEF IsNodeSet
<1>5. n.type = "cmd" => n.cmd \notin {"break", "continue"} /\ Bodies(n.name) \subseteq T
  BY <1>1 DEF SilentSet
<1>6. Seq(T \cup {SyntaxError}) \subseteq Seq(SilentLine)
  <2>1. T \cup {SyntaxError} \subseteq SilentLine
    BY <1>2 DEF SilentLine
  <2> HIDE DEF T
  <2>2. QED BY <2>1
<1>7. QED BY <1>1, <1>2, <1>4, <1>5, <1>6

\* the node of a harmless frame, by what its point expects
LEMMA HarmlessHas ==
  ASSUME NEW fr, Harmless(fr), fr.n.type \in NodeTypes
  PROVE  fr.n \in Silent
BY DEF Harmless, SilentTree, Null, NodeTypes, BinaryTypes, SingleTypes, LoopTypes

LEMMA HarmlessFrames ==
  /\ \A k, nf : \A n \in SilentTree : Harmless(F(k, n, nf)) /\ F(k, n, nf).k = k
  /\ \A nf : \A n \in SilentTree : Harmless(Exec(n, nf)) /\ Exec(n, nf).k = "exec"
  /\ \A n, nf : Exec(n, nf).k = "exec"
  /\ \A k, nf : Harmless(F(k, Null, nf)) /\ F(k, Null, nf).k = k
  /\ Harmless(Exit) /\ Exit.k = "exit"
<1>1. Null \in SilentTree /\ <<>> \in Seq(SilentLine)
  BY DEF SilentTree
<1>2. \A k, n, nf : F(k, n, nf).k = k /\ F(k, n, nf).n = n /\ F(k, n, nf).ls = <<>>
  BY Zenon DEF F
<1>3. ASSUME NEW k, NEW nf, NEW n \in SilentTree PROVE Harmless(F(k, n, nf))
  <2> DEFINE fr == F(k, n, nf)
  <2>1. fr.n = n /\ fr.ls = <<>>
    BY DEF F
  <2> HIDE DEF fr
  <2>2. Harmless(fr)
    BY <1>1, <2>1 DEF Harmless
  <2>3. QED BY <2>2 DEF fr
<1>4. QED BY <1>1, <1>2, <1>3, Zenon DEF Exec, Exit

\* what a frame loses by no change but of its node and its lines
LEMMA HarmlessUpdates ==
  ASSUME NEW fr \in Frame, Harmless(fr)
  PROVE  /\ \A k : Harmless([fr EXCEPT !.k = k])
         /\ \A i : Harmless([fr EXCEPT !.i = i])
         /\ \A ps : Harmless([fr EXCEPT !.ps = ps])
         /\ \A n \in SilentTree : \A ps : Harmless([fr EXCEPT !.n = n, !.ps = ps])
         /\ \A ls \in Seq(SilentLine) : Harmless([fr EXCEPT !.ls = ls])
<1>1. \A k : Harmless([fr EXCEPT !.k = k])
  BY DEF Frame, Harmless
<1>2. \A i : Harmless([fr EXCEPT !.i = i])
  BY DEF Frame, Harmless
<1>3. \A ps : Harmless([fr EXCEPT !.ps = ps])
  BY DEF Frame, Harmless
<1>4. \A n \in SilentTree : \A ps : Harmless([fr EXCEPT !.n = n, !.ps = ps])
  BY DEF Frame, Harmless
<1>5. \A ls \in Seq(SilentLine) : Harmless([fr EXCEPT !.ls = ls])
  BY DEF Frame, Harmless
<1>6. QED BY <1>1, <1>2, <1>3, <1>4, <1>5
-----------------------------------------------------------------------------
\* the globals that ask for no more, and know the same functions
Mild(g, h) == (Asked(h) => Asked(g)) /\ h.funcs = g.funcs

LEMMA MildUpdates ==
  ASSUME NEW g \in Glob
  PROVE  /\ Mild(g, g)
         /\ \A s : Mild(g, Status(g, s))
         /\ \A d : Mild(g, [g EXCEPT !.loop_depth = d])
         /\ \A d, s : Mild(g, Status([g EXCEPT !.loop_depth = d], s))
         /\ \A d, i : Mild(g, [g EXCEPT !.stack_depth = d, !.argc = i])
         /\ \A d, b, i : Mild(g, [g EXCEPT !.stack_depth = d, !.return_break = b, !.argc = i])
         /\ \A b : Mild(g, [g EXCEPT !.return_break = b])
         /\ \A b : Mild(g, [g EXCEPT !.sigint_break = b])
         /\ \A b : Mild(g, [g EXCEPT !.job_control = b])
         /\ \A c : Mild(g, [g EXCEPT !.last_background = c])
<1>1. Mild(g, g) /\ \A s : Mild(g, Status(g, s))
  BY DEF Glob, Mild, Asked, Status
<1>2. \A d : Mild(g, [g EXCEPT !.loop_depth = d])
  BY DEF Glob, Mild, Asked
<1>3. \A d, s : Mild(g, Status([g EXCEPT !.loop_depth = d], s))
  BY DEF Glob, Mild, Asked, Status
<1>4. \A d, i : Mild(g, [g EXCEPT !.stack_depth = d, !.argc = i])
  BY DEF Glob, Mild, Asked
<1>5. \A d, b, i : Mild(g, [g EXCEPT !.stack_depth = d, !.return_break = b, !.argc = i])
  BY DEF Glob, Mild, Asked
<1>6. /\ \A b : Mild(g, [g EXCEPT !.return_break = b])
      /\ \A b : Mild(g, [g EXCEPT !.sigint_break = b])
      /\ \A b : Mild(g, [g EXCEPT !.job_control = b])
  BY DEF Glob, Mild, Asked
<1>7. \A c : Mild(g, [g EXCEPT !.last_background = c])
  BY DEF Glob, Mild, Asked
<1>8. QED BY <1>1, <1>2, <1>3, <1>4, <1>5, <1>6, <1>7

LEMMA MildLoops ==
  ASSUME NEW g \in Glob
  PROVE  /\ Mild(g, Consume(g)) /\ Mild(g, LeaveLoop(g)) /\ Mild(g, LeaveLoop(Consume(g)))
         /\ \A s : Mild(g, Status(LeaveLoop(g), s)) /\ Mild(g, Status(LeaveLoop(Consume(g)), s))
         /\ ~Leaves(g) => ~Asked(Consume(g))
<1>1. Mild(g, LeaveLoop(g)) /\ \A s : Mild(g, Status(LeaveLoop(g), s))
  BY DEF Glob, Mild, Asked, LeaveLoop, Status
<1>2. Consume(g) \in Glob
  BY LoopBookkeeping
<1>3. Mild(g, Consume(g))
  <2>1. Consume(g).funcs = g.funcs
    BY DEF Consume, Glob
  <2>2. Asked(Consume(g)) => Asked(g)
    BY DEF Consume, Glob, Asked
  <2>3. QED BY <2>1, <2>2 DEF Mild
<1>4. \A h \in Glob : Mild(g, h) => Mild(g, LeaveLoop(h)) /\ \A s : Mild(g, Status(LeaveLoop(h), s))
  BY DEF Glob, Mild, Asked, LeaveLoop, Status
<1>5. ~Leaves(g) => ~Asked(Consume(g))
  BY DEF Glob, Leaves, Asked, Consume
<1>6. QED BY <1>1, <1>2, <1>3, <1>4, <1>5

LEMMA KnownMild ==
  ASSUME NEW g, NEW h, Known(g), Mild(g, h)
  PROVE  Known(h)
BY DEF Known, Mild
-----------------------------------------------------------------------------
\* what takes the place of the innermost frame of p, and the globals that go with it
Tamed(p, fs, g) ==
  /\ Known(glob[p]) => Known(g)
  /\ Harmless(Top(p)) /\ ~Asked(glob[p]) => ~Asked(g) /\ \A i \in DOMAIN fs : Harmless(fs[i])
  /\ \A i \in DOMAIN fs : fs[i].k = "condition" => ~Asked(g) /\ \A j \in 1..(i - 1) : Harmless(fs[j])

LEMMA CalmKept ==
  ASSUME NEW p, NEW S, frames[p] \in Seq(S), frames[p] # <<>>, NEW T, NEW fs \in Seq(T),
         NEW q, frames'[q] = fs \o Tail(frames[p]), Calm(p), NEW g, g = glob'[q], Tamed(p, fs, g)
  PROVE  Calm(q)'
<1> DEFINE U == S \cup T
           s == frames[p]
           t == frames'[q]
<1>1. s \in Seq(U) /\ fs \in Seq(U) /\ s # <<>> /\ t = fs \o Tail(s)
  OBVIOUS
<1> HIDE DEF U
<1>2. /\ Len(t) = Len(s) + Len(fs) - 1 /\ Len(fs) \in Nat /\ Len(s) \in Nat
      /\ DOMAIN fs = 1..Len(fs)
      /\ \A i \in 1..Len(fs) : t[i] = fs[i]
      /\ \A i \in (Len(fs) + 1)..Len(t) : t[i] = s[i - Len(fs) + 1]
  BY <1>1, Places
<1>3. ASSUME NEW i \in 1..Len(t), t[i].k = "condition"
      PROVE  ~Asked(g) /\ \A j \in 1..(i - 1) : Harmless(t[j])
  <2>1. CASE i <= Len(fs)
    <3>1. i \in DOMAIN fs /\ fs[i].k = "condition"
      BY <1>2, <1>3, <2>1
    <3>2. ~Asked(g) /\ \A j \in 1..(i - 1) : Harmless(fs[j])
      BY <3>1 DEF Tamed
    <3>3. \A j \in 1..(i - 1) : t[j] = fs[j]
      BY <1>2, <2>1
    <3>4. QED BY <3>2, <3>3
  <2>2. CASE i > Len(fs)
    <3> DEFINE m == i - Len(fs) + 1
    <3>1. m \in 1..Len(s) /\ m >= 2 /\ t[i] = s[m]
      BY <1>2, <2>2
    <3>2. ~Asked(glob[p]) /\ \A j \in 1..(m - 1) : Harmless(s[j])
      BY <1>3, <3>1 DEF Calm
    <3>3. 1 \in 1..(m - 1) /\ Top(p) = s[1]
      BY <3>1 DEF Top
    <3>4. Harmless(Top(p))
      BY <3>2, <3>3
    <3>5. ~Asked(g) /\ \A j \in DOMAIN fs : Harmless(fs[j])
      BY <3>2, <3>4 DEF Tamed
    <3>6. ASSUME NEW j \in 1..(i - 1) PROVE Harmless(t[j])
      <4>1. CASE j <= Len(fs)
        <5>1. j \in DOMAIN fs /\ t[j] = fs[j]
          BY <1>2, <4>1
        <5>2. QED BY <3>5, <5>1
      <4>2. CASE j > Len(fs)
        <5>1. j - Len(fs) + 1 \in 1..(m - 1) /\ t[j] = s[j - Len(fs) + 1]
          BY <1>2, <2>2, <4>2
        <5>2. QED BY <3>2, <5>1
      <4>3. QED BY <1>2, <4>1, <4>2
    <3>7. QED BY <3>5, <3>6
  <2>3. QED BY <1>2, <2>1, <2>2
<1>4. Known(g)
  BY DEF Calm, Tamed
<1>5. QED BY <1>3, <1>4 DEF Calm

LEMMA LocalCalm ==
  ASSUME Fitting, CalmInv, NEW p \in Pid, frames[p] # <<>>, NEW T, NEW fs \in Seq(T), NEW g,
         Local(p, fs, g), Tamed(p, fs, g)
  PROVE  CalmInv'
<1>1. frames'[p] = fs \o Tail(frames[p]) /\ glob'[p] = g
  BY LocalTo
<1>2. \A q \in Pid \ {p} : frames'[q] = frames[q] /\ glob'[q] = glob[q]
  BY DEF Local, Fitting
<1>3. frames[p] \in Seq(Fit) /\ Calm(p)
  BY DEF Fitting, CalmInv
<1>4. Calm(p)'
  BY <1>1, <1>3, CalmKept
<1>5. \A q \in Pid \ {p} : Calm(q)'
  BY <1>2 DEF CalmInv, Calm
<1>6. QED BY <1>4, <1>5 DEF CalmInv

LEMMA TamedNone ==
  ASSUME NEW p, NEW g, Mild(glob[p], g)
  PROVE  Tamed(p, <<>>, g)
<1>1. DOMAIN <<>> = {}
  OBVIOUS
<1>2. QED BY <1>1, KnownMild DEF Tamed, Mild

LEMMA TamedOne ==
  ASSUME NEW p, NEW g, Mild(glob[p], g), NEW a, a.k # "condition", Harmless(Top(p)) => Harmless(a)
  PROVE  Tamed(p, <<a>>, g)
<1>1. DOMAIN <<a>> = {1} /\ <<a>>[1] = a
  OBVIOUS
<1>2. QED BY <1>1, KnownMild DEF Tamed, Mild

LEMMA TamedTwo ==
  ASSUME NEW p, NEW g, Mild(glob[p], g), NEW a, NEW b, a.k # "condition",
         b.k = "condition" => ~Asked(g) /\ Harmless(a),
         Harmless(Top(p)) => Harmless(a) /\ Harmless(b)
  PROVE  Tamed(p, <<a, b>>, g)
<1> DEFINE fs == <<a, b>>
<1>1. DOMAIN fs = {1, 2} /\ fs[1] = a /\ fs[2] = b /\ \A j \in 1..(2 - 1) : j = 1
  BY FewFrames
<1> HIDE DEF fs
<1>2. Tamed(p, fs, g)
  BY <1>1, KnownMild DEF Tamed, Mild
<1>3. QED BY <1>2 DEF fs

LEMMA NoneCalm ==
  ASSUME Fitting, CalmInv, NEW p \in Pid, frames[p] # <<>>, NEW g, Local(p, <<>>, g), Mild(glob[p], g)
  PROVE  CalmInv'
<1> DEFINE fs == <<>>
<1>1. fs \in Seq(Fit) /\ Tamed(p, fs, g) /\ Local(p, fs, g)
  BY TamedNone
<1> HIDE DEF fs
<1>2. QED BY <1>1, LocalCalm

LEMMA OneCalm ==
  ASSUME Fitting, CalmInv, NEW p \in Pid, frames[p] # <<>>, NEW g, NEW a, Local(p, <<a>>, g),
         Mild(glob[p], g), a.k # "condition", Harmless(Top(p)) => Harmless(a)
  PROVE  CalmInv'
<1> DEFINE fs == <<a>>
<1>1. fs \in Seq({a}) /\ Tamed(p, fs, g) /\ Local(p, fs, g)
  BY TamedOne
<1> HIDE DEF fs
<1>2. QED BY <1>1, LocalCalm

LEMMA TwoCalm ==
  ASSUME Fitting, CalmInv, NEW p \in Pid, frames[p] # <<>>, NEW g, NEW a, NEW b, Local(p, <<a, b>>, g),
         Mild(glob[p], g), a.k # "condition", b.k = "condition" => ~Asked(g) /\ Harmless(a),
         Harmless(Top(p)) => Harmless(a) /\ Harmless(b)
  PROVE  CalmInv'
<1> DEFINE fs == <<a, b>>
<1>1. fs \in Seq({a, b}) /\ Tamed(p, fs, g) /\ Local(p, fs, g)
  BY FewFrames, TamedTwo
<1> HIDE DEF fs
<1>2. QED BY <1>1, LocalCalm

\* a child begins with fs in place of the innermost frame of its parent
LEMMA ForkCalm ==
  ASSUME Fitting, CalmInv, NEW p \in Pid, Running(p), frames[p] # <<>>, Free # {},
         NEW T, NEW fs \in Seq(T), NEW g, NEW U, NEW child \in Seq(U), NEW out,
         Fork(p, FreshPid, fs, g, child, out), Tamed(p, fs, g), Tamed(p, child, glob[p])
  PROVE  CalmInv'
<1>1. PICK c \in Pid \ {p} : c = FreshPid
  BY FreshIsFree DEF Free, Running
<1>2. /\ frames'[p] = fs \o Tail(frames[p]) /\ glob'[p] = g
      /\ frames'[c] = child \o Tail(frames[p]) /\ glob'[c] = [glob[p] EXCEPT !.job_control = FALSE]
      /\ \A q \in Pid \ {p, c} : frames'[q] = frames[q] /\ glob'[q] = glob[q]
  BY <1>1 DEF Fork, Fitting, Rest
<1>3. frames[p] \in Seq(Fit) /\ Calm(p) /\ glob[p] \in Glob
  BY DEF Fitting, CalmInv
<1>4. Calm(p)'
  BY <1>2, <1>3, CalmKept
<1>5. Calm(c)'
  <2> DEFINE h == [glob[p] EXCEPT !.job_control = FALSE]
  <2>1. Mild(glob[p], h)
    BY <1>3, MildUpdates
  <2> HIDE DEF h
  <2>2. Tamed(p, child, h)
    BY <2>1, KnownMild DEF Tamed, Mild
  <2>3. h = glob'[c] /\ frames'[c] = child \o Tail(frames[p])
    BY <1>2 DEF h
  <2>4. QED BY <1>3, <2>2, <2>3, CalmKept
<1>6. ASSUME NEW q \in Pid \ {p, c} PROVE Calm(q)'
  <2>1. frames'[q] = frames[q] /\ glob'[q] = glob[q] /\ Calm(q)
    BY <1>2, <1>6 DEF CalmInv
  <2>2. QED BY <2>1 DEF Calm
<1>7. QED BY <1>4, <1>5, <1>6 DEF CalmInv

LEMMA ChildTamed ==
  ASSUME Fitting, NEW p \in Pid, NEW n, Harmless(Top(p)) => n \in SilentTree
  PROVE  /\ Tamed(p, <<Exec(n, TRUE), Exit>>, glob[p])
         /\ Tamed(p, <<F("child", n, FALSE)>>, glob[p])
<1>1. Mild(glob[p], glob[p])
  BY DEF Mild
<1> DEFINE a == Exec(n, TRUE)
           b == F("child", n, FALSE)
<1>2. a.k = "exec" /\ Exit.k = "exit" /\ b.k = "child" /\ Harmless(Exit)
  BY HarmlessFrames, Zenon DEF F
<1>3. Harmless(Top(p)) => Harmless(a) /\ Harmless(b)
  BY HarmlessFrames, Zenon
<1> HIDE DEF a, b
<1>4. Tamed(p, <<b>>, glob[p])
  BY <1>1, <1>2, <1>3, TamedOne
<1>5. Tamed(p, <<a, Exit>>, glob[p])
  BY <1>1, <1>2, <1>3, TamedTwo
<1>6. QED BY <1>4, <1>5 DEF a, b

LEMMA SingleCalm ==
  ASSUME Fitting, CalmInv, NEW p \in Pid, Running(p), frames[p] # <<>>,
         NEW U, NEW child \in Seq(U), Single(p, child), Tamed(p, child, glob[p])
  PROVE  CalmInv'
<1> DEFINE a == WaitFor(<<FreshPid>>)
           fs == <<a>>
           g == glob[p]
           out == proc[p].out
<1>1. \/ Free # {} /\ Fork(p, FreshPid, fs, g, child, out)
      \/ Local(p, <<>>, g)
  BY Zenon DEF Single
<1>2. a.k = "wait" /\ Harmless(a)
  <2>1. a.k = "wait" /\ a.n = Null /\ a.ls = <<>>
    BY DEF WaitFor, F
  <2> HIDE DEF a
  <2>2. QED BY <2>1 DEF Harmless, SilentTree
<1>3. Mild(g, g)
  BY DEF Mild
<1> HIDE DEF a
<1>4. fs \in Seq({a}) /\ Tamed(p, fs, g)
  BY <1>2, <1>3, TamedOne
<1>5. CASE Local(p, <<>>, g)
  BY <1>3, <1>5, NoneCalm
<1> HIDE DEF fs, g, out
<1>6. CASE Free # {} /\ Fork(p, FreshPid, fs, g, child, out)
  BY <1>4, <1>6, ForkCalm DEF g
<1>7. QED BY <1>1, <1>5, <1>6

LEMMA ReapCalm ==
  ASSUME Fitting, CalmInv, NEW p \in Pid, frames[p] # <<>>, NEW c,
         NEW T, NEW fs \in Seq(T), Reap(p, c, fs),
         \A i \in DOMAIN fs : fs[i].k # "condition" /\ (Harmless(Top(p)) => Harmless(fs[i]))
  PROVE  CalmInv'
<1>1. /\ frames'[p] = fs \o Tail(frames[p]) /\ glob'[p] = Report(glob[p], c)
      /\ \A q \in Pid \ {p} : frames'[q] = frames[q] /\ glob'[q] = glob[q]
  BY DEF Reap, Fitting
<1>2. frames[p] \in Seq(Fit) /\ glob[p] \in Glob /\ Calm(p)
  BY DEF Fitting, CalmInv
<1> DEFINE g == Report(glob[p], c)
<1>3. Mild(glob[p], g)
  BY <1>2 DEF Mild, Asked, Report, Status, Glob
<1> HIDE DEF g
<1>4. Tamed(p, fs, g)
  BY <1>3, KnownMild DEF Tamed, Mild
<1>5. Calm(p)'
  BY <1>1, <1>2, <1>4, CalmKept DEF g
<1>6. \A q \in Pid \ {p} : Calm(q)'
  BY <1>1 DEF CalmInv, Calm
<1>7. QED BY <1>5, <1>6 DEF CalmInv

\* who dies or becomes a program is in no condition
LEMMA EndCalm ==
  ASSUME Fitting, CalmInv, NEW p \in Pid, Image(p) \/ \E s, b : Die(p, s, b)
  PROVE  CalmInv'
<1> DEFINE fr == F("binary", Top(p).n, TRUE)
<1>1. fr.k = "binary"
  BY Zenon DEF F
<1> HIDE DEF fr
<1>2. /\ frames'[p] = <<fr>> \/ frames'[p] = <<>>
      /\ \A q \in Pid \ {p} : frames'[q] = frames[q]
      /\ glob' = glob
  BY DEF Image, Die, Fitting, fr
<1>3. Calm(p)'
  <2>1. Known(glob'[p])
    BY <1>2 DEF CalmInv, Calm
  <2>2. \A i \in 1..Len(frames'[p]) : frames'[p][i].k # "condition"
    BY <1>1, <1>2
  <2>3. QED BY <2>1, <2>2 DEF Calm
<1>4. \A q \in Pid \ {p} : Calm(q)'
  BY <1>2 DEF CalmInv, Calm
<1>5. QED BY <1>3, <1>4 DEF CalmInv
-----------------------------------------------------------------------------
\* a call of execute(), alone or with what goes on behind it
LEMMA ExecCalm ==
  ASSUME Fitting, CalmInv, NEW p \in Pid, frames[p] # <<>>, NEW g, NEW n, NEW nf,
         Mild(glob[p], g), Harmless(Top(p)) => n \in SilentTree
  PROVE  /\ Local(p, <<Exec(n, nf)>>, g) => CalmInv'
         /\ \A b : /\ b.k # "condition" /\ (Harmless(Top(p)) => Harmless(b))
                   /\ Local(p, <<Exec(n, nf), b>>, g)
                   => CalmInv'
<1> DEFINE a == Exec(n, nf)
<1>1. a.k # "condition" /\ (Harmless(Top(p)) => Harmless(a))
  <2>1. a.k = "exec" /\ (n \in SilentTree => Harmless(a))
    BY HarmlessFrames, Zenon
  <2> HIDE DEF a
  <2>2. QED BY <2>1
<1> HIDE DEF a
<1>2. Local(p, <<a>>, g) => CalmInv'
  BY <1>1, OneCalm
<1>3. ASSUME NEW b, b.k # "condition", Harmless(Top(p)) => Harmless(b), Local(p, <<a, b>>, g)
      PROVE  CalmInv'
  BY <1>1, <1>3, TwoCalm
<1>4. QED BY <1>2, <1>3 DEF a

\* the node that is entered, if it is harmless
LEMMA EnteredSilent ==
  ASSUME Fitting, NEW p \in Pid, NEW types, Entering(p, types)
  PROVE  /\ frames[p] # <<>> /\ glob[p] \in Glob /\ Running(p) /\ Top(p) \in Fit
         /\ Top(p).n \in Node /\ Top(p).n.type \in types
         /\ Harmless(Top(p)) => Top(p).n \in Silent
<1>1. At(p, "exec")
  BY DEF Entering
<1>2. /\ frames[p] # <<>> /\ glob[p] \in Glob /\ Running(p) /\ Top(p) \in Fit
      /\ Top(p).n \in Node /\ Top(p).n.type \in types
  BY <1>1, EnteringHas, AtHas DEF At
<1>3. Top(p).n.type \in NodeTypes
  BY <1>2, NodeHas
<1>4. QED BY <1>2, <1>3, HarmlessHas

LEMMA AtSilent ==
  ASSUME Fitting, NEW p \in Pid, NEW k, At(p, k)
  PROVE  /\ frames[p] # <<>> /\ glob[p] \in Glob /\ Running(p) /\ Top(p) \in Fit /\ Top(p).k = k
         /\ Top(p).n \in Tree /\ Top(p).n.type \in Expects(k)
         /\ Harmless(Top(p)) /\ Top(p).n.type \in NodeTypes => Top(p).n \in Silent
<1>1. QED BY AtHas, HarmlessHas DEF At

LEMMA SkipCalm ==
  ASSUME Fitting, CalmInv, NEW p \in Pid, Skip(p) \/ RedirsFail(p)
  PROVE  CalmInv'
<1>1. At(p, "exec") /\ (Local(p, <<>>, glob[p]) \/ Local(p, <<>>, Status(glob[p], 1)))
  BY DEF Skip, RedirsFail
<1>2. QED BY <1>1, AtHas, MildUpdates, NoneCalm

LEMMA BinaryCalm ==
  ASSUME Fitting, CalmInv, NEW p \in Pid, ExecBinary(p) \/ AfterLeft(p)
  PROVE  CalmInv'
<1>1. CASE ExecBinary(p)
  <2> DEFINE b == F("left", Top(p).n, Top(p).nf)
  <2>1. /\ Entering(p, {"sep", "and", "or"})
        /\ Local(p, <<Exec(Top(p).n.left, FALSE), b>>, glob[p])
    BY <1>1, Zenon DEF ExecBinary
  <2>2. /\ frames[p] # <<>> /\ glob[p] \in Glob
        /\ Harmless(Top(p)) => Top(p).n \in Silent /\ Top(p).n.left \in SilentTree
    BY <2>1, EnteredSilent, SilentHas DEF BinaryTypes
  <2>3. b.k # "condition" /\ (Harmless(Top(p)) => Harmless(b))
    <3>1. b.k = "left" /\ (Top(p).n \in SilentTree => Harmless(b))
      BY HarmlessFrames, Zenon DEF F
    <3> HIDE DEF b
    <3>2. QED BY <2>2, <3>1 DEF SilentTree
  <2>4. Mild(glob[p], glob[p])
    BY <2>2, MildUpdates
  <2> HIDE DEF b
  <2>5. QED BY <2>1, <2>2, <2>3, <2>4, ExecCalm
<1>2. CASE AfterLeft(p)
  <2>1. /\ At(p, "left")
        /\ Local(p, <<Exec(Top(p).n.right, Top(p).nf)>>, glob[p]) \/ Local(p, <<>>, glob[p])
    BY <1>2 DEF AfterLeft
  <2>2. Top(p).n.type \in BinaryTypes /\ Top(p).n.type \in NodeTypes
    BY <2>1, AtSilent DEF Expects, BinaryTypes, NodeTypes
  <2>3. /\ frames[p] # <<>> /\ glob[p] \in Glob
        /\ Harmless(Top(p)) => Top(p).n.right \in SilentTree
    BY <2>1, <2>2, AtSilent, SilentHas
  <2>4. Mild(glob[p], glob[p])
    BY <2>3, MildUpdates
  <2>5. QED BY <2>1, <2>3, <2>4, NoneCalm, ExecCalm
<1>3. QED BY <1>1, <1>2

LEMMA IfCalm ==
  ASSUME Fitting, CalmInv, NEW p \in Pid, ExecIf(p) \/ AfterIf(p)
  PROVE  CalmInv'
<1> DEFINE g == Status(glob[p], 0)
<1>1. CASE ExecIf(p)
  <2> DEFINE b == F("if", Top(p).n, Top(p).nf)
  <2>1. Entering(p, {"if"}) /\ Local(p, <<Exec(Top(p).n.condition, FALSE), b>>, g)
    BY <1>1, Zenon DEF ExecIf
  <2>2. /\ frames[p] # <<>> /\ glob[p] \in Glob
        /\ Harmless(Top(p)) => Top(p).n \in Silent /\ Top(p).n.condition \in SilentTree
    BY <2>1, EnteredSilent, SilentHas
  <2>3. b.k # "condition" /\ (Harmless(Top(p)) => Harmless(b))
    <3>1. b.k = "if" /\ (Top(p).n \in SilentTree => Harmless(b))
      BY HarmlessFrames, Zenon DEF F
    <3> HIDE DEF b
    <3>2. QED BY <2>2, <3>1 DEF SilentTree
  <2>4. Mild(glob[p], g)
    BY <2>2, MildUpdates
  <2> HIDE DEF b, g
  <2>5. QED BY <2>1, <2>2, <2>3, <2>4, ExecCalm
<1>2. CASE AfterIf(p)
  <2>1. PICK n \in {Top(p).n.body, Top(p).n.else_body} :
          At(p, "if") /\ Local(p, <<Exec(n, Top(p).nf)>>, g)
    BY <1>2 DEF AfterIf
  <2>2. Top(p).n.type = "if" /\ Top(p).n.type \in NodeTypes
    BY <2>1, AtSilent DEF Expects, NodeTypes
  <2>3. frames[p] # <<>> /\ glob[p] \in Glob /\ (Harmless(Top(p)) => n \in SilentTree)
    BY <2>1, <2>2, AtSilent, SilentHas
  <2>4. Mild(glob[p], g)
    BY <2>3, MildUpdates
  <2> HIDE DEF g
  <2>5. QED BY <2>1, <2>3, <2>4, ExecCalm
<1>3. QED BY <1>1, <1>2
\* The head of while and until: nothing is asked for when a condition begins.
LEMMA ConditionCalm ==
  ASSUME Fitting, CalmInv, QuietConditions, NEW p \in Pid, frames[p] # <<>>, glob[p] \in Glob,
         NEW fr \in Fit, fr.n \in Node, fr.n.type \in LoopTypes, NEW g \in Glob, Condition(p, fr, g),
         Mild(glob[p], g), ~Asked(g), Harmless(Top(p)) => Harmless(fr)
  PROVE  CalmInv'
<1> DEFINE a == Exec(fr.n.condition, FALSE)
           b == [fr EXCEPT !.k = "condition"]
           h == Status(g, 0)
<1>1. Local(p, <<a, b>>, h)
  BY DEF Condition
<1>2. a.k # "condition" /\ Harmless(a)
  <2>1. a.k = "exec" /\ Harmless(a)
    BY HarmlessFrames DEF QuietConditions
  <2> HIDE DEF a
  <2>2. QED BY <2>1
<1>3. Harmless(Top(p)) => Harmless(b)
  BY HarmlessUpdates DEF Fit
<1>4. Mild(glob[p], h) /\ ~Asked(h)
  BY MildUpdates DEF Mild
<1> HIDE DEF a, b, h
<1>5. QED BY <1>1, <1>2, <1>3, <1>4, TwoCalm

LEMMA LoopCalm ==
  ASSUME Fitting, CalmInv, QuietConditions, NEW p \in Pid,
         ExecLoop(p) \/ AfterCondition(p) \/ AfterBody(p)
  PROVE  CalmInv'
<1>1. CASE ExecLoop(p)
  <2> DEFINE fr == F("condition", Top(p).n, Top(p).nf)
             g == [glob[p] EXCEPT !.loop_depth = @ + 1]
  <2>1. Entering(p, LoopTypes) /\ Condition(p, fr, g)
    BY <1>1 DEF ExecLoop
  <2>2. /\ frames[p] # <<>> /\ glob[p] \in Glob /\ Top(p).n \in Node /\ Top(p).n.type \in LoopTypes
        /\ Harmless(Top(p)) => Top(p).n \in SilentTree
    BY <2>1, EnteredSilent DEF SilentTree
  <2>3. fr \in Fit /\ fr.n = Top(p).n
    BY <2>1, <2>2, EnteringHas, FramesFit, FrameHas
  <2>4. g \in Glob /\ Mild(glob[p], g)
    BY <2>2, LoopBookkeeping, MildUpdates
  <2>5. ~Asked(g)
    <3>1. ~Asked(glob[p])
      BY <2>1 DEF Entering, Skips, Asked
    <3>2. QED BY <2>4, <3>1 DEF Mild
  <2>6. Harmless(Top(p)) => Harmless(fr)
    BY <2>2, HarmlessFrames
  <2> HIDE DEF fr, g
  <2>7. QED BY <2>1, <2>2, <2>3, <2>4, <2>5, <2>6, ConditionCalm
<1>2. CASE AfterCondition(p)
  <2> DEFINE fr == Top(p)
             a == Exec(fr.n.body, FALSE)
             b == [fr EXCEPT !.k = "body"]
  <2>1. /\ At(p, "condition")
        /\ \/ Local(p, <<>>, Status(LeaveLoop(glob[p]), fr.i))
           \/ Local(p, <<>>, Status(LeaveLoop(Consume(glob[p])), fr.i))
           \/ Restarts(glob[p]) /\ Condition(p, fr, Consume(glob[p]))
           \/ Local(p, <<a, b>>, glob[p])
    BY <1>2 DEF AfterCondition
  <2>2. /\ frames[p] # <<>> /\ glob[p] \in Glob /\ fr \in Fit /\ fr.k = "condition"
        /\ fr.n \in Node /\ fr.n.type \in LoopTypes
        /\ Harmless(fr) => fr.n \in Silent
    <3>1. fr.n.type \in LoopTypes /\ fr.n.type \in NodeTypes
      BY <2>1, AtSilent DEF Expects, LoopTypes, NodeTypes
    <3>2. QED BY <2>1, <3>1, AtSilent, TreeHasType
  <2>3. /\ Consume(glob[p]) \in Glob /\ Mild(glob[p], Consume(glob[p])) /\ Mild(glob[p], glob[p])
        /\ \A s : /\ Mild(glob[p], Status(LeaveLoop(glob[p]), s))
                  /\ Mild(glob[p], Status(LeaveLoop(Consume(glob[p])), s))
    BY <2>2, LoopBookkeeping, MildLoops, MildUpdates
  <2>4. CASE Local(p, <<a, b>>, glob[p])
    <3>1. b.k = "body" /\ (Harmless(fr) => Harmless(b))
      BY <2>2, HarmlessUpdates DEF Fit, Frame
    <3>2. Harmless(fr) => fr.n.body \in SilentTree
      BY <2>2, SilentHas
    <3> HIDE DEF b
    <3>3. b.k # "condition"
      BY <3>1
    <3>4. QED BY <2>2, <2>3, <2>4, <3>1, <3>2, <3>3, ExecCalm
  <2>5. CASE Restarts(glob[p]) /\ Condition(p, fr, Consume(glob[p]))
    <3>1. ~Asked(Consume(glob[p]))
      BY <2>2, <2>5 DEF Glob, Restarts, Consume, Asked
    <3>2. QED BY <2>2, <2>3, <2>5, <3>1, ConditionCalm
  <2>6. QED BY <2>1, <2>2, <2>3, <2>4, <2>5, NoneCalm
<1>3. CASE AfterBody(p)
  <2> DEFINE fr == [Top(p) EXCEPT !.i = glob[p].exit_status]
             g == Consume(glob[p])
  <2>1. /\ At(p, "body")
        /\ Local(p, <<>>, LeaveLoop(g)) \/ (~Leaves(glob[p]) /\ Condition(p, fr, g))
    BY <1>3 DEF AfterBody
  <2>2. /\ frames[p] # <<>> /\ glob[p] \in Glob /\ Top(p) \in Fit
        /\ Top(p).n \in Node /\ Top(p).n.type \in LoopTypes
    <3>1. Top(p).n.type \in LoopTypes /\ Top(p).n.type \in NodeTypes
      BY <2>1, AtSilent DEF Expects, LoopTypes, NodeTypes
    <3>2. QED BY <2>1, <3>1, AtSilent, TreeHasType
  <2>3. /\ fr \in Fit /\ fr.n = Top(p).n /\ (Harmless(Top(p)) => Harmless(fr))
    <3>1. glob[p].exit_status \in Int
      BY <2>2, LoopBookkeeping
    <3>2. QED BY <2>2, <3>1, FrameUpdates, HarmlessUpdates DEF Fit, Frame
  <2>4. /\ g \in Glob /\ Mild(glob[p], g) /\ Mild(glob[p], LeaveLoop(g))
        /\ ~Leaves(glob[p]) => ~Asked(g)
    BY <2>2, LoopBookkeeping, MildLoops
  <2> HIDE DEF fr, g
  <2>5. QED BY <2>1, <2>2, <2>3, <2>4, NoneCalm, ConditionCalm
<1>4. QED BY <1>1, <1>2, <1>3

LEMMA WordCalm ==
  ASSUME Fitting, CalmInv, NEW p \in Pid, frames[p] # <<>>, NEW fr, fr.k = "for", NEW g,
         ForWord(p, fr, g), Mild(glob[p], g),
         Harmless(Top(p)) => Harmless(fr) /\ fr.n.body \in SilentTree
  PROVE  CalmInv'
<1> DEFINE nf == fr.nf /\ fr.i = fr.n.words
<1>1. Local(p, <<Exec(fr.n.body, nf), fr>>, g)
  BY DEF ForWord
<1> HIDE DEF nf
<1>2. fr.k # "condition"
  OBVIOUS
<1>3. QED BY <1>1, <1>2, ExecCalm

LEMMA ForCalm ==
  ASSUME Fitting, CalmInv, NEW p \in Pid, ExecFor(p) \/ AfterForBody(p)
  PROVE  CalmInv'
<1>1. CASE ExecFor(p)
  <2> DEFINE f == F("for", Top(p).n, Top(p).nf)
             fr == [f EXCEPT !.i = 1]
             g == Status([glob[p] EXCEPT !.loop_depth = @ + 1], 0)
  <2>1. /\ Entering(p, {"for"})
        /\ \/ Local(p, <<>>, Status(glob[p], 1)) \/ Local(p, <<>>, Status(glob[p], 0))
           \/ ForWord(p, fr, g)
    BY <1>1, Zenon DEF ExecFor
  <2>2. /\ frames[p] # <<>> /\ glob[p] \in Glob /\ Top(p).n \in Node /\ Top(p).n.type = "for"
        /\ Harmless(Top(p)) => Top(p).n \in SilentTree /\ Top(p).n.body \in SilentTree
    BY <2>1, EnteredSilent, SilentHas DEF SilentTree
  <2>3. f \in Fit /\ f.k = "for" /\ f.n = Top(p).n /\ (Harmless(Top(p)) => Harmless(f))
    BY <2>1, <2>2, EnteringHas, FramesFit, FrameHas, HarmlessFrames
  <2> HIDE DEF f
  <2>4. fr.k = "for" /\ fr.n = Top(p).n /\ (Harmless(Top(p)) => Harmless(fr))
    BY <2>3, HarmlessUpdates DEF Fit, Frame
  <2>5. Mild(glob[p], g) /\ Mild(glob[p], Status(glob[p], 0)) /\ Mild(glob[p], Status(glob[p], 1))
    BY <2>2, MildUpdates
  <2> HIDE DEF fr, g
  <2>6. QED BY <2>1, <2>2, <2>4, <2>5, NoneCalm, WordCalm
<1>2. CASE AfterForBody(p)
  <2> DEFINE fr == [Top(p) EXCEPT !.i = @ + 1]
             g == Consume(glob[p])
  <2>1. At(p, "for") /\ (Local(p, <<>>, LeaveLoop(g)) \/ ForWord(p, fr, g))
    BY <1>2 DEF AfterForBody
  <2>2. /\ frames[p] # <<>> /\ glob[p] \in Glob /\ Top(p) \in Fit /\ Top(p).k = "for"
        /\ Harmless(Top(p)) => Top(p).n.body \in SilentTree
    <3>1. Top(p).n.type = "for" /\ Top(p).n.type \in NodeTypes
      BY <2>1, AtSilent DEF Expects, NodeTypes
    <3>2. QED BY <2>1, <3>1, AtSilent, SilentHas
  <2>3. fr.k = "for" /\ fr.n = Top(p).n /\ (Harmless(Top(p)) => Harmless(fr))
    BY <2>2, HarmlessUpdates DEF Fit, Frame
  <2>4. Mild(glob[p], g) /\ Mild(glob[p], LeaveLoop(g))
    BY <2>2, MildLoops
  <2> HIDE DEF fr, g
  <2>5. QED BY <2>1, <2>2, <2>3, <2>4, NoneCalm, WordCalm
<1>3. QED BY <1>1, <1>2

LEMMA SingleNodeCalm ==
  ASSUME Fitting, CalmInv, NEW p \in Pid,
         ExecCase(p) \/ ExecNegate(p) \/ AfterNegate(p) \/ ExecGroup(p) \/ ExecPipe(p)
  PROVE  CalmInv'
<1>1. CASE ExecCase(p)
  <2>1. /\ Entering(p, {"case"})
        /\ \/ Local(p, <<>>, Status(glob[p], 1))
           \/ Local(p, <<Exec(Top(p).n.body, Top(p).nf)>>, Status(glob[p], 0))
    BY <1>1 DEF ExecCase
  <2>2. /\ frames[p] # <<>> /\ glob[p] \in Glob
        /\ Harmless(Top(p)) => Top(p).n.body \in SilentTree
    BY <2>1, EnteredSilent, SilentHas
  <2>3. Mild(glob[p], Status(glob[p], 0)) /\ Mild(glob[p], Status(glob[p], 1))
    BY <2>2, MildUpdates
  <2>4. QED BY <2>1, <2>2, <2>3, NoneCalm, ExecCalm
<1>2. CASE ExecNegate(p)
  <2> DEFINE b == F("negate", Top(p).n, Top(p).nf)
  <2>1. Entering(p, {"negate"}) /\ Local(p, <<Exec(Top(p).n.child, FALSE), b>>, glob[p])
    BY <1>2, Zenon DEF ExecNegate
  <2>2. /\ frames[p] # <<>> /\ glob[p] \in Glob
        /\ Harmless(Top(p)) => Top(p).n \in SilentTree /\ Top(p).n.child \in SilentTree
    BY <2>1, EnteredSilent, SilentHas DEF SingleTypes, SilentTree
  <2>3. b.k # "condition" /\ (Harmless(Top(p)) => Harmless(b))
    <3>1. b.k = "negate" /\ (Top(p).n \in SilentTree => Harmless(b))
      BY HarmlessFrames, Zenon DEF F
    <3> HIDE DEF b
    <3>2. QED BY <2>2, <3>1
  <2>4. Mild(glob[p], glob[p])
    BY <2>2, MildUpdates
  <2> HIDE DEF b
  <2>5. QED BY <2>1, <2>2, <2>3, <2>4, ExecCalm
<1>3. CASE AfterNegate(p)
  <2>1. PICK s : At(p, "negate") /\ Local(p, <<>>, Status(glob[p], s))
    BY <1>3 DEF AfterNegate
  <2>2. QED BY <2>1, AtSilent, MildUpdates, NoneCalm
<1>4. CASE ExecGroup(p)
  <2>1. Entering(p, {"group"}) /\ Local(p, <<Exec(Top(p).n.child, Top(p).nf)>>, glob[p])
    BY <1>4 DEF ExecGroup
  <2>2. /\ frames[p] # <<>> /\ glob[p] \in Glob
        /\ Harmless(Top(p)) => Top(p).n.child \in SilentTree
    BY <2>1, EnteredSilent, SilentHas DEF SingleTypes
  <2>3. QED BY <2>1, <2>2, MildUpdates, ExecCalm
<1>5. CASE ExecPipe(p)
  <2> DEFINE a == F("pipe", Top(p).n, Top(p).nf)
  <2>1. Entering(p, {"pipe"}) /\ Local(p, <<a>>, glob[p])
    BY <1>5 DEF ExecPipe
  <2>2. /\ frames[p] # <<>> /\ glob[p] \in Glob
        /\ Harmless(Top(p)) => Top(p).n \in SilentTree
    BY <2>1, EnteredSilent DEF SilentTree
  <2>3. a.k # "condition" /\ (Harmless(Top(p)) => Harmless(a))
    <3>1. a.k = "pipe" /\ (Top(p).n \in SilentTree => Harmless(a))
      BY HarmlessFrames, Zenon DEF F
    <3> HIDE DEF a
    <3>2. QED BY <2>2, <3>1
  <2>4. Mild(glob[p], glob[p])
    BY <2>2, MildUpdates
  <2> HIDE DEF a
  <2>5. QED BY <2>1, <2>2, <2>3, <2>4, OneCalm
<1>6. QED BY <1>1, <1>2, <1>3, <1>4, <1>5
-----------------------------------------------------------------------------
\* fork() copies the stack: a child is as calm as its parent.
LEMMA ChildSeqs ==
  ASSUME NEW n
  PROVE  /\ <<Exec(n, TRUE), Exit>> \in Seq({Exec(n, TRUE), Exit})
         /\ <<F("child", n, FALSE)>> \in Seq({F("child", n, FALSE)})
<1> DEFINE a == Exec(n, TRUE)
           b == F("child", n, FALSE)
           e == Exit
<1> HIDE DEF a, b, e
<1>1. <<a, e>> \in Seq({a, e}) /\ <<b>> \in Seq({b})
  OBVIOUS
<1>2. QED BY <1>1 DEF a, b, e

LEMMA SubshellCalm ==
  ASSUME Fitting, CalmInv, NEW p \in Pid, ExecSubshell(p) \/ ExecAsync(p)
  PROVE  CalmInv'
<1> DEFINE n == Top(p).n.child
           child == <<Exec(n, TRUE), Exit>>
<1>1. Entering(p, {"subshell", "bg"})
  BY DEF ExecSubshell, ExecAsync, Entering
<1>2. /\ frames[p] # <<>> /\ glob[p] \in Glob /\ Running(p)
      /\ Harmless(Top(p)) => n \in SilentTree
  BY <1>1, EnteredSilent, SilentHas DEF SingleTypes
<1>3. child \in Seq({Exec(n, TRUE), Exit}) /\ Tamed(p, child, glob[p])
  BY <1>2, ChildSeqs, ChildTamed
<1>4. CASE ExecSubshell(p)
  <2>1. Local(p, <<Exec(n, TRUE)>>, glob[p]) \/ Single(p, child)
    BY <1>4, Zenon DEF ExecSubshell
  <2>2. Mild(glob[p], glob[p])
    BY <1>2, MildUpdates
  <2>3. CASE Local(p, <<Exec(n, TRUE)>>, glob[p])
    <3> HIDE DEF n
    <3>1. QED BY <1>2, <2>2, <2>3, ExecCalm
  <2>4. CASE Single(p, child)
    <3> HIDE DEF child
    <3>1. QED BY <1>2, <1>3, <2>4, SingleCalm
  <2>5. QED BY <2>1, <2>3, <2>4
<1>5. CASE ExecAsync(p)
  <2> DEFINE g == [glob[p] EXCEPT !.last_background = FreshPid]
             h == [glob[p] EXCEPT !.last_background = NoPid]
             out == proc[p].out
             fs == <<>>
  <2>1. \/ Free # {} /\ Fork(p, FreshPid, fs, g, child, out)
        \/ Local(p, <<>>, h)
    BY <1>5, Zenon DEF ExecAsync
  <2>2. Mild(glob[p], g) /\ Mild(glob[p], h)
    BY <1>2, MildUpdates, Zenon
  <2>3. fs \in Seq(Fit) /\ Tamed(p, fs, g)
    BY <2>2, TamedNone
  <2> HIDE DEF child, g, h, out, fs
  <2>4. CASE Local(p, <<>>, h)
    BY <1>2, <2>2, <2>4, NoneCalm
  <2>5. CASE Free # {} /\ Fork(p, FreshPid, fs, g, child, out)
    BY <1>2, <1>3, <2>3, <2>5, ForkCalm
  <2>6. QED BY <2>1, <2>4, <2>5
<1>6. QED BY <1>4, <1>5

\* A definition gives its name one of the bodies that scripts give it.
LEMMA FuncCalm ==
  ASSUME Fitting, CalmInv, NEW p \in Pid, ExecFunc(p)
  PROVE  CalmInv'
<1> DEFINE n == Top(p).n
<1>1. /\ Entering(p, {"func"})
      /\ \E body \in {Null, n.body} :
           Local(p, <<>>, [glob[p] EXCEPT !.funcs[n.name] = body, !.stolen = @ \cup {n}])
  BY DEF ExecFunc
<1>2. frames[p] # <<>> /\ glob[p] \in Glob /\ n \in Node /\ n.type = "func"
  BY <1>1, EnteredSilent
<1>3. PICK body \in {Null, n.body} :
        Local(p, <<>>, [glob[p] EXCEPT !.funcs[n.name] = body, !.stolen = @ \cup {n}])
  BY <1>1
<1> DEFINE g == [glob[p] EXCEPT !.funcs[n.name] = body, !.stolen = @ \cup {n}]
           fs == <<>>
<1>4. n.name \in FuncName /\ body \in {Null} \cup Bodies(n.name)
  BY <1>2, NodeHas DEF Bodies
<1>5. g.funcs = [glob[p].funcs EXCEPT ![n.name] = body] /\ (Asked(g) => Asked(glob[p]))
  <2> HIDE DEF n
  <2>1. g.funcs = [glob[p].funcs EXCEPT ![n.name] = body]
    BY <1>2 DEF Glob
  <2>2. Asked(g) => Asked(glob[p])
    BY <1>2 DEF Glob, Asked
  <2>3. QED BY <2>1, <2>2
<1>6. Known(glob[p]) => Known(g)
  <2> HIDE DEF n, g
  <2>1. DOMAIN glob[p].funcs = FuncName
    BY <1>2 DEF Glob
  <2>2. QED BY <1>4, <1>5, <2>1 DEF Known
<1>7. fs \in Seq(Fit) /\ DOMAIN fs = {} /\ Local(p, fs, g)
  BY <1>3
<1> HIDE DEF n, g, fs
<1>8. Tamed(p, fs, g)
  BY <1>5, <1>6, <1>7 DEF Tamed
<1>9. QED BY <1>2, <1>7, <1>8, LocalCalm

\* One turn of execute_pipe: the stage that is forked and what is left of the pipe
\* are parts of the same tree.
LEMMA PipeCalm ==
  ASSUME Fitting, CalmInv, NEW p \in Pid, PipeStage(p)
  PROVE  CalmInv'
<1> DEFINE fr == Top(p)
           last == fr.n.type # "pipe"
           n == IF last THEN fr.n ELSE fr.n.left
           child == <<Exec(n, TRUE), Exit>>
           stage(ps) == [fr EXCEPT !.n = fr.n.right, !.ps = ps]
           next(ps) == IF last THEN <<WaitFor(ps)>> ELSE <<stage(ps)>>
           out == IF last THEN proc[p].out ELSE NoPid
<1>1. /\ At(p, "pipe")
      /\ \/ Free # {} /\ Fork(p, FreshPid, next(Append(fr.ps, FreshPid)), glob[p], child, out)
         \/ Local(p, next(fr.ps), glob[p])
  BY Zenon DEF PipeStage
<1>2. /\ frames[p] # <<>> /\ glob[p] \in Glob /\ Running(p) /\ fr \in Fit /\ fr.k = "pipe"
      /\ Harmless(fr) => fr.n \in SilentTree /\ (~last => fr.n.left \in SilentTree /\ fr.n.right \in SilentTree)
  <2>1. /\ frames[p] # <<>> /\ glob[p] \in Glob /\ Running(p) /\ fr \in Fit /\ fr.k = "pipe"
        /\ Harmless(fr) /\ fr.n.type \in NodeTypes => fr.n \in Silent
    BY <1>1, AtSilent
  <2>2. Harmless(fr) => fr.n \in SilentTree
    BY DEF Harmless
  <2>3. Harmless(fr) /\ ~last => fr.n \in Silent /\ fr.n.type \in BinaryTypes
    BY <2>1 DEF NodeTypes, BinaryTypes
  <2>4. QED BY <2>1, <2>2, <2>3, SilentHas
<1>3. child \in Seq({Exec(n, TRUE), Exit}) /\ Tamed(p, child, glob[p])
  <2>1. Harmless(fr) => n \in SilentTree
    BY <1>2
  <2> HIDE DEF n
  <2>2. QED BY <2>1, ChildSeqs, ChildTamed
<1>4. Mild(glob[p], glob[p])
  BY <1>2, MildUpdates
<1>5. ASSUME NEW ps PROVE \E a : next(ps) = <<a>> /\ a.k # "condition" /\ (Harmless(fr) => Harmless(a))
  <2> DEFINE w == WaitFor(ps)
             st == stage(ps)
  <2>1. w.k # "condition" /\ Harmless(w)
    <3>1. w.k = "wait" /\ w.n = Null /\ w.ls = <<>>
      BY DEF WaitFor, F
    <3> HIDE DEF w
    <3>2. QED BY <3>1 DEF Harmless, SilentTree
  <2>2. st.k # "condition"
    BY <1>2 DEF Fit, Frame
  <2>3. ~last /\ Harmless(fr) => Harmless(st)
    BY <1>2, HarmlessUpdates DEF Fit
  <2>4. (last /\ next(ps) = <<w>>) \/ (~last /\ next(ps) = <<st>>)
    OBVIOUS
  <2> HIDE DEF next, stage, w, st, last
  <2>5. QED BY <2>1, <2>2, <2>3, <2>4
<1> HIDE DEF n, child, stage, next, out
<1>6. CASE Local(p, next(fr.ps), glob[p])
  <2>1. PICK a : next(fr.ps) = <<a>> /\ a.k # "condition" /\ (Harmless(fr) => Harmless(a))
    BY <1>5
  <2>2. QED BY <1>2, <1>4, <1>6, <2>1, OneCalm
<1>7. CASE Free # {} /\ Fork(p, FreshPid, next(Append(fr.ps, FreshPid)), glob[p], child, out)
  <2>1. PICK a : next(Append(fr.ps, FreshPid)) = <<a>> /\ a.k # "condition" /\ (Harmless(fr) => Harmless(a))
    BY <1>5
  <2> DEFINE fs == <<a>>
             g == glob[p]
  <2>2. fs \in Seq({a}) /\ Tamed(p, fs, g)
    BY <1>4, <2>1, TamedOne
  <2>3. Fork(p, FreshPid, fs, g, child, out)
    BY <1>7, <2>1
  <2> HIDE DEF fs, g
  <2>4. QED BY <1>2, <1>3, <1>7, <2>2, <2>3, ForkCalm DEF g
<1>8. QED BY <1>1, <1>6, <1>7

LEMMA CompoundCalm ==
  ASSUME Fitting, CalmInv, QuietConditions, NEW p \in Pid, Compound(p)
  PROVE  CalmInv'
BY SkipCalm, BinaryCalm, IfCalm, LoopCalm, ForCalm, SingleNodeCalm, SubshellCalm, FuncCalm, PipeCalm DEF Compound
-----------------------------------------------------------------------------
LEMMA ExecCmdCalm ==
  ASSUME Fitting, CalmInv, NEW p \in Pid, ExecCmd(p)
  PROVE  CalmInv'
<1> DEFINE n == Top(p).n.subst
           run == F("run", Top(p).n, Top(p).nf)
           read == Read(FreshPid)
           two == <<read, run>>
           child == <<Exec(n, TRUE), Exit>>
           g == glob[p]
<1>1. /\ Entering(p, {"cmd"})
      /\ \/ Local(p, <<run>>, glob[p])
         \/ Free # {} /\ Fork(p, FreshPid, two, g, child, FreshPid)
  BY Zenon DEF ExecCmd
<1>2. /\ frames[p] # <<>> /\ g \in Glob /\ Running(p)
      /\ Harmless(Top(p)) => Top(p).n \in SilentTree /\ n \in SilentTree
  BY <1>1, EnteredSilent, SilentHas DEF SilentTree
<1>3. child \in Seq({Exec(n, TRUE), Exit}) /\ Tamed(p, child, g)
  BY <1>2, ChildSeqs, ChildTamed
<1>4. run.k # "condition" /\ (Harmless(Top(p)) => Harmless(run))
  <2>1. run.k = "run" /\ (Top(p).n \in SilentTree => Harmless(run))
    BY HarmlessFrames, Zenon DEF F
  <2> HIDE DEF run
  <2>2. QED BY <1>2, <2>1
<1>5. read.k # "condition" /\ Harmless(read)
  <2>1. read.k = "read" /\ read.n = Null /\ read.ls = <<>>
    BY DEF Read, F
  <2> HIDE DEF read
  <2>2. QED BY <2>1 DEF Harmless, SilentTree
<1>6. Mild(glob[p], g)
  BY <1>2, MildUpdates
<1> HIDE DEF run, read, child, n
<1>7. CASE Local(p, <<run>>, glob[p])
  BY <1>2, <1>4, <1>6, <1>7, OneCalm
<1>8. two \in Seq({read, run}) /\ Tamed(p, two, g)
  <2>1. run.k = "condition" => ~Asked(g) /\ Harmless(read)
    BY <1>4
  <2>2. Tamed(p, <<read, run>>, g)
    BY <1>4, <1>5, <1>6, <2>1, TamedTwo
  <2>3. QED BY <2>2
<1> HIDE DEF two, g
<1>9. CASE Free # {} /\ Fork(p, FreshPid, two, g, child, FreshPid)
  BY <1>2, <1>3, <1>8, <1>9, ForkCalm DEF g
<1>10. QED BY <1>1, <1>7, <1>9

\* what is waited for
LEMMA WaitCalm ==
  ASSUME Fitting, CalmInv, NEW p \in Pid, ReadEof(p) \/ JobWait(p)
  PROVE  CalmInv'
<1>1. PICK k \in {"read", "wait"} : At(p, k)
  BY DEF ReadEof, JobWait
<1>2. frames[p] # <<>> /\ Top(p) \in Fit /\ glob[p] \in Glob /\ Mild(glob[p], glob[p])
  BY <1>1, AtHas, MildUpdates
<1>3. CASE ReadEof(p)
  <2> DEFINE a == WaitFor(Top(p).ps)
  <2>1. Local(p, <<a>>, glob[p])
    BY <1>3 DEF ReadEof
  <2>2. a.k = "wait" /\ a.n = Null /\ a.ls = <<>>
    BY DEF WaitFor, F
  <2> HIDE DEF a
  <2>3. a.k # "condition" /\ Harmless(a)
    BY <2>2 DEF Harmless, SilentTree
  <2>4. QED BY <1>2, <2>1, <2>3, OneCalm
<1>4. CASE JobWait(p)
  <2> DEFINE a == [Top(p) EXCEPT !.ps = Tail(@)]
             fs == <<a>>
  <2>1. Local(p, <<>>, glob[p]) \/ \E c : Reap(p, c, fs)
    BY <1>4, Zenon DEF JobWait
  <2>2. a.k # "condition" /\ (Harmless(Top(p)) => Harmless(a))
    BY <1>2, <1>4, HarmlessUpdates DEF JobWait, At, Fit, Frame
  <2> HIDE DEF a
  <2>3. /\ fs \in Seq({a})
        /\ \A i \in DOMAIN fs : fs[i].k # "condition" /\ (Harmless(Top(p)) => Harmless(fs[i]))
    BY <2>2
  <2> HIDE DEF fs
  <2>4. QED BY <1>2, <2>1, <2>3, NoneCalm, ReapCalm
<1>5. QED BY <1>3, <1>4

LEMMA WaitAllCalm ==
  ASSUME Fitting, CalmInv, NEW p \in Pid, WaitAll(p) \/ WaitLast(p)
  PROVE  CalmInv'
<1>1. PICK k \in {"waitall", "waitlast"} : At(p, k)
  BY DEF WaitAll, WaitLast
<1>2. /\ frames[p] # <<>> /\ Top(p).k = k /\ glob[p] \in Glob
      /\ \A s : Mild(glob[p], Status(glob[p], s))
  BY <1>1, AtHas, MildUpdates
<1>3. \/ \E c : Reap(p, c, <<Top(p)>>)
      \/ \E c : Reap(p, c, <<>>)
      \/ \E s : Local(p, <<>>, Status(glob[p], s))
  BY DEF WaitAll, WaitLast
<1>4. ASSUME NEW c, Reap(p, c, <<Top(p)>>) PROVE CalmInv'
  <2> DEFINE a == Top(p)
             fs == <<a>>
  <2>1. /\ fs \in Seq({a}) /\ Reap(p, c, fs)
        /\ \A i \in DOMAIN fs : fs[i].k # "condition" /\ (Harmless(Top(p)) => Harmless(fs[i]))
    BY <1>2, <1>4
  <2> HIDE DEF a, fs
  <2>2. QED BY <1>2, <2>1, ReapCalm
<1>5. ASSUME NEW c, Reap(p, c, <<>>) PROVE CalmInv'
  <2> DEFINE fs == <<>>
  <2>1. fs \in Seq(Fit) /\ DOMAIN fs = {} /\ Reap(p, c, fs)
    BY <1>5
  <2> HIDE DEF fs
  <2>2. QED BY <1>2, <2>1, ReapCalm
<1>6. QED BY <1>2, <1>3, <1>4, <1>5, NoneCalm
-----------------------------------------------------------------------------
\* No builtin but break and continue asks for anything, and none invents a function.
LEMMA BuiltinCalm ==
  ASSUME NEW g \in Glob, NEW n,
         n.cmd \in {"true", "false", "break", "continue", "return", "shift", "unset", "sete"}
  PROVE  /\ Known(g) => Known(Builtin(g, n))
         /\ n.cmd \notin {"break", "continue"} => (Asked(Builtin(g, n)) => Asked(g))
<1>1. \A s : Mild(g, Status(g, s))
  BY MildUpdates
<1>2. CASE n.cmd \in {"break", "continue"}
  <2>1. \A d, s : /\ Status([g EXCEPT !.break_depth = d], s).funcs = g.funcs
                  /\ Status([g EXCEPT !.continue_depth = d], s).funcs = g.funcs
                  /\ Status(g, s).funcs = g.funcs
    BY DEF Status, Glob
  <2>2. BuiltinBreak(g, n).funcs = g.funcs
    BY <2>1, Zenon DEF BuiltinBreak
  <2>3. BuiltinContinue(g, n).funcs = g.funcs
    BY <2>1, Zenon DEF BuiltinContinue
  <2>4. Builtin(g, n).funcs = g.funcs
    BY <1>2, <2>2, <2>3 DEF Builtin
  <2>5. QED BY <1>2, <2>4 DEF Known
<1>3. CASE n.cmd \in {"true", "false"}
  <2>1. Mild(g, Builtin(g, n))
    BY <1>1, <1>3 DEF Builtin
  <2>2. QED BY <2>1, KnownMild DEF Mild
<1>4. CASE n.cmd = "return"
  <2>1. \A b, s : Mild(g, [g EXCEPT !.return_break = b, !.exit_status = s])
    BY DEF Glob, Mild, Asked
  <2>2. \A b : Mild(g, [g EXCEPT !.return_break = b])
    BY MildUpdates
  <2>3. Mild(g, BuiltinReturn(g, n))
    BY <1>1, <2>1, <2>2, Zenon DEF BuiltinReturn
  <2>4. Builtin(g, n) = BuiltinReturn(g, n)
    BY <1>4 DEF Builtin
  <2>5. QED BY <2>3, <2>4, KnownMild DEF Mild
<1>5. CASE n.cmd = "shift"
  <2>1. \A a, s : Mild(g, Status([g EXCEPT !.argc = a], s))
    BY DEF Glob, Mild, Asked, Status
  <2>2. Mild(g, BuiltinShift(g, n))
    BY <1>1, <2>1 DEF BuiltinShift
  <2>3. Builtin(g, n) = BuiltinShift(g, n)
    BY <1>5 DEF Builtin
  <2>4. QED BY <2>2, <2>3, KnownMild DEF Mild
<1>6. CASE n.cmd = "unset"
  <2> DEFINE h == Status([g EXCEPT !.funcs[n.name] = NoFunc], 0)
  <2>1. Builtin(g, n) = h
    BY <1>6 DEF Builtin, BuiltinUnset
  <2>2. h.funcs = [g.funcs EXCEPT ![n.name] = NoFunc]
    BY DEF Status, Glob
  <2>3. Asked(h) => Asked(g)
    BY DEF Status, Glob, Asked
  <2> HIDE DEF h
  <2>4. Known(g) => Known(h)
    <3>1. DOMAIN g.funcs = FuncName
      BY DEF Glob
    <3>2. QED BY <2>2, <3>1 DEF Known
  <2>5. QED BY <2>1, <2>3, <2>4
<1>7. CASE n.cmd = "sete"
  <2>1. Mild(g, Status([g EXCEPT !.err_exit = TRUE], 0))
    BY DEF Glob, Mild, Asked, Status
  <2>2. Builtin(g, n) = Status([g EXCEPT !.err_exit = TRUE], 0)
    BY <1>7 DEF Builtin
  <2>3. QED BY <2>1, <2>2, KnownMild DEF Mild
<1>8. QED BY <1>2, <1>3, <1>4, <1>5, <1>6, <1>7

LEMMA RunBuiltinCalm ==
  ASSUME Fitting, CalmInv, NEW p \in Pid,
         ExpansionFails(p) \/ RunEmpty(p) \/ RunBuiltin(p) \/ RunOther(p)
  PROVE  CalmInv'
<1>1. At(p, "run")
  BY DEF ExpansionFails, RunEmpty, RunBuiltin, RunOther, Runs
<1>2. /\ frames[p] # <<>> /\ glob[p] \in Glob /\ Top(p) \in Fit /\ Top(p).k = "run"
      /\ Harmless(Top(p)) => Top(p).n \in Silent
      /\ Top(p).n.type = "cmd"
  <2>1. Top(p).n.type = "cmd" /\ Top(p).n.type \in NodeTypes
    BY <1>1, AtSilent DEF Expects, NodeTypes
  <2>2. QED BY <1>1, <2>1, AtSilent
<1> DEFINE a == [Top(p) EXCEPT !.k = "call"]
<1>3. a.k # "condition" /\ (Harmless(Top(p)) => Harmless(a))
  BY <1>2, HarmlessUpdates DEF Fit, Frame
<1>4. CASE ExpansionFails(p) \/ RunEmpty(p)
  <2>1. PICK s : Local(p, <<>>, Status(glob[p], s))
    BY <1>4 DEF ExpansionFails, RunEmpty
  <2>2. Mild(glob[p], Status(glob[p], s))
    BY <1>2, MildUpdates
  <2>3. QED BY <1>2, <2>1, <2>2, NoneCalm
<1>5. CASE RunBuiltin(p)
  <2> DEFINE g == Builtin(glob[p], Top(p).n)
             none == <<>>
             one == <<a>>
  <2>1. /\ Top(p).n.cmd \in {"true", "false", "break", "continue", "return", "shift", "unset", "sete"}
        /\ Local(p, none, g) \/ Local(p, one, g)
    BY <1>5 DEF RunBuiltin, BuiltinEnds, Runs
  <2>2. /\ Known(glob[p]) => Known(g)
        /\ Top(p).n.cmd \notin {"break", "continue"} => (Asked(g) => Asked(glob[p]))
    BY <1>2, <2>1, BuiltinCalm
  <2>3. Harmless(Top(p)) /\ ~Asked(glob[p]) => ~Asked(g)
    BY <1>2, <2>2, SilentHas
  <2> HIDE DEF g, a
  <2>4. none \in Seq(Fit) /\ DOMAIN none = {} /\ one \in Seq({a}) /\ DOMAIN one = {1} /\ one[1] = a
    OBVIOUS
  <2> HIDE DEF none, one
  <2>5. Tamed(p, none, g) /\ Tamed(p, one, g)
    BY <1>3, <2>2, <2>3, <2>4 DEF Tamed
  <2>6. QED BY <1>2, <2>1, <2>4, <2>5, LocalCalm
<1>6. CASE RunOther(p)
  <2>1. Local(p, <<a>>, glob[p])
    BY <1>6 DEF RunOther
  <2>2. Mild(glob[p], glob[p])
    BY <1>2, MildUpdates
  <2> HIDE DEF a
  <2>3. QED BY <1>2, <1>3, <2>1, <2>2, OneCalm
<1>7. QED BY <1>4, <1>5, <1>6

LEMMA RunEchoCalm ==
  ASSUME Fitting, CalmInv, NEW p \in Pid, RunEcho(p)
  PROVE  CalmInv'
<1> DEFINE g == Status(glob[p], 0)
           fs == <<>>
<1>1. At(p, "run")
  BY DEF RunEcho, Runs
<1>2. frames[p] \in Seq(Fit) /\ frames[p] # <<>> /\ glob[p] \in Glob /\ Calm(p) /\ Tail(frames[p]) \in Seq(Fit)
  BY <1>1, AtHas DEF CalmInv
<1>3. /\ frames'[p] = Tail(frames[p]) /\ glob'[p] = g
      /\ \A q \in Pid \ {p} : frames'[q] = frames[q] /\ glob'[q] = glob[q]
  BY DEF RunEcho, Fitting, Status
<1>4. fs \in Seq(Fit) /\ frames'[p] = fs \o Tail(frames[p])
  BY <1>2, <1>3
<1>5. Mild(glob[p], g)
  BY <1>2, MildUpdates
<1>6. Tamed(p, fs, g)
  BY <1>5, TamedNone
<1> HIDE DEF g, fs
<1>7. Calm(p)'
  BY <1>2, <1>3, <1>4, <1>6, CalmKept
<1>8. \A q \in Pid \ {p} : Calm(q)'
  BY <1>3 DEF CalmInv, Calm
<1>9. QED BY <1>7, <1>8 DEF CalmInv

LEMMA RunCalm ==
  ASSUME Fitting, CalmInv, NEW p \in Pid, RunExit(p) \/ RunWait(p) \/ RunEval(p) \/ RunSource(p)
  PROVE  CalmInv'
<1>1. At(p, "run")
  BY DEF RunExit, RunWait, RunEval, RunSource, Runs
<1>2. /\ frames[p] # <<>> /\ glob[p] \in Glob /\ \A s : Mild(glob[p], Status(glob[p], s))
      /\ Harmless(Top(p)) => Top(p).n.lines \in Seq(SilentLine)
  <2>1. Top(p).n.type = "cmd" /\ Top(p).n.type \in NodeTypes
    BY <1>1, AtSilent DEF Expects, NodeTypes
  <2>2. QED BY <1>1, <2>1, AtSilent, SilentHas, MildUpdates
<1>3. CASE RunExit(p)
  <2>1. Local(p, <<>>, Status(glob[p], 1)) \/ \E s : Die(p, s, FALSE)
    BY <1>3, Zenon DEF RunExit
  <2>2. QED BY <1>2, <2>1, NoneCalm, EndCalm
<1>4. CASE RunWait(p)
  <2> DEFINE a == F("waitall", Null, FALSE)
             b == F("waitlast", Null, FALSE)
             g == Status(glob[p], 0)
             h == Status(g, 1)
  <2>1. Local(p, <<a>>, g) \/ Local(p, <<b>>, g) \/ Local(p, <<>>, h)
    BY <1>4 DEF RunWait
  <2>2. /\ a.k # "condition" /\ Harmless(a)
        /\ b.k # "condition" /\ Harmless(b)
    BY HarmlessFrames
  <2>3. Mild(glob[p], g) /\ Mild(glob[p], h)
    <3>1. h = Status(glob[p], 1)
      BY <1>2 DEF Status, Glob
    <3>2. QED BY <1>2, <3>1
  <2> HIDE DEF a, b, g, h
  <2>4. QED BY <1>2, <2>1, <2>2, <2>3, NoneCalm, OneCalm
<1>5. CASE RunEval(p) \/ RunSource(p)
  <2> DEFINE a == Interp(Top(p).n.lines)
             e == F("eval", Top(p).n, Top(p).nf)
             f == F("source", Top(p).n, Top(p).nf)
             b == [f EXCEPT !.i = glob[p].argc]
             g == [glob[p] EXCEPT !.stack_depth = @ + 1, !.argc = Top(p).n.n]
             h == Status(glob[p], 1)
  <2>1. \/ Local(p, <<a, e>>, glob[p]) \/ Local(p, <<>>, h)
        \/ Local(p, <<a, b>>, g)
    BY <1>5, Zenon DEF RunEval, RunSource
  <2>2. a.k # "condition" /\ (Harmless(Top(p)) => Harmless(a))
    <3>1. a.k = "interp" /\ a.n = Null /\ a.ls = Top(p).n.lines
      BY DEF Interp, F
    <3> HIDE DEF a
    <3>2. QED BY <1>2, <3>1 DEF Harmless, SilentTree
  <2>3. /\ b.k # "condition" /\ (Harmless(Top(p)) => Harmless(b))
        /\ e.k # "condition" /\ (Harmless(Top(p)) => Harmless(e))
    <3>1. /\ b.k = "source" /\ b.n = Top(p).n /\ b.ls = <<>>
          /\ e.k = "eval" /\ e.n = Top(p).n /\ e.ls = <<>>
      BY DEF F
    <3> HIDE DEF e, f, b
    <3>2. QED BY <3>1 DEF Harmless
  <2>4. Mild(glob[p], g) /\ Mild(glob[p], h) /\ Mild(glob[p], glob[p])
    BY <1>1, AtHas, MildUpdates
  <2> HIDE DEF a, b, e, f, g, h
  <2>5. QED BY <1>2, <2>1, <2>2, <2>3, <2>4, NoneCalm, TwoCalm
<1>6. QED BY <1>3, <1>4, <1>5

\* A function that is called by a harmless tree has a harmless body.
LEMMA CallCalm ==
  ASSUME Fitting, CalmInv, NEW p \in Pid, CallFunc(p) \/ AfterFunc(p) \/ AfterEval(p) \/ AfterSource(p)
  PROVE  CalmInv'
<1>1. PICK k \in {"call", "func", "eval", "source"} : At(p, k)
  BY DEF CallFunc, AfterFunc, AfterEval, AfterSource
<1>2. /\ frames[p] # <<>> /\ glob[p] \in Glob
      /\ \A d, i : Mild(glob[p], [glob[p] EXCEPT !.stack_depth = d, !.argc = i])
      /\ \A d, b, i : Mild(glob[p], [glob[p] EXCEPT !.stack_depth = d, !.return_break = b, !.argc = i])
  <2>1. frames[p] # <<>> /\ glob[p] \in Glob
    BY <1>1, AtHas
  <2>2. QED BY <2>1, MildUpdates
<1>3. CASE CallFunc(p)
  <2> DEFINE n == Top(p).n
             body == glob[p].funcs[n.name]
             f == F("func", n, Top(p).nf)
             b == [f EXCEPT !.i = glob[p].argc]
             g == [glob[p] EXCEPT !.stack_depth = @ + 1, !.argc = n.n]
  <2>1. /\ At(p, "call") /\ HasFunc(p)
        /\ Local(p, <<Exec(body, Top(p).nf), b>>, g)
    BY <1>3, Zenon DEF CallFunc
  <2>2. Harmless(Top(p)) => n \in Silent /\ n.type = "cmd"
    <3>1. n.type = "cmd" /\ n.type \in NodeTypes
      BY <2>1, AtSilent DEF Expects, NodeTypes
    <3>2. QED BY <2>1, <3>1, AtSilent
  <2>3. Harmless(Top(p)) => body \in SilentTree
    <3>1. n.name \in FuncName /\ body # NoFunc
      BY <2>1 DEF HasFunc
    <3>2. body \in {Null, NoFunc} \cup Bodies(n.name)
      BY <3>1 DEF CalmInv, Calm, Known
    <3>3. Harmless(Top(p)) => Bodies(n.name) \subseteq SilentTree
      BY <2>2, SilentHas
    <3>4. QED BY <3>1, <3>2, <3>3 DEF SilentTree
  <2>4. b.k # "condition" /\ (Harmless(Top(p)) => Harmless(b))
    <3>1. b.k = "func" /\ b.n = n /\ b.ls = <<>>
      BY DEF F
    <3> HIDE DEF f, b, n
    <3>2. QED BY <2>2, <3>1 DEF Harmless, SilentTree
  <2>5. Mild(glob[p], g)
    BY <1>2
  <2> HIDE DEF body, f, b, g, n
  <2>6. QED BY <1>2, <2>1, <2>3, <2>4, <2>5, ExecCalm
<1>4. CASE AfterFunc(p)
  <2> DEFINE g == [glob[p] EXCEPT !.stack_depth = @ - 1, !.return_break = FALSE, !.argc = Top(p).i]
  <2>1. Local(p, <<>>, g)
    BY <1>4, Zenon DEF AfterFunc
  <2>2. Mild(glob[p], g)
    BY <1>2, Zenon
  <2> HIDE DEF g
  <2>3. QED BY <1>2, <2>1, <2>2, NoneCalm
<1>5. CASE AfterEval(p) \/ AfterSource(p)
  <2> DEFINE g == [glob[p] EXCEPT !.stack_depth = @ - 1, !.argc = Top(p).i]
             a == [Top(p) EXCEPT !.k = "call"]
  <2>1. \E h \in {glob[p], g} : Local(p, <<>>, h) \/ Local(p, <<a>>, h)
    BY <1>5, Zenon DEF AfterEval, AfterSource, BuiltinEnds
  <2>2. Mild(glob[p], g) /\ Mild(glob[p], glob[p])
    BY <1>2, MildUpdates, Zenon
  <2>3. a.k # "condition" /\ (Harmless(Top(p)) => Harmless(a))
    <3>1. Top(p) \in Frame
      BY <1>1, AtHas DEF Fit
    <3>2. a.k = "call" /\ a.n = Top(p).n /\ a.ls = Top(p).ls
      BY <3>1 DEF Frame
    <3> HIDE DEF a
    <3>3. QED BY <3>2 DEF Harmless
  <2> HIDE DEF g, a
  <2>4. QED BY <1>2, <2>1, <2>2, <2>3, NoneCalm, OneCalm
<1>6. QED BY <1>3, <1>4, <1>5

LEMMA ProgramCalm ==
  ASSUME Fitting, CalmInv, NEW p \in Pid,
         CallProgram(p) \/ ChildProgram(p) \/ ProgramEnds(p) \/ ExitStatus(p)
  PROVE  CalmInv'
<1>1. PICK k \in {"call", "child", "binary", "exit"} : At(p, k)
  BY DEF CallProgram, ChildProgram, ProgramEnds, ExitStatus
<1>2. /\ frames[p] # <<>> /\ Running(p) /\ glob[p] \in Glob
      /\ \A s : Mild(glob[p], Status(glob[p], s))
      /\ Mild(glob[p], glob[p])
  BY <1>1, AtHas, MildUpdates DEF At
<1> DEFINE n == Top(p).n
           child == <<F("child", n, FALSE)>>
<1>3. \/ Single(p, child)
      \/ Image(p)
      \/ \E s, b : Die(p, s, b)
      \/ Local(p, <<>>, Status(glob[p], 1))
      \/ Local(p, <<>>, glob[p])
  BY Zenon DEF CallProgram, ChildProgram, ProgramEnds, ExitStatus
<1>4. child \in Seq({F("child", n, FALSE)}) /\ Tamed(p, child, glob[p])
  BY ChildSeqs, ChildTamed DEF Harmless
<1> HIDE DEF child
<1>5. QED BY <1>2, <1>3, <1>4, SingleCalm, EndCalm, NoneCalm

LEMMA InterpretCalm ==
  ASSUME Fitting, CalmInv, NEW p \in Pid, InterpretStops(p) \/ InterpretLine(p)
  PROVE  CalmInv'
<1>1. At(p, "interp")
  BY DEF InterpretStops, InterpretLine
<1>2. /\ frames[p] # <<>> /\ glob[p] \in Glob /\ Top(p) \in Fit /\ Top(p).k = "interp"
      /\ Top(p).ls \in Seq(Line)
  BY <1>1, AtHas
<1>3. /\ \A s : Mild(glob[p], Status(glob[p], s))
      /\ \A b : Mild(glob[p], [glob[p] EXCEPT !.return_break = b])
      /\ \A b : Mild(glob[p], [glob[p] EXCEPT !.sigint_break = b])
      /\ Mild(glob[p], glob[p])
  BY <1>2, MildUpdates
<1>4. CASE InterpretStops(p)
  <2> DEFINE b == glob[p].return_break /\ glob[p].exit_status # 0 /\ glob[p].err_exit
             g == [glob[p] EXCEPT !.return_break = b]
  <2>1. Local(p, <<>>, g) \/ Local(p, <<>>, glob[p])
    BY <1>4 DEF InterpretStops
  <2>2. Mild(glob[p], g)
    BY <1>3, Zenon
  <2> HIDE DEF b, g
  <2>3. QED BY <1>2, <1>3, <2>1, <2>2, NoneCalm
<1>5. CASE InterpretLine(p)
  <2> DEFINE line == Head(Top(p).ls)
             next == [Top(p) EXCEPT !.ls = Tail(@)]
             b == [next EXCEPT !.i = 1]
             c == [next EXCEPT !.i = 0]
             g == [glob[p] EXCEPT !.sigint_break = FALSE]
             h == Status(glob[p], 1)
  <2>1. /\ Top(p).ls # <<>>
        /\ \/ line # SyntaxError /\ Local(p, <<Exec(line, FALSE), b>>, g)
           \/ Local(p, <<c>>, h)
           \/ Local(p, <<>>, h)
    BY <1>5, Zenon DEF InterpretLine
  <2>2. Harmless(Top(p)) => line \in SilentLine /\ Tail(Top(p).ls) \in Seq(SilentLine)
    BY <2>1 DEF Harmless
  <2>3. next.k = "interp" /\ next \in Frame /\ (Harmless(Top(p)) => Harmless(next))
    <3>1. next.k = "interp"
      BY <1>2 DEF Fit, Frame
    <3>2. next \in Frame
      <4>1. Tail(Top(p).ls) \in Seq(Line)
        BY <1>2, <2>1
      <4>2. next \in Fit
        BY <1>2, <4>1, FrameUpdates
      <4>3. QED BY <4>2 DEF Fit
    <3>3. Harmless(Top(p)) => Harmless(next)
      BY <1>2, <2>2, HarmlessUpdates DEF Fit
    <3>4. QED BY <3>1, <3>2, <3>3
  <2> HIDE DEF next
  <2>4. /\ b.k # "condition" /\ (Harmless(Top(p)) => Harmless(b))
        /\ c.k # "condition" /\ (Harmless(Top(p)) => Harmless(c))
    <3>1. b.k = "interp" /\ c.k = "interp"
      BY <2>3 DEF Frame
    <3>2. QED BY <2>3, <3>1, HarmlessUpdates
  <2>5. Mild(glob[p], g) /\ Mild(glob[p], h)
    BY <1>3, Zenon
  <2>6. CASE line # SyntaxError /\ Local(p, <<Exec(line, FALSE), b>>, g)
    <3>1. Harmless(Top(p)) => line \in SilentTree
      BY <2>2, <2>6 DEF SilentLine
    <3> HIDE DEF line, b, c, g, h
    <3>2. QED BY <1>2, <2>4, <2>5, <2>6, <3>1, ExecCalm
  <2> HIDE DEF line, b, c, g, h
  <2>7. QED BY <1>2, <2>1, <2>4, <2>5, <2>6, NoneCalm, OneCalm
<1>6. QED BY <1>4, <1>5

LEMMA ProcessCalm ==
  ASSUME Fitting, CalmInv, QuietConditions, NEW p \in Pid, Process(p)
  PROVE  CalmInv'
<1>1. CASE Simple(p)
  BY <1>1, ExecCmdCalm, WaitCalm, RunBuiltinCalm, RunEchoCalm, RunCalm, CallCalm, ProgramCalm DEF Simple
<1>2. CASE Job(p)
  BY <1>2, WaitCalm, WaitAllCalm, ProgramCalm, InterpretCalm DEF Job
<1>3. QED BY <1>1, <1>2, CompoundCalm DEF Process

LEMMA InitCalm == Init => CalmInv
<1> SUFFICES ASSUME Init, NEW p \in Pid PROVE Calm(p)
  BY DEF CalmInv
<1> DEFINE a == Interp(script)
<1>1. frames[p] = <<a, Exit>> \/ frames[p] = <<>>
  BY DEF Init
<1>2. a.k = "interp" /\ Exit.k = "exit"
  BY DEF Interp, Exit, F
<1> HIDE DEF a
<1>3. \A i \in 1..Len(frames[p]) : frames[p][i].k # "condition"
  BY <1>1, <1>2
<1>4. Known(glob[p])
  BY DEF Init, Known
<1>5. QED BY <1>3, <1>4 DEF Calm

LEMMA StepCalm == QuietConditions /\ Fitting /\ CalmInv /\ [Next]_vars => CalmInv'
<1> SUFFICES ASSUME QuietConditions, Fitting, CalmInv, [Next]_vars PROVE CalmInv'
  OBVIOUS
<1>1. CASE UNCHANGED vars
  BY <1>1 DEF vars, CalmInv, Calm
<1>2. QED BY <1>1, ProcessCalm DEF Next

\* The arguments that break and continue refuse are not larger than any number of loops.
SmallArguments ==
  \A n \in Node : n.type = "cmd" /\ n.cmd \in {"break", "continue"} /\ n.form = "junk" => n.n <= 1

LEMMA CalmIsHeeded == CalmInv /\ Fitting => Heeded
<1> SUFFICES ASSUME CalmInv, Fitting, NEW p \in Pid, At(p, "condition"), Asked(glob[p]) PROVE FALSE
  BY DEF Heeded
<1>1. frames[p] \in Seq(Fit) /\ frames[p] # <<>> /\ Top(p).k = "condition"
  BY AtHas
<1>2. 1 \in 1..Len(frames[p]) /\ frames[p][1].k = "condition"
  BY <1>1 DEF Top
<1>3. QED BY <1>2 DEF CalmInv, Calm

LEMMA SmallIsRefused == SmallArguments /\ Fitting /\ DeepInv => Refused
<1> SUFFICES ASSUME SmallArguments, Fitting, DeepInv, NEW p \in Pid, At(p, "run"),
                    Top(p).n.cmd \in {"break", "continue"}, Top(p).n.form = "junk"
             PROVE  glob[p].loop_depth = 0 \/ Top(p).n.n <= glob[p].loop_depth
  BY DEF Refused
<1>1. Top(p).n \in Tree /\ Top(p).n.type = "cmd" /\ frames[p] \in Seq(Fit)
  BY AtHas DEF Expects
<1>2. Top(p).n \in Node
  BY <1>1, TreeHasType DEF NodeTypes
<1>3. Top(p).n.n <= 1 /\ Top(p).n.n \in Int
  BY <1>1, <1>2, CmdHas DEF SmallArguments
<1>4. Running(p) /\ ~At(p, "binary")
  BY DEF At
<1>5. glob[p].loop_depth \in Nat
  BY <1>1, <1>4, NumberFinite DEF DeepInv, Deep
<1>6. QED BY <1>3, <1>5

\* For any number of processes, and any scripts and trees in which the conditions of while
\* and until, with all they interpret or call, have no break and no continue, and no refused
\* argument of these two is larger than 1: break and continue never ask for more levels
\* than there are loops around them, in the shell or in a child that it forked between.
\* The code behaves otherwise only where execute_while ends by the status of a condition
\* without a look at the request that it made, and where break and continue store an
\* argument before they refuse it.
THEOREM RequestsOfQuietConditions ==
  ASSUME QuietConditions, SmallArguments
  PROVE  Spec => []RequestsWithinLoops
<1>1. Spec => [](Fitting /\ DeepInv)
  BY InitStacks, StepDeep, Fits, PTL DEF Spec
<1>2. Spec => []CalmInv
  <2>1. Fitting /\ CalmInv /\ [Next]_vars => CalmInv'
    BY StepCalm
  <2>2. QED BY <1>1, <2>1, InitCalm, PTL DEF Spec
<1>3. Fitting /\ DeepInv => Refused
  BY SmallIsRefused
<1>4. Fitting /\ CalmInv => Heeded
  BY CalmIsHeeded
<1>5. QED BY <1>1, <1>2, <1>3, <1>4, RequestsConsumed, PTL
=============================================================================
