------------------------------ MODULE TashJobs ------------------------------
(***************************************************************************)
(* Process groups, the terminal and SIGINT in an interactive tash          *)
(* (src/jobs.c, with its calls in execute.c, builtin.c and parser.c).      *)
(*                                                                         *)
(* The shell, the children it has forked and the terminal take steps in    *)
(* any order.  A step is one system call or one test of sigint_break; the  *)
(* interrupt key is pressed, and a SIGINT sent to the shell by somebody    *)
(* else, between any two of them.                                          *)
(***************************************************************************)
EXTENDS Integers, Sequences

CONSTANTS
  LastPid,      \* bound: the processes are Shell..LastPid
  Scripts,      \* what somebody types: sequences of lines of commands
  SignalLimit   \* bound: how many interrupts there are

Shell == 1
Child == 2..LastPid
Process == Shell..LastPid
NoGroup == 0

\* kind is "job", a pipeline with so many stages, of which the first may read
\* the terminal; "async", the one child that executes a list in the background,
\* where what it forks stays in its group; "wait"; "eval", on a job
Command ==
  {c \in [kind : {"job", "async", "wait", "eval"}, stages : Nat, reads : BOOLEAN] :
     c.kind = "async" => c.stages = 1}

ASSUME JobsAssumption == LastPid \in Nat \ {0} /\ Scripts \subseteq Seq(Seq(Command)) /\ SignalLimit \in Nat

VARIABLES
  lines,        \* the lines that will be typed, each what parse_line gives
  list,         \* what is left of the commands of the line that is executed
  at,           \* where the shell is
  job,          \* the command it is forking or waiting for
  stages,       \* how many stages of it have to be forked yet
  group,        \* group->pid
  childs,       \* group->childs, without those waited for
  pids,         \* the last pid that has been given away
  state,        \* what each child is doing
  pgid,         \* the process group of each process
  copy,         \* group->pid as a child has it from its fork
  reads,        \* the children that will read the terminal
  simple,       \* the children that are simple commands
  killed,       \* the children that died of SIGINT
  sigint_break, \* the processes in which it is set
  tty,          \* the foreground group
  background,   \* history: the children of async commands
  struck,       \* history: an interrupt reached the shell, or killed a process of its job
  early,        \* history: a job was stopped before it was given the terminal
  eintr,        \* history: job_wait was interrupted
  signals       \* how many interrupts there have been

shellVars == <<lines, list, at, job, stages, group, childs>>
childVars == <<pids, state, copy, reads, simple, killed, background>>
jobsVars == <<shellVars, childVars, pgid, sigint_break, tty, struck, early, eintr, signals>>

NoJob == [kind |-> "wait", stages |-> 0, reads |-> FALSE]
\* a child is forked, then in its group, then has its signal handlers reset
Phase == {"none", "forked", "grouped", "ready", "running", "stopped", "zombie", "reaped"}
Living == {"forked", "grouped", "ready", "running", "stopped"}
\* SIGINT has sigint_handler, and not its default action
Handles(p) == p = Shell \/ state[p] \in {"forked", "grouped"}

(***************************************************************************)
(* The shell: interpret(), execute(), execute_pipe(), execute_async().     *)
(***************************************************************************)
ReadLine ==
  /\ at = "prompt" /\ lines # <<>>
  /\ lines' = Tail(lines) /\ list' = Head(lines)
  /\ at' = "list"
  /\ sigint_break' = sigint_break \ {Shell} /\ struck' = FALSE
  /\ UNCHANGED <<job, stages, group, childs, childVars, pgid, tty, early, eintr, signals>>

\* execute() does nothing any more once sigint_break is set
LineEnds ==
  /\ at = "list" /\ (list = <<>> \/ Shell \in sigint_break)
  /\ list' = <<>> /\ at' = "prompt"
  /\ UNCHANGED <<lines, job, stages, group, childs, childVars, pgid, sigint_break, tty, struck, early, eintr, signals>>

StartCommand ==
  /\ at = "list" /\ list # <<>> /\ Shell \notin sigint_break
  /\ job' = Head(list) /\ list' = Tail(list)
  /\ at' = CASE Head(list).kind = "wait" -> "waitany" [] Head(list).kind = "eval" -> "eval" [] OTHER -> "fork"
  /\ stages' = Head(list).stages /\ group' = NoGroup /\ childs' = <<>>
  /\ UNCHANGED <<lines, childVars, pgid, sigint_break, tty, struck, early, eintr, signals>>

\* the interpret() of eval begins as every other one does: an interrupt that came
\* after execute() has tested for it is lost
Eval ==
  /\ at = "eval"
  /\ list' = <<[job EXCEPT !.kind = "job"]>> \o list /\ at' = "list"
  /\ sigint_break' = sigint_break \ {Shell} /\ struck' = FALSE
  /\ UNCHANGED <<lines, job, stages, group, childs, childVars, pgid, tty, early, eintr, signals>>

(***************************************************************************)
(* job_fork_async(), job_fork(): the parent.                               *)
(***************************************************************************)
Fork ==
  /\ at = "fork" /\ stages > 0 /\ pids < LastPid
  /\ LET c == pids + 1 IN
     /\ pids' = c
     /\ state' = [state EXCEPT ![c] = "forked"]
     /\ copy' = [copy EXCEPT ![c] = group]
     /\ pgid' = [pgid EXCEPT ![c] = pgid[Shell]]
     /\ reads' = IF job.kind = "job" /\ job.reads /\ group = NoGroup THEN reads \cup {c} ELSE reads
     /\ simple' = IF job.kind = "job" /\ job.stages = 1 THEN simple \cup {c} ELSE simple
     /\ background' = IF job.kind = "async" THEN background \cup {c} ELSE background
     /\ sigint_break' = IF Shell \in sigint_break THEN sigint_break \cup {c} ELSE sigint_break
  /\ stages' = stages - 1 /\ at' = "parent"
  /\ UNCHANGED <<lines, list, job, group, childs, killed, tty, struck, early, eintr, signals>>

\* mutant: only the child calls setpgid
ParentSetpgid_Not ==
  /\ at = "parent"
  /\ group' = (IF group = NoGroup THEN pids ELSE group)
  /\ childs' = Append(childs, pids)
  /\ at' = "terminal"
  /\ UNCHANGED <<lines, list, job, stages, pgid, childVars, sigint_break, tty, struck, early, eintr, signals>>

\* setpgid does nothing for a process that has ended
ParentSetpgid ==
  /\ at = "parent"
  /\ group' = (IF group = NoGroup THEN pids ELSE group)
  /\ pgid' = [pgid EXCEPT ![pids] = group']
  /\ childs' = Append(childs, pids)
  /\ at' = "terminal"
  /\ UNCHANGED <<lines, list, job, stages, childVars, sigint_break, tty, struck, early, eintr, signals>>

\* mutant: a job in the background takes the terminal too
TakeTerminal_Async ==
  /\ at = "terminal"
  /\ tty' = IF group = pids THEN group ELSE tty
  /\ at' = IF stages > 0 THEN "fork" ELSE IF job.kind = "job" THEN "wait" ELSE "list"
  /\ UNCHANGED <<lines, list, job, stages, group, childs, childVars, pgid, sigint_break, struck, early, eintr, signals>>

\* mutant: the terminal goes to the job with its last stage, not with its leader
TakeTerminal_Last ==
  /\ at = "terminal"
  /\ tty' = IF job.kind = "job" /\ stages = 0 THEN group ELSE tty
  /\ at' = IF stages > 0 THEN "fork" ELSE IF job.kind = "job" THEN "wait" ELSE "list"
  /\ UNCHANGED <<lines, list, job, stages, group, childs, childVars, pgid, sigint_break, struck, early, eintr, signals>>

TakeTerminal ==
  /\ at = "terminal"
  /\ tty' = IF job.kind = "job" /\ group = pids THEN group ELSE tty
  /\ at' = IF stages > 0 THEN "fork" ELSE IF job.kind = "job" THEN "wait" ELSE "list"
  /\ UNCHANGED <<lines, list, job, stages, group, childs, childVars, pgid, sigint_break, struck, early, eintr, signals>>

(***************************************************************************)
(* job_wait(), and job_wait_pid(-1) as builtin_wait calls it.              *)
(***************************************************************************)
\* mutant: the SIGINT that killed a child is not noticed
Report_Status(c) == UNCHANGED sigint_break

\* job_report_termination
Report(c) == sigint_break' = IF c \in killed THEN sigint_break \cup {Shell} ELSE sigint_break

Wait ==
  /\ at = "wait" /\ childs # <<>> /\ state[Head(childs)] = "zombie"
  /\ state' = [state EXCEPT ![Head(childs)] = "reaped"]
  /\ Report(Head(childs))
  /\ childs' = Tail(childs)
  /\ UNCHANGED <<lines, list, at, job, stages, group, pids, copy, reads, simple, killed, background, pgid, tty, struck, early, eintr, signals>>

ReturnTerminal ==
  /\ at = "wait" /\ childs = <<>>
  /\ tty' = pgid[Shell] /\ at' = "list"
  /\ UNCHANGED <<lines, list, job, stages, group, childs, childVars, pgid, sigint_break, struck, early, eintr, signals>>

WaitAny ==
  /\ at = "waitany"
  /\ \/ /\ \E c \in Child : state[c] = "zombie" /\ state' = [state EXCEPT ![c] = "reaped"] /\ Report(c)
        /\ UNCHANGED at
     \/ /\ \A c \in Child : state[c] \in {"none", "reaped"}
        /\ at' = "list" /\ UNCHANGED <<state, sigint_break>>
  /\ UNCHANGED <<lines, list, job, stages, group, childs, pids, copy, reads, simple, killed, background, pgid, tty, struck, early, eintr, signals>>

(***************************************************************************)
(* job_fork_async(): the child, and then its program.                      *)
(***************************************************************************)
Becomes(c, phase) == state' = [state EXCEPT ![c] = phase]

\* setpgid(0, group->pid), where 0 is the caller itself
ChildSetpgid(c) ==
  /\ state[c] = "forked" /\ Becomes(c, "grouped")
  /\ pgid' = [pgid EXCEPT ![c] = IF copy[c] = NoGroup THEN c ELSE copy[c]]
  /\ UNCHANGED <<shellVars, pids, copy, reads, simple, killed, background, sigint_break, tty, struck, early, eintr, signals>>

\* job_control_setup() without TASH_JOB_CONTROL
ChildSignals(c) ==
  /\ state[c] = "grouped" /\ Becomes(c, "ready")
  /\ UNCHANGED <<shellVars, pids, copy, reads, simple, killed, background, pgid, sigint_break, tty, struck, early, eintr, signals>>

\* execute() does nothing in a child that has sigint_break from its parent or
\* from its first steps; a simple command goes on to execvp without that test
ChildExecutes(c) ==
  /\ state[c] = "ready"
  /\ Becomes(c, IF c \in sigint_break \ simple THEN "zombie" ELSE "running")
  /\ UNCHANGED <<shellVars, pids, copy, reads, simple, killed, background, pgid, sigint_break, tty, struck, early, eintr, signals>>

\* SIGTTIN stops who reads the terminal from another group
ChildReads(c) ==
  /\ state[c] = "running" /\ c \in reads
  /\ IF tty = pgid[c] THEN reads' = reads \ {c} /\ UNCHANGED <<state, early>>
     ELSE /\ Becomes(c, "stopped") /\ UNCHANGED reads
          /\ early' = (early \/ at \in {"parent", "terminal"})
  /\ UNCHANGED <<shellVars, pids, copy, simple, killed, background, pgid, sigint_break, tty, struck, eintr, signals>>

ChildEnds(c) ==
  /\ state[c] = "running" /\ c \notin reads /\ Becomes(c, "zombie")
  /\ UNCHANGED <<shellVars, pids, copy, reads, simple, killed, background, pgid, sigint_break, tty, struck, early, eintr, signals>>

(***************************************************************************)
(* SIGINT to some processes.  waitpid returns in the shell when it was     *)
(* waiting: job_wait goes on to the next child, builtin_wait ends.         *)
(***************************************************************************)
Blocked ==
  \/ at = "wait" /\ childs # <<>> /\ state[Head(childs)] # "zombie"
  \/ at = "waitany" /\ (\A c \in Child : state[c] # "zombie") /\ \E c \in Child : state[c] \in Living

Delivered(targets) ==
  LET handlers == {p \in targets : Handles(p)}
      dying == {c \in targets \ handlers : state[c] \in {"ready", "running"}}
      woken == Shell \in targets /\ Blocked
  IN  /\ signals < SignalLimit /\ signals' = signals + 1
      /\ sigint_break' = sigint_break \cup handlers
      /\ killed' = killed \cup dying
      /\ state' = [c \in Child |-> IF c \in dying THEN "zombie" ELSE state[c]]
      /\ struck' = (struck \/ (at # "prompt" /\ (Shell \in targets \/ dying # {})))
      /\ childs' = IF woken /\ at = "wait" THEN Tail(childs) ELSE childs
      /\ at' = IF woken /\ at = "waitany" THEN "list" ELSE at
      /\ eintr' = (eintr \/ (woken /\ at = "wait"))
  /\ UNCHANGED <<lines, list, job, stages, group, pids, copy, reads, simple, background, pgid, tty, early>>

\* the interrupt key
CtrlC == Delivered({p \in Process : pgid[p] = tty /\ (p = Shell \/ state[p] \in Living)})
\* kill -INT, by somebody
Kill == Delivered({Shell})

-----------------------------------------------------------------------------
JobsInit ==
  /\ lines \in Scripts /\ list = <<>> /\ at = "prompt" /\ job = NoJob
  /\ stages = 0 /\ group = NoGroup /\ childs = <<>>
  /\ pids = Shell
  /\ state = [c \in Child |-> "none"]
  /\ pgid = [p \in Process |-> Shell]
  /\ copy = [c \in Child |-> NoGroup]
  /\ reads = {} /\ simple = {} /\ killed = {} /\ sigint_break = {} /\ background = {}
  /\ tty = Shell
  /\ struck = FALSE /\ early = FALSE /\ eintr = FALSE /\ signals = 0

ShellStep ==
  \/ ReadLine \/ LineEnds \/ StartCommand \/ Eval
  \/ Fork \/ ParentSetpgid \/ TakeTerminal
  \/ Wait \/ ReturnTerminal \/ WaitAny
ChildStep(c) == ChildSetpgid(c) \/ ChildSignals(c) \/ ChildExecutes(c) \/ ChildReads(c) \/ ChildEnds(c)
JobsNext == ShellStep \/ (\E c \in Child : ChildStep(c)) \/ CtrlC \/ Kill

\* every process goes on, and programs end
JobsSpec ==
  /\ JobsInit /\ [][JobsNext]_jobsVars
  /\ WF_jobsVars(ShellStep) /\ \A c \in Child : WF_jobsVars(ChildStep(c))

-----------------------------------------------------------------------------
ShellTypes ==
  /\ lines \in Seq(Seq(Command)) /\ list \in Seq(Command) /\ job \in Command
  /\ at \in {"prompt", "list", "eval", "fork", "parent", "terminal", "wait", "waitany"}
  /\ stages \in Nat /\ group \in {NoGroup} \cup Child /\ childs \in Seq(Child)
ChildTypes ==
  /\ pids \in Process
  /\ state \in [Child -> Phase] /\ pgid \in [Process -> Process] /\ copy \in [Child -> {NoGroup} \cup Child]
  /\ reads \subseteq Child /\ simple \subseteq Child /\ killed \subseteq Child /\ background \subseteq Child
SignalTypes ==
  /\ sigint_break \subseteq Process /\ tty \in Process
  /\ struck \in BOOLEAN /\ early \in BOOLEAN /\ eintr \in BOOLEAN
  /\ signals \in Nat
TypeOK == ShellTypes /\ ChildTypes /\ SignalTypes

\* No program runs in the group of the shell, where it would get what is typed
\* and the interrupts for the shell; the stages of a job are in one group; and
\* that group exists before the terminal is given to it, whoever was first.
OwnGroups ==
  /\ pgid[Shell] = Shell
  /\ at = "terminal" => pgid[pids] = group
  /\ \A c \in Child :
       state[c] \in {"grouped", "ready", "running", "stopped", "zombie"} =>
         pgid[c] = IF copy[c] = NoGroup THEN c ELSE copy[c]

\* The terminal is the shell's whenever the shell may read a line, never that of
\* a job in the background; whoever else has it is the job that is forked or waited
\* for.  It is taken back when the whole job has ended, unless a signal has ended
\* job_wait before.
TerminalGoesRound ==
  /\ at \in {"prompt", "list", "eval", "waitany"} => tty = Shell
  /\ tty # Shell => tty = group /\ job.kind = "job"
  /\ \A c \in background : pgid[c] # Shell => pgid[c] # tty
  /\ at = "prompt" /\ ~eintr => \A c \in Child : state[c] \in {"none", "reaped"} \/ c \in background

\* An interrupt that reached the shell, or killed a process of the job in the
\* foreground, ends the line: no other command of it is started.
InterruptEndsTheLine == [][StartCommand => ~struck]_jobsVars

\* The shell gets through what is typed.  Two things keep it: a job that reads
\* the terminal before the shell has given it away is stopped, and nobody
\* continues it; and a job that has lost the terminal to an interrupted shell.
GetsBack == <>((at = "prompt" /\ lines = <<>>) \/ early \/ eintr)
=============================================================================
