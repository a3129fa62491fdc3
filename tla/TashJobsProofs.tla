--------------------------- MODULE TashJobsProofs ---------------------------
(***************************************************************************)
(* Proofs about TashJobs: the types, the process groups, who has the       *)
(* terminal, and what an interrupt ends, for any number of processes, any  *)
(* scripts and any number of interrupts.                                   *)
(***************************************************************************)
EXTENDS TashJobs, TLAPS

\* whom the interrupt key reaches
Foreground == {p \in Process : pgid[p] = tty /\ (p = Shell \/ state[p] \in Living)}

\* A pid that has not been given away has no process, the leader of a process is
\* older, and the shell sets the group of its youngest child.
PidInv ==
  /\ \A c \in Child : c > pids => state[c] = "none"
  /\ \A c \in Child : copy[c] < c /\ copy[c] <= pids
  /\ \A c \in background : c <= pids
  /\ group <= pids
  /\ at \in {"parent", "terminal"} => pids \in Child

\* the group that a process gets into
Leader(c) == IF copy[c] = NoGroup THEN c ELSE copy[c]

\* The parent and the child agree on that group.
GroupInv ==
  /\ pgid[Shell] = Shell
  /\ at = "parent" => copy[pids] = group
  /\ at = "terminal" => group = Leader(pids) /\ pgid[pids] = group
  /\ \A c \in Child :
       state[c] \in {"grouped", "ready", "running", "stopped", "zombie"} => pgid[c] = Leader(c)

\* The groups of the background and of the job in the foreground have nothing in common.
JobInv ==
  /\ at \in {"fork", "parent", "terminal"} => job.kind \in {"job", "async"}
  /\ at \in {"parent", "terminal"} => (pids \in background <=> job.kind = "async")
  /\ job.kind = "job" => group \notin background
  /\ job.kind = "async" => /\ group \in {NoGroup} \cup background
                           /\ \A i \in DOMAIN childs : childs[i] \in background
  /\ \A c \in background : /\ pgid[c] \in {Shell} \cup background
                           /\ copy[c] \in {NoGroup} \cup background

\* the shell is not at a job
Idle == at \in {"prompt", "list", "eval", "waitany"}

\* The terminal is lent to nobody but the job.
TtyInv ==
  /\ Idle => tty = Shell
  /\ tty # Shell => tty = group /\ job.kind = "job"

\* job_wait will come to this child
Waited(c) == (\E i \in DOMAIN childs : childs[i] = c) \/ (at = "parent" /\ c = pids)

\* Without a signal no process of a job is forgotten.
WaitedInv ==
  ~eintr => \A c \in Child :
    state[c] \in {"none", "reaped"} \/ c \in background \/ (~Idle /\ Waited(c))

\* An interrupt has reached the shell, or will with the status of a child.
StruckInv ==
  /\ struck => \/ Shell \in sigint_break
               \/ ~Idle /\ \E c \in killed \ background : state[c] = "zombie" /\ Waited(c)
  /\ ~Idle /\ Shell \notin sigint_break /\ group # NoGroup =>
       \A c \in Child : Leader(c) = group /\ state[c] \notin {"none", "reaped"} => Waited(c)

\* Every step is one of the shell, one of a child, or an interrupt.
LEMMA Steps ==
  ASSUME [JobsNext]_jobsVars, NEW G,
         ReadLine => G, LineEnds => G, StartCommand => G, Eval => G, Fork => G,
         ParentSetpgid => G, TakeTerminal => G, Wait => G, ReturnTerminal => G, WaitAny => G,
         \A c \in Child : ChildSetpgid(c) => G, \A c \in Child : ChildSignals(c) => G,
         \A c \in Child : ChildExecutes(c) => G, \A c \in Child : ChildReads(c) => G,
         \A c \in Child : ChildEnds(c) => G,
         \A targets \in SUBSET Process :
           Delivered(targets) /\ (targets = {Shell} \/ targets = Foreground) => G,
         UNCHANGED jobsVars => G
  PROVE  G
PROOF
<1>1. Foreground \in SUBSET Process
  BY DEF Foreground
<1>2. {Shell} \in SUBSET Process
  BY JobsAssumption DEF Shell, Process
<1>3. CASE ShellStep
  BY <1>3 DEF ShellStep
<1>4. CASE \E c \in Child : ChildStep(c)
  BY <1>4 DEF ChildStep
<1>5. CASE CtrlC
  BY <1>1, <1>5 DEF CtrlC, Foreground
<1>6. CASE Kill
  BY <1>2, <1>6 DEF Kill
<1>7. QED BY <1>3, <1>4, <1>5, <1>6 DEF JobsNext

\* The shell's own variables.
LEMMA ShellTypesStep ==
  ASSUME TypeOK, PidInv, [JobsNext]_jobsVars
  PROVE  ShellTypes'
PROOF
<1>1. CASE ReadLine
  BY <1>1 DEF ReadLine, childVars, TypeOK, ShellTypes
<1>2. CASE LineEnds
  BY <1>2 DEF LineEnds, childVars, TypeOK, ShellTypes
<1>3. CASE StartCommand
  <2>1. Head(list) \in Command /\ Tail(list) \in Seq(Command)
    BY <1>3 DEF StartCommand, TypeOK, ShellTypes
  <2>2. Head(list).stages \in Nat
    BY <2>1 DEF Command
  <2>3. QED BY <1>3, <2>1, <2>2 DEF StartCommand, childVars, TypeOK, ShellTypes
<1>4. CASE Eval
  <2>1. [job EXCEPT !.kind = "job"] \in Command
    BY DEF TypeOK, ShellTypes, Command
  <2>2. <<[job EXCEPT !.kind = "job"]>> \o list \in Seq(Command)
    BY <2>1 DEF TypeOK, ShellTypes
  <2>3. QED BY <1>4, <2>2 DEF Eval, childVars, TypeOK, ShellTypes
<1>5. CASE Fork
  BY <1>5 DEF Fork, TypeOK, ShellTypes
<1>6. CASE ParentSetpgid
  BY <1>6, PidInv, JobsAssumption DEF ParentSetpgid, childVars, PidInv, TypeOK, ShellTypes
<1>7. CASE TakeTerminal
  BY <1>7 DEF TakeTerminal, childVars, TypeOK, ShellTypes
<1>8. CASE Wait
  BY <1>8 DEF Wait, Report, TypeOK, ShellTypes
<1>9. CASE ReturnTerminal
  BY <1>9 DEF ReturnTerminal, childVars, TypeOK, ShellTypes
<1>10. CASE WaitAny
  BY <1>10 DEF WaitAny, Report, TypeOK, ShellTypes
<1>11. ASSUME NEW c \in Child, ChildSetpgid(c) PROVE ShellTypes'
  BY <1>11 DEF ChildSetpgid, Becomes, shellVars, TypeOK, ShellTypes
<1>12. ASSUME NEW c \in Child, ChildSignals(c) PROVE ShellTypes'
  BY <1>12 DEF ChildSignals, Becomes, shellVars, TypeOK, ShellTypes
<1>13. ASSUME NEW c \in Child, ChildExecutes(c) PROVE ShellTypes'
  BY <1>13 DEF ChildExecutes, Becomes, shellVars, TypeOK, ShellTypes
<1>14. ASSUME NEW c \in Child, ChildReads(c) PROVE ShellTypes'
  BY <1>14 DEF ChildReads, Becomes, shellVars, TypeOK, ShellTypes
<1>15. ASSUME NEW c \in Child, ChildEnds(c) PROVE ShellTypes'
  BY <1>15 DEF ChildEnds, Becomes, shellVars, TypeOK, ShellTypes
<1>16. ASSUME NEW targets \in SUBSET Process, Delivered(targets), targets = {Shell} \/ targets = Foreground PROVE ShellTypes'
  BY <1>16 DEF Delivered, Blocked, Living, TypeOK, ShellTypes
<1>17. CASE UNCHANGED jobsVars
  BY <1>17 DEF jobsVars, shellVars, childVars, TypeOK, ShellTypes
<1>18. QED BY <1>1, <1>2, <1>3, <1>4, <1>5, <1>6, <1>7, <1>8, <1>9, <1>10, <1>11, <1>12, <1>13, <1>14, <1>15, <1>16, <1>17, Steps

\* The processes.
LEMMA ChildTypesStep ==
  ASSUME TypeOK, PidInv, [JobsNext]_jobsVars
  PROVE  ChildTypes'
PROOF
<1>1. CASE ReadLine
  BY <1>1 DEF ReadLine, childVars, TypeOK, ShellTypes, ChildTypes
<1>2. CASE LineEnds
  BY <1>2 DEF LineEnds, childVars, TypeOK, ShellTypes, ChildTypes
<1>3. CASE StartCommand
  BY <1>3 DEF StartCommand, childVars, TypeOK, ShellTypes, ChildTypes
<1>4. CASE Eval
  BY <1>4 DEF Eval, childVars, TypeOK, ShellTypes, ChildTypes
<1>5. CASE Fork
  <2>1. pids + 1 \in Child /\ pids + 1 \in Process /\ Shell \in Process
    BY <1>5, JobsAssumption DEF Fork, TypeOK, ShellTypes, ChildTypes, Child, Process, Shell
  <2>2. pgid[Shell] \in Process
    BY <2>1 DEF TypeOK, ShellTypes, ChildTypes
  <2>3. state' \in [Child -> Phase] /\ pgid' \in [Process -> Process]
    BY <1>5, <2>1, <2>2 DEF Fork, TypeOK, ShellTypes, ChildTypes, Phase
  <2>4. copy' \in [Child -> {NoGroup} \cup Child] /\ pids' \in Process
    BY <1>5, <2>1 DEF Fork, TypeOK, ShellTypes, ChildTypes
  <2>5. reads' \subseteq Child /\ simple' \subseteq Child /\ killed' \subseteq Child /\ background' \subseteq Child
    BY <1>5, <2>1 DEF Fork, TypeOK, ShellTypes, ChildTypes
  <2>6. QED BY <2>3, <2>4, <2>5 DEF ChildTypes
<1>6. CASE ParentSetpgid
  <2>1. pids \in Child /\ Child \subseteq Process
    BY <1>6 DEF ParentSetpgid, PidInv, Child, Process, Shell
  <2>2. group' \in Process
    BY <1>6, <2>1 DEF ParentSetpgid, TypeOK, ShellTypes, ChildTypes
  <2>3. pgid' \in [Process -> Process]
    BY <1>6, <2>2 DEF ParentSetpgid, TypeOK, ShellTypes, ChildTypes
  <2>4. QED BY <1>6, <2>3 DEF ParentSetpgid, childVars, TypeOK, ShellTypes, ChildTypes
<1>7. CASE TakeTerminal
  BY <1>7 DEF TakeTerminal, childVars, TypeOK, ShellTypes, ChildTypes
<1>8. CASE Wait
  BY <1>8 DEF Wait, TypeOK, ShellTypes, ChildTypes, Phase
<1>9. CASE ReturnTerminal
  BY <1>9 DEF ReturnTerminal, childVars, TypeOK, ShellTypes, ChildTypes
<1>10. CASE WaitAny
  BY <1>10 DEF WaitAny, TypeOK, ShellTypes, ChildTypes, Phase
<1>11. ASSUME NEW c \in Child, ChildSetpgid(c) PROVE ChildTypes'
  <2>1. Child \subseteq Process
    BY DEF Child, Process, Shell
  <2>2. pgid' \in [Process -> Process]
    BY <1>11, <2>1 DEF ChildSetpgid, TypeOK, ShellTypes, ChildTypes
  <2>3. QED BY <1>11, <2>2 DEF ChildSetpgid, Becomes, shellVars, TypeOK, ShellTypes, ChildTypes, Phase
<1>12. ASSUME NEW c \in Child, ChildSignals(c) PROVE ChildTypes'
  BY <1>12 DEF ChildSignals, Becomes, shellVars, TypeOK, ShellTypes, ChildTypes, Phase
<1>13. ASSUME NEW c \in Child, ChildExecutes(c) PROVE ChildTypes'
  BY <1>13 DEF ChildExecutes, Becomes, shellVars, TypeOK, ShellTypes, ChildTypes, Phase
<1>14. ASSUME NEW c \in Child, ChildReads(c) PROVE ChildTypes'
  BY <1>14 DEF ChildReads, Becomes, shellVars, TypeOK, ShellTypes, ChildTypes, Phase
<1>15. ASSUME NEW c \in Child, ChildEnds(c) PROVE ChildTypes'
  BY <1>15 DEF ChildEnds, Becomes, shellVars, TypeOK, ShellTypes, ChildTypes, Phase
<1>16. ASSUME NEW targets \in SUBSET Process, Delivered(targets), targets = {Shell} \/ targets = Foreground PROVE ChildTypes'
  <2>1. state' \in [Child -> Phase]
    BY <1>16 DEF Delivered, TypeOK, ShellTypes, ChildTypes, Phase
  <2>2. killed' \subseteq Child
    <3>1. \A c \in targets : ~Handles(c) => c \in Child
      BY <1>16 DEF Handles, Process, Child, Shell
    <3>2. QED BY <1>16, <3>1 DEF Delivered, TypeOK, ShellTypes, ChildTypes
  <2>3. QED BY <1>16, <2>1, <2>2 DEF Delivered, TypeOK, ShellTypes, ChildTypes
<1>17. CASE UNCHANGED jobsVars
  BY <1>17 DEF jobsVars, shellVars, childVars, TypeOK, ShellTypes, ChildTypes
<1>18. QED BY <1>1, <1>2, <1>3, <1>4, <1>5, <1>6, <1>7, <1>8, <1>9, <1>10, <1>11, <1>12, <1>13, <1>14, <1>15, <1>16, <1>17, Steps

\* Signals and the terminal.
LEMMA SignalTypesStep ==
  ASSUME TypeOK, [JobsNext]_jobsVars
  PROVE  SignalTypes'
PROOF
<1>1. CASE ReadLine
  BY <1>1 DEF ReadLine, childVars, TypeOK, ShellTypes, ChildTypes, SignalTypes
<1>2. CASE LineEnds
  BY <1>2 DEF LineEnds, childVars, TypeOK, ShellTypes, ChildTypes, SignalTypes
<1>3. CASE StartCommand
  BY <1>3 DEF StartCommand, childVars, TypeOK, ShellTypes, ChildTypes, SignalTypes
<1>4. CASE Eval
  BY <1>4 DEF Eval, childVars, TypeOK, ShellTypes, ChildTypes, SignalTypes
<1>5. CASE Fork
  <2>1. pids + 1 \in Process
    BY <1>5, JobsAssumption DEF Fork, TypeOK, ShellTypes, ChildTypes, SignalTypes, Process, Shell
  <2>2. QED BY <1>5, <2>1 DEF Fork, TypeOK, ShellTypes, ChildTypes, SignalTypes
<1>6. CASE ParentSetpgid
  BY <1>6 DEF ParentSetpgid, childVars, TypeOK, ShellTypes, ChildTypes, SignalTypes
<1>7. CASE TakeTerminal
  BY <1>7 DEF TakeTerminal, TypeOK, ShellTypes, ChildTypes, SignalTypes, Process, Child, NoGroup
<1>8. CASE Wait
  BY <1>8, JobsAssumption DEF Wait, Report, TypeOK, ShellTypes, ChildTypes, SignalTypes, Process, Shell
<1>9. CASE ReturnTerminal
  BY <1>9, JobsAssumption DEF ReturnTerminal, TypeOK, ShellTypes, ChildTypes, SignalTypes, Process, Shell
<1>10. CASE WaitAny
  <2>1. Shell \in Process
    BY JobsAssumption DEF Process, Shell
  <2>2. QED BY <1>10, <2>1 DEF WaitAny, Report, TypeOK, ShellTypes, ChildTypes, SignalTypes
<1>11. ASSUME NEW c \in Child, ChildSetpgid(c) PROVE SignalTypes'
  BY <1>11 DEF ChildSetpgid, Becomes, shellVars, TypeOK, ShellTypes, ChildTypes, SignalTypes
<1>12. ASSUME NEW c \in Child, ChildSignals(c) PROVE SignalTypes'
  BY <1>12 DEF ChildSignals, Becomes, shellVars, TypeOK, ShellTypes, ChildTypes, SignalTypes
<1>13. ASSUME NEW c \in Child, ChildExecutes(c) PROVE SignalTypes'
  BY <1>13 DEF ChildExecutes, Becomes, shellVars, TypeOK, ShellTypes, ChildTypes, SignalTypes
<1>14. ASSUME NEW c \in Child, ChildReads(c) PROVE SignalTypes'
  BY <1>14 DEF ChildReads, Becomes, shellVars, TypeOK, ShellTypes, ChildTypes, SignalTypes
<1>15. ASSUME NEW c \in Child, ChildEnds(c) PROVE SignalTypes'
  BY <1>15 DEF ChildEnds, Becomes, shellVars, TypeOK, ShellTypes, ChildTypes, SignalTypes
<1>16. ASSUME NEW targets \in SUBSET Process, Delivered(targets), targets = {Shell} \/ targets = Foreground PROVE SignalTypes'
  BY <1>16 DEF Delivered, Blocked, Living, TypeOK, ShellTypes, ChildTypes, SignalTypes
<1>17. CASE UNCHANGED jobsVars
  BY <1>17 DEF jobsVars, shellVars, childVars, TypeOK, ShellTypes, ChildTypes, SignalTypes
<1>18. QED BY <1>1, <1>2, <1>3, <1>4, <1>5, <1>6, <1>7, <1>8, <1>9, <1>10, <1>11, <1>12, <1>13, <1>14, <1>15, <1>16, <1>17, Steps

\* The child that is forked, and the others.
LEMMA Forked ==
  ASSUME TypeOK, PidInv, Fork
  PROVE  /\ pids' \in Child /\ pids' # Shell /\ pids' = pids + 1 /\ pids \in Nat
         /\ state[pids'] = "none" /\ state'[pids'] = "forked" /\ copy'[pids'] = group /\ pgid'[pids'] = pgid[Shell]
         /\ \A c \in Child : c # pids' => state'[c] = state[c] /\ copy'[c] = copy[c] /\ pgid'[c] = pgid[c]
         /\ pgid'[Shell] = pgid[Shell] /\ Shell \in Process
         /\ pids' \notin background
         /\ background' = (IF job.kind = "async" THEN background \cup {pids'} ELSE background)
PROOF
<1>1. pids' \in Child /\ pids' # Shell /\ pids' = pids + 1 /\ pids \in Nat /\ Shell \in Process
  BY JobsAssumption DEF Fork, TypeOK, ChildTypes, Process, Child, Shell
<1>2. state[pids'] = "none" /\ pids' \notin background
  BY <1>1 DEF PidInv, Child
<1>3. pids' \in Process
  BY <1>1 DEF Child, Process, Shell
<1>4. state'[pids'] = "forked" /\ copy'[pids'] = group /\ pgid'[pids'] = pgid[Shell]
  BY <1>1, <1>3 DEF Fork, TypeOK, ChildTypes
<1>5. \A c \in Child : c # pids' => state'[c] = state[c] /\ copy'[c] = copy[c] /\ pgid'[c] = pgid[c]
  BY <1>1 DEF Fork, TypeOK, ChildTypes, Child, Process, Shell
<1>6. pgid'[Shell] = pgid[Shell]
  BY <1>1 DEF Fork, TypeOK, ChildTypes
<1>7. background' = (IF job.kind = "async" THEN background \cup {pids'} ELSE background)
  BY <1>1 DEF Fork
<1>8. QED BY <1>1, <1>2, <1>4, <1>5, <1>6, <1>7

\* What the parent does with it.
LEMMA Joined ==
  ASSUME TypeOK, PidInv, ParentSetpgid
  PROVE  /\ pids \in Child /\ pids # Shell /\ group' = (IF group = NoGroup THEN pids ELSE group)
         /\ pgid'[pids] = group' /\ \A p \in Process : p # pids => pgid'[p] = pgid[p]
         /\ childs' = Append(childs, pids) /\ at' = "terminal"
         /\ \E i \in DOMAIN childs' : childs'[i] = pids
         /\ \A c : (\E i \in DOMAIN childs : childs[i] = c) => \E i \in DOMAIN childs' : childs'[i] = c
         /\ \A i \in DOMAIN childs' : childs'[i] = pids \/ \E k \in DOMAIN childs : childs[k] = childs'[i]
PROOF
<1>1. pids \in Child /\ pids \in Process /\ pids # Shell
  BY DEF ParentSetpgid, PidInv, TypeOK, ChildTypes, Child, Shell
<1>2. /\ group' = (IF group = NoGroup THEN pids ELSE group)
      /\ childs' = Append(childs, pids) /\ at' = "terminal"
  BY DEF ParentSetpgid
<1>3. pgid'[pids] = group' /\ \A p \in Process : p # pids => pgid'[p] = pgid[p]
  BY <1>1 DEF ParentSetpgid, TypeOK, ChildTypes
<1>4. childs \in Seq(Child)
  BY DEF TypeOK, ShellTypes
<1>5. \E i \in DOMAIN childs' : childs'[i] = pids
  <2>1. Len(childs) + 1 \in DOMAIN childs' /\ childs'[Len(childs) + 1] = pids
    BY <1>1, <1>2, <1>4
  <2>2. QED BY <2>1
<1>6. \A i \in DOMAIN childs : i \in DOMAIN childs' /\ childs'[i] = childs[i]
  BY <1>1, <1>2, <1>4
<1>7. \A i \in DOMAIN childs' : childs'[i] = pids \/ (i \in DOMAIN childs /\ childs'[i] = childs[i])
  BY <1>1, <1>2, <1>4
<1>8. QED BY <1>1, <1>2, <1>3, <1>5, <1>6, <1>7

\* What is left in a list of children without its head.
LEMMA WithoutHead ==
  ASSUME TypeOK, childs # <<>>
  PROVE  /\ Head(childs) \in Child
         /\ \A c : (\E i \in DOMAIN childs : childs[i] = c) /\ c # Head(childs) =>
                     \E i \in DOMAIN Tail(childs) : Tail(childs)[i] = c
         /\ \A i \in DOMAIN Tail(childs) : \E k \in DOMAIN childs : childs[k] = Tail(childs)[i]
PROOF
<1>1. childs \in Seq(Child)
  BY DEF TypeOK, ShellTypes
<1>2. Head(childs) = childs[1] /\ Head(childs) \in Child
  BY <1>1
<1>3. \A i \in DOMAIN childs : i # 1 => i - 1 \in DOMAIN Tail(childs) /\ Tail(childs)[i - 1] = childs[i]
  BY <1>1
<1>4. \A i \in DOMAIN Tail(childs) : i + 1 \in DOMAIN childs /\ childs[i + 1] = Tail(childs)[i]
  BY <1>1
<1>5. QED BY <1>2, <1>3, <1>4

\* Pids are given away in order.
LEMMA PidStep ==
  ASSUME TypeOK, PidInv, [JobsNext]_jobsVars
  PROVE  PidInv'
PROOF
<1>1. CASE ReadLine
  BY <1>1 DEF ReadLine, childVars, PidInv, TypeOK, ShellTypes, ChildTypes, Child, Process, Shell, NoGroup
<1>2. CASE LineEnds
  BY <1>2 DEF LineEnds, childVars, PidInv, TypeOK, ShellTypes, ChildTypes, Child, Process, Shell, NoGroup
<1>3. CASE StartCommand
  BY <1>3 DEF StartCommand, childVars, PidInv, TypeOK, ShellTypes, ChildTypes, Child, Process, Shell, NoGroup
<1>4. CASE Eval
  BY <1>4 DEF Eval, childVars, PidInv, TypeOK, ShellTypes, ChildTypes, Child, Process, Shell, NoGroup
<1>5. CASE Fork
  <2>1. at' = "parent" /\ group' = group
    BY <1>5 DEF Fork
  <2>2. \A c \in Child : c \in Int
    BY DEF Child
  <2>3. group \in Int
    BY <2>2 DEF TypeOK, ShellTypes, NoGroup
  <2>4. \A c \in Child : c > pids' => state'[c] = "none"
    BY <1>5, <2>2, Forked DEF PidInv
  <2>5. \A c \in Child : copy'[c] < c /\ copy'[c] <= pids'
    <3>1. \A c \in Child : copy[c] \in Int
      BY <2>2 DEF TypeOK, ChildTypes, NoGroup
    <3>2. group <= pids /\ group < pids' /\ pids' \in Int
      BY <1>5, <2>2, <2>3, Forked DEF PidInv
    <3>3. \A c \in Child : c # pids' => copy'[c] < c /\ copy'[c] <= pids'
      BY <1>5, <2>2, <3>1, Forked DEF PidInv
    <3>4. copy'[pids'] < pids' /\ copy'[pids'] <= pids'
      BY <2>3, <3>2, Forked, <1>5
    <3>5. QED BY <3>3, <3>4
  <2>6. \A c \in background' : c <= pids'
    <3>1. background \subseteq Child
      BY DEF TypeOK, ChildTypes
    <3>2. QED BY <1>5, <2>2, <3>1, Forked DEF PidInv
  <2>7. QED BY <1>5, <2>1, <2>3, <2>4, <2>5, <2>6, Forked DEF PidInv
<1>6. CASE ParentSetpgid
  BY <1>6 DEF ParentSetpgid, childVars, PidInv, TypeOK, ShellTypes, ChildTypes, Child, Process, Shell, NoGroup
<1>7. CASE TakeTerminal
  BY <1>7 DEF TakeTerminal, childVars, PidInv, TypeOK, ShellTypes, ChildTypes, Child, Process, Shell, NoGroup
<1>8. CASE Wait
  BY <1>8 DEF Wait, Report, PidInv, TypeOK, ShellTypes, ChildTypes, Child, Process, Shell, NoGroup
<1>9. CASE ReturnTerminal
  BY <1>9 DEF ReturnTerminal, childVars, PidInv, TypeOK, ShellTypes, ChildTypes, Child, Process, Shell, NoGroup
<1>10. CASE WaitAny
  BY <1>10 DEF WaitAny, Report, PidInv, TypeOK, ShellTypes, ChildTypes, Child, Process, Shell, NoGroup
<1>11. ASSUME NEW c \in Child, ChildSetpgid(c) PROVE PidInv'
  BY <1>11 DEF ChildSetpgid, Becomes, shellVars, PidInv, TypeOK, ShellTypes, ChildTypes, Child, Process, Shell, NoGroup
<1>12. ASSUME NEW c \in Child, ChildSignals(c) PROVE PidInv'
  BY <1>12 DEF ChildSignals, Becomes, shellVars, PidInv, TypeOK, ShellTypes, ChildTypes, Child, Process, Shell, NoGroup
<1>13. ASSUME NEW c \in Child, ChildExecutes(c) PROVE PidInv'
  BY <1>13 DEF ChildExecutes, Becomes, shellVars, PidInv, TypeOK, ShellTypes, ChildTypes, Child, Process, Shell, NoGroup
<1>14. ASSUME NEW c \in Child, ChildReads(c) PROVE PidInv'
  BY <1>14 DEF ChildReads, Becomes, shellVars, PidInv, TypeOK, ShellTypes, ChildTypes, Child, Process, Shell, NoGroup
<1>15. ASSUME NEW c \in Child, ChildEnds(c) PROVE PidInv'
  BY <1>15 DEF ChildEnds, Becomes, shellVars, PidInv, TypeOK, ShellTypes, ChildTypes, Child, Process, Shell, NoGroup
<1>16. ASSUME NEW targets \in SUBSET Process, Delivered(targets), targets = {Shell} \/ targets = Foreground PROVE PidInv'
  BY <1>16 DEF Delivered, Blocked, Living, PidInv, TypeOK, ShellTypes, ChildTypes, Child, Process, Shell, NoGroup
<1>17. CASE UNCHANGED jobsVars
  BY <1>17 DEF jobsVars, shellVars, childVars, PidInv, TypeOK, ShellTypes, ChildTypes, Child, Process, Shell, NoGroup
<1>18. QED BY <1>1, <1>2, <1>3, <1>4, <1>5, <1>6, <1>7, <1>8, <1>9, <1>10, <1>11, <1>12, <1>13, <1>14, <1>15, <1>16, <1>17, Steps

\* Every order of the two setpgid gives the same group.
LEMMA GroupStep ==
  ASSUME TypeOK, PidInv, GroupInv, [JobsNext]_jobsVars
  PROVE  GroupInv'
PROOF
<1>1. CASE ReadLine
  BY <1>1 DEF ReadLine, childVars, GroupInv, Leader, PidInv, TypeOK, ShellTypes, ChildTypes, Child, Process, Shell, NoGroup
<1>2. CASE LineEnds
  BY <1>2 DEF LineEnds, childVars, GroupInv, Leader, PidInv, TypeOK, ShellTypes, ChildTypes, Child, Process, Shell, NoGroup
<1>3. CASE StartCommand
  BY <1>3 DEF StartCommand, childVars, GroupInv, Leader, PidInv, TypeOK, ShellTypes, ChildTypes, Child, Process, Shell, NoGroup
<1>4. CASE Eval
  BY <1>4 DEF Eval, childVars, GroupInv, Leader, PidInv, TypeOK, ShellTypes, ChildTypes, Child, Process, Shell, NoGroup
<1>5. CASE Fork
  <2>1. at' = "parent" /\ group' = group
    BY <1>5 DEF Fork
  <2>2. QED BY <1>5, <2>1, Forked DEF GroupInv, Leader
<1>6. CASE ParentSetpgid
  BY <1>6 DEF ParentSetpgid, childVars, GroupInv, Leader, PidInv, TypeOK, ShellTypes, ChildTypes, Child, Process, Shell, NoGroup
<1>7. CASE TakeTerminal
  BY <1>7 DEF TakeTerminal, childVars, GroupInv, Leader, PidInv, TypeOK, ShellTypes, ChildTypes, Child, Process, Shell, NoGroup
<1>8. CASE Wait
  BY <1>8 DEF Wait, Report, GroupInv, Leader, PidInv, TypeOK, ShellTypes, ChildTypes, Child, Process, Shell, NoGroup
<1>9. CASE ReturnTerminal
  BY <1>9 DEF ReturnTerminal, childVars, GroupInv, Leader, PidInv, TypeOK, ShellTypes, ChildTypes, Child, Process, Shell, NoGroup
<1>10. CASE WaitAny
  BY <1>10 DEF WaitAny, Report, GroupInv, Leader, PidInv, TypeOK, ShellTypes, ChildTypes, Child, Process, Shell, NoGroup
<1>11. ASSUME NEW c \in Child, ChildSetpgid(c) PROVE GroupInv'
  BY <1>11 DEF ChildSetpgid, Becomes, shellVars, GroupInv, Leader, PidInv, TypeOK, ShellTypes, ChildTypes, Child, Process, Shell, NoGroup
<1>12. ASSUME NEW c \in Child, ChildSignals(c) PROVE GroupInv'
  BY <1>12 DEF ChildSignals, Becomes, shellVars, GroupInv, Leader, PidInv, TypeOK, ShellTypes, ChildTypes, Child, Process, Shell, NoGroup
<1>13. ASSUME NEW c \in Child, ChildExecutes(c) PROVE GroupInv'
  BY <1>13 DEF ChildExecutes, Becomes, shellVars, GroupInv, Leader, PidInv, TypeOK, ShellTypes, ChildTypes, Child, Process, Shell, NoGroup
<1>14. ASSUME NEW c \in Child, ChildReads(c) PROVE GroupInv'
  BY <1>14 DEF ChildReads, Becomes, shellVars, GroupInv, Leader, PidInv, TypeOK, ShellTypes, ChildTypes, Child, Process, Shell, NoGroup
<1>15. ASSUME NEW c \in Child, ChildEnds(c) PROVE GroupInv'
  BY <1>15 DEF ChildEnds, Becomes, shellVars, GroupInv, Leader, PidInv, TypeOK, ShellTypes, ChildTypes, Child, Process, Shell, NoGroup
<1>16. ASSUME NEW targets \in SUBSET Process, Delivered(targets), targets = {Shell} \/ targets = Foreground PROVE GroupInv'
  BY <1>16 DEF Delivered, Blocked, Living, GroupInv, Leader, PidInv, TypeOK, ShellTypes, ChildTypes, Child, Process, Shell, NoGroup
<1>17. CASE UNCHANGED jobsVars
  BY <1>17 DEF jobsVars, shellVars, childVars, GroupInv, Leader, PidInv, TypeOK, ShellTypes, ChildTypes, Child, Process, Shell, NoGroup
<1>18. QED BY <1>1, <1>2, <1>3, <1>4, <1>5, <1>6, <1>7, <1>8, <1>9, <1>10, <1>11, <1>12, <1>13, <1>14, <1>15, <1>16, <1>17, Steps

\* Background and foreground stay apart.
LEMMA JobStep ==
  ASSUME TypeOK, PidInv, GroupInv, JobInv, [JobsNext]_jobsVars
  PROVE  JobInv'
PROOF
<1>1. CASE ReadLine
  BY <1>1 DEF ReadLine, childVars, JobInv, GroupInv, Leader, PidInv, TypeOK, ShellTypes, ChildTypes, Child, Process, Shell, NoGroup
<1>2. CASE LineEnds
  BY <1>2 DEF LineEnds, childVars, JobInv, GroupInv, Leader, PidInv, TypeOK, ShellTypes, ChildTypes, Child, Process, Shell, NoGroup
<1>3. CASE StartCommand
  <2>1. Head(list).kind \in {"job", "async", "wait", "eval"}
    <3>1. Head(list) \in Command
      BY <1>3 DEF StartCommand, TypeOK, ShellTypes
    <3>2. QED BY <3>1 DEF Command
  <2>2. NoGroup \notin background
    BY DEF TypeOK, ChildTypes, Child, NoGroup
  <2>3. QED BY <1>3, <2>1, <2>2 DEF StartCommand, childVars, JobInv
<1>4. CASE Eval
  BY <1>4 DEF Eval, childVars, JobInv, GroupInv, Leader, PidInv, TypeOK, ShellTypes, ChildTypes, Child, Process, Shell, NoGroup
<1>5. CASE Fork
  <2>1. at' = "parent" /\ group' = group /\ job' = job /\ childs' = childs /\ at = "fork"
    BY <1>5 DEF Fork
  <2>2. background \subseteq Child
    BY DEF TypeOK, ChildTypes
  <2>3. \A c \in background' : pgid'[c] \in {Shell} \cup background' /\ copy'[c] \in {NoGroup} \cup background'
    BY <1>5, <2>1, <2>2, Forked DEF JobInv, GroupInv
  <2>4. job.kind = "job" => group \notin background'
    BY <1>5, <2>1, <2>2, Forked DEF JobInv
  <2>5. QED BY <1>5, <2>1, <2>2, <2>3, <2>4, Forked DEF JobInv
<1>6. CASE ParentSetpgid
  <2>1. background' = background /\ job' = job /\ copy' = copy /\ pids' = pids /\ at = "parent"
    BY <1>6 DEF ParentSetpgid, childVars
  <2>2. background \subseteq Child /\ Child \subseteq Process
    BY DEF TypeOK, ChildTypes, Child, Process, Shell
  <2>3. QED BY <1>6, <2>1, <2>2, Joined DEF JobInv
<1>7. CASE TakeTerminal
  BY <1>7 DEF TakeTerminal, childVars, JobInv, GroupInv, Leader, PidInv, TypeOK, ShellTypes, ChildTypes, Child, Process, Shell, NoGroup
<1>8. CASE Wait
  BY <1>8 DEF Wait, Report, JobInv, GroupInv, Leader, PidInv, TypeOK, ShellTypes, ChildTypes, Child, Process, Shell, NoGroup
<1>9. CASE ReturnTerminal
  BY <1>9 DEF ReturnTerminal, childVars, JobInv, GroupInv, Leader, PidInv, TypeOK, ShellTypes, ChildTypes, Child, Process, Shell, NoGroup
<1>10. CASE WaitAny
  BY <1>10 DEF WaitAny, Report, JobInv, GroupInv, Leader, PidInv, TypeOK, ShellTypes, ChildTypes, Child, Process, Shell, NoGroup
<1>11. ASSUME NEW c \in Child, ChildSetpgid(c) PROVE JobInv'
  BY <1>11 DEF ChildSetpgid, Becomes, shellVars, JobInv, GroupInv, Leader, PidInv, TypeOK, ShellTypes, ChildTypes, Child, Process, Shell, NoGroup
<1>12. ASSUME NEW c \in Child, ChildSignals(c) PROVE JobInv'
  BY <1>12 DEF ChildSignals, Becomes, shellVars, JobInv, GroupInv, Leader, PidInv, TypeOK, ShellTypes, ChildTypes, Child, Process, Shell, NoGroup
<1>13. ASSUME NEW c \in Child, ChildExecutes(c) PROVE JobInv'
  BY <1>13 DEF ChildExecutes, Becomes, shellVars, JobInv, GroupInv, Leader, PidInv, TypeOK, ShellTypes, ChildTypes, Child, Process, Shell, NoGroup
<1>14. ASSUME NEW c \in Child, ChildReads(c) PROVE JobInv'
  BY <1>14 DEF ChildReads, Becomes, shellVars, JobInv, GroupInv, Leader, PidInv, TypeOK, ShellTypes, ChildTypes, Child, Process, Shell, NoGroup
<1>15. ASSUME NEW c \in Child, ChildEnds(c) PROVE JobInv'
  BY <1>15 DEF ChildEnds, Becomes, shellVars, JobInv, GroupInv, Leader, PidInv, TypeOK, ShellTypes, ChildTypes, Child, Process, Shell, NoGroup
<1>16. ASSUME NEW targets \in SUBSET Process, Delivered(targets), targets = {Shell} \/ targets = Foreground PROVE JobInv'
  BY <1>16 DEF Delivered, Blocked, Living, JobInv, GroupInv, Leader, PidInv, TypeOK, ShellTypes, ChildTypes, Child, Process, Shell, NoGroup
<1>17. CASE UNCHANGED jobsVars
  BY <1>17 DEF jobsVars, shellVars, childVars, JobInv, GroupInv, Leader, PidInv, TypeOK, ShellTypes, ChildTypes, Child, Process, Shell, NoGroup
<1>18. QED BY <1>1, <1>2, <1>3, <1>4, <1>5, <1>6, <1>7, <1>8, <1>9, <1>10, <1>11, <1>12, <1>13, <1>14, <1>15, <1>16, <1>17, Steps

\* The terminal.
LEMMA TtyStep ==
  ASSUME TypeOK, PidInv, GroupInv, JobInv, TtyInv, [JobsNext]_jobsVars
  PROVE  TtyInv'
PROOF
<1>1. CASE ReadLine
  BY <1>1 DEF ReadLine, childVars, TtyInv, Idle, GroupInv, JobInv, SignalTypes, TypeOK, ShellTypes, ChildTypes, Child, Process, Shell, NoGroup
<1>2. CASE LineEnds
  BY <1>2 DEF LineEnds, childVars, TtyInv, Idle, GroupInv, JobInv, SignalTypes, TypeOK, ShellTypes, ChildTypes, Child, Process, Shell, NoGroup
<1>3. CASE StartCommand
  BY <1>3 DEF StartCommand, childVars, TtyInv, Idle, GroupInv, JobInv, SignalTypes, TypeOK, ShellTypes, ChildTypes, Child, Process, Shell, NoGroup
<1>4. CASE Eval
  BY <1>4 DEF Eval, childVars, TtyInv, Idle, GroupInv, JobInv, SignalTypes, TypeOK, ShellTypes, ChildTypes, Child, Process, Shell, NoGroup
<1>5. CASE Fork
  BY <1>5 DEF Fork, TtyInv, Idle, GroupInv, JobInv, SignalTypes, TypeOK, ShellTypes, ChildTypes, Child, Process, Shell, NoGroup
<1>6. CASE ParentSetpgid
  BY <1>6 DEF ParentSetpgid, childVars, TtyInv, Idle, GroupInv, JobInv, SignalTypes, TypeOK, ShellTypes, ChildTypes, Child, Process, Shell, NoGroup
<1>7. CASE TakeTerminal
  BY <1>7 DEF TakeTerminal, childVars, TtyInv, Idle, GroupInv, JobInv, SignalTypes, TypeOK, ShellTypes, ChildTypes, Child, Process, Shell, NoGroup
<1>8. CASE Wait
  BY <1>8 DEF Wait, Report, TtyInv, Idle, GroupInv, JobInv, SignalTypes, TypeOK, ShellTypes, ChildTypes, Child, Process, Shell, NoGroup
<1>9. CASE ReturnTerminal
  BY <1>9 DEF ReturnTerminal, childVars, TtyInv, Idle, GroupInv, JobInv, SignalTypes, TypeOK, ShellTypes, ChildTypes, Child, Process, Shell, NoGroup
<1>10. CASE WaitAny
  BY <1>10 DEF WaitAny, Report, TtyInv, Idle, GroupInv, JobInv, SignalTypes, TypeOK, ShellTypes, ChildTypes, Child, Process, Shell, NoGroup
<1>11. ASSUME NEW c \in Child, ChildSetpgid(c) PROVE TtyInv'
  BY <1>11 DEF ChildSetpgid, Becomes, shellVars, TtyInv, Idle, GroupInv, JobInv, SignalTypes, TypeOK, ShellTypes, ChildTypes, Child, Process, Shell, NoGroup
<1>12. ASSUME NEW c \in Child, ChildSignals(c) PROVE TtyInv'
  BY <1>12 DEF ChildSignals, Becomes, shellVars, TtyInv, Idle, GroupInv, JobInv, SignalTypes, TypeOK, ShellTypes, ChildTypes, Child, Process, Shell, NoGroup
<1>13. ASSUME NEW c \in Child, ChildExecutes(c) PROVE TtyInv'
  BY <1>13 DEF ChildExecutes, Becomes, shellVars, TtyInv, Idle, GroupInv, JobInv, SignalTypes, TypeOK, ShellTypes, ChildTypes, Child, Process, Shell, NoGroup
<1>14. ASSUME NEW c \in Child, ChildReads(c) PROVE TtyInv'
  BY <1>14 DEF ChildReads, Becomes, shellVars, TtyInv, Idle, GroupInv, JobInv, SignalTypes, TypeOK, ShellTypes, ChildTypes, Child, Process, Shell, NoGroup
<1>15. ASSUME NEW c \in Child, ChildEnds(c) PROVE TtyInv'
  BY <1>15 DEF ChildEnds, Becomes, shellVars, TtyInv, Idle, GroupInv, JobInv, SignalTypes, TypeOK, ShellTypes, ChildTypes, Child, Process, Shell, NoGroup
<1>16. ASSUME NEW targets \in SUBSET Process, Delivered(targets), targets = {Shell} \/ targets = Foreground PROVE TtyInv'
  BY <1>16 DEF Delivered, Blocked, Living, TtyInv, Idle, GroupInv, JobInv, SignalTypes, TypeOK, ShellTypes, ChildTypes, Child, Process, Shell, NoGroup
<1>17. CASE UNCHANGED jobsVars
  BY <1>17 DEF jobsVars, shellVars, childVars, TtyInv, Idle, GroupInv, JobInv, SignalTypes, TypeOK, ShellTypes, ChildTypes, Child, Process, Shell, NoGroup
<1>18. QED BY <1>1, <1>2, <1>3, <1>4, <1>5, <1>6, <1>7, <1>8, <1>9, <1>10, <1>11, <1>12, <1>13, <1>14, <1>15, <1>16, <1>17, Steps

\* Who is waited for.
LEMMA WaitedStep ==
  ASSUME TypeOK, PidInv, JobInv, WaitedInv, [JobsNext]_jobsVars
  PROVE  WaitedInv'
PROOF
<1>1. CASE ReadLine
  BY <1>1 DEF ReadLine, childVars, WaitedInv, Waited, Idle, JobInv, SignalTypes, TypeOK, ShellTypes, ChildTypes, Child, Process, Shell, NoGroup
<1>2. CASE LineEnds
  BY <1>2 DEF LineEnds, childVars, WaitedInv, Waited, Idle, JobInv, SignalTypes, TypeOK, ShellTypes, ChildTypes, Child, Process, Shell, NoGroup
<1>3. CASE StartCommand
  BY <1>3 DEF StartCommand, childVars, WaitedInv, Waited, Idle, JobInv, SignalTypes, TypeOK, ShellTypes, ChildTypes, Child, Process, Shell, NoGroup
<1>4. CASE Eval
  BY <1>4 DEF Eval, childVars, WaitedInv, Waited, Idle, JobInv, SignalTypes, TypeOK, ShellTypes, ChildTypes, Child, Process, Shell, NoGroup
<1>5. CASE Fork
  BY <1>5 DEF Fork, WaitedInv, Waited, Idle, JobInv, SignalTypes, TypeOK, ShellTypes, ChildTypes, Child, Process, Shell, NoGroup
<1>6. CASE ParentSetpgid
  <2>1. /\ background' = background /\ state' = state /\ eintr' = eintr /\ at = "parent"
    BY <1>6 DEF ParentSetpgid, childVars
  <2>2. QED BY <1>6, <2>1, Joined DEF WaitedInv, Waited, Idle
<1>7. CASE TakeTerminal
  BY <1>7 DEF TakeTerminal, childVars, WaitedInv, Waited, Idle, JobInv, SignalTypes, TypeOK, ShellTypes, ChildTypes, Child, Process, Shell, NoGroup
<1>8. CASE Wait
  <2>1. /\ background' = background /\ eintr' = eintr /\ at' = at /\ at = "wait"
        /\ childs' = Tail(childs) /\ state'[Head(childs)] = "reaped"
        /\ \A c \in Child : c # Head(childs) => state'[c] = state[c]
    BY <1>8, WithoutHead DEF Wait, TypeOK, ChildTypes
  <2>2. childs # <<>>
    BY <1>8 DEF Wait
  <2>3. QED BY <2>1, <2>2, WithoutHead DEF WaitedInv, Waited, Idle
<1>9. CASE ReturnTerminal
  BY <1>9 DEF ReturnTerminal, childVars, WaitedInv, Waited, Idle, JobInv, SignalTypes, TypeOK, ShellTypes, ChildTypes, Child, Process, Shell, NoGroup
<1>10. CASE WaitAny
  BY <1>10 DEF WaitAny, Report, WaitedInv, Waited, Idle, JobInv, SignalTypes, TypeOK, ShellTypes, ChildTypes, Child, Process, Shell, NoGroup
<1>11. ASSUME NEW c \in Child, ChildSetpgid(c) PROVE WaitedInv'
  BY <1>11 DEF ChildSetpgid, Becomes, shellVars, WaitedInv, Waited, Idle, JobInv, SignalTypes, TypeOK, ShellTypes, ChildTypes, Child, Process, Shell, NoGroup
<1>12. ASSUME NEW c \in Child, ChildSignals(c) PROVE WaitedInv'
  BY <1>12 DEF ChildSignals, Becomes, shellVars, WaitedInv, Waited, Idle, JobInv, SignalTypes, TypeOK, ShellTypes, ChildTypes, Child, Process, Shell, NoGroup
<1>13. ASSUME NEW c \in Child, ChildExecutes(c) PROVE WaitedInv'
  BY <1>13 DEF ChildExecutes, Becomes, shellVars, WaitedInv, Waited, Idle, JobInv, SignalTypes, TypeOK, ShellTypes, ChildTypes, Child, Process, Shell, NoGroup
<1>14. ASSUME NEW c \in Child, ChildReads(c) PROVE WaitedInv'
  BY <1>14 DEF ChildReads, Becomes, shellVars, WaitedInv, Waited, Idle, JobInv, SignalTypes, TypeOK, ShellTypes, ChildTypes, Child, Process, Shell, NoGroup
<1>15. ASSUME NEW c \in Child, ChildEnds(c) PROVE WaitedInv'
  BY <1>15 DEF ChildEnds, Becomes, shellVars, WaitedInv, Waited, Idle, JobInv, SignalTypes, TypeOK, ShellTypes, ChildTypes, Child, Process, Shell, NoGroup
<1>16. ASSUME NEW targets \in SUBSET Process, Delivered(targets), targets = {Shell} \/ targets = Foreground PROVE WaitedInv'
  BY <1>16 DEF Delivered, Blocked, Living, WaitedInv, Waited, Idle, JobInv, SignalTypes, TypeOK, ShellTypes, ChildTypes, Child, Process, Shell, NoGroup
<1>17. CASE UNCHANGED jobsVars
  BY <1>17 DEF jobsVars, shellVars, childVars, WaitedInv, Waited, Idle, JobInv, SignalTypes, TypeOK, ShellTypes, ChildTypes, Child, Process, Shell, NoGroup
<1>18. QED BY <1>1, <1>2, <1>3, <1>4, <1>5, <1>6, <1>7, <1>8, <1>9, <1>10, <1>11, <1>12, <1>13, <1>14, <1>15, <1>16, <1>17, Steps

\* An interrupt is not forgotten.
LEMMA StruckStep ==
  ASSUME TypeOK, PidInv, GroupInv, JobInv, TtyInv, StruckInv, [JobsNext]_jobsVars
  PROVE  StruckInv'
PROOF
<1>1. CASE ReadLine
  BY <1>1 DEF ReadLine, childVars, StruckInv, Waited, Leader, Idle, JobInv, SignalTypes, TypeOK, ShellTypes, ChildTypes, Child, Process, Shell, NoGroup
<1>2. CASE LineEnds
  BY <1>2 DEF LineEnds, childVars, StruckInv, Waited, Leader, Idle, JobInv, SignalTypes, TypeOK, ShellTypes, ChildTypes, Child, Process, Shell, NoGroup
<1>3. CASE StartCommand
  BY <1>3 DEF StartCommand, childVars, StruckInv, Waited, Leader, Idle, JobInv, SignalTypes, TypeOK, ShellTypes, ChildTypes, Child, Process, Shell, NoGroup
<1>4. CASE Eval
  BY <1>4 DEF Eval, childVars, StruckInv, Waited, Leader, Idle, JobInv, SignalTypes, TypeOK, ShellTypes, ChildTypes, Child, Process, Shell, NoGroup
<1>5. CASE Fork
  <2>1. /\ struck' = struck /\ killed' = killed /\ group' = group /\ childs' = childs
        /\ at = "fork" /\ at' = "parent" /\ (Shell \in sigint_break => Shell \in sigint_break')
        /\ (Shell \in sigint_break' => Shell \in sigint_break)
    BY <1>5, Forked DEF Fork
  <2>2. ASSUME struck', Shell \notin sigint_break'
        PROVE  \E c \in killed' \ background' : state'[c] = "zombie" /\ Waited(c)'
    <3>1. PICK c \in killed \ background : state[c] = "zombie" /\ Waited(c)
      BY <2>1, <2>2 DEF StruckInv
    <3>2. c \in Child /\ c # pids'
      BY <1>5, <3>1, Forked DEF TypeOK, ChildTypes
    <3>3. c \in killed' \ background' /\ state'[c] = "zombie"
      BY <1>5, <2>1, <3>1, <3>2, Forked
    <3>4. Waited(c)'
      BY <2>1, <3>1 DEF Waited
    <3>5. QED BY <3>3, <3>4
  <2>3. ASSUME Shell \notin sigint_break', group' # NoGroup, NEW c \in Child,
               Leader(c)' = group', state'[c] \notin {"none", "reaped"}
        PROVE  Waited(c)'
    <3>1. CASE c = pids'
      BY <2>1, <3>1 DEF Waited
    <3>2. CASE c # pids'
      <4>1. Leader(c) = group /\ state[c] \notin {"none", "reaped"}
        BY <1>5, <2>1, <2>3, <3>2, Forked DEF Leader
      <4>2. Waited(c)
        BY <2>1, <2>3, <4>1 DEF StruckInv, Idle
      <4>3. QED BY <2>1, <4>2 DEF Waited
    <3>3. QED BY <3>1, <3>2
  <2>4. QED BY <2>1, <2>2, <2>3 DEF StruckInv, Idle
<1>6. CASE ParentSetpgid
  <2>1. /\ struck' = struck /\ killed' = killed /\ background' = background /\ state' = state /\ copy' = copy
        /\ sigint_break' = sigint_break /\ pids' = pids /\ at = "parent"
    BY <1>6 DEF ParentSetpgid, childVars
  <2>2. \A c : Waited(c) => Waited(c)'
    BY <1>6, <2>1, Joined DEF Waited
  <2>3. \E i \in DOMAIN childs' : childs'[i] = pids
    BY <1>6, Joined
  <2>4. ASSUME Shell \notin sigint_break, NEW c \in Child,
               Leader(c) = group', state[c] \notin {"none", "reaped"}
        PROVE  Waited(c)'
    <3>1. CASE group = NoGroup
      <4>1. c <= pids /\ copy[c] < c /\ c \in Int /\ pids \in Int
        BY <1>6, <2>4, Joined DEF PidInv, Child, TypeOK, ChildTypes, Process, Shell
      <4>2. Leader(c) = pids
        BY <1>6, <2>4, <3>1, Joined
      <4>3. CASE copy[c] = NoGroup
        BY <2>3, <4>2, <4>3 DEF Leader, Waited
      <4>4. CASE copy[c] # NoGroup
        BY <4>1, <4>2, <4>4 DEF Leader
      <4>5. QED BY <4>3, <4>4
    <3>2. CASE group # NoGroup
      <4>1. Leader(c) = group
        BY <1>6, <2>4, <3>2, Joined
      <4>2. QED BY <2>1, <2>2, <2>4, <3>2, <4>1 DEF StruckInv, Idle
    <3>3. QED BY <3>1, <3>2
  <2>5. \A c : Leader(c)' = Leader(c)
    BY <2>1 DEF Leader
  <2>6. QED BY <1>6, <2>1, <2>2, <2>4, <2>5, Joined DEF StruckInv, Idle
<1>7. CASE TakeTerminal
  <2>1. /\ struck' = struck /\ killed' = killed /\ background' = background /\ state' = state /\ copy' = copy
        /\ sigint_break' = sigint_break /\ pids' = pids /\ at = "terminal" /\ childs' = childs /\ group' = group
        /\ at' \in {"fork", "wait", "list"}
    BY <1>7 DEF TakeTerminal, childVars
  <2>2. \A c : Leader(c)' = Leader(c)
    BY <2>1 DEF Leader
  <2>3. \A c : Waited(c)' <=> Waited(c)
    BY <2>1 DEF Waited
  <2>4. at' = "list" => job.kind = "async"
    BY <1>7 DEF TakeTerminal, JobInv
  <2>5. job.kind = "async" => \A c : Waited(c) => c \in background
    BY <2>1 DEF Waited, JobInv
  <2>6. QED BY <2>1, <2>2, <2>3, <2>4, <2>5 DEF StruckInv, Idle
<1>8. CASE Wait
  <2>1. /\ struck' = struck /\ killed' = killed /\ background' = background /\ copy' = copy /\ group' = group
        /\ pids' = pids /\ at' = at /\ at = "wait" /\ childs # <<>>
        /\ childs' = Tail(childs) /\ state'[Head(childs)] = "reaped"
        /\ \A c \in Child : c # Head(childs) => state'[c] = state[c]
    BY <1>8, WithoutHead DEF Wait, TypeOK, ChildTypes
  <2>2. (Shell \in sigint_break => Shell \in sigint_break') /\ (Head(childs) \in killed => Shell \in sigint_break')
    BY <1>8 DEF Wait, Report
  <2>3. \A c : Leader(c)' = Leader(c)
    BY <2>1 DEF Leader
  <2>4. \A c : Waited(c) /\ c # Head(childs) => Waited(c)'
    BY <2>1, WithoutHead DEF Waited
  <2>5. killed \subseteq Child
    BY DEF TypeOK, ChildTypes
  <2>6. QED BY <2>1, <2>2, <2>3, <2>4, <2>5 DEF StruckInv, Idle
<1>9. CASE ReturnTerminal
  BY <1>9 DEF ReturnTerminal, childVars, StruckInv, Waited, Leader, Idle, JobInv, SignalTypes, TypeOK, ShellTypes, ChildTypes, Child, Process, Shell, NoGroup
<1>10. CASE WaitAny
  BY <1>10 DEF WaitAny, Report, StruckInv, Waited, Leader, Idle, JobInv, SignalTypes, TypeOK, ShellTypes, ChildTypes, Child, Process, Shell, NoGroup
<1>11. ASSUME NEW c \in Child, ChildSetpgid(c) PROVE StruckInv'
  BY <1>11 DEF ChildSetpgid, Becomes, shellVars, StruckInv, Waited, Leader, Idle, JobInv, SignalTypes, TypeOK, ShellTypes, ChildTypes, Child, Process, Shell, NoGroup
<1>12. ASSUME NEW c \in Child, ChildSignals(c) PROVE StruckInv'
  BY <1>12 DEF ChildSignals, Becomes, shellVars, StruckInv, Waited, Leader, Idle, JobInv, SignalTypes, TypeOK, ShellTypes, ChildTypes, Child, Process, Shell, NoGroup
<1>13. ASSUME NEW c \in Child, ChildExecutes(c) PROVE StruckInv'
  BY <1>13 DEF ChildExecutes, Becomes, shellVars, StruckInv, Waited, Leader, Idle, JobInv, SignalTypes, TypeOK, ShellTypes, ChildTypes, Child, Process, Shell, NoGroup
<1>14. ASSUME NEW c \in Child, ChildReads(c) PROVE StruckInv'
  BY <1>14 DEF ChildReads, Becomes, shellVars, StruckInv, Waited, Leader, Idle, JobInv, SignalTypes, TypeOK, ShellTypes, ChildTypes, Child, Process, Shell, NoGroup
<1>15. ASSUME NEW c \in Child, ChildEnds(c) PROVE StruckInv'
  BY <1>15 DEF ChildEnds, Becomes, shellVars, StruckInv, Waited, Leader, Idle, JobInv, SignalTypes, TypeOK, ShellTypes, ChildTypes, Child, Process, Shell, NoGroup
<1>16. ASSUME NEW targets \in SUBSET Process, Delivered(targets), targets = {Shell} \/ targets = Foreground PROVE StruckInv'
  <2>1. /\ copy' = copy /\ group' = group /\ pids' = pids /\ background' = background
        /\ killed \subseteq killed' /\ sigint_break \subseteq sigint_break'
        /\ (Shell \in targets => Shell \in sigint_break')
    BY <1>16 DEF Delivered, Handles
  <2>2. Shell \notin targets => at' = at /\ childs' = childs
    BY <1>16 DEF Delivered
  <2>3. \A c \in Child : state'[c] = state[c] \/ (state[c] \in {"ready", "running"} /\ state'[c] = "zombie")
    BY <1>16 DEF Delivered
  <2>4. \A c : Leader(c)' = Leader(c)
    BY <2>1 DEF Leader
  <2>5. Shell \notin targets => \A c : Waited(c)' <=> Waited(c)
    BY <2>1, <2>2 DEF Waited
  <2>6. ASSUME Shell \notin targets, NEW c \in Child, c \in targets, state[c] \in {"ready", "running"},
               Shell \notin sigint_break
        PROVE  ~Idle /\ Waited(c) /\ c \notin background
    <3>1. targets = Foreground
      BY <1>16, <2>6
    <3>2. pgid[c] = tty /\ pgid[Shell] # tty /\ pgid[Shell] = Shell
      <4>1. Shell \in Process
        BY JobsAssumption DEF Process, Shell
      <4>2. QED BY <2>6, <3>1, <4>1 DEF Foreground, GroupInv
    <3>3. tty = group /\ job.kind = "job" /\ ~Idle
      BY <3>2 DEF TtyInv
    <3>4. group # NoGroup
      BY <3>3 DEF TypeOK, SignalTypes, Process, Shell, NoGroup
    <3>5. Leader(c) = group
      BY <2>6, <3>2, <3>3 DEF GroupInv
    <3>6. Waited(c)
      BY <2>6, <3>3, <3>4, <3>5 DEF StruckInv
    <3>7. c \notin background
      BY <3>2, <3>3 DEF JobInv
    <3>8. QED BY <3>3, <3>6, <3>7
  <2>7. ASSUME struck', Shell \notin sigint_break'
        PROVE  ~Idle' /\ \E c \in killed' \ background' : state'[c] = "zombie" /\ Waited(c)'
    <3>1. Shell \notin targets /\ Shell \notin sigint_break
      BY <2>1, <2>7
    <3>2. CASE struck
      <4>1. PICK c \in killed \ background : state[c] = "zombie" /\ Waited(c)
        BY <3>1, <3>2 DEF StruckInv
      <4>2. c \in killed' \ background' /\ c \in Child
        BY <2>1, <4>1 DEF TypeOK, ChildTypes
      <4>3. state'[c] = "zombie" /\ Waited(c)'
        BY <2>3, <2>5, <3>1, <4>1, <4>2
      <4>4. ~Idle'
        BY <2>2, <3>1, <3>2 DEF StruckInv, Idle
      <4>5. QED BY <4>2, <4>3, <4>4
    <3>3. CASE ~struck
      <4>1. PICK c \in targets : ~Handles(c) /\ state[c] \in {"ready", "running"}
        BY <1>16, <2>7, <3>1, <3>3 DEF Delivered
      <4>2. c \in Child
        BY <3>1, <4>1 DEF Process, Child, Shell
      <4>3. ~Idle /\ Waited(c) /\ c \notin background
        BY <2>6, <3>1, <4>1, <4>2
      <4>4. c \in killed' /\ state'[c] = "zombie"
        BY <1>16, <4>1, <4>2 DEF Delivered
      <4>5. QED BY <2>1, <2>2, <2>5, <3>1, <4>3, <4>4 DEF Idle
    <3>4. QED BY <3>2, <3>3
  <2>8. ASSUME ~Idle', Shell \notin sigint_break', group' # NoGroup, NEW c \in Child,
               Leader(c)' = group', state'[c] \notin {"none", "reaped"}
        PROVE  Waited(c)'
    <3>1. Shell \notin targets /\ Shell \notin sigint_break
      BY <2>1, <2>8
    <3>2. ~Idle /\ state[c] \notin {"none", "reaped"}
      BY <2>2, <2>3, <2>8, <3>1 DEF Idle
    <3>3. Waited(c)
      BY <2>1, <2>4, <2>8, <3>1, <3>2 DEF StruckInv
    <3>4. QED BY <2>5, <3>1, <3>3
  <2>9. QED BY <2>7, <2>8 DEF StruckInv
<1>17. CASE UNCHANGED jobsVars
  BY <1>17 DEF jobsVars, shellVars, childVars, StruckInv, Waited, Leader, Idle, JobInv, SignalTypes, TypeOK, ShellTypes, ChildTypes, Child, Process, Shell, NoGroup
<1>18. QED BY <1>1, <1>2, <1>3, <1>4, <1>5, <1>6, <1>7, <1>8, <1>9, <1>10, <1>11, <1>12, <1>13, <1>14, <1>15, <1>16, <1>17, Steps

\* What is proved by induction: the interrupts depend on the groups and on who
\* has the terminal, and these on the pids.
JobsInv == TypeOK /\ PidInv /\ GroupInv /\ JobInv /\ TtyInv /\ WaitedInv /\ StruckInv

\* The first states satisfy it.
LEMMA JobsInitially == ASSUME JobsInit PROVE JobsInv
PROOF
<1>1. Shell \in Process /\ Child \subseteq Process
  BY JobsAssumption DEF Shell, Process, Child
<1>2. ShellTypes
  BY JobsAssumption DEF JobsInit, ShellTypes, NoJob, Command
<1>3. ChildTypes /\ SignalTypes
  BY <1>1 DEF JobsInit, ChildTypes, SignalTypes, Phase
<1>4. PidInv
  BY <1>1 DEF JobsInit, PidInv, Child, Shell, NoGroup
<1>5. GroupInv
  BY <1>1 DEF JobsInit, GroupInv
<1>6. JobInv /\ TtyInv
  BY DEF JobsInit, JobInv, TtyInv, NoJob
<1>7. WaitedInv
  BY DEF JobsInit, WaitedInv
<1>8. StruckInv
  BY DEF JobsInit, StruckInv, Idle
<1>9. QED BY <1>2, <1>3, <1>4, <1>5, <1>6, <1>7, <1>8 DEF JobsInv, TypeOK

\* Every reachable state satisfies it.
LEMMA Invariance == JobsSpec => []JobsInv
PROOF
<1>1. JobsInit => JobsInv
  BY JobsInitially
<1>2. JobsInv /\ [JobsNext]_jobsVars => JobsInv'
  <2>1. SUFFICES ASSUME JobsInv, [JobsNext]_jobsVars PROVE JobsInv'
    OBVIOUS
  <2>2. TypeOK'
    BY <2>1, ShellTypesStep, ChildTypesStep, SignalTypesStep DEF JobsInv, TypeOK
  <2>3. PidInv' /\ GroupInv' /\ JobInv'
    BY <2>1, PidStep, GroupStep, JobStep DEF JobsInv
  <2>4. TtyInv' /\ WaitedInv' /\ StruckInv'
    BY <2>1, TtyStep, WaitedStep, StruckStep DEF JobsInv
  <2>5. QED BY <2>2, <2>3, <2>4 DEF JobsInv
<1>3. QED BY <1>1, <1>2, PTL DEF JobsSpec

\* The variables of the shell, its children and the terminal keep their types:
\* no pid is given away that a process cannot have, and no list of children
\* holds anything but children.
THEOREM TypeCorrect == JobsSpec => []TypeOK
PROOF
<1>1. JobsInv => TypeOK
  BY DEF JobsInv
<1>2. QED BY <1>1, Invariance, PTL

\* Parent and child both call setpgid, in either order, and a program never runs
\* in the group of the shell; its group exists before the terminal is lent to it.
THEOREM GroupsOwn == JobsSpec => []OwnGroups
PROOF
<1>1. JobsInv => OwnGroups
  BY DEF JobsInv, GroupInv, Leader, OwnGroups
<1>2. QED BY <1>1, Invariance, PTL

\* The terminal is the shell's whenever it may read a line, the job's otherwise,
\* and never that of a group in the background, for any number of interrupts.
THEOREM TerminalRound == JobsSpec => []TerminalGoesRound
PROOF
<1>1. JobsInv => TerminalGoesRound
  <2>1. SUFFICES ASSUME JobsInv PROVE TerminalGoesRound
    OBVIOUS
  <2>2. ASSUME NEW c \in background, pgid[c] # Shell PROVE pgid[c] # tty
    BY <2>1, <2>2 DEF JobsInv, JobInv, TtyInv
  <2>3. QED BY <2>1, <2>2 DEF JobsInv, TtyInv, WaitedInv, Idle, TerminalGoesRound
<1>2. QED BY <1>1, Invariance, PTL

\* After an interrupt that reached the shell, or that killed a process of the job
\* it waits for, no other command of the line is started.
THEOREM InterruptEnds == JobsSpec => InterruptEndsTheLine
PROOF
<1>1. JobsInv => (StartCommand => ~struck)
  BY DEF JobsInv, StartCommand, StruckInv, Idle
<1>2. JobsInv /\ [JobsNext]_jobsVars => [StartCommand => ~struck]_jobsVars
  BY <1>1
<1>3. QED BY <1>2, Invariance, PTL DEF JobsSpec, InterruptEndsTheLine
=============================================================================
