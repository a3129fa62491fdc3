----------------------------- MODULE TashRedirs -----------------------------
(***************************************************************************)
(* The redirections of tash: apply_redirs(), save_fd(), restore_fds() and  *)
(* flush_fd() of src/execute.c, as execute() calls them around a node.     *)
(*                                                                         *)
(* tash redirects its own descriptors, for programs too: it saves what it  *)
(* overwrites on a descriptor above 10, runs the node, and puts everything *)
(* back.  A node inside a node stacks on top of that.  One step is one     *)
(* turn of a loop of apply_redirs or restore_fds; a body writes with stdio *)
(* and may run further nodes.                                              *)
(*                                                                         *)
(* A descriptor is its file and its close-on-exec flag.  The redirections  *)
(* a node may carry are the lists in Redirs; the lexer only takes a single *)
(* digit in front of < and >, so they redirect descriptors below 10.       *)
(***************************************************************************)
EXTENDS Integers, Sequences, FiniteSets

CONSTANTS
  Low,          \* the descriptors that scripts redirect
  High,         \* those from 10 to the process's limit, where copies go
  File,         \* what a descriptor can be open on
  Redirs,       \* the lists of redirections of the nodes
  Start,        \* the tables tash may be started with
  MaxDepth      \* bound: how deep nodes with redirections nest

Fd == Low \cup High
Closed == [file |-> "closed", cloexec |-> FALSE]
Open == [file : File, cloexec : BOOLEAN]
Table == [Fd -> Open \cup {Closed}]
Elsewhere == -1     \* a descriptor below 10 that is not in Low

Redir == [fd : Low, kind : {"file", "dup", "close", "bad"}, file : File, src : Fd]

ASSUME FdAssumption == Low \subseteq 0..9 /\ 1 \in Low /\ High \subseteq Nat \ (0..9)
ASSUME FileAssumption == "closed" \notin File
ASSUME RedirsAssumption == Redirs \subseteq Seq(Redir)
ASSUME StartAssumption == Start \subseteq Table
ASSUME DepthAssumption == MaxDepth \in Nat

VARIABLES
  fds,          \* the descriptor table of the shell
  stack,        \* the executions in progress of nodes, innermost first
  buffer,       \* stdio's buffer: the files its bytes were meant for
  astray,       \* history: <<meant, astray>> of bytes flushed to another file
  orderly       \* history: see Orderly

vars == <<fds, stack, buffer, astray, orderly>>
-----------------------------------------------------------------------------
(***************************************************************************)
(* An execution: its redirections, the saved_fd_t vector, whether it is    *)
(* applying, running its body, or restoring at its end or after a failure, *)
(* the index of the loop it is in, and, as history, the table it started   *)
(* with.                                                                   *)
(***************************************************************************)
Saved == [original : Low, saved : High, cloexec : BOOLEAN]
Phases == {"apply", "body", "fail", "end"}
Execution == [redirs : Seq(Redir), i : Nat \ {0}, save : Seq(Saved), phase : Phases,
              before : Table]

Top == Head(stack)
In(phases) == stack # <<>> /\ Top.phase \in phases
InBody == stack # <<>> => Top.phase = "body"

Holds(d) == fds[d] # Closed
IsOpen(t, d) == t[d] # Closed
Lowest(ds) == CHOOSE d \in ds : \A other \in ds : d <= other

\* The lists for which the code restores what it should: they redirect
\* descriptors that are open, each of them once.
Orderly(rs) ==
  /\ \A i \in DOMAIN rs : Holds(rs[i].fd)
  /\ \A i, j \in DOMAIN rs : rs[i].fd = rs[j].fd => i = j

Init ==
  /\ fds \in Start
  /\ stack = <<>>
  /\ buffer = {}
  /\ astray = {}
  /\ orderly = TRUE

\* flush_fd: the buffer goes to what descriptor 1 is at that moment; a write that
\* fails drops it
Flush(d, t) ==
  IF d = 1
  THEN /\ buffer' = {}
       /\ astray' = IF IsOpen(t, 1)
                    THEN astray \cup {<<f, t[1].file>> : f \in buffer \ {t[1].file}}
                    ELSE astray
  ELSE UNCHANGED <<buffer, astray>>

SetTop(e) == stack' = <<e>> \o Tail(stack)
-----------------------------------------------------------------------------
\* execute() on a node, up to the first turn of the loop of apply_redirs
Begin ==
  /\ InBody
  /\ Len(stack) < MaxDepth
  /\ \E rs \in Redirs :
       /\ stack' = <<[redirs |-> rs, i |-> 1, save |-> <<>>, phase |-> "apply",
                      before |-> fds]>> \o stack
       /\ orderly' = (orderly /\ Orderly(rs))
  /\ UNCHANGED <<fds, buffer, astray>>

\* the redirection whose turn it is
Turn == Top.redirs[Top.i]
Applying(kinds) ==
  In({"apply"}) /\ Top.i <= Len(Top.redirs) /\ Turn.kind \in kinds

Fail(save) == SetTop([Top EXCEPT !.phase = "fail", !.i = 1, !.save = save])

\* the word does not expand, is ambiguous or not a number, or open fails
BadRedir ==
  /\ Applying({"bad"})
  /\ Fail(Top.save)
  /\ UNCHANGED <<fds, buffer, astray, orderly>>

\* open() gives the lowest free descriptor; >&n uses n, and >&- none
FreeLow == {d \in Low : ~Holds(d)}
Source ==
  CASE Turn.kind = "file"  -> IF FreeLow = {} THEN Elsewhere ELSE Lowest(FreeLow)
    [] Turn.kind = "dup"   -> Turn.src
    [] Turn.kind = "close" -> Elsewhere

\* the table once the file is open
Opened ==
  IF Turn.kind = "file" /\ Source # Elsewhere
  THEN [fds EXCEPT ![Source] = [file |-> Turn.file, cloexec |-> FALSE]] ELSE fds

\* "save before apply if neccesary"
Saves == IsOpen(Opened, Turn.fd) /\ Source # Turn.fd
FreeHigh == {d \in High : ~Holds(d)}

\* save_fd fails: the file just opened stays open
SaveFails ==
  /\ Applying({"file", "dup", "close"})
  /\ Saves /\ FreeHigh = {}
  /\ fds' = Opened
  /\ Fail(Top.save)
  /\ orderly' = (orderly /\ Opened = fds)
  /\ UNCHANGED <<buffer, astray>>

\* mutant: dup() makes the copy, on a descriptor scripts use
NowSaved_Dup ==
  IF Saves
  THEN Append(Top.save, [original |-> Turn.fd, saved |-> Lowest(FreeLow \cup FreeHigh),
                         cloexec |-> Opened[Turn.fd].cloexec])
  ELSE Top.save

\* the vector and the table once the descriptor is saved
NowSaved ==
  IF Saves
  THEN Append(Top.save, [original |-> Turn.fd, saved |-> Lowest(FreeHigh),
                         cloexec |-> Opened[Turn.fd].cloexec])
  ELSE Top.save
WithCopy ==
  IF Saves
  THEN [Opened EXCEPT ![Lowest(FreeHigh)] = [file |-> Opened[Turn.fd].file, cloexec |-> TRUE]]
  ELSE Opened

\* what dup2 copies from
SourceFile == IF Turn.kind = "file" THEN Turn.file ELSE WithCopy[Turn.src].file
SourceOpen == Turn.kind = "file" \/ (Turn.kind = "dup" /\ IsOpen(WithCopy, Turn.src))

\* mutant: the descriptor is entered in the vector only once dup2 succeeded
ApplyFails_Forgets ==
  /\ Applying({"dup", "close"})
  /\ ~Saves \/ FreeHigh # {}
  /\ \/ Turn.kind = "close" /\ ~IsOpen(WithCopy, Turn.fd)
     \/ Turn.kind = "dup" /\ Source # Turn.fd /\ ~SourceOpen
  /\ fds' = WithCopy
  /\ Fail(Top.save)
  /\ Flush(Turn.fd, WithCopy)
  /\ UNCHANGED orderly

\* close() of a descriptor that is not open, dup2() from one
ApplyFails ==
  /\ Applying({"dup", "close"})
  /\ ~Saves \/ FreeHigh # {}
  /\ \/ Turn.kind = "close" /\ ~IsOpen(WithCopy, Turn.fd)
     \/ Turn.kind = "dup" /\ Source # Turn.fd /\ ~SourceOpen
  /\ fds' = WithCopy
  /\ Fail(NowSaved)
  /\ Flush(Turn.fd, WithCopy)
  /\ UNCHANGED orderly

\* dup2(src, fd), and close(src) of the file that open() put elsewhere
Redirected ==
  LET t == [WithCopy EXCEPT ![Turn.fd] = [file |-> SourceFile, cloexec |-> FALSE]] IN
  IF Turn.kind = "file" /\ Source # Elsewhere THEN [t EXCEPT ![Source] = Closed] ELSE t

Applies ==
  /\ Applying({"file", "dup", "close"})
  /\ ~Saves \/ FreeHigh # {}
  /\ \/ /\ Turn.kind = "close" /\ IsOpen(WithCopy, Turn.fd)
        /\ fds' = [WithCopy EXCEPT ![Turn.fd] = Closed]
     \/ /\ Turn.kind # "close" /\ Source = Turn.fd
        /\ fds' = WithCopy
     \/ /\ Turn.kind # "close" /\ Source # Turn.fd /\ SourceOpen
        /\ fds' = Redirected
  /\ SetTop([Top EXCEPT !.i = @ + 1, !.save = NowSaved])
  /\ Flush(Turn.fd, WithCopy)
  /\ UNCHANGED orderly

Applied ==
  /\ In({"apply"})
  /\ Top.i > Len(Top.redirs)
  /\ SetTop([Top EXCEPT !.phase = "body", !.i = 1])
  /\ UNCHANGED <<fds, buffer, astray, orderly>>

\* a builtin prints: stdio keeps the bytes, for the file descriptor 1 is now
Echo ==
  /\ InBody
  /\ buffer' = buffer \cup {fds[1].file}
  /\ UNCHANGED <<fds, stack, astray, orderly>>

\* stdio writes its buffer because it is full or a line ends, or tash calls
\* fflush(stdout) in front of a fork or an exec
Drain ==
  /\ InBody
  /\ buffer # {}
  /\ UNCHANGED <<fds, stack, orderly>>
  /\ Flush(1, fds)

\* the switch of execute() is over
EndBody ==
  /\ In({"body"})
  /\ SetTop([Top EXCEPT !.phase = "end", !.i = 1])
  /\ UNCHANGED <<fds, buffer, astray, orderly>>

\* the next turn of restore_fds, in the order of the vector
Restoring == In({"fail", "end"}) /\ Top.i <= Len(Top.save)
\* mutant: the copy is not closed
PutBack_Leaks(t, s) ==
  IF IsOpen(t, s.saved)
  THEN [t EXCEPT ![s.original] = [file |-> t[s.saved].file, cloexec |-> s.cloexec]]
  ELSE t

\* mutant: close-on-exec is not put back
PutBack_DropsFlag(t, s) ==
  IF IsOpen(t, s.saved)
  THEN [t EXCEPT ![s.original] = [file |-> t[s.saved].file, cloexec |-> FALSE],
                 ![s.saved] = Closed]
  ELSE t

\* dup2 of a copy that is gone fails, and the descriptor stays as it is
PutBack(t, s) ==
  IF IsOpen(t, s.saved)
  THEN [t EXCEPT ![s.original] = [file |-> t[s.saved].file, cloexec |-> s.cloexec],
                 ![s.saved] = Closed]
  ELSE t

\* mutant: nothing is flushed when a descriptor is put back
Restore_NoFlush ==
  /\ Restoring
  /\ fds' = PutBack(fds, Top.save[Top.i])
  /\ SetTop([Top EXCEPT !.i = @ + 1])
  /\ UNCHANGED <<buffer, astray, orderly>>

Restore ==
  /\ Restoring
  /\ LET s == Top.save[Top.i] IN
       /\ fds' = PutBack(fds, s)
       /\ Flush(s.original, fds)
  /\ SetTop([Top EXCEPT !.i = @ + 1])
  /\ UNCHANGED orderly

Finish ==
  /\ In({"fail", "end"})
  /\ Top.i > Len(Top.save)
  /\ stack' = Tail(stack)
  /\ UNCHANGED <<fds, buffer, astray, orderly>>

Next ==
  \/ Begin \/ BadRedir \/ SaveFails \/ ApplyFails \/ Applies \/ Applied
  \/ Echo \/ Drain \/ EndBody \/ Restore \/ Finish

Spec == Init /\ [][Next]_vars
-----------------------------------------------------------------------------
\* Every variable keeps its type; a saved copy is always above 10.
TypeOK ==
  /\ fds \in Table
  /\ stack \in Seq(Execution)
  /\ buffer \subseteq File \cup {"closed"}
  /\ astray \subseteq (File \cup {"closed"}) \X File
  /\ orderly \in BOOLEAN

\* restore_fds has put back everything: a node leaves the whole table, copies
\* included, as it found it, whether its redirections all succeeded or one of
\* them failed, as long as no node redirected a descriptor twice or one that was
\* not open.
Restored ==
  orderly /\ In({"fail", "end"}) /\ Top.i > Len(Top.save) => fds = Top.before

\* The entries of the saved_fd_t vector that restore_fds still has to take.
Live(e) == {j \in DOMAIN e.save : e.phase \in {"fail", "end"} => j >= e.i}

\* Putting them back turns the table t into the one that e started with: each
\* keeps the only copy of its descriptor, and no other descriptor has changed.
Restorable(e, t) ==
  /\ \A j \in Live(e) :
       LET s == e.save[j] IN
       /\ e.before[s.original] \in Open
       /\ e.before[s.saved] = Closed
       /\ t[s.saved].file = e.before[s.original].file
       /\ s.cloexec = e.before[s.original].cloexec
  /\ \A j, k \in Live(e) :
       j # k => e.save[j].original # e.save[k].original /\ e.save[j].saved # e.save[k].saved
  /\ \A d \in Fd :
       (\A j \in Live(e) : d # e.save[j].original /\ d # e.save[j].saved) => t[d] = e.before[d]

\* The redirections still to apply are of descriptors that are untouched so far.
Untouched(e) ==
  \A i \in DOMAIN e.redirs :
    /\ e.before[e.redirs[i].fd] \in Open
    /\ \A j \in DOMAIN e.redirs : e.redirs[i].fd = e.redirs[j].fd => i = j
    /\ i >= e.i => \A j \in DOMAIN e.save : e.save[j].original # e.redirs[i].fd

\* Only the innermost node applies or restores: the others wait in their bodies.
BodiesAround == \A k \in DOMAIN stack : k > 1 => stack[k].phase = "body"

\* The table that the k-th execution's restore_fds will find.
Under(k) == IF k = 1 THEN fds ELSE stack[k - 1].before

\* Why Restored holds: every node on the stack can be undone from the table the
\* node inside it started with.
EveryNodeRestorable ==
  /\ BodiesAround
  /\ orderly => \A k \in DOMAIN stack : Restorable(stack[k], Under(k))
  /\ orderly /\ In({"apply"}) => Untouched(Top)

\* What a builtin prints reaches the file its standard output was at that moment,
\* never one that a redirection, or the end of one, put there later.
OutputReachesItsFile == orderly => astray = {}

\* What execute.c:191 says: whatever has to be put back was saved, so that nothing
\* a node did to the descriptors outlives it.
AlwaysRestored ==
  In({"fail", "end"}) /\ Top.i > Len(Top.save) => fds = Top.before

\* The scopes the executions are: one whose redirections are still being applied
\* has not begun, one that is being undone is over.
Befores(executions) == [k \in DOMAIN executions |-> executions[k].before]
Env == IF InBody THEN fds ELSE Top.before
Outer == Befores(IF InBody THEN stack ELSE Tail(stack))

\* The redirections of a node are a scope: its body sees the table they make, and
\* the commands after it see the one from before, whatever fails in between. Every
\* step that redirections take is a step of the scopes, as long as their lists are
\* orderly.
Scopes == INSTANCE RedirScopes WITH env <- Env, outer <- Outer
ScopesSpec ==
  /\ Scopes!Init
  /\ [][orderly' => [Scopes!Next]_<<Env, Outer>>]_vars
=============================================================================
