-------------------------- MODULE TashRedirsProofs --------------------------
(***************************************************************************)
(* Proofs about TashRedirs, for any descriptors, files, lists of           *)
(* redirections and depth of nesting: types, that every node leaves the    *)
(* descriptor table as it found it, and that output reaches its file.      *)
(***************************************************************************)
EXTENDS TashRedirs, SequenceTheorems, WellFoundedInduction, TLAPS

-----------------------------------------------------------------------------
(***************************************************************************)
(* Stacks, and the least element of a set of descriptors.                  *)
(***************************************************************************)

\* Replacing the innermost element of a stack leaves the others in place.
LEMMA ReplaceTop ==
  ASSUME NEW S, NEW s \in Seq(S), s # <<>>, NEW e \in S
  PROVE  LET t == <<e>> \o Tail(s) IN
         /\ t \in Seq(S) /\ t # <<>>
         /\ Head(t) = e /\ Tail(t) = Tail(s)
         /\ DOMAIN t = DOMAIN s
         /\ t[1] = e
         /\ \A k \in DOMAIN s : k > 1 => t[k] = s[k]
  OBVIOUS

\* Pushing an element shifts the others by one.
LEMMA Push ==
  ASSUME NEW S, NEW s \in Seq(S), NEW e \in S
  PROVE  LET t == <<e>> \o s IN
         /\ t \in Seq(S) /\ t # <<>>
         /\ Head(t) = e /\ Tail(t) = s
         /\ t[1] = e
         /\ \A k \in DOMAIN t : k > 1 => k - 1 \in DOMAIN s /\ t[k] = s[k - 1]
  OBVIOUS

\* Popping one shifts them back.
LEMMA Pop ==
  ASSUME NEW S, NEW s \in Seq(S), s # <<>>
  PROVE  /\ Head(s) = s[1] /\ Head(s) \in S /\ 1 \in DOMAIN s
         /\ Tail(s) \in Seq(S)
         /\ \A k \in DOMAIN Tail(s) : k + 1 \in DOMAIN s /\ Tail(s)[k] = s[k + 1]
  OBVIOUS

\* A non-empty set of descriptors has a lowest one, the one the kernel hands out.
LEMMA LowestIn ==
  ASSUME NEW T, T \subseteq Nat, T # {}
  PROVE  Lowest(T) \in T
<1>1. PICK d \in T : \A other \in T : <<other, d>> \notin OpToRel(<, Nat)
  BY NatLessThanWellFounded, WFMin, Zenon
<1>2. \A other \in T : ~(other < d)
  <2> TAKE other \in T
  <2>1. <<other, d>> \in Nat \X Nat
    OBVIOUS
  <2> QED
    BY <1>1, <2>1, Zenon DEF OpToRel
<1>3. \A other \in T : d <= other
  BY <1>2
<1> QED
  BY <1>3 DEF Lowest

-----------------------------------------------------------------------------
(***************************************************************************)
(* Types.                                                                  *)
(***************************************************************************)

\* The descriptors scripts redirect and those that hold copies.
LEMMA Descriptors ==
  /\ Low \subseteq Nat /\ High \subseteq Nat /\ Fd = Low \cup High /\ 1 \in Low
  /\ \A d \in Low : d \notin High
  /\ Elsewhere \notin Fd
<1>1. Low \subseteq Nat /\ High \subseteq Nat
  <2>1. \A d \in 0..9 : d \in Nat
    OBVIOUS
  <2> QED
    BY <2>1, FdAssumption
<1>2. \A d \in Low : d \notin High
  BY FdAssumption
<1>3. Elsewhere \notin Fd
  BY <1>1 DEF Fd, Elsewhere
<1> QED
  BY <1>1, <1>2, <1>3, FdAssumption DEF Fd

\* The updates of an execution that the actions make, field by field.
LEMMA Updates ==
  ASSUME NEW e \in Execution, NEW i \in Nat \ {0}, NEW ph \in Phases
  PROVE  /\ [e EXCEPT !.phase = ph, !.i = i] \in Execution
         /\ \A save \in Seq(Saved) :
              /\ [e EXCEPT !.i = i, !.save = save] \in Execution
              /\ [e EXCEPT !.phase = ph, !.i = i, !.save = save] \in Execution
<1> DEFINE f == [e EXCEPT !.phase = ph]
           g == [f EXCEPT !.i = i]
           h == [e EXCEPT !.i = i]
<1>1. f \in Execution
  BY DEF Execution
<1>2. g \in Execution
  BY <1>1 DEF Execution
<1>3. h \in Execution
  BY DEF Execution
<1>4. ASSUME NEW save \in Seq(Saved)
      PROVE  [g EXCEPT !.save = save] \in Execution /\ [h EXCEPT !.save = save] \in Execution
  <2> HIDE DEF g, h
  <2> QED
    BY <1>2, <1>3 DEF Execution
<1>5. /\ [e EXCEPT !.phase = ph, !.i = i] = g
      /\ \A save : [e EXCEPT !.i = i, !.save = save] = [h EXCEPT !.save = save]
      /\ \A save : [e EXCEPT !.phase = ph, !.i = i, !.save = save] = [g EXCEPT !.save = save]
  BY Zenon
<1> QED
  BY <1>2, <1>4, <1>5, Zenon

\* The innermost execution, and the stack once it is replaced.
LEMMA TopType ==
  ASSUME TypeOK, stack # <<>>
  PROVE  /\ Top \in Execution /\ Tail(stack) \in Seq(Execution)
         /\ \A e \in Execution : SetTop(e) => stack' \in Seq(Execution) /\ stack' # <<>>
<1>1. stack \in Seq(Execution)
  BY DEF TypeOK
<1> QED
  BY <1>1, Pop, ReplaceTop DEF Top, SetTop

\* What flush_fd leaves in the buffer and what it writes.
LEMMA FlushType ==
  ASSUME TypeOK, NEW d, NEW t \in Table, Flush(d, t)
  PROVE  /\ buffer' \subseteq File \cup {"closed"}
         /\ astray' \subseteq (File \cup {"closed"}) \X File
<1>1. CASE d = 1
  <2>1. 1 \in Fd
    BY FdAssumption DEF Fd
  <2>2. IsOpen(t, 1) => t[1].file \in File
    BY <2>1 DEF IsOpen, Table, Open
  <2> QED
    BY <1>1, <2>2 DEF Flush, TypeOK
<1>2. CASE d # 1
  BY <1>2 DEF Flush, TypeOK
<1> QED
  BY <1>1, <1>2

\* The redirection whose turn it is, the descriptor open() gives, and the table
\* once the file is open and the descriptor saved.
LEMMA TurnType ==
  ASSUME TypeOK, In({"apply"}), Top.i <= Len(Top.redirs)
  PROVE  /\ stack # <<>> /\ Top \in Execution /\ Turn \in Redir
         /\ Turn.kind \in {"file", "dup", "close"} => Source \in Fd \cup {Elsewhere}
         /\ Turn.kind = "file" /\ Source # Elsewhere => Source \in FreeLow
         /\ Opened \in Table
<1>1. stack # <<>> /\ Top \in Execution
  BY TopType DEF In
<1>2. Turn \in Redir
  BY <1>1 DEF Turn, Execution
<1>3. FreeLow \subseteq Nat /\ FreeLow \subseteq Fd
  BY Descriptors DEF FreeLow
<1>4. Turn.kind = "file" /\ Source # Elsewhere => Source \in FreeLow
  BY <1>3, LowestIn DEF Source
<1>5. Turn.kind \in {"file", "dup", "close"} => Source \in Fd \cup {Elsewhere}
  BY <1>2, <1>3, <1>4 DEF Source, Redir
<1>6. Opened \in Table
  BY <1>2, <1>3, <1>4 DEF Opened, Redir, TypeOK, Table, Open
<1> QED
  BY <1>1, <1>2, <1>4, <1>5, <1>6

\* The entry that save_fd fills in, and the copy it makes.
LEMMA SavedType ==
  ASSUME TypeOK, In({"apply"}), Top.i <= Len(Top.redirs), ~Saves \/ FreeHigh # {}
  PROVE  /\ Saves => Lowest(FreeHigh) \in FreeHigh
         /\ Saves => Opened[Turn.fd] \in Open
         /\ NowSaved \in Seq(Saved)
         /\ WithCopy \in Table
<1>1. Top \in Execution /\ Turn \in Redir /\ Opened \in Table
  BY TurnType
<1>2. FreeHigh \subseteq Nat /\ FreeHigh \subseteq High /\ FreeHigh \subseteq Fd
  BY Descriptors DEF FreeHigh
<1>3. Saves => Lowest(FreeHigh) \in FreeHigh
  BY <1>2, LowestIn
<1>4. Turn.fd \in Low /\ Turn.fd \in Fd
  BY <1>1 DEF Redir, Fd
<1>5. Saves => Opened[Turn.fd] \in Open
  BY <1>1, <1>4 DEF Saves, IsOpen, Table
<1>6. NowSaved \in Seq(Saved)
  <2>1. Saves => [original |-> Turn.fd, saved |-> Lowest(FreeHigh),
                  cloexec |-> Opened[Turn.fd].cloexec] \in Saved
    BY <1>2, <1>3, <1>4, <1>5 DEF Saved, Open
  <2>2. Top.save \in Seq(Saved)
    BY <1>1 DEF Execution
  <2> QED
    BY <2>1, <2>2 DEF NowSaved
<1>7. WithCopy \in Table
  <2>1. Saves => [file |-> Opened[Turn.fd].file, cloexec |-> TRUE] \in Open
    BY <1>5 DEF Open
  <2> QED
    BY <1>1, <1>2, <1>3, <2>1 DEF WithCopy, Table
<1> QED
  BY <1>3, <1>5, <1>6, <1>7

\* Every step keeps the types.
LEMMA TypeStep == TypeOK /\ [Next]_vars => TypeOK'
<1> SUFFICES ASSUME TypeOK, [Next]_vars
             PROVE  TypeOK'
  OBVIOUS
<1>1. CASE Begin
  <2>1. PICK rs \in Redirs :
          stack' = <<[redirs |-> rs, i |-> 1, save |-> <<>>, phase |-> "apply",
                      before |-> fds]>> \o stack
    BY <1>1 DEF Begin
  <2>2. [redirs |-> rs, i |-> 1, save |-> <<>>, phase |-> "apply", before |-> fds] \in Execution
    BY RedirsAssumption DEF Execution, Phases, TypeOK
  <2>3. stack' \in Seq(Execution)
    BY <2>1, <2>2, Push DEF TypeOK
  <2>4. orderly' \in BOOLEAN
    BY <1>1 DEF Begin, Orderly, TypeOK
  <2> QED
    BY <1>1, <2>3, <2>4 DEF Begin, TypeOK
<1>2. ASSUME NEW save \in Seq(Saved), stack # <<>>, Fail(save)
      PROVE  stack' \in Seq(Execution)
  <2>1. Top \in Execution /\ "fail" \in Phases /\ 1 \in Nat \ {0}
    BY <1>2, TopType DEF Phases
  <2>2. [Top EXCEPT !.phase = "fail", !.i = 1, !.save = save] \in Execution
    BY <2>1, Updates, Zenon
  <2> QED
    BY <1>2, <2>2, TopType DEF Fail
<1>3. CASE BadRedir
  <2>1. stack # <<>> /\ Top.save \in Seq(Saved)
    BY <1>3, TopType DEF BadRedir, Applying, In, Execution
  <2> QED
    BY <1>2, <1>3, <2>1 DEF BadRedir, TypeOK
<1>4. CASE SaveFails
  <2>1. In({"apply"}) /\ Top.i <= Len(Top.redirs)
    BY <1>4 DEF SaveFails, Applying
  <2>2. stack # <<>> /\ Top.save \in Seq(Saved) /\ Opened \in Table
    BY <2>1, TurnType DEF Execution
  <2>3. orderly' \in BOOLEAN
    BY <1>4 DEF SaveFails, TypeOK
  <2> QED
    BY <1>2, <1>4, <2>2, <2>3 DEF SaveFails, TypeOK
<1>5. CASE ApplyFails
  <2>1. In({"apply"}) /\ Top.i <= Len(Top.redirs) /\ (~Saves \/ FreeHigh # {})
    BY <1>5 DEF ApplyFails, Applying
  <2>2. stack # <<>> /\ NowSaved \in Seq(Saved) /\ WithCopy \in Table
    BY <2>1, TurnType, SavedType
  <2> QED
    BY <1>2, <1>5, <2>2, FlushType DEF ApplyFails, TypeOK
<1>6. CASE Applies
  <2>1. In({"apply"}) /\ Top.i <= Len(Top.redirs) /\ (~Saves \/ FreeHigh # {})
    BY <1>6 DEF Applies, Applying
  <2>2. /\ stack # <<>> /\ Top \in Execution /\ Turn \in Redir
        /\ NowSaved \in Seq(Saved) /\ WithCopy \in Table
    BY <2>1, TurnType, SavedType
  <2>3. [Top EXCEPT !.i = @ + 1, !.save = NowSaved] \in Execution
    <3>1. Top.i + 1 \in Nat \ {0} /\ "apply" \in Phases
      BY <2>2 DEF Execution, Phases
    <3> QED
      BY <2>2, <3>1, Updates
  <2>4. stack' \in Seq(Execution)
    BY <1>6, <2>2, <2>3, TopType DEF Applies
  <2>5. SourceOpen => [file |-> SourceFile, cloexec |-> FALSE] \in Open
    BY <2>2 DEF SourceOpen, SourceFile, Redir, IsOpen, Table, Open
  <2>6. SourceOpen => Redirected \in Table
    BY <2>1, <2>2, <2>5, TurnType DEF Redirected, Table, FreeLow, Fd
  <2>7. fds' \in Table
    BY <1>6, <2>2, <2>6 DEF Applies, Table
  <2> QED
    BY <1>6, <2>2, <2>4, <2>7, FlushType DEF Applies, TypeOK
<1>7. CASE Applied
  <2>1. stack # <<>> /\ Top \in Execution
    BY <1>7, TopType DEF Applied, In
  <2>2. [Top EXCEPT !.phase = "body", !.i = 1] \in Execution
    <3>1. "body" \in Phases /\ 1 \in Nat \ {0}
      BY DEF Phases
    <3> QED
      BY <2>1, <3>1, Updates, Zenon
  <2> QED
    BY <1>7, <2>1, <2>2, TopType DEF Applied, TypeOK
<1>8. CASE Echo
  <2>1. fds[1].file \in File \cup {"closed"}
    BY Descriptors DEF TypeOK, Table, Open, Closed
  <2> QED
    BY <1>8, <2>1 DEF Echo, TypeOK
<1>9. CASE Drain
  BY <1>9, FlushType DEF Drain, TypeOK
<1>10. CASE EndBody
  <2>1. stack # <<>> /\ Top \in Execution
    BY <1>10, TopType DEF EndBody, In
  <2>2. [Top EXCEPT !.phase = "end", !.i = 1] \in Execution
    <3>1. "end" \in Phases /\ 1 \in Nat \ {0}
      BY DEF Phases
    <3> QED
      BY <2>1, <3>1, Updates, Zenon
  <2> QED
    BY <1>10, <2>1, <2>2, TopType DEF EndBody, TypeOK
<1>11. CASE Restore
  <2>1. stack # <<>> /\ Top \in Execution
    BY <1>11, TopType DEF Restore, Restoring, In
  <2>2. Top.i \in DOMAIN Top.save
    BY <1>11, <2>1 DEF Restore, Restoring, Execution
  <2>3. Top.save[Top.i] \in Saved
    BY <2>1, <2>2 DEF Execution
  <2>4. PutBack(fds, Top.save[Top.i]) \in Table
    BY <2>3, Descriptors DEF PutBack, Saved, IsOpen, TypeOK, Table, Open
  <2>5. [Top EXCEPT !.i = @ + 1] \in Execution
    BY <2>1 DEF Execution
  <2> QED
    BY <1>11, <2>1, <2>4, <2>5, TopType, FlushType DEF Restore, TypeOK
<1>12. CASE Finish
  BY <1>12, TopType DEF Finish, In, TypeOK
<1>13. CASE UNCHANGED vars
  BY <1>13 DEF vars, TypeOK
<1> QED
  BY <1>1, <1>3, <1>4, <1>5, <1>6, <1>7, <1>8, <1>9, <1>10, <1>11, <1>12, <1>13 DEF Next

\* TashRedirs is well typed: whatever nests in whatever order, no descriptor,
\* saved entry or history value ever leaves its type.
THEOREM TypeCorrect == Spec => []TypeOK
<1>1. Init => TypeOK
  BY StartAssumption DEF Init, TypeOK
<1> QED
  BY <1>1, TypeStep, PTL DEF Spec
-----------------------------------------------------------------------------
(***************************************************************************)
(* Every node can be undone.  Restorable(e, t) relates the entries of e    *)
(* still to be put back, its first table, and the table t.                 *)
(***************************************************************************)

\* An execution that has restored nothing yet has all its entries live.
LEMMA AllLive ==
  ASSUME NEW e \in Execution, e.phase \in {"apply", "body"} \/ e.i = 1
  PROVE  Live(e) = DOMAIN e.save
  BY DEF Live, Execution

\* Restorable only looks at the saved entries that are live and the first table.
LEMMA SameRestorable ==
  ASSUME NEW e, NEW f, NEW t, Restorable(e, t),
         f.save = e.save, f.before = e.before, Live(f) = Live(e)
  PROVE  Restorable(f, t)
  BY DEF Restorable

\* An open descriptor is not closed, and a live copy is open.
LEMMA LiveCopy ==
  ASSUME NEW e \in Execution, NEW t \in Table, Restorable(e, t), NEW j \in Live(e)
  PROVE  LET s == e.save[j] IN
         /\ s \in Saved /\ s.original \in Low /\ s.saved \in High
         /\ e.before[s.original] \in Open /\ e.before[s.saved] = Closed
         /\ t[s.saved].file = e.before[s.original].file
         /\ s.cloexec = e.before[s.original].cloexec
         /\ IsOpen(t, s.saved)
<1>1. e.save[j] \in Saved
  BY DEF Live, Execution
<1>2. /\ e.before[e.save[j].original] \in Open
      /\ e.before[e.save[j].saved] = Closed
      /\ t[e.save[j].saved].file = e.before[e.save[j].original].file
      /\ e.save[j].cloexec = e.before[e.save[j].original].cloexec
  BY DEF Restorable
<1>3. t[e.save[j].saved].file \in File
  BY <1>2 DEF Open
<1>4. IsOpen(t, e.save[j].saved)
  BY <1>3, FileAssumption DEF IsOpen, Closed
<1> QED
  BY <1>1, <1>2, <1>4 DEF Saved

\* The descriptor whose turn it is in an orderly list is as the node found it, so
\* that open() does not return it and it is saved unless it is copied to itself.
LEMMA OrderlyTurn ==
  ASSUME TypeOK, In({"apply"}), Top.i <= Len(Top.redirs),
         Restorable(Top, fds), Untouched(Top)
  PROVE  /\ Turn.fd \in Low /\ Turn.fd \in Fd
         /\ fds[Turn.fd] = Top.before[Turn.fd] /\ fds[Turn.fd] \in Open
         /\ \A j \in DOMAIN Top.save : Top.save[j].original # Turn.fd
         /\ Turn.kind = "file" => Source # Turn.fd
         /\ Opened[Turn.fd] = fds[Turn.fd]
         /\ Saves <=> Source # Turn.fd
<1>1. stack # <<>> /\ Top \in Execution /\ Turn \in Redir /\ Top.i \in DOMAIN Top.redirs
  BY TurnType DEF Execution
<1>2. Turn.fd \in Low /\ Turn.fd \in Fd
  BY <1>1, Descriptors DEF Redir
<1>3. \A j \in DOMAIN Top.save : Top.save[j].original # Turn.fd
  BY <1>1 DEF Untouched, Turn, Execution
<1>4. \A j \in Live(Top) : Top.save[j].saved \in High /\ j \in DOMAIN Top.save
  <2>1. \A j \in Live(Top) : j \in DOMAIN Top.save
    BY DEF Live
  <2>2. fds \in Table
    BY DEF TypeOK
  <2> QED
    BY <1>1, <2>1, <2>2, LiveCopy
<1>5. fds[Turn.fd] = Top.before[Turn.fd]
  BY <1>2, <1>3, <1>4, Descriptors DEF Restorable
<1>6. fds[Turn.fd] \in Open
  BY <1>1, <1>5 DEF Untouched, Turn
<1>7. fds[Turn.fd] # Closed
  BY <1>6, FileAssumption DEF Open, Closed
<1>8. Turn.kind = "file" => Source # Turn.fd
  BY <1>2, <1>7, TurnType, Descriptors DEF FreeLow, Holds
<1>9. Opened[Turn.fd] = fds[Turn.fd]
  BY <1>2, <1>8 DEF Opened, TypeOK, Table
<1> QED
  BY <1>2, <1>3, <1>5, <1>6, <1>7, <1>8, <1>9 DEF Saves, IsOpen

\* Whatever happens to the descriptor whose turn it is, once it is saved the node
\* can be undone, as long as the copy is there and no other descriptor has changed.
LEMMA SavedRestorable ==
  ASSUME TypeOK, In({"apply"}), Top.i <= Len(Top.redirs), ~Saves \/ FreeHigh # {},
         Restorable(Top, fds), Untouched(Top),
         NEW e \in Execution, e.save = NowSaved, e.before = Top.before,
         Live(e) = DOMAIN e.save,
         NEW t \in Table,
         \A d \in Fd : d # Turn.fd /\ (Saves => d # Lowest(FreeHigh)) => t[d] = fds[d],
         Saves => t[Lowest(FreeHigh)].file = fds[Turn.fd].file,
         ~Saves => t[Turn.fd] = fds[Turn.fd]
  PROVE  Restorable(e, t)
<1> DEFINE h == Lowest(FreeHigh)
           n == Len(Top.save) + 1
           entry == [original |-> Turn.fd, saved |-> h, cloexec |-> Opened[Turn.fd].cloexec]
<1>1. Top \in Execution /\ Top.save \in Seq(Saved) /\ Top.phase = "apply" /\ fds \in Table
  BY TurnType DEF In, Execution, TypeOK
<1>2. Live(Top) = DOMAIN Top.save
  BY <1>1, AllLive
<1>3. /\ Turn.fd \in Low /\ Turn.fd \in Fd
      /\ fds[Turn.fd] = Top.before[Turn.fd] /\ fds[Turn.fd] \in Open
      /\ \A j \in DOMAIN Top.save : Top.save[j].original # Turn.fd
      /\ Opened[Turn.fd] = fds[Turn.fd]
  BY OrderlyTurn
<1>4. \A j \in DOMAIN Top.save :
        /\ Top.save[j].original \in Low /\ Top.save[j].saved \in High
        /\ Top.before[Top.save[j].original] \in Open
        /\ Top.before[Top.save[j].saved] = Closed
        /\ fds[Top.save[j].saved].file = Top.before[Top.save[j].original].file
        /\ Top.save[j].cloexec = Top.before[Top.save[j].original].cloexec
        /\ fds[Top.save[j].saved] # Closed
  BY <1>1, <1>2, LiveCopy DEF IsOpen
<1>5. CASE ~Saves
  <2>1. e.save = Top.save /\ Live(e) = Live(Top)
    BY <1>2, <1>5 DEF NowSaved
  <2>2. \A d \in Fd : t[d] = fds[d]
    BY <1>5
  <2>3. \A j \in Live(e) : e.save[j].saved \in Fd
    BY <1>2, <1>4, <2>1, Descriptors
  <2> QED
    BY <2>1, <2>2, <2>3 DEF Restorable
<1>6. CASE Saves
  <2>1. h \in High /\ h \in Fd /\ fds[h] = Closed /\ h # Turn.fd
    BY <1>3, <1>6, SavedType, Descriptors DEF FreeHigh, Holds
  <2>2. /\ DOMAIN e.save = 1..n
        /\ \A j \in DOMAIN Top.save : j \in DOMAIN e.save /\ e.save[j] = Top.save[j]
        /\ n \in DOMAIN e.save /\ e.save[n] = entry
        /\ \A j \in DOMAIN e.save : j \in DOMAIN Top.save \/ j = n
    BY <1>1, <1>6 DEF NowSaved
  <2>3. \A j \in DOMAIN Top.save : Top.save[j].saved # h
    BY <1>4, <2>1
  <2>4. Top.before[h] = Closed
    BY <1>2, <1>4, <2>1, <2>3, Descriptors DEF Restorable
  <2>5. \A j \in DOMAIN Top.save : t[Top.save[j].saved] = fds[Top.save[j].saved]
    BY <1>3, <1>4, <2>3, Descriptors
  <2> HIDE DEF h, n
  <2>6. ASSUME NEW j \in DOMAIN e.save
        PROVE  /\ e.before[e.save[j].original] \in Open
               /\ e.before[e.save[j].saved] = Closed
               /\ t[e.save[j].saved].file = e.before[e.save[j].original].file
               /\ e.save[j].cloexec = e.before[e.save[j].original].cloexec
    <3>1. CASE j \in DOMAIN Top.save
      BY <1>4, <2>2, <2>5, <3>1
    <3>2. CASE j = n
      BY <1>3, <1>6, <2>2, <2>4, <3>2 DEF h
    <3> QED
      BY <2>2, <3>1, <3>2
  <2>7. ASSUME NEW j \in DOMAIN e.save, NEW k \in DOMAIN e.save, j # k
        PROVE  e.save[j].original # e.save[k].original /\ e.save[j].saved # e.save[k].saved
    <3>1. CASE j \in DOMAIN Top.save /\ k \in DOMAIN Top.save
      BY <1>2, <2>2, <2>7, <3>1 DEF Restorable
    <3>2. CASE j = n /\ k \in DOMAIN Top.save
      BY <1>3, <2>2, <2>3, <3>2
    <3>3. CASE k = n /\ j \in DOMAIN Top.save
      BY <1>3, <2>2, <2>3, <3>3
    <3> QED
      BY <2>2, <2>7, <3>1, <3>2, <3>3
  <2>8. ASSUME NEW d \in Fd,
               \A j \in DOMAIN e.save : d # e.save[j].original /\ d # e.save[j].saved
        PROVE  t[d] = e.before[d]
    <3>1. d # Turn.fd /\ d # h
      BY <2>2, <2>8
    <3>2. \A j \in DOMAIN Top.save : d # Top.save[j].original /\ d # Top.save[j].saved
      BY <2>2, <2>8
    <3>3. fds[d] = Top.before[d]
      BY <1>2, <3>2 DEF Restorable
    <3> QED
      BY <3>1, <3>3 DEF h
  <2> QED
    BY <2>6, <2>7, <2>8 DEF Restorable
<1> QED
  BY <1>5, <1>6

\* Replacing the innermost execution by one that can be undone from the new table
\* leaves the outer ones as they are.
LEMMA ReplaceRestorable ==
  ASSUME TypeOK, stack # <<>>, \A k \in DOMAIN stack : Restorable(stack[k], Under(k)),
         NEW e \in Execution, e.before = Top.before, SetTop(e), Restorable(e, fds')
  PROVE  \A k \in DOMAIN stack' : Restorable(stack'[k], Under(k)')
<1>1. stack \in Seq(Execution) /\ Top = stack[1]
  BY Pop DEF TypeOK, Top
<1>2. /\ DOMAIN stack' = DOMAIN stack /\ stack'[1] = e
      /\ \A k \in DOMAIN stack : k > 1 => stack'[k] = stack[k]
  BY <1>1, ReplaceTop DEF SetTop
<1>3. ASSUME NEW k \in DOMAIN stack', k > 1
      PROVE  Under(k)' = Under(k)
  <2>1. k - 1 \in DOMAIN stack
    BY <1>1, <1>2, <1>3
  <2>2. stack'[k - 1].before = stack[k - 1].before
    BY <1>1, <1>2, <2>1
  <2> QED
    BY <1>1, <1>2, <1>3, <2>2 DEF Under
<1>4. Under(1)' = fds'
  BY DEF Under
<1> QED
  <2> TAKE k \in DOMAIN stack'
  <2>1. CASE k = 1
    BY <1>2, <1>4, <2>1
  <2>2. CASE k > 1
    BY <1>2, <1>3, <2>2
  <2> QED
    BY <1>1, <1>2, <2>1, <2>2

\* The execution the next turn of restore_fds leaves.
LEMMA RestoreRestorable ==
  ASSUME TypeOK, Restoring, Restorable(Top, fds)
  PROVE  Restorable([Top EXCEPT !.i = @ + 1], PutBack(fds, Top.save[Top.i]))
<1> DEFINE e == [Top EXCEPT !.i = @ + 1]
           s == Top.save[Top.i]
           t == PutBack(fds, s)
<1>1. /\ Top \in Execution /\ Top.phase \in {"fail", "end"} /\ fds \in Table
      /\ Top.i \in DOMAIN Top.save
  BY TopType DEF Restoring, In, Execution, TypeOK
<1>2. e \in Execution /\ e.save = Top.save /\ e.before = Top.before
  BY <1>1 DEF Execution
<1>3. Top.i \in Live(Top) /\ Live(e) = Live(Top) \ {Top.i}
  BY <1>1 DEF Live, Execution
<1>4. /\ s.original \in Low /\ s.saved \in High
      /\ Top.before[s.original] \in Open /\ Top.before[s.saved] = Closed
      /\ fds[s.saved].file = Top.before[s.original].file
      /\ s.cloexec = Top.before[s.original].cloexec
      /\ IsOpen(fds, s.saved)
  BY <1>1, <1>3, LiveCopy
<1>5. /\ t[s.original] = Top.before[s.original] /\ t[s.saved] = Top.before[s.saved]
      /\ \A d \in Fd : d # s.original /\ d # s.saved => t[d] = fds[d]
  <2>1. [file |-> fds[s.saved].file, cloexec |-> s.cloexec] = Top.before[s.original]
    BY <1>4 DEF Open
  <2>2. s.original \in Fd /\ s.saved \in Fd /\ s.original # s.saved
    BY <1>4, Descriptors
  <2> QED
    BY <1>1, <1>4, <2>1, <2>2 DEF PutBack, Table
<1>6. \A j \in Live(e) : /\ j \in Live(Top) /\ j # Top.i
                         /\ Top.save[j].original \in Low /\ Top.save[j].saved \in High
                         /\ Top.save[j].original # s.original /\ Top.save[j].saved # s.saved
  BY <1>1, <1>3, LiveCopy DEF Restorable
<1>7. \A j \in Live(e) : t[Top.save[j].saved] = fds[Top.save[j].saved]
  BY <1>4, <1>5, <1>6, Descriptors
<1>8. ASSUME NEW d \in Fd,
             \A j \in Live(e) : d # e.save[j].original /\ d # e.save[j].saved
      PROVE  t[d] = e.before[d]
  <2>1. CASE d = s.original \/ d = s.saved
    BY <1>2, <1>5, <2>1
  <2>2. CASE d # s.original /\ d # s.saved
    <3>1. \A j \in Live(Top) : d # Top.save[j].original /\ d # Top.save[j].saved
      BY <1>2, <1>3, <1>8, <2>2
    <3>2. fds[d] = Top.before[d]
      BY <3>1 DEF Restorable
    <3> QED
      BY <1>2, <1>5, <2>2, <3>2
  <2> QED
    BY <2>1, <2>2
<1> HIDE DEF e, t
<1> QED
  BY <1>2, <1>6, <1>7, <1>8 DEF Restorable, e, t

\* Pushing an execution on nodes in their bodies, or popping it, keeps the others
\* in their bodies.
LEMMA BodiesStep == TypeOK /\ BodiesAround /\ [Next]_vars => BodiesAround'
<1> SUFFICES ASSUME TypeOK, BodiesAround, [Next]_vars
             PROVE  BodiesAround'
  OBVIOUS
<1>0. stack \in Seq(Execution)
  BY DEF TypeOK
<1>1. CASE Begin
  <2>1. PICK e : stack' = <<e>> \o stack
    BY <1>1 DEF Begin
  <2>2. stack # <<>> => stack[1].phase = "body"
    BY <1>0, <1>1 DEF Begin, InBody, Top
  <2>3. \A k \in DOMAIN stack' : k > 1 => k - 1 \in DOMAIN stack /\ stack'[k] = stack[k - 1]
    BY <1>0, <2>1
  <2>4. \A k \in DOMAIN stack : stack[k].phase = "body"
    BY <1>0, <2>2 DEF BodiesAround
  <2> QED
    BY <2>3, <2>4 DEF BodiesAround
<1>2. ASSUME NEW e, stack # <<>>, SetTop(e)
      PROVE  BodiesAround'
  <2>1. DOMAIN stack' = DOMAIN stack /\ \A k \in DOMAIN stack : k > 1 => stack'[k] = stack[k]
    BY <1>0, <1>2 DEF SetTop
  <2> QED
    BY <2>1 DEF BodiesAround
<1>3. CASE BadRedir \/ SaveFails \/ ApplyFails
  BY <1>2, <1>3, Zenon DEF BadRedir, SaveFails, ApplyFails, Applying, In, Fail
<1>4. CASE Applies \/ Applied \/ EndBody \/ Restore
  BY <1>2, <1>4, Zenon DEF Applies, Applied, EndBody, Restore, Restoring, Applying, In
<1>5. CASE Echo \/ Drain \/ UNCHANGED vars
  BY <1>5 DEF Echo, Drain, vars, BodiesAround
<1>6. CASE Finish
  <2>1. stack # <<>> /\ stack' = Tail(stack)
    BY <1>6 DEF Finish, In
  <2>2. \A k \in DOMAIN stack' : k + 1 \in DOMAIN stack /\ stack'[k] = stack[k + 1]
    BY <1>0, <2>1
  <2> QED
    BY <1>0, <2>1, <2>2 DEF BodiesAround
<1> QED
  BY <1>1, <1>3, <1>4, <1>5, <1>6 DEF Next

\* A step keeps every node restorable.
LEMMA RestorableStep ==
  TypeOK /\ EveryNodeRestorable /\ [Next]_vars => EveryNodeRestorable'
<1> SUFFICES ASSUME TypeOK, EveryNodeRestorable, [Next]_vars, orderly'
             PROVE  /\ \A k \in DOMAIN stack' : Restorable(stack'[k], Under(k)')
                    /\ In({"apply"})' => Untouched(Top)'
  BY BodiesStep DEF EveryNodeRestorable
<1> DEFINE Goal == /\ \A k \in DOMAIN stack' : Restorable(stack'[k], Under(k)')
                   /\ In({"apply"})' => Untouched(Top)'
<1>1. orderly /\ \A k \in DOMAIN stack : Restorable(stack[k], Under(k))
  <2>1. orderly
    BY DEF Next, Begin, BadRedir, SaveFails, ApplyFails, Applies, Applied, Echo, Drain,
           EndBody, Restore, Finish, vars
  <2> QED
    BY <2>1 DEF EveryNodeRestorable
<1>2. /\ stack \in Seq(Execution) /\ fds \in Table /\ TypeOK'
  BY TypeStep DEF TypeOK
<1>3. stack # <<>> => Top \in Execution /\ Restorable(Top, fds)
  BY <1>1, <1>2, Pop DEF Top, Under
<1>4. CASE Begin
  <2> DEFINE new(rs) == [redirs |-> rs, i |-> 1, save |-> <<>>, phase |-> "apply",
                         before |-> fds]
  <2>1. PICK rs \in Redirs : stack' = <<new(rs)>> \o stack /\ orderly' = (orderly /\ Orderly(rs))
    BY <1>4 DEF Begin
  <2>2. new(rs) \in Execution /\ fds' = fds /\ Orderly(rs) /\ rs \in Seq(Redir)
    <3>1. rs \in Seq(Redir)
      BY RedirsAssumption
    <3>2. new(rs) \in Execution
      BY <1>2, <3>1 DEF Execution, Phases
    <3>3. fds' = fds /\ Orderly(rs)
      BY <1>4, <2>1 DEF Begin
    <3> QED
      BY <3>1, <3>2, <3>3
  <2>3. /\ stack'[1] = new(rs) /\ Top' = new(rs)
        /\ \A k \in DOMAIN stack' : k > 1 => k - 1 \in DOMAIN stack /\ stack'[k] = stack[k - 1]
    BY <1>2, <2>1, <2>2, Push DEF Top
  <2>4. Restorable(new(rs), fds)
    BY DEF Restorable, Live
  <2>5. ASSUME NEW k \in DOMAIN stack'
        PROVE  Restorable(stack'[k], Under(k)')
    <3>1. k \in Nat /\ k >= 1
      BY <1>2 DEF TypeOK
    <3>2. CASE k = 1
      BY <2>2, <2>3, <2>4, <3>2 DEF Under
    <3>3. CASE k = 2
      <4>1. stack'[2] = stack[1] /\ 1 \in DOMAIN stack
        BY <2>3, <2>5, <3>3
      <4>2. Restorable(stack[1], fds)
        BY <1>1, <4>1 DEF Under
      <4>3. Under(2)' = fds
        BY <2>3 DEF Under
      <4> QED
        BY <3>3, <4>1, <4>2, <4>3
    <3>4. CASE k > 2
      <4>1. k - 1 \in DOMAIN stack' /\ k - 1 \in DOMAIN stack /\ k - 2 \in DOMAIN stack
        BY <1>2, <2>1, <2>3, <2>5, <3>1, <3>4
      <4>2. stack'[k] = stack[k - 1] /\ stack'[k - 1] = stack[k - 2]
        BY <1>2, <2>1, <2>3, <3>1, <3>4, <4>1
      <4>3. Under(k)' = Under(k - 1)
        BY <1>2, <3>1, <3>4, <4>2 DEF Under
      <4> QED
        BY <1>1, <4>1, <4>2, <4>3
    <3> QED
      BY <3>1, <3>2, <3>3, <3>4
  <2>6. Untouched(new(rs))
    <3>1. \A i \in DOMAIN rs : rs[i].fd \in Fd
      <4> TAKE i \in DOMAIN rs
      <4>1. rs[i] \in Redir
        BY <2>2
      <4> QED
        BY <4>1, Descriptors DEF Redir
    <3>2. \A i \in DOMAIN rs : fds[rs[i].fd] \in Open
      BY <1>2, <2>2, <3>1 DEF Orderly, Holds, Table
    <3>3. new(rs).redirs = rs /\ new(rs).before = fds /\ DOMAIN new(rs).save = {}
      OBVIOUS
    <3> HIDE DEF new
    <3> QED
      BY <2>2, <3>2, <3>3 DEF Untouched, Orderly
  <2> QED
    BY <2>3, <2>5, <2>6 DEF Untouched
<1>5. ASSUME NEW e \in Execution, stack # <<>>, SetTop(e), e.before = Top.before,
             Restorable(e, fds'), e.phase = "apply" => Untouched(e)
      PROVE  Goal
  <2>1. \A k \in DOMAIN stack' : Restorable(stack'[k], Under(k)')
    BY <1>1, <1>5, ReplaceRestorable
  <2>2. Top' = e
    BY <1>2, <1>5, ReplaceTop DEF SetTop, Top
  <2> QED
    BY <1>5, <2>1, <2>2 DEF In, Untouched
<1>6. ASSUME NEW save \in Seq(Saved), stack # <<>>, Fail(save)
      PROVE  LET e == [Top EXCEPT !.phase = "fail", !.i = 1, !.save = save] IN
             /\ e \in Execution /\ e.save = save /\ e.before = Top.before
             /\ e.phase = "fail" /\ Live(e) = DOMAIN save /\ SetTop(e)
  <2> DEFINE e == [Top EXCEPT !.phase = "fail", !.i = 1, !.save = save]
  <2>1. Top \in Execution /\ "fail" \in Phases /\ 1 \in Nat \ {0}
    BY <1>3, <1>6 DEF Phases
  <2>2. e \in Execution
    BY <2>1, Updates, Zenon
  <2>3. e.save = save /\ e.before = Top.before /\ e.phase = "fail" /\ e.i = 1
    BY <2>1 DEF Execution
  <2>4. SetTop(e)
    BY <1>6 DEF Fail
  <2> HIDE DEF e
  <2>5. Live(e) = DOMAIN save
    BY <2>2, <2>3, AllLive
  <2> QED
    BY <2>2, <2>3, <2>4, <2>5 DEF e
<1>7. CASE BadRedir \/ SaveFails
  <2>1. stack # <<>> /\ Top.phase = "apply" /\ Fail(Top.save)
    BY <1>7 DEF BadRedir, SaveFails, Applying, In
  <2>2. fds' = fds
    BY <1>7 DEF BadRedir, SaveFails
  <2>3. Top.save \in Seq(Saved) /\ Live(Top) = DOMAIN Top.save
    BY <1>3, <2>1, AllLive DEF Execution
  <2> DEFINE e == [Top EXCEPT !.phase = "fail", !.i = 1, !.save = Top.save]
  <2>4. /\ e \in Execution /\ e.save = Top.save /\ e.before = Top.before
        /\ e.phase = "fail" /\ Live(e) = DOMAIN Top.save /\ SetTop(e)
    BY <1>6, <2>1, <2>3
  <2> HIDE DEF e
  <2>5. Restorable(e, fds')
    BY <1>3, <2>1, <2>2, <2>3, <2>4, SameRestorable
  <2> QED
    BY <1>5, <2>1, <2>4, <2>5
<1>8. CASE ApplyFails \/ Applies
  <2>1. /\ stack # <<>> /\ In({"apply"}) /\ Top.i <= Len(Top.redirs)
        /\ ~Saves \/ FreeHigh # {}
        /\ Turn.kind \in {"file", "dup", "close"}
    BY <1>8 DEF ApplyFails, Applies, Applying, In
  <2>2. Restorable(Top, fds) /\ Untouched(Top) /\ Top.phase = "apply"
    BY <1>1, <1>3, <2>1 DEF EveryNodeRestorable, In
  <2>3. /\ Turn.fd \in Low /\ Turn.fd \in Fd /\ fds[Turn.fd] \in Open
        /\ \A j \in DOMAIN Top.save : Top.save[j].original # Turn.fd
        /\ Turn.kind = "file" => Source # Turn.fd
        /\ Opened[Turn.fd] = fds[Turn.fd]
        /\ Saves <=> Source # Turn.fd
    BY <2>1, <2>2, OrderlyTurn
  <2>4. NowSaved \in Seq(Saved) /\ WithCopy \in Table /\ Opened \in Table
    BY <2>1, SavedType, TurnType
  <2>5. Saves => Lowest(FreeHigh) \in High /\ Lowest(FreeHigh) # Turn.fd
    BY <2>1, <2>3, SavedType, Descriptors DEF FreeHigh
  <2>6. Turn.kind = "file" /\ Source # Elsewhere => Source \in Fd /\ fds[Source] = Closed
    BY <2>1, TurnType, Descriptors DEF FreeLow, Holds
  <2>7. /\ \A d \in Fd : d # Turn.fd /\ (Saves => d # Lowest(FreeHigh))
                         /\ ~(Turn.kind = "file" /\ d = Source) => WithCopy[d] = fds[d]
        /\ WithCopy[Turn.fd] = fds[Turn.fd]
        /\ Saves => WithCopy[Lowest(FreeHigh)].file = fds[Turn.fd].file
    BY <1>2, <2>3, <2>4, <2>5, Descriptors DEF WithCopy, Opened, Table
  <2>8. ASSUME NEW e \in Execution, e.save = NowSaved, e.before = Top.before,
               Live(e) = DOMAIN NowSaved
        PROVE  Restorable(e, fds')
    <3>1. fds' \in Table
      BY <1>2 DEF TypeOK
    <3>2. /\ \A d \in Fd : d # Turn.fd /\ (Saves => d # Lowest(FreeHigh)) => fds'[d] = fds[d]
          /\ Saves => fds'[Lowest(FreeHigh)].file = fds[Turn.fd].file
          /\ ~Saves => fds'[Turn.fd] = fds[Turn.fd]
      <4>1. CASE Turn.kind # "file" /\ fds' = WithCopy
        BY <2>7, <4>1
      <4>2. CASE Turn.kind = "close" /\ fds' = [WithCopy EXCEPT ![Turn.fd] = Closed]
        <5>1. Saves
          BY <2>3, <4>2, Descriptors DEF Source
        <5> QED
          BY <2>3, <2>4, <2>5, <2>7, <4>2, <5>1, Descriptors DEF Table
      <4>3. CASE Source # Turn.fd /\ fds' = Redirected
        <5>1. Saves /\ Lowest(FreeHigh) # Turn.fd /\ Lowest(FreeHigh) \in Fd
          BY <2>3, <2>5, <4>3, Descriptors
        <5>2. Turn.kind = "file" => Source # Lowest(FreeHigh)
          BY <2>1, <2>5, <5>1, TurnType, Descriptors DEF FreeLow
        <5>3. CASE Turn.kind = "file" /\ Source # Elsewhere
          BY <2>3, <2>4, <2>6, <2>7, <4>3, <5>1, <5>2, <5>3 DEF Redirected, Table
        <5>4. CASE ~(Turn.kind = "file" /\ Source # Elsewhere)
          BY <2>3, <2>4, <2>7, <4>3, <5>1, <5>4, Descriptors DEF Redirected, Table
        <5> QED
          BY <5>3, <5>4
      <4> QED
        BY <1>8, <2>3, <4>1, <4>2, <4>3 DEF ApplyFails, Applies
    <3> QED
      BY <2>1, <2>2, <2>8, <3>1, <3>2, SavedRestorable
  <2>9. CASE ApplyFails
    <3> DEFINE e == [Top EXCEPT !.phase = "fail", !.i = 1, !.save = NowSaved]
    <3>1. /\ e \in Execution /\ e.save = NowSaved /\ e.before = Top.before
          /\ e.phase = "fail" /\ Live(e) = DOMAIN NowSaved /\ SetTop(e)
      BY <1>6, <2>1, <2>4, <2>9 DEF ApplyFails
    <3> HIDE DEF e
    <3> QED
      BY <1>5, <2>1, <2>8, <3>1
  <2>10. CASE Applies
    <3> DEFINE e == [Top EXCEPT !.i = @ + 1, !.save = NowSaved]
    <3>1. Top \in Execution /\ Top.i + 1 \in Nat \ {0} /\ "apply" \in Phases
      BY <1>3, <2>1 DEF Execution, Phases
    <3>2. e \in Execution
      BY <2>4, <3>1, Updates, Zenon
    <3>3. /\ e.save = NowSaved /\ e.before = Top.before /\ e.phase = "apply"
          /\ e.redirs = Top.redirs /\ e.i = Top.i + 1
      BY <2>2, <3>1 DEF Execution
    <3>4. SetTop(e)
      BY <2>10 DEF Applies
    <3> HIDE DEF e
    <3>5. Live(e) = DOMAIN NowSaved
      BY <3>2, <3>3, AllLive
    <3>6. Untouched(e)
      <4>1. \A j \in DOMAIN NowSaved :
              NowSaved[j].original = Turn.fd \/ (j \in DOMAIN Top.save /\ NowSaved[j] = Top.save[j])
        <5>1. Top.save \in Seq(Saved)
          BY <3>1 DEF Execution
        <5> QED
          BY <5>1 DEF NowSaved
      <4>2. Top.i \in DOMAIN Top.redirs /\ Top.i \in Nat
        BY <2>1, <3>1 DEF Execution
      <4>3. ASSUME NEW i \in DOMAIN Top.redirs, i >= Top.i + 1
            PROVE  Top.redirs[i].fd # Turn.fd /\ i >= Top.i
        <5>1. i \in Nat
          BY <3>1 DEF Execution
        <5>2. i # Top.i
          BY <4>2, <4>3, <5>1
        <5> QED
          BY <2>2, <4>2, <4>3, <5>1, <5>2 DEF Untouched, Turn
      <4> QED
        BY <2>2, <3>3, <4>1, <4>3 DEF Untouched
    <3> QED
      BY <1>5, <2>1, <2>8, <3>2, <3>3, <3>4, <3>5, <3>6
  <2> QED
    BY <1>8, <2>9, <2>10
<1>9. CASE Applied \/ EndBody
  <2>1. stack # <<>> /\ Top.phase \in {"apply", "body"} /\ fds' = fds
    BY <1>9 DEF Applied, EndBody, In
  <2>2. PICK ph \in {"body", "end"} : SetTop([Top EXCEPT !.phase = ph, !.i = 1])
    BY <1>9 DEF Applied, EndBody
  <2> DEFINE e == [Top EXCEPT !.phase = ph, !.i = 1]
  <2>3. Top \in Execution /\ ph \in Phases /\ 1 \in Nat \ {0}
    BY <1>3, <2>1 DEF Phases
  <2>4. e \in Execution
    BY <2>3, Updates, Zenon
  <2>5. e.save = Top.save /\ e.before = Top.before /\ e.phase = ph /\ e.i = 1
    BY <2>3 DEF Execution
  <2> HIDE DEF e
  <2>6. Live(e) = Live(Top)
    BY <2>1, <2>3, <2>4, <2>5, AllLive
  <2>7. Restorable(e, fds')
    BY <1>3, <2>1, <2>5, <2>6, SameRestorable
  <2> QED
    BY <1>5, <2>1, <2>2, <2>4, <2>5, <2>7 DEF e
<1>10. CASE Restore
  <2>1. stack # <<>> /\ Restoring /\ Top.phase \in {"fail", "end"} /\ Restorable(Top, fds)
    BY <1>3, <1>10 DEF Restore, Restoring, In
  <2> DEFINE e == [Top EXCEPT !.i = @ + 1]
  <2>2. e \in Execution /\ e.before = Top.before /\ e.phase = Top.phase
    BY <1>3, <2>1 DEF Execution
  <2>3. SetTop(e) /\ fds' = PutBack(fds, Top.save[Top.i])
    BY <1>10 DEF Restore
  <2>4. Restorable(e, fds')
    BY <2>1, <2>3, RestoreRestorable
  <2> HIDE DEF e
  <2> QED
    BY <1>5, <2>1, <2>2, <2>3, <2>4
<1>11. CASE Finish
  <2>1. stack # <<>> /\ stack' = Tail(stack) /\ fds' = fds /\ Live(Top) = {}
    <3>1. stack # <<>> /\ stack' = Tail(stack) /\ fds' = fds /\ Top.phase \in {"fail", "end"}
          /\ Top.i > Len(Top.save)
      BY <1>11 DEF Finish, In
    <3> QED
      BY <1>3, <3>1 DEF Live, Execution
  <2>2. fds = Top.before
    <3>1. \A d \in Fd : fds[d] = Top.before[d]
      BY <1>3, <2>1 DEF Restorable
    <3>2. fds \in Table /\ Top.before \in Table
      BY <1>2, <1>3, <2>1 DEF Execution
    <3> QED
      BY <3>1, <3>2 DEF Table
  <2>3. \A k \in DOMAIN stack' : k + 1 \in DOMAIN stack /\ stack'[k] = stack[k + 1]
    BY <1>2, <2>1, Pop
  <2>4. ASSUME NEW k \in DOMAIN stack'
        PROVE  Restorable(stack'[k], Under(k)')
    <3>1. k \in Nat /\ k >= 1 /\ stack[1] = Top
      BY <1>2, <2>1, Pop DEF TypeOK, Top
    <3>2. Under(k)' = Under(k + 1)
      <4>1. CASE k = 1
        BY <2>1, <2>2, <3>1, <4>1 DEF Under
      <4>2. CASE k > 1
        <5>1. k - 1 \in DOMAIN stack'
          BY <1>2, <3>1, <4>2 DEF TypeOK
        <5>2. stack'[k - 1] = stack[k]
          BY <2>3, <3>1, <5>1
        <5> QED
          BY <3>1, <4>2, <5>2 DEF Under
      <4> QED
        BY <3>1, <4>1, <4>2
    <3> QED
      BY <1>1, <2>3, <3>2
  <2>5. ~In({"apply"})'
    <3>1. ASSUME stack' # <<>>
          PROVE  Top'.phase = "body"
      <4>1. 1 \in DOMAIN stack' /\ Top' = stack'[1]
        BY <1>2, <3>1, Pop DEF TypeOK, Top
      <4>2. stack[2].phase = "body"
        BY <2>3, <4>1 DEF EveryNodeRestorable, BodiesAround
      <4> QED
        BY <2>3, <4>1, <4>2
    <3> QED
      BY <3>1 DEF In
  <2> QED
    BY <2>4, <2>5
<1>12. CASE Echo \/ Drain \/ UNCHANGED vars
  <2>1. UNCHANGED <<fds, stack>>
    BY <1>12 DEF Echo, Drain, vars
  <2> QED
    BY <1>1, <2>1 DEF EveryNodeRestorable, Under, In, Untouched, Top
<1> QED
  BY <1>4, <1>7, <1>8, <1>9, <1>10, <1>11, <1>12 DEF Next

\* Every execution on the stack of nodes can be undone, always: the inductive
\* invariant behind the next theorem.
THEOREM Nested == Spec => []EveryNodeRestorable
<1>1. Init => EveryNodeRestorable
  BY DEF Init, EveryNodeRestorable, BodiesAround, In
<1> QED
  BY <1>1, TypeCorrect, RestorableStep, PTL DEF Spec

\* With no live entry left the table is the first one.
LEMMA NothingLeft == TypeOK /\ EveryNodeRestorable => Restored
<1> SUFFICES ASSUME TypeOK, EveryNodeRestorable, orderly, In({"fail", "end"}),
                    Top.i > Len(Top.save)
             PROVE  fds = Top.before
  BY DEF Restored
<1>1. stack \in Seq(Execution) /\ stack # <<>> /\ Top.phase \in {"fail", "end"} /\ Top \in Execution
  BY TopType DEF In, TypeOK
<1>2. Restorable(Top, fds)
  BY <1>1, Pop DEF EveryNodeRestorable, Top, Under
<1>3. Live(Top) = {}
  BY <1>1 DEF Live, Execution
<1>4. \A d \in Fd : fds[d] = Top.before[d]
  BY <1>2, <1>3 DEF Restorable
<1> QED
  BY <1>1, <1>4 DEF TypeOK, Table, Execution

\* A node whose redirections have been put back, at its end or after one of them
\* failed, leaves the whole descriptor table as it found it.
THEOREM PutsEverythingBack == Spec => []Restored
  BY NothingLeft, TypeCorrect, Nested, PTL
-----------------------------------------------------------------------------
(***************************************************************************)
(* What is printed stays where it belongs.                                 *)
(***************************************************************************)

\* Unflushed bytes are all meant for the file that descriptor 1 is now: whoever
\* changes the descriptor flushes them first.
BufferBelongs == orderly => astray = {} /\ buffer \subseteq {fds[1].file}

\* flush_fd loses nothing to another file when the table it writes with has the
\* present file on descriptor 1.
LEMMA FlushBelongs ==
  ASSUME astray = {}, buffer \subseteq {fds[1].file}, NEW d, NEW t,
         t[1] = fds[1], Flush(d, t), d = 1 \/ fds'[1] = fds[1]
  PROVE  astray' = {} /\ buffer' \subseteq {fds'[1].file}
<1>1. CASE d = 1
  BY <1>1 DEF Flush
<1>2. CASE d # 1
  BY <1>2 DEF Flush
<1> QED
  BY <1>1, <1>2

\* Opening and saving leave an orderly list's descriptor 1 as it is; only the
\* redirection of descriptor 1 itself changes it.
LEMMA FirstDescriptor ==
  ASSUME TypeOK, In({"apply"}), Top.i <= Len(Top.redirs), ~Saves \/ FreeHigh # {},
         Restorable(Top, fds), Untouched(Top), Turn.kind \in {"file", "dup", "close"}
  PROVE  /\ Turn.fd = 1 => WithCopy[1] = fds[1]
         /\ Turn.kind # "file" => WithCopy[1] = fds[1]
         /\ Turn.fd # 1 /\ SourceOpen => Redirected[1] = fds[1]
<1>1. 1 \in Fd /\ 1 \notin High /\ fds \in Table
  BY Descriptors DEF TypeOK
<1>2. /\ Opened \in Table /\ Turn \in Redir
      /\ Turn.kind = "file" /\ Source # Elsewhere => Source \in FreeLow
  BY TurnType
<1>3. Opened[Turn.fd] = fds[Turn.fd]
  BY OrderlyTurn
<1>4. WithCopy[1] = Opened[1]
  BY <1>1, <1>2, SavedType DEF WithCopy, FreeHigh, Table
<1>5. Turn.kind # "file" => Opened = fds
  BY DEF Opened
<1>6. ASSUME Turn.fd # 1, SourceOpen
      PROVE  Redirected[1] = fds[1]
  <2>1. WithCopy \in Table
    BY SavedType
  <2>2. CASE Turn.kind = "file" /\ Source = 1
    <3>1. fds[1] = Closed /\ Source # Elsewhere
      BY <1>2, <2>2 DEF FreeLow, Holds, Elsewhere
    <3> QED
      BY <1>1, <2>1, <2>2, <3>1 DEF Redirected, Table
  <2>3. CASE ~(Turn.kind = "file" /\ Source = 1)
    <3>1. Opened[1] = fds[1]
      BY <1>1, <2>3 DEF Opened, Table
    <3> QED
      BY <1>1, <1>4, <1>6, <2>1, <2>3, <3>1 DEF Redirected, Table
  <2> QED
    BY <2>2, <2>3
<1> QED
  BY <1>3, <1>4, <1>5, <1>6

\* Every step keeps the unflushed bytes with their file.
LEMMA BufferStep ==
  TypeOK /\ EveryNodeRestorable /\ BufferBelongs /\ [Next]_vars => BufferBelongs'
<1> SUFFICES ASSUME TypeOK, EveryNodeRestorable, BufferBelongs, [Next]_vars, orderly'
             PROVE  astray' = {} /\ buffer' \subseteq {fds'[1].file}
  BY DEF BufferBelongs
<1>1. orderly
  BY DEF Next, Begin, BadRedir, SaveFails, ApplyFails, Applies, Applied, Echo, Drain,
         EndBody, Restore, Finish, vars
<1>2. astray = {} /\ buffer \subseteq {fds[1].file}
  BY <1>1 DEF BufferBelongs
<1>3. In({"apply"}) => Restorable(Top, fds) /\ Untouched(Top)
  BY <1>1, Pop DEF EveryNodeRestorable, In, Top, Under, TypeOK
<1>4. CASE Begin \/ BadRedir \/ SaveFails \/ Applied \/ EndBody \/ Finish \/ UNCHANGED vars
  <2>1. fds' = fds /\ buffer' = buffer /\ astray' = astray
    BY <1>4 DEF Begin, BadRedir, SaveFails, Applied, EndBody, Finish, vars
  <2> QED
    BY <1>2, <2>1
<1>5. CASE ApplyFails \/ Applies
  <2>1. /\ In({"apply"}) /\ Top.i <= Len(Top.redirs) /\ (~Saves \/ FreeHigh # {})
        /\ Turn.kind \in {"file", "dup", "close"} /\ Flush(Turn.fd, WithCopy)
    BY <1>5 DEF ApplyFails, Applies, Applying
  <2>2. Restorable(Top, fds) /\ Untouched(Top)
    BY <1>3, <2>1
  <2>3. /\ Turn.fd = 1 => WithCopy[1] = fds[1]
        /\ Turn.kind # "file" => WithCopy[1] = fds[1]
        /\ Turn.fd # 1 /\ SourceOpen => Redirected[1] = fds[1]
    BY <2>1, <2>2, FirstDescriptor
  <2>4. CASE Turn.fd = 1
    BY <1>2, <2>1, <2>3, <2>4, FlushBelongs
  <2>5. CASE Turn.fd # 1
    <3>1. buffer' = buffer /\ astray' = astray
      BY <2>1, <2>5 DEF Flush
    <3>2. fds'[1] = fds[1]
      <4>1. CASE ApplyFails
        BY <2>3, <4>1 DEF ApplyFails
      <4>2. CASE Applies /\ Turn.kind = "close"
        <5>1. fds' = [WithCopy EXCEPT ![Turn.fd] = Closed] /\ WithCopy \in Table
          BY <2>1, <4>2, SavedType DEF Applies
        <5> QED
          BY <2>3, <2>5, <4>2, <5>1, Descriptors DEF Table
      <4>3. CASE Applies /\ Turn.kind # "close" /\ Source = Turn.fd
        <5>1. Turn.kind # "file"
          BY <2>1, <2>2, <4>3, OrderlyTurn
        <5> QED
          BY <2>3, <4>3, <5>1 DEF Applies
      <4>4. CASE Applies /\ Turn.kind # "close" /\ Source # Turn.fd
        BY <2>3, <2>5, <4>4 DEF Applies
      <4> QED
        BY <1>5, <4>1, <4>2, <4>3, <4>4
    <3> QED
      BY <1>2, <3>1, <3>2
  <2> QED
    BY <2>4, <2>5
<1>6. CASE Echo
  BY <1>2, <1>6 DEF Echo
<1>7. CASE Drain
  BY <1>2, <1>7, FlushBelongs DEF Drain
<1>8. CASE Restore
  <2> DEFINE s == Top.save[Top.i]
  <2>1. fds' = PutBack(fds, s) /\ Flush(s.original, fds)
    BY <1>8 DEF Restore
  <2>2. Top \in Execution /\ Top.i \in DOMAIN Top.save
    BY <1>8, TopType DEF Restore, Restoring, In, Execution
  <2>3. s \in Saved /\ fds \in Table
    BY <2>2 DEF Execution, TypeOK
  <2>4. s.original # 1 => fds'[1] = fds[1]
    BY <2>1, <2>3, Descriptors DEF PutBack, Saved, Table
  <2> HIDE DEF s
  <2> QED
    BY <1>2, <2>1, <2>4, FlushBelongs
<1> QED
  BY <1>4, <1>5, <1>6, <1>7, <1>8 DEF Next

\* What a builtin prints reaches the file that was its standard output, however
\* redirections nest and fail: the bytes that wait in stdio's buffer are written
\* before descriptor 1 changes.
THEOREM OutputArrives == Spec => []OutputReachesItsFile
<1>1. Init => BufferBelongs
  BY DEF Init, BufferBelongs
<1>2. BufferBelongs => OutputReachesItsFile
  BY DEF BufferBelongs, OutputReachesItsFile
<1> QED
  BY <1>1, <1>2, TypeCorrect, Nested, BufferStep, PTL DEF Spec
-----------------------------------------------------------------------------
(***************************************************************************)
(* Redirections are scopes.  In an orderly run every step is a step of     *)
(* RedirScopes or changes nothing there: the redirections become visible   *)
(* when the last one is applied, and end when the body does.               *)
(***************************************************************************)

\* The tables that the executions of a stack began with.
LEMMA BeforesType ==
  ASSUME NEW s \in Seq(Execution)
  PROVE  /\ Befores(s) \in Seq(Table) /\ Len(Befores(s)) = Len(s)
         /\ \A k \in 1..Len(s) : Befores(s)[k] = s[k].before
<1>1. DOMAIN s = 1..Len(s) /\ Len(s) \in Nat
  OBVIOUS
<1>2. ASSUME NEW k \in DOMAIN s PROVE s[k].before \in Table
  <2>1. s[k] \in Execution
    OBVIOUS
  <2> QED
    BY <2>1 DEF Execution
<1>3. Befores(s) \in [1..Len(s) -> Table]
  BY <1>1, <1>2 DEF Befores
<1>4. Befores(s) \in Seq(Table)
  BY <1>1, <1>3, IsASeq
<1>5. Len(Befores(s)) = Len(s)
  BY <1>1, <1>3, <1>4, LenProperties
<1> QED
  BY <1>1, <1>4, <1>5 DEF Befores

\* How they change when the stack is pushed and popped.
LEMMA BeforesOf ==
  ASSUME NEW s \in Seq(Execution)
  PROVE  /\ \A e \in Execution : Befores(<<e>> \o s) = <<e.before>> \o Befores(s)
         /\ s # <<>> => /\ Befores(s) # <<>>
                        /\ Head(Befores(s)) = Head(s).before
                        /\ Tail(Befores(s)) = Befores(Tail(s))
<1>1. /\ Befores(s) \in Seq(Table) /\ Len(Befores(s)) = Len(s)
      /\ \A k \in 1..Len(s) : Befores(s)[k] = s[k].before
  BY BeforesType
<1>2. ASSUME NEW e \in Execution
      PROVE  Befores(<<e>> \o s) = <<e.before>> \o Befores(s)
  <2> DEFINE t == <<e>> \o s
  <2>1. t \in Seq(Execution) /\ Len(t) = Len(s) + 1
    OBVIOUS
  <2>2. e.before \in Table
    BY DEF Execution
  <2>3. /\ Befores(t) \in Seq(Table) /\ Len(Befores(t)) = Len(t)
        /\ \A k \in 1..Len(t) : Befores(t)[k] = t[k].before
    BY <2>1, BeforesType
  <2>4. /\ <<e.before>> \o Befores(s) \in Seq(Table)
        /\ Len(<<e.before>> \o Befores(s)) = Len(s) + 1
    BY <1>1, <2>2
  <2>5. ASSUME NEW k \in 1..(Len(s) + 1)
        PROVE  Befores(t)[k] = (<<e.before>> \o Befores(s))[k]
    <3>1. CASE k = 1
      <4>1. t[1] = e /\ (<<e.before>> \o Befores(s))[1] = e.before
        BY <1>1, <2>2
      <4> HIDE DEF t
      <4> QED
        BY <2>1, <2>3, <3>1, <4>1
    <3>2. CASE k > 1
      <4>1. k - 1 \in 1..Len(s) /\ t[k] = s[k - 1]
        BY <3>2
      <4>2. (<<e.before>> \o Befores(s))[k] = Befores(s)[k - 1]
        BY <1>1, <2>2, <3>2
      <4> HIDE DEF t
      <4> QED
        BY <1>1, <2>1, <2>3, <4>1, <4>2
    <3>3. k \in Int /\ k >= 1
      <4>1. Len(s) \in Nat
        OBVIOUS
      <4> HIDE DEF t
      <4> QED
        BY <4>1
    <3>4. k = 1 \/ k > 1
      BY <3>3
    <3> QED
      BY <3>1, <3>2, <3>4, Zenon
  <2> HIDE DEF t
  <2> QED
    BY <2>1, <2>3, <2>4, <2>5, SeqEqual DEF t
<1>3. ASSUME s # <<>>
      PROVE  /\ Befores(s) # <<>> /\ Head(Befores(s)) = Head(s).before
             /\ Tail(Befores(s)) = Befores(Tail(s))
  <2> DEFINE t == Tail(s)
  <2>1. t \in Seq(Execution) /\ Len(t) = Len(s) - 1 /\ Len(s) \in Nat \ {0}
    BY <1>3
  <2>2. Befores(s) # <<>> /\ Head(Befores(s)) = Head(s).before
    BY <1>1, <1>3, <2>1
  <2>3. /\ Befores(t) \in Seq(Table) /\ Len(Befores(t)) = Len(t)
        /\ \A k \in 1..Len(t) : Befores(t)[k] = t[k].before
    BY <2>1, BeforesType
  <2>4. Tail(Befores(s)) \in Seq(Table) /\ Len(Tail(Befores(s))) = Len(s) - 1
    BY <1>1, <2>1, <2>2
  <2>5. \A k \in 1..(Len(s) - 1) : Tail(Befores(s))[k] = Befores(t)[k]
    BY <1>1, <1>3, <2>1, <2>3
  <2> HIDE DEF t
  <2> QED
    BY <2>1, <2>2, <2>3, <2>4, <2>5, SeqEqual DEF t
<1> QED
  BY <1>1, <1>2, <1>3

\* An orderly step is a step of RedirScopes.
LEMMA ScopesStep ==
  ASSUME TypeOK, EveryNodeRestorable, orderly, [Next /\ orderly']_vars
  PROVE  [Scopes!Next]_<<Env, Outer>>
<1>1. TypeOK' /\ stack \in Seq(Execution) /\ fds \in Table
  BY TypeStep DEF TypeOK
<1>2. ASSUME Env' = Env, Outer' = Outer
      PROVE  [Scopes!Next]_<<Env, Outer>>
  BY <1>2
<1>3. ASSUME Env' \in Table, Outer' = <<Env>> \o Outer
      PROVE  [Scopes!Next]_<<Env, Outer>>
  BY <1>3 DEF Scopes!Next, Scopes!Enter
<1>4. ASSUME Outer # <<>>, Env' = Head(Outer), Outer' = Tail(Outer)
      PROVE  [Scopes!Next]_<<Env, Outer>>
  BY <1>4 DEF Scopes!Next, Scopes!Leave
<1>5. stack # <<>> => Top \in Execution /\ Tail(stack) \in Seq(Execution)
  BY TopType
<1>6. ASSUME NEW e \in Execution, stack # <<>>, SetTop(e), e.before = Top.before
      PROVE  /\ stack' # <<>> /\ Top' = e /\ Tail(stack') = Tail(stack)
             /\ Befores(stack') = Befores(stack)
  <2>1. stack' = <<e>> \o Tail(stack) /\ stack = <<Top>> \o Tail(stack)
    BY <1>1, <1>6 DEF SetTop, Top
  <2>2. stack' # <<>> /\ Head(stack') = e /\ Tail(stack') = Tail(stack)
    BY <1>1, <1>6, <2>1, ReplaceTop
  <2>3. Befores(stack') = <<e.before>> \o Befores(Tail(stack))
    BY <1>5, <1>6, <2>1, BeforesOf
  <2>4. Befores(stack) = <<Top.before>> \o Befores(Tail(stack))
    BY <1>5, <1>6, <2>1, BeforesOf
  <2> QED
    BY <1>6, <2>2, <2>3, <2>4 DEF Top
\* while redirections are applied or undone, nothing is visible
<1>7. ASSUME NEW e \in Execution, stack # <<>>, SetTop(e), e.before = Top.before,
             Top.phase # "body", e.phase # "body"
      PROVE  Env' = Env /\ Outer' = Outer
  <2>1. stack' # <<>> /\ Top' = e /\ Tail(stack') = Tail(stack)
    BY <1>6, <1>7
  <2>2. ~InBody /\ ~InBody'
    BY <1>7, <2>1 DEF InBody
  <2>3. Env = Top.before /\ Env' = e.before
    BY <2>1, <2>2 DEF Env
  <2>4. Outer = Befores(Tail(stack)) /\ Outer' = Befores(Tail(stack'))
    BY <2>2 DEF Outer, Befores
  <2> QED
    BY <1>7, <2>1, <2>3, <2>4
<1>8. CASE Begin
  <2>1. PICK rs \in Redirs :
          stack' = <<[redirs |-> rs, i |-> 1, save |-> <<>>, phase |-> "apply",
                      before |-> fds]>> \o stack
    BY <1>8 DEF Begin
  <2> DEFINE e == [redirs |-> rs, i |-> 1, save |-> <<>>, phase |-> "apply", before |-> fds]
  <2>2. e.phase = "apply" /\ e.before = fds
    OBVIOUS
  <2>3. stack' # <<>> /\ Head(stack') = e /\ Tail(stack') = stack
    BY <1>1, <2>1
  <2> HIDE DEF e
  <2>4. InBody /\ ~InBody'
    BY <1>8, <2>2, <2>3 DEF Begin, InBody, Top
  <2>5. Env' = fds /\ Env = fds
    BY <2>2, <2>3, <2>4 DEF Env, Top
  <2>6. Outer' = Befores(stack) /\ Outer = Befores(stack)
    BY <2>3, <2>4 DEF Outer, Befores
  <2> QED
    BY <1>2, <2>5, <2>6
<1>9. ASSUME NEW save \in Seq(Saved), stack # <<>>, Top.phase = "apply", Fail(save)
      PROVE  [Scopes!Next]_<<Env, Outer>>
  <2> DEFINE e == [Top EXCEPT !.phase = "fail", !.i = 1, !.save = save]
  <2>1. Top \in Execution /\ "fail" \in Phases /\ 1 \in Nat \ {0}
    BY <1>5, <1>9 DEF Phases
  <2>2. e \in Execution
    BY <2>1, Updates, Zenon
  <2>3. e.before = Top.before /\ e.phase = "fail"
    BY <2>1 DEF Execution
  <2>4. SetTop(e)
    BY <1>9 DEF Fail
  <2> HIDE DEF e
  <2> QED
    BY <1>2, <1>7, <1>9, <2>2, <2>3, <2>4
<1>10. CASE BadRedir \/ SaveFails \/ ApplyFails
  <2>1. stack # <<>> /\ Top.phase = "apply" /\ Top.save \in Seq(Saved)
    BY <1>5, <1>10 DEF BadRedir, SaveFails, ApplyFails, Applying, In, Execution
  <2>2. CASE BadRedir \/ SaveFails
    BY <1>9, <2>1, <2>2 DEF BadRedir, SaveFails
  <2>3. CASE ApplyFails
    <3>1. NowSaved \in Seq(Saved)
      BY <2>3, SavedType DEF ApplyFails, Applying
    <3> QED
      BY <1>9, <2>1, <2>3, <3>1 DEF ApplyFails
  <2> QED
    BY <1>10, <2>2, <2>3
<1>11. CASE Applies
  <2> DEFINE e == [Top EXCEPT !.i = @ + 1, !.save = NowSaved]
  <2>1. /\ stack # <<>> /\ Top \in Execution /\ Top.phase = "apply"
        /\ Top.i + 1 \in Nat \ {0} /\ "apply" \in Phases
    BY <1>5, <1>11 DEF Applies, Applying, In, Execution, Phases
  <2>2. NowSaved \in Seq(Saved)
    BY <1>11, SavedType DEF Applies, Applying
  <2>3. e \in Execution
    BY <2>1, <2>2, Updates, Zenon
  <2>4. e.before = Top.before /\ e.phase = "apply"
    BY <2>1 DEF Execution
  <2>5. SetTop(e)
    BY <1>11 DEF Applies
  <2> HIDE DEF e
  <2> QED
    BY <1>2, <1>7, <2>1, <2>3, <2>4, <2>5
<1>12. CASE Restore
  <2> DEFINE e == [Top EXCEPT !.i = @ + 1]
  <2>1. stack # <<>> /\ Top \in Execution /\ Top.phase # "body"
    BY <1>5, <1>12 DEF Restore, Restoring, In
  <2>2. e \in Execution /\ e.before = Top.before /\ e.phase = Top.phase
    BY <2>1 DEF Execution
  <2>3. SetTop(e)
    BY <1>12 DEF Restore
  <2> HIDE DEF e
  <2> QED
    BY <1>2, <1>7, <2>1, <2>2, <2>3
<1>13. CASE Applied \/ EndBody
  <2>1. PICK ph \in {"body", "end"} :
          /\ SetTop([Top EXCEPT !.phase = ph, !.i = 1])
          /\ ph = "body" <=> Top.phase # "body"
    BY <1>13 DEF Applied, EndBody, In
  <2> DEFINE e == [Top EXCEPT !.phase = ph, !.i = 1]
  <2>2. /\ stack # <<>> /\ Top \in Execution /\ fds' = fds
        /\ ph \in Phases /\ 1 \in Nat \ {0}
    <3> HIDE DEF e
    <3>1. stack # <<>> /\ fds' = fds
      BY <1>13 DEF Applied, EndBody, In
    <3>2. ph \in Phases /\ 1 \in Nat \ {0}
      BY DEF Phases
    <3> QED
      BY <1>5, <3>1, <3>2
  <2>3. e \in Execution
    BY <2>2, Updates, Zenon
  <2>4. e.before = Top.before /\ e.phase = ph
    BY <2>2 DEF Execution
  <2> HIDE DEF e
  <2>5. /\ stack' # <<>> /\ Top' = e /\ Tail(stack') = Tail(stack)
        /\ Befores(stack') = Befores(stack)
    BY <1>6, <2>1, <2>2, <2>3, <2>4 DEF e
  <2>6. /\ Befores(stack) # <<>> /\ Head(Befores(stack)) = Top.before
        /\ Tail(Befores(stack)) = Befores(Tail(stack))
        /\ Befores(stack) = <<Top.before>> \o Befores(Tail(stack))
    <3>1. stack = <<Top>> \o Tail(stack)
      BY <1>1, <2>2 DEF Top
    <3> QED
      BY <1>1, <1>5, <2>2, <3>1, BeforesOf DEF Top
  <2>7. CASE ph = "body"
    <3>1. ~InBody /\ InBody'
      BY <2>1, <2>2, <2>4, <2>5, <2>7 DEF InBody
    <3>2. Env' = fds /\ Env = Top.before
      BY <2>2, <3>1 DEF Env
    <3>3. Outer' = Befores(stack) /\ Outer = Befores(Tail(stack))
      BY <2>5, <3>1 DEF Outer, Befores
    <3> QED
      BY <1>1, <1>3, <2>6, <3>2, <3>3
  <2>8. CASE ph = "end"
    <3>1. InBody /\ ~InBody'
      BY <2>1, <2>2, <2>4, <2>5, <2>8 DEF InBody
    <3>2. Env' = Top.before
      BY <2>4, <2>5, <3>1 DEF Env
    <3>3. Outer = Befores(stack) /\ Outer' = Befores(Tail(stack))
      BY <2>5, <3>1 DEF Outer, Befores
    <3> QED
      BY <1>4, <2>6, <3>2, <3>3
  <2> QED
    BY <2>7, <2>8
<1>14. CASE Finish
  <2>1. /\ stack # <<>> /\ stack' = Tail(stack) /\ fds' = fds
        /\ In({"fail", "end"}) /\ Top.i > Len(Top.save) /\ Top.phase # "body"
    BY <1>14 DEF Finish, In
  <2>2. fds = Top.before
    BY <2>1, NothingLeft DEF Restored
  <2>3. ~InBody
    BY <2>1 DEF InBody
  <2>4. InBody'
    <3>1. ASSUME stack' # <<>>
          PROVE  Top'.phase = "body"
      <4>1. Top' = stack[2] /\ 2 \in DOMAIN stack
        BY <1>1, <2>1, <3>1 DEF Top
      <4> QED
        BY <4>1 DEF EveryNodeRestorable, BodiesAround
    <3> QED
      BY <3>1 DEF InBody
  <2>5. Env' = fds /\ Env = Top.before
    BY <2>1, <2>3, <2>4 DEF Env
  <2>6. Outer' = Befores(Tail(stack)) /\ Outer = Befores(Tail(stack))
    BY <2>1, <2>3, <2>4 DEF Outer, Befores
  <2> QED
    BY <1>2, <2>2, <2>5, <2>6
<1>15. CASE Echo \/ Drain \/ UNCHANGED vars
  <2>1. fds' = fds /\ stack' = stack
    BY <1>15 DEF Echo, Drain, vars
  <2>2. InBody' = InBody
    BY <2>1 DEF InBody, Top
  <2>3. Env' = Env
    BY <2>1, <2>2 DEF Env, Top
  <2>4. Outer' = Outer
    BY <2>1, <2>2 DEF Outer, Befores
  <2> QED
    BY <1>2, <2>3, <2>4
<1> QED
  BY <1>8, <1>10, <1>11, <1>12, <1>13, <1>14, <1>15 DEF Next

\* As long as a script's lists are orderly its redirections implement scopes: the
\* descriptors of a command are its own, and everyone else keeps theirs.
THEOREM ImplementsScopes == Spec => ScopesSpec
<1>1. Init => Scopes!Init
  <2> SUFFICES ASSUME Init PROVE Scopes!Init
    OBVIOUS
  <2>1. InBody /\ Env = fds /\ fds \in Table
    BY StartAssumption DEF Init, InBody, Env
  <2>2. Outer = <<>>
    BY <2>1 DEF Init, Outer, Befores
  <2> QED
    BY <2>1, <2>2 DEF Scopes!Init
<1>2. TypeOK /\ EveryNodeRestorable /\ [Next]_vars
        => [orderly' => [Scopes!Next]_<<Env, Outer>>]_vars
  <2> SUFFICES ASSUME TypeOK, EveryNodeRestorable, Next, orderly'
               PROVE  [Scopes!Next]_<<Env, Outer>>
    OBVIOUS
  <2>1. ASSUME NEW rs, orderly' = (orderly /\ Orderly(rs))
        PROVE  orderly
    <3>1. orderly \in BOOLEAN /\ Orderly(rs) \in BOOLEAN
      BY DEF TypeOK, Orderly
    <3> QED
      BY <2>1, <3>1
  <2>2. orderly
    <3>1. ASSUME NEW leaks \in BOOLEAN, orderly' = (orderly /\ leaks)
          PROVE  orderly
      BY <3>1, orderly \in BOOLEAN DEF TypeOK
    <3>2. CASE Begin
      BY <2>1, <3>2 DEF Begin
    <3>3. CASE SaveFails
      BY <3>1, <3>3 DEF SaveFails
    <3>4. CASE BadRedir \/ ApplyFails \/ Applies \/ Applied \/ Echo \/ Drain \/ EndBody
                 \/ Restore \/ Finish
      <4>1. orderly' = orderly
        BY <3>4, Zenon DEF BadRedir, ApplyFails, Applies, Applied, Echo, Drain, EndBody,
             Restore, Finish
      <4> QED
        BY <4>1
    <3> QED
      BY <3>2, <3>3, <3>4 DEF Next
  <2> QED
    BY <2>2, ScopesStep
<1> QED
  BY <1>1, <1>2, TypeCorrect, Nested, PTL DEF Spec, ScopesSpec
=============================================================================
