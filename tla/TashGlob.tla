------------------------------ MODULE TashGlob ------------------------------
(***************************************************************************)
(* Patterns in tash: glob_match() and glob_file_recur() of src/globing.c,  *)
(* what split_word() of src/expand.c makes of the files found, and the     *)
(* loops of remove_prefix_suffix() in src/expand.c, which try glob_match   *)
(* on every prefix or suffix of a value.                                   *)
(*                                                                         *)
(* A pattern has been expanded: a sequence of characters, where Esc stands *)
(* in front of each quoted one.  A path is a sequence of names.  Where a   *)
(* path is cut into components by its slashes is not modelled, nor the     *)
(* order in which readdir returns names.                                   *)
(***************************************************************************)
EXTENDS Naturals, Sequences, FiniteSets

CONSTANTS
  Dot, Esc      \* the character '.', and CTLESC
-----------------------------------------------------------------------------
(***************************************************************************)
(* glob_match.  i and j are glob and str; gi and sj are glob_start and     *)
(* str_start, where the last star was and what it has been tried on, 0     *)
(* before there was one.  A turn of the loop leads from one such place to  *)
(* another, or to the result.                                              *)
(***************************************************************************)
Place(glob, str) ==
  [i : 0..Len(glob) + 1, j : 1..Len(str) + 1, gi : 0..Len(glob), sj : 0..Len(str) + 1]

\* mutant: a star that has been tried is not tried on a longer string
MayRetry_Never(str, at) == FALSE

\* if not found, one char later
MayRetry(str, at) == at.sj \in DOMAIN str

\* A turn, and what the ones behind it give.
Turn(at, scan, glob, str) ==
  LET i == at.i
      j == at.j
      quoted == i \in DOMAIN glob /\ glob[i] = Esc
      c == IF quoted THEN i + 1 ELSE i
      after(k) == [i |-> k + 1, j |-> j + 1, gi |-> at.gi, sj |-> at.sj]
  IN IF i > Len(glob) /\ j > Len(str) THEN TRUE
     ELSE IF i \in DOMAIN glob /\ glob[i] = "*"
     THEN scan[[i |-> i + 1, j |-> j, gi |-> i, sj |-> j]]
     ELSE IF i \in DOMAIN glob /\ glob[i] = "?" /\ j \in DOMAIN str
     THEN scan[after(i)]
     ELSE IF c \in DOMAIN glob /\ (quoted \/ glob[c] # "?") /\ j \in DOMAIN str /\ str[j] = glob[c]
     THEN scan[after(c)]
     ELSE /\ MayRetry(str, at)
          /\ scan[[i |-> at.gi, j |-> at.sj + 1, gi |-> at.gi, sj |-> at.sj + 1]]

Scan(glob, str) ==
  LET scan[at \in Place(glob, str)] == Turn(at, scan, glob, str) IN scan
GlobMatch(glob, str) == Scan(glob, str)[[i |-> 1, j |-> 1, gi |-> 0, sj |-> 0]]
-----------------------------------------------------------------------------
(***************************************************************************)
(* ${value#glob}, ${value##glob}, ${value%glob}, ${value%%glob}            *)
(***************************************************************************)
Least(S) == CHOOSE k \in S : \A other \in S : k <= other
Greatest(S) == CHOOSE k \in S : \A other \in S : other <= k

\* mutant: the loop of the smallest prefix stops at the first that matches
RemovePrefix_First(value, glob, largest) ==
  LET lengths == {k \in 0..Len(value) : GlobMatch(glob, SubSeq(value, 1, k))}
  IN SubSeq(value, IF lengths = {} THEN 1 ELSE Greatest(lengths) + 1, Len(value))

\* the largest is the first found from the end on, down to one character; the smallest
\* is the last one found, down to none
RemovePrefix(value, glob, largest) ==
  LET lengths == {k \in (IF largest THEN 1 ELSE 0)..Len(value) :
                    GlobMatch(glob, SubSeq(value, 1, k))}
      start == IF lengths = {} THEN 0
               ELSE IF largest THEN Greatest(lengths) ELSE Least(lengths)
  IN SubSeq(value, start + 1, Len(value))

\* the largest is the first found from the start on, the smallest from the end on
RemoveSuffix(value, glob, largest) ==
  LET starts == {k \in 1..(IF largest THEN Len(value) ELSE Len(value) + 1) :
                   GlobMatch(glob, SubSeq(value, k, Len(value)))}
      end == IF starts = {} THEN Len(value) + 1
             ELSE IF largest THEN Least(starts) ELSE Greatest(starts)
  IN SubSeq(value, 1, end - 1)
-----------------------------------------------------------------------------
(***************************************************************************)
(* glob_file_recur: dir is the path that prefix holds; the components      *)
(* behind the first Len(dir) of globs are left.                            *)
(***************************************************************************)
UnquotedFrom(i, unquoted, glob) ==
  IF i > Len(glob) THEN <<>>
  ELSE IF glob[i] = Esc THEN <<glob[i + 1]>> \o unquoted[i + 2]
  ELSE <<glob[i]>> \o unquoted[i + 1]
Unquoted(glob) ==
  LET unquoted[i \in 1..Len(glob) + 2] == UnquotedFrom(i, unquoted, glob) IN unquoted[1]

\* a * or a ? that is not quoted
HasWildcard(glob) ==
  \E i \in DOMAIN glob : glob[i] \in {"*", "?"} /\ (i = 1 \/ glob[i - 1] # Esc)

\* mutant: every name is tried, the hidden ones too
Visible_All(name, globing) == TRUE

Visible(name, globing) == name[1] = Dot => globing[1] = Dot

\* what readdir returns for a directory of the tree, . and .. included
Entries(tree, dir) ==
  {path[Len(path)] : path \in {p \in tree : Len(p) = Len(dir) + 1 /\ SubSeq(p, 1, Len(dir)) = dir}}
    \cup {<<Dot>>, <<Dot, Dot>>}

\* What is found in dir, given what is in the directories behind it.
FoundIn(dir, found, tree, globs) ==
  LET wild == {i \in DOMAIN globs : Len(dir) < i /\ HasWildcard(globs[i])}
      upTo(k) == [i \in 1..k |-> IF i <= Len(dir) THEN dir[i] ELSE Unquoted(globs[i])]
      k == Least(wild)
  IN IF wild = {}
     THEN {upTo(Len(globs))} \cap tree
     ELSE UNION {found[Append(upTo(k - 1), name)] :
                   name \in {e \in Entries(tree, upTo(k - 1)) \ {<<Dot>>, <<Dot, Dot>>} :
                               Visible(e, globs[k]) /\ GlobMatch(globs[k], e)}}

Found(tree, globs) ==
  LET found[dir \in {<<>>} \cup tree] == FoundIn(dir, found, tree, globs) IN found[<<>>]

\* remove_ctlesc
NoEsc(s) == SelectSeq(s, LAMBDA c : c # Esc)

\* split_word: without a file that matches the word stays, unquoted
Words(tree, globs) ==
  LET found == Found(tree, globs) IN
  IF found = {} THEN {[i \in DOMAIN globs |-> NoEsc(globs[i])]} ELSE found
=============================================================================
