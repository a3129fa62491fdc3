------------------------------ MODULE Patterns ------------------------------
(***************************************************************************)
(* What shell patterns mean, without a thought of how they are matched: a  *)
(* star is any string, a question mark any character, and a character      *)
(* behind a mark only itself.                                              *)
(***************************************************************************)
EXTENDS Naturals, Sequences

CONSTANTS
  Dot,       \* the character that hides a file
  Esc        \* the mark in front of a quoted character

\* Whether the pattern from i on denotes the string from j on, given which of their
\* shorter rests do.
DenotesFrom(i, j, denotes, glob, str) ==
  IF i \notin DOMAIN glob THEN j \notin DOMAIN str
  ELSE IF glob[i] = "*" THEN \E k \in j..Len(str) + 1 : denotes[<<i + 1, k>>]
  ELSE /\ j \in DOMAIN str
       /\ IF glob[i] = "?" THEN denotes[<<i + 1, j + 1>>]
          ELSE IF glob[i] = Esc
          THEN i + 1 \in DOMAIN glob /\ str[j] = glob[i + 1] /\ denotes[<<i + 2, j + 1>>]
          ELSE str[j] = glob[i] /\ denotes[<<i + 1, j + 1>>]

Spots(glob, str) == (1..Len(glob) + 2) \X (1..Len(str) + 1)
Denoting(glob, str) ==
  LET denotes[at \in Spots(glob, str)] == DenotesFrom(at[1], at[2], denotes, glob, str)
  IN  denotes
Denotes(glob, str) == Denoting(glob, str)[<<1, 1>>]

\* Whether nothing from i on is a wildcard, given of which later positions that is so.
PlainFrom(i, plain, glob) ==
  \/ i \notin DOMAIN glob
  \/ glob[i] = Esc /\ plain[i + 2]
  \/ glob[i] \notin {Esc, "*", "?"} /\ plain[i + 1]
Plain(glob) ==
  LET plain[i \in 1..Len(glob) + 2] == PlainFrom(i, plain, glob) IN plain
Literal(glob) == Plain(glob)[1]

\* A name of a directory: a leading dot has to be written in the pattern.
Selects(glob, name) ==
  /\ Denotes(glob, name)
  /\ ~Literal(glob) /\ name[1] = Dot => glob[1] = Dot \/ (glob[1] = Esc /\ glob[2] = Dot)

\* The paths of a tree that a list of patterns selects.
Selected(globs, tree) ==
  {path \in tree : Len(path) = Len(globs) /\ \A i \in DOMAIN path : Selects(globs[i], path[i])}

\* What is left of a value without the shortest or the longest prefix or suffix
\* that the pattern denotes.
Prefixes(glob, value) == {k \in 0..Len(value) : Denotes(glob, SubSeq(value, 1, k))}
Suffixes(glob, value) ==
  {k \in 0..Len(value) : Denotes(glob, SubSeq(value, Len(value) - k + 1, Len(value)))}
Chosen(lengths, largest) ==
  CHOOSE k \in lengths : \A other \in lengths : IF largest THEN other <= k ELSE k <= other

WithoutPrefix(glob, value, largest) ==
  LET ks == Prefixes(glob, value) IN
  IF ks = {} THEN value ELSE SubSeq(value, Chosen(ks, largest) + 1, Len(value))
WithoutSuffix(glob, value, largest) ==
  LET ks == Suffixes(glob, value) IN
  IF ks = {} THEN value ELSE SubSeq(value, 1, Len(value) - Chosen(ks, largest))
=============================================================================
