--------------------------- MODULE TashGlobProofs ---------------------------
(***************************************************************************)
(* Proofs about TashGlob, for any pattern, string, value and tree: that    *)
(* glob_match accepts what its pattern denotes, that the loops of          *)
(* remove_prefix_suffix remove the right part, and that the walk through   *)
(* the directories finds what is selected.                                 *)
(*                                                                         *)
(* A recursive function is chosen among those that its equation has, so each *)
(* of them is first shown to have one: DenotingIs and ScanIs as the least  *)
(* fixed point of the turns that lead on, UnquotedIs one position at a time, *)
(* PlainIs and FoundIs by the solution itself.  What they compute follows  *)
(* from a counterexample furthest on.                                      *)
(***************************************************************************)
EXTENDS GlobCalls, WellFoundedInduction, TLAPS
-----------------------------------------------------------------------------
(***************************************************************************)
(* Numbers, sequences, and the steps that lead to an end.                  *)
(***************************************************************************)

LEMMA LeastNumber ==
  ASSUME NEW S, S \subseteq Nat, S # {}
  PROVE  \E m \in S : \A k \in S : m <= k
<1> DEFINE R == OpToRel(<, Nat)
<1>1. IsWellFoundedOn(R, Nat)
  BY NatLessThanWellFounded
<1>2. \A i, j \in Nat : <<j, i>> \in R <=> j < i
  BY DEF OpToRel
<1> HIDE DEF R
<1>3. PICK m \in S : \A k \in S : ~ (<<k, m>> \in R)
  BY <1>1, WFMin
<1>4. \A k \in S : ~(k < m) /\ k \in Nat /\ m \in Nat
  BY <1>2, <1>3
<1> QED
  BY <1>4

LEMMA GreatestNumber ==
  ASSUME NEW n \in Nat, NEW S, S \subseteq 0..n, S # {}
  PROVE  \E m \in S : \A k \in S : k <= m
<1> DEFINE T == {n - k : k \in S}
<1>1. T \subseteq Nat /\ T # {}
  <2>1. \A k \in S : n - k \in Nat
    OBVIOUS
  <2> QED
    BY <2>1
<1>2. PICK t \in T : \A k \in T : t <= k
  BY <1>1, LeastNumber
<1>3. PICK m \in S : t = n - m
  BY <1>2
<1>4. ASSUME NEW k \in S PROVE k <= m
  <2>1. n - m <= n - k
    BY <1>2, <1>3
  <2> QED
    BY <1>3, <2>1
<1> QED
  BY <1>4

LEMMA SameText ==
  ASSUME NEW S, NEW s \in Seq(S), NEW t \in Seq(S), Len(s) = Len(t),
         \A i \in 1..Len(s) : s[i] = t[i]
  PROVE  s = t
  OBVIOUS

\* Which elements of S lead to one of T, in steps of R.
Leads(f, S, T, R) ==
  /\ f \in [S -> BOOLEAN]
  /\ \A c \in S : f[c] <=> (c \in T \/ \E d \in S : <<c, d>> \in R /\ f[d])

LEMMA FixedPoint ==
  ASSUME NEW S, NEW T, NEW R, T \subseteq S, R \subseteq S \X S
  PROVE  \E f : Leads(f, S, T, R)
<1> DEFINE Closed(X) == \A c \in S : c \in T \/ (\E d \in S : <<c, d>> \in R /\ d \in X) => c \in X
           W == {c \in S : \A X \in SUBSET S : Closed(X) => c \in X}
           V == {c \in S : c \in T \/ \E d \in S : <<c, d>> \in R /\ d \in W}
           f == [c \in S |-> c \in W]
<1>1. Closed(W)
  OBVIOUS
<1>2. Closed(V)
  BY <1>1
<1>3. W \subseteq V
  BY <1>2
<1>4. \A c \in S : c \in W <=> c \in T \/ \E d \in S : <<c, d>> \in R /\ d \in W
  BY <1>1, <1>3
<1> HIDE DEF W
<1>5. f \in [S -> BOOLEAN]
  OBVIOUS
<1>6. \A c \in S : f[c] <=> c \in W
  OBVIOUS
<1> HIDE DEF f
<1>7. Leads(f, S, T, R)
  BY <1>4, <1>5, <1>6 DEF Leads
<1> QED
  BY <1>7
-----------------------------------------------------------------------------
(***************************************************************************)
(* glob_match.                                                             *)
(***************************************************************************)
LEMMA DenotingIs ==
  ASSUME NEW glob \in Glob, NEW str \in Glob
  PROVE  LET d == Meaning!Denoting(glob, str) IN
         /\ d \in [Meaning!Spots(glob, str) -> BOOLEAN]
         /\ \A i \in 1..Len(glob) + 2, j \in 1..Len(str) + 1 :
              d[<<i, j>>] <=> Meaning!DenotesFrom(i, j, d, glob, str)
<1> DEFINE m == Len(glob) + 2
           n == Len(str) + 1
           S == (1..m) \X (1..n)
           Ends(i, j) == i \notin DOMAIN glob /\ j \notin DOMAIN str
           Next(i, j, k, l) ==
             /\ i \in DOMAIN glob
             /\ \/ glob[i] = "*" /\ k = i + 1 /\ l \in j..n
                \/ /\ glob[i] # "*" /\ j \in DOMAIN str /\ l = j + 1
                   /\ \/ glob[i] = "?" /\ k = i + 1
                      \/ /\ glob[i] # "?" /\ glob[i] = Esc /\ k = i + 2
                         /\ i + 1 \in DOMAIN glob /\ str[j] = glob[i + 1]
                      \/ glob[i] \notin {"?", Esc} /\ k = i + 1 /\ str[j] = glob[i]
           T == {c \in S : Ends(c[1], c[2])}
           R == {e \in S \X S : Next(e[1][1], e[1][2], e[2][1], e[2][2])}
<1>1. PICK f : Leads(f, S, T, R)
  <2> HIDE DEF Ends, Next, S
  <2> QED
    BY FixedPoint
<1>2. /\ \A i \in 1..m, j \in 1..n : <<i, j>> \in S /\ (<<i, j>> \in T <=> Ends(i, j))
      /\ \A i, k \in 1..m, j, l \in 1..n : <<<<i, j>>, <<k, l>>>> \in R <=> Next(i, j, k, l)
      /\ \A c \in S : c[1] \in 1..m /\ c[2] \in 1..n /\ c = <<c[1], c[2]>>
  <2> HIDE DEF Ends, Next, m, n
  <2> QED
    OBVIOUS
<1>3. f \in [S -> BOOLEAN] /\ \A c \in S : f[c] <=> (c \in T \/ \E d \in S : <<c, d>> \in R /\ f[d])
  BY <1>1 DEF Leads
<1>4. ASSUME NEW i \in 1..m, NEW j \in 1..n
      PROVE  f[<<i, j>>] <=> \/ Ends(i, j)
                             \/ \E k \in 1..m, l \in 1..n : Next(i, j, k, l) /\ f[<<k, l>>]
  <2> HIDE DEF Ends, Next, S, R, T, m, n
  <2>1. <<i, j>> \in S
    BY <1>2
  <2>2. (\E d \in S : <<<<i, j>>, d>> \in R /\ f[d])
          <=> \E k \in 1..m, l \in 1..n : Next(i, j, k, l) /\ f[<<k, l>>]
    <3>1. ASSUME NEW d \in S, <<<<i, j>>, d>> \in R, f[d]
          PROVE  \E k \in 1..m, l \in 1..n : Next(i, j, k, l) /\ f[<<k, l>>]
      <4>1. d[1] \in 1..m /\ d[2] \in 1..n /\ d = <<d[1], d[2]>>
        BY <1>2
      <4>2. Next(i, j, d[1], d[2]) /\ f[<<d[1], d[2]>>]
        BY <1>2, <3>1, <4>1
      <4> QED
        BY <4>1, <4>2
    <3>2. ASSUME NEW k \in 1..m, NEW l \in 1..n, Next(i, j, k, l), f[<<k, l>>]
          PROVE  \E d \in S : <<<<i, j>>, d>> \in R /\ f[d]
      BY <1>2, <3>2
    <3> QED
      BY <3>1, <3>2
  <2> QED
    BY <1>2, <1>3, <2>1, <2>2
<1>5. /\ Len(glob) \in Nat /\ Len(str) \in Nat
      /\ DOMAIN glob = 1..Len(glob) /\ DOMAIN str = 1..Len(str)
  BY DEF Glob
<1>6. ASSUME NEW i \in 1..m, NEW j \in 1..n
      PROVE  f[<<i, j>>] <=> Meaning!DenotesFrom(i, j, f, glob, str)
  <2>1. CASE i \notin DOMAIN glob
    BY <1>4, <2>1 DEF Meaning!DenotesFrom
  <2>2. CASE i \in DOMAIN glob /\ glob[i] = "*"
    <3>1. (\E k \in 1..m, l \in 1..n : Next(i, j, k, l) /\ f[<<k, l>>])
            <=> \E l \in j..Len(str) + 1 : f[<<i + 1, l>>]
      <4>1. \A k \in 1..m, l \in 1..n : Next(i, j, k, l) <=> k = i + 1 /\ l \in j..n
        BY <2>2
      <4>2. i + 1 \in 1..m /\ \A l \in j..Len(str) + 1 : l \in 1..n
        BY <1>5, <2>2
      <4> HIDE DEF Next
      <4> QED
        BY <4>1, <4>2
    <3>2. Meaning!DenotesFrom(i, j, f, glob, str) <=> \E l \in j..Len(str) + 1 : f[<<i + 1, l>>]
      BY <2>2 DEF Meaning!DenotesFrom
    <3>3. ~Ends(i, j)
      BY <2>2
    <3> HIDE DEF Next, Ends, m, n
    <3> QED
      BY <1>4, <3>1, <3>2, <3>3
  <2>3. CASE i \in DOMAIN glob /\ glob[i] # "*"
    <3>1. (\E k \in 1..m, l \in 1..n : Next(i, j, k, l) /\ f[<<k, l>>])
            <=> /\ j \in DOMAIN str
                /\ \/ glob[i] = "?" /\ f[<<i + 1, j + 1>>]
                   \/ /\ glob[i] # "?" /\ glob[i] = Esc /\ f[<<i + 2, j + 1>>]
                      /\ i + 1 \in DOMAIN glob /\ str[j] = glob[i + 1]
                   \/ glob[i] \notin {"?", Esc} /\ f[<<i + 1, j + 1>>] /\ str[j] = glob[i]
      <4>1. \A k \in 1..m, l \in 1..n :
              Next(i, j, k, l) <=>
                /\ j \in DOMAIN str /\ l = j + 1
                /\ \/ glob[i] = "?" /\ k = i + 1
                   \/ /\ glob[i] # "?" /\ glob[i] = Esc /\ k = i + 2
                      /\ i + 1 \in DOMAIN glob /\ str[j] = glob[i + 1]
                   \/ glob[i] \notin {"?", Esc} /\ k = i + 1 /\ str[j] = glob[i]
        BY <2>3
      <4>2. i + 1 \in 1..m /\ i + 2 \in 1..m /\ (j \in DOMAIN str => j + 1 \in 1..n)
        BY <1>5, <2>3
      <4> HIDE DEF Next, m, n
      <4> QED
        BY <4>1, <4>2
    <3>2. Meaning!DenotesFrom(i, j, f, glob, str)
            <=> /\ j \in DOMAIN str
                /\ \/ glob[i] = "?" /\ f[<<i + 1, j + 1>>]
                   \/ /\ glob[i] # "?" /\ glob[i] = Esc /\ f[<<i + 2, j + 1>>]
                      /\ i + 1 \in DOMAIN glob /\ str[j] = glob[i + 1]
                   \/ glob[i] \notin {"?", Esc} /\ f[<<i + 1, j + 1>>] /\ str[j] = glob[i]
      BY <2>3 DEF Meaning!DenotesFrom
    <3>3. ~Ends(i, j)
      BY <2>3
    <3> HIDE DEF Next, Ends, m, n
    <3> QED
      BY <1>4, <3>1, <3>2, <3>3
  <2> QED
    BY <2>1, <2>2, <2>3
<1> DEFINE D == Meaning!Denoting(glob, str)
<1>7. \A i, j, d : Meaning!DenotesFrom(i, j, d, glob, str) \in BOOLEAN
  BY DEF Meaning!DenotesFrom
<1>8. D = [at \in S |-> Meaning!DenotesFrom(at[1], at[2], D, glob, str)]
  <2>1. f = [at \in S |-> Meaning!DenotesFrom(at[1], at[2], f, glob, str)]
    <3> HIDE DEF Ends, Next, S, R, T, m, n
    <3> QED
      BY <1>2, <1>3, <1>6, <1>7
  <2> QED
    BY <2>1 DEF Meaning!Denoting, Meaning!Spots
<1>9. /\ D \in [S -> BOOLEAN]
      /\ \A i \in 1..m, j \in 1..n : <<i, j>> \in S /\ <<i, j>>[1] = i /\ <<i, j>>[2] = j
  <2> HIDE DEF D
  <2> QED
    BY <1>7, <1>8
<1>10. \A i \in 1..m, j \in 1..n : D[<<i, j>>] <=> Meaning!DenotesFrom(i, j, D, glob, str)
  <2> HIDE DEF D, S
  <2> QED
    BY <1>8, <1>9
<1> QED
  BY <1>9, <1>10 DEF Meaning!Spots

\* The place that a turn of glob_match leads to.
Same(i, j, glob, str) ==
  /\ i \in DOMAIN glob /\ glob[i] # "*" /\ j \in DOMAIN str
  /\ glob[i] = "?" \/ (glob[i] # Esc /\ glob[i] = str[j])
SameQuoted(i, j, glob, str) ==
  /\ i \in DOMAIN glob /\ glob[i] = Esc /\ j \in DOMAIN str
  /\ i + 1 \in DOMAIN glob /\ glob[i + 1] = str[j]
Star(at, glob) == at.i \in DOMAIN glob /\ glob[at.i] = "*"
Over(at, glob, str) == at.i > Len(glob) /\ at.j > Len(str)

Behind(at) == [i |-> at.i + 1, j |-> at.j, gi |-> at.i, sj |-> at.j]
On(at, d) == [i |-> at.i + d, j |-> at.j + 1, gi |-> at.gi, sj |-> at.sj]
Again(at) == [i |-> at.gi, j |-> at.sj + 1, gi |-> at.gi, sj |-> at.sj + 1]
Goes(at, scan, glob, str) ==
  IF Over(at, glob, str) THEN TRUE
  ELSE IF Star(at, glob) THEN scan[Behind(at)]
  ELSE IF Same(at.i, at.j, glob, str) THEN scan[On(at, 1)]
  ELSE IF SameQuoted(at.i, at.j, glob, str) THEN scan[On(at, 2)]
  ELSE MayRetry(str, at) /\ scan[Again(at)]

LEMMA TurnGoes ==
  ASSUME NEW glob \in Glob, NEW str \in Glob, NEW at \in Place(glob, str), NEW scan
  PROVE  Turn(at, scan, glob, str) = Goes(at, scan, glob, str)
<1>1. /\ at.i \in 0..Len(glob) + 1 /\ at.j \in 1..Len(str) + 1
      /\ Len(glob) \in Nat /\ Len(str) \in Nat
      /\ DOMAIN glob = 1..Len(glob) /\ DOMAIN str = 1..Len(str)
  BY DEF Place, Glob
<1>2. (at.i + 1) + 1 = at.i + 2
  BY <1>1
<1>3. Esc # "*" /\ Esc # "?"
  BY CallsAssumption
<1>4. CASE Over(at, glob, str)
  BY <1>4 DEF Over, Turn, Goes
<1>5. CASE Star(at, glob)
  BY <1>1, <1>5 DEF Over, Star, Turn, Goes, Behind
<1>6. CASE Same(at.i, at.j, glob, str)
  BY <1>1, <1>2, <1>3, <1>6 DEF Over, Star, Same, Turn, Goes, On
<1>7. CASE SameQuoted(at.i, at.j, glob, str)
  BY <1>1, <1>2, <1>3, <1>7 DEF Over, Star, Same, SameQuoted, Turn, Goes, On
<1>8. CASE ~(\/ Over(at, glob, str) \/ Star(at, glob)
             \/ Same(at.i, at.j, glob, str) \/ SameQuoted(at.i, at.j, glob, str))
  BY <1>1, <1>2, <1>3, <1>8 DEF Over, Star, Same, SameQuoted, Turn, Goes, Again
<1> QED
  BY <1>4, <1>5, <1>6, <1>7, <1>8

LEMMA GoesTo ==
  ASSUME NEW glob \in Glob, NEW str \in Glob, NEW at \in Place(glob, str)
  PROVE  /\ Star(at, glob) => Behind(at) \in Place(glob, str)
         /\ Same(at.i, at.j, glob, str) => On(at, 1) \in Place(glob, str)
         /\ SameQuoted(at.i, at.j, glob, str) => On(at, 2) \in Place(glob, str)
         /\ MayRetry(str, at) => Again(at) \in Place(glob, str)
<1>1. /\ at.i \in 0..Len(glob) + 1 /\ at.j \in 1..Len(str) + 1
      /\ at.gi \in 0..Len(glob) /\ at.sj \in 0..Len(str) + 1
      /\ Len(glob) \in Nat /\ Len(str) \in Nat
      /\ DOMAIN glob = 1..Len(glob) /\ DOMAIN str = 1..Len(str)
  BY DEF Place, Glob
<1>2. Star(at, glob) => Behind(at) \in Place(glob, str)
  BY <1>1 DEF Star, Behind, Place
<1>3. Same(at.i, at.j, glob, str) => On(at, 1) \in Place(glob, str)
  BY <1>1 DEF Same, On, Place
<1>4. SameQuoted(at.i, at.j, glob, str) => On(at, 2) \in Place(glob, str)
  BY <1>1 DEF SameQuoted, On, Place
<1>5. MayRetry(str, at) => Again(at) \in Place(glob, str)
  BY <1>1 DEF MayRetry, Again, Place
<1> QED
  BY <1>2, <1>3, <1>4, <1>5

LEMMA ScanIs ==
  ASSUME NEW glob \in Glob, NEW str \in Glob
  PROVE  \A at \in Place(glob, str) :
           Scan(glob, str)[at] <=> Goes(at, Scan(glob, str), glob, str)
<1> DEFINE S == Place(glob, str)
           Next(at, next) ==
             /\ ~Over(at, glob, str)
             /\ IF Star(at, glob) THEN next = Behind(at)
                ELSE IF Same(at.i, at.j, glob, str) THEN next = On(at, 1)
                ELSE IF SameQuoted(at.i, at.j, glob, str) THEN next = On(at, 2)
                ELSE MayRetry(str, at) /\ next = Again(at)
           T == {at \in S : Over(at, glob, str)}
           R == {e \in S \X S : Next(e[1], e[2])}
           scan == Scan(glob, str)
<1>1. PICK f : Leads(f, S, T, R)
  <2> HIDE DEF Next, S
  <2> QED
    BY FixedPoint
<1>2. /\ \A at \in S : at \in T <=> Over(at, glob, str)
      /\ \A at, next \in S : <<at, next>> \in R <=> Next(at, next)
  <2> HIDE DEF Next, S
  <2> QED
    OBVIOUS
<1>3. /\ f \in [S -> BOOLEAN]
      /\ \A at \in S : f[at] <=> (at \in T \/ \E d \in S : <<at, d>> \in R /\ f[d])
  BY <1>1 DEF Leads
<1>4. \A at \in S : f[at] <=> (Over(at, glob, str) \/ \E d \in S : Next(at, d) /\ f[d])
  <2> HIDE DEF Next, S, T, R
  <2> QED
    BY <1>2, <1>3
<1>5. ASSUME NEW at \in S
      PROVE  f[at] <=> Goes(at, f, glob, str)
  <2>1. \A d \in S : Next(at, d) => ~Over(at, glob, str)
    OBVIOUS
  <2>2. CASE Over(at, glob, str)
    BY <1>4, <2>2 DEF Goes
  <2>3. ASSUME ~Over(at, glob, str), NEW d \in S, \A next \in S : Next(at, next) <=> next = d
        PROVE  f[at] <=> f[d]
    <3> HIDE DEF Next, S
    <3> QED
      BY <1>4, <2>3
  <2>4. ASSUME ~Over(at, glob, str), \A next \in S : ~Next(at, next)
        PROVE  ~f[at]
    <3> HIDE DEF Next, S
    <3> QED
      BY <1>4, <2>4
  <2>5. CASE ~Over(at, glob, str) /\ Star(at, glob)
    BY <2>3, <2>5, GoesTo DEF Goes
  <2>6. CASE ~Over(at, glob, str) /\ ~Star(at, glob) /\ Same(at.i, at.j, glob, str)
    BY <2>3, <2>6, GoesTo DEF Goes
  <2>7. CASE /\ ~Over(at, glob, str) /\ ~Star(at, glob)
             /\ ~Same(at.i, at.j, glob, str) /\ SameQuoted(at.i, at.j, glob, str)
    BY <2>3, <2>7, GoesTo DEF Goes
  <2>8. CASE /\ ~Over(at, glob, str) /\ ~Star(at, glob) /\ ~Same(at.i, at.j, glob, str)
             /\ ~SameQuoted(at.i, at.j, glob, str) /\ MayRetry(str, at)
    BY <2>3, <2>8, GoesTo DEF Goes
  <2>9. CASE /\ ~Over(at, glob, str) /\ ~Star(at, glob) /\ ~Same(at.i, at.j, glob, str)
             /\ ~SameQuoted(at.i, at.j, glob, str) /\ ~MayRetry(str, at)
    BY <2>4, <2>9 DEF Goes
  <2> QED
    BY <2>2, <2>5, <2>6, <2>7, <2>8, <2>9
<1>6. \A at \in S : f[at] = Turn(at, f, glob, str)
  <2> TAKE at \in S
  <2>1. Goes(at, f, glob, str) \in BOOLEAN
    <3>1. /\ Star(at, glob) => f[Behind(at)] \in BOOLEAN
          /\ Same(at.i, at.j, glob, str) => f[On(at, 1)] \in BOOLEAN
          /\ SameQuoted(at.i, at.j, glob, str) => f[On(at, 2)] \in BOOLEAN
      <4>1. \A d \in S : f[d] \in BOOLEAN
        <5> HIDE DEF S
        <5> QED
          BY <1>3
      <4> QED
        BY <4>1, GoesTo
    <3>2. (MayRetry(str, at) /\ f[Again(at)]) \in BOOLEAN
      OBVIOUS
    <3> QED
      BY <3>1, <3>2 DEF Goes
  <2>2. f[at] \in BOOLEAN
    BY <1>3
  <2>3. Turn(at, f, glob, str) = Goes(at, f, glob, str)
    BY TurnGoes
  <2> QED
    BY <1>5, <2>1, <2>2, <2>3
<1>7. f = [at \in S |-> Turn(at, f, glob, str)]
  <2> HIDE DEF S
  <2> QED
    BY <1>3, <1>6
<1>8. scan = [at \in S |-> Turn(at, scan, glob, str)]
  BY <1>7 DEF Scan
<1>9. \A at \in S : scan[at] = Turn(at, scan, glob, str)
  <2> HIDE DEF S, scan
  <2> QED
    BY <1>8
<1> QED
  BY <1>9, TurnGoes

\* Whether the pattern from i on denotes the string from j on.
Den(glob, str, i, j) == Meaning!Denoting(glob, str)[<<i, j>>]

LEMMA DenIs ==
  ASSUME NEW glob \in Glob, NEW str \in Glob,
         NEW i \in 1..Len(glob) + 1, NEW j \in 1..Len(str) + 1
  PROVE  /\ Den(glob, str, i, j) \in BOOLEAN
         /\ i = Len(glob) + 1 => (Den(glob, str, i, j) <=> j = Len(str) + 1)
         /\ i <= Len(glob) /\ glob[i] = "*" =>
              (Den(glob, str, i, j) <=> \E k \in j..Len(str) + 1 : Den(glob, str, i + 1, k))
         /\ i <= Len(glob) /\ glob[i] # "*" =>
              (Den(glob, str, i, j) <=>
                 \/ Same(i, j, glob, str) /\ Den(glob, str, i + 1, j + 1)
                 \/ SameQuoted(i, j, glob, str) /\ Den(glob, str, i + 2, j + 1))
<1> DEFINE d == Meaning!Denoting(glob, str)
<1>1. /\ Len(glob) \in Nat /\ Len(str) \in Nat
      /\ DOMAIN glob = 1..Len(glob) /\ DOMAIN str = 1..Len(str)
  BY DEF Glob
<1>2. /\ <<i, j>> \in Meaning!Spots(glob, str)
      /\ i \in 1..Len(glob) + 2
  BY <1>1 DEF Meaning!Spots
<1>3. d[<<i, j>>] \in BOOLEAN
  BY <1>2, DenotingIs
<1>4. d[<<i, j>>] <=> Meaning!DenotesFrom(i, j, d, glob, str)
  BY <1>2, DenotingIs
<1>5. Esc # "*" /\ Esc # "?"
  BY CallsAssumption
<1> HIDE DEF d
<1>6. i = Len(glob) + 1 => (d[<<i, j>>] <=> j = Len(str) + 1)
  BY <1>1, <1>4 DEF Meaning!DenotesFrom
<1>7. i <= Len(glob) /\ glob[i] = "*" =>
        (d[<<i, j>>] <=> \E k \in j..Len(str) + 1 : d[<<i + 1, k>>])
  BY <1>1, <1>4 DEF Meaning!DenotesFrom
<1>8. i <= Len(glob) /\ glob[i] # "*" =>
        (d[<<i, j>>] <=> \/ Same(i, j, glob, str) /\ d[<<i + 1, j + 1>>]
                         \/ SameQuoted(i, j, glob, str) /\ d[<<i + 2, j + 1>>])
  BY <1>1, <1>4, <1>5 DEF Meaning!DenotesFrom, Same, SameQuoted
<1> QED
  BY <1>3, <1>6, <1>7, <1>8 DEF Den, d

LEMMA StarDenotes ==
  ASSUME NEW glob \in Glob, NEW str \in Glob,
         NEW i \in 1..Len(glob), glob[i] = "*", NEW j \in 1..Len(str) + 1
  PROVE  Den(glob, str, i, j) <=> \E k \in j..Len(str) + 1 : Den(glob, str, i + 1, k)
<1>1. i \in 1..Len(glob) + 1 /\ i <= Len(glob)
  BY DEF Glob
<1> QED
  BY <1>1, DenIs

\* What a place that glob_match comes to says of the whole: the pattern denotes the string
\* exactly if its rest does from here on or, behind a star, if the star and its rest do from
\* where it was last tried.  And wherever the star's rest would fit, what is left of it fits.
Follows(at, glob, str) ==
  \A s \in at.sj..Len(str) + 1 :
    Den(glob, str, at.gi + 1, s) =>
      s + (at.j - at.sj) <= Len(str) + 1 /\ Den(glob, str, at.i, s + (at.j - at.sj))
Kept(at, glob, str) ==
  /\ at.i # 0
  /\ at.gi = 0 => at.sj = 0 /\ (Den(glob, str, 1, 1) <=> Den(glob, str, at.i, at.j))
  /\ at.gi # 0 =>
       /\ at.sj # 0 /\ glob[at.gi] = "*" /\ at.gi <= at.i
       /\ Den(glob, str, 1, 1) <=> Den(glob, str, at.gi, at.sj)
       /\ at.i = at.gi => at.j = at.sj
       /\ at.i # at.gi =>
            /\ at.sj <= at.j
            /\ Den(glob, str, at.gi + 1, at.sj) <=> Den(glob, str, at.i, at.j)
            /\ Follows(at, glob, str)

LEMMA KeptBehind ==
  ASSUME NEW glob \in Glob, NEW str \in Glob, NEW at \in Place(glob, str),
         Kept(at, glob, str), Star(at, glob)
  PROVE  Kept(Behind(at), glob, str)
<1>1. /\ at.i \in 1..Len(glob) + 1 /\ at.j \in 1..Len(str) + 1
      /\ at.gi \in 0..Len(glob) /\ at.sj \in 0..Len(str) + 1
      /\ Len(glob) \in Nat /\ Len(str) \in Nat /\ at.i <= Len(glob)
  BY DEF Place, Glob, Kept, Star
<1>2. Den(glob, str, 1, 1) <=> Den(glob, str, at.i, at.j)
  <2>1. CASE at.gi = 0 \/ at.i = at.gi
    BY <1>1, <2>1 DEF Kept
  <2>2. CASE at.gi # 0 /\ at.i # at.gi
    <3>1. /\ Den(glob, str, 1, 1) <=> Den(glob, str, at.gi, at.sj)
          /\ Den(glob, str, at.gi + 1, at.sj) <=> Den(glob, str, at.i, at.j)
          /\ Follows(at, glob, str)
          /\ at.sj \in 1..Len(str) + 1 /\ at.sj <= at.j
          /\ at.gi \in 1..Len(glob) /\ glob[at.gi] = "*" /\ glob[at.i] = "*"
      BY <1>1, <2>2 DEF Kept, Star
    <3>2. Den(glob, str, at.gi, at.sj)
            <=> \E k \in at.sj..Len(str) + 1 : Den(glob, str, at.gi + 1, k)
      BY <3>1, StarDenotes, Zenon
    <3>3. ASSUME NEW k \in at.sj..Len(str) + 1, Den(glob, str, at.gi + 1, k)
          PROVE  Den(glob, str, at.i, at.j)
      <4> DEFINE l == k + (at.j - at.sj)
      <4>1. l <= Len(str) + 1 /\ Den(glob, str, at.i, l)
        BY <3>1, <3>3 DEF Follows
      <4>2. l \in at.j..Len(str) + 1 /\ l \in 1..Len(str) + 1
        BY <1>1, <3>1, <4>1
      <4> HIDE DEF l
      <4>3. PICK m \in l..Len(str) + 1 : Den(glob, str, at.i + 1, m)
        BY <1>1, <3>1, <4>1, <4>2, DenIs
      <4>4. m \in at.j..Len(str) + 1
        BY <1>1, <4>2
      <4> QED
        BY <1>1, <3>1, <4>3, <4>4, DenIs
    <3>4. at.sj \in at.sj..Len(str) + 1
      BY <1>1, <3>1
    <3> QED
      BY <3>1, <3>2, <3>3, <3>4
  <2> QED
    BY <2>1, <2>2
<1>3. Follows(Behind(at), glob, str)
  BY <1>1 DEF Follows, Behind
<1> QED
  BY <1>1, <1>2, <1>3 DEF Kept, Behind, Star

LEMMA KeptOn ==
  ASSUME NEW glob \in Glob, NEW str \in Glob, NEW at \in Place(glob, str), Kept(at, glob, str),
         NEW d \in {1, 2},
         d = 1 => Same(at.i, at.j, glob, str),
         d = 2 => SameQuoted(at.i, at.j, glob, str)
  PROVE  Kept(On(at, d), glob, str)
<1>1. /\ at.i \in 1..Len(glob) + 1 /\ at.j \in 1..Len(str) + 1
      /\ at.gi \in 0..Len(glob) /\ at.sj \in 0..Len(str) + 1
      /\ Len(glob) \in Nat /\ Len(str) \in Nat /\ at.i <= Len(glob) /\ at.j <= Len(str)
      /\ DOMAIN glob = 1..Len(glob) /\ DOMAIN str = 1..Len(str)
      /\ glob[at.i] # "*"
      /\ d = 1 <=> glob[at.i] # Esc
      /\ d = 2 => at.i + 2 <= Len(glob) + 1
  <2>1. /\ at.i \in 1..Len(glob) + 1 /\ at.j \in 1..Len(str) + 1
        /\ at.gi \in 0..Len(glob) /\ at.sj \in 0..Len(str) + 1
        /\ Len(glob) \in Nat /\ Len(str) \in Nat
        /\ DOMAIN glob = 1..Len(glob) /\ DOMAIN str = 1..Len(str)
    BY DEF Place, Glob, Kept
  <2>2. Esc # "*" /\ Esc # "?"
    BY CallsAssumption
  <2>3. CASE d = 1
    BY <2>1, <2>2, <2>3 DEF Same
  <2>4. CASE d = 2
    BY <2>1, <2>2, <2>4 DEF SameQuoted
  <2> QED
    BY <2>3, <2>4
<1>2. Den(glob, str, at.i, at.j) <=> Den(glob, str, at.i + d, at.j + 1)
  <2>1. Den(glob, str, at.i, at.j)
          <=> \/ Same(at.i, at.j, glob, str) /\ Den(glob, str, at.i + 1, at.j + 1)
              \/ SameQuoted(at.i, at.j, glob, str) /\ Den(glob, str, at.i + 2, at.j + 1)
    BY <1>1, DenIs
  <2>2. ~(Same(at.i, at.j, glob, str) /\ SameQuoted(at.i, at.j, glob, str))
    BY CallsAssumption DEF Same, SameQuoted
  <2> QED
    BY <2>1, <2>2
<1>3. ASSUME NEW l \in 1..Len(str) + 1, Den(glob, str, at.i, l)
      PROVE  l <= Len(str) /\ Den(glob, str, at.i + d, l + 1)
  <2>1. \/ Same(at.i, l, glob, str) /\ Den(glob, str, at.i + 1, l + 1)
        \/ SameQuoted(at.i, l, glob, str) /\ Den(glob, str, at.i + 2, l + 1)
    BY <1>1, <1>3, DenIs
  <2>2. CASE Same(at.i, l, glob, str) /\ Den(glob, str, at.i + 1, l + 1)
    <3>1. Esc # "?"
      BY CallsAssumption
    <3>2. l \in 1..Len(str) /\ glob[at.i] # Esc
      BY <1>1, <2>2, <3>1 DEF Same
    <3> QED
      BY <1>1, <2>2, <3>2
  <2>3. CASE SameQuoted(at.i, l, glob, str) /\ Den(glob, str, at.i + 2, l + 1)
    BY <1>1, <2>3 DEF SameQuoted
  <2> QED
    BY <2>1, <2>2, <2>3
<1>4. CASE at.gi = 0
  BY <1>1, <1>2, <1>4 DEF Kept, On
<1>5. CASE at.gi # 0
  <2>1. /\ at.sj \in 1..Len(str) + 1 /\ at.gi < at.i /\ glob[at.gi] = "*"
        /\ Den(glob, str, 1, 1) <=> Den(glob, str, at.gi, at.sj)
        /\ at.sj <= at.j
        /\ Den(glob, str, at.gi + 1, at.sj) <=> Den(glob, str, at.i, at.j)
        /\ Follows(at, glob, str)
    BY <1>1, <1>5 DEF Kept
  <2>2. ASSUME NEW s \in at.sj..Len(str) + 1, Den(glob, str, at.gi + 1, s)
        PROVE  /\ s + ((at.j + 1) - at.sj) <= Len(str) + 1
               /\ Den(glob, str, at.i + d, s + ((at.j + 1) - at.sj))
    <3> DEFINE l == s + (at.j - at.sj)
    <3>1. l <= Len(str) + 1 /\ Den(glob, str, at.i, l)
      BY <2>1, <2>2 DEF Follows
    <3>2. l \in 1..Len(str) + 1 /\ s + ((at.j + 1) - at.sj) = l + 1
      BY <1>1, <2>1, <3>1
    <3> HIDE DEF l
    <3>3. l <= Len(str) /\ Den(glob, str, at.i + d, l + 1)
      BY <1>3, <3>1, <3>2
    <3> QED
      BY <1>1, <3>2, <3>3
  <2>3. Follows(On(at, d), glob, str)
    BY <2>2 DEF Follows, On
  <2> QED
    BY <1>1, <1>2, <1>5, <2>1, <2>3 DEF Kept, On
<1> QED
  BY <1>4, <1>5

\* Where no turn leads on, the rest of the pattern does not denote the rest of the string.
LEMMA NotDenoted ==
  ASSUME NEW glob \in Glob, NEW str \in Glob, NEW at \in Place(glob, str), at.i # 0,
         ~Over(at, glob, str), ~Star(at, glob),
         ~Same(at.i, at.j, glob, str), ~SameQuoted(at.i, at.j, glob, str)
  PROVE  ~Den(glob, str, at.i, at.j)
<1>1. /\ at.i \in 1..Len(glob) + 1 /\ at.j \in 1..Len(str) + 1
      /\ Len(glob) \in Nat /\ Len(str) \in Nat
      /\ DOMAIN glob = 1..Len(glob)
  BY DEF Place, Glob
<1>2. CASE at.i = Len(glob) + 1
  BY <1>1, <1>2, DenIs DEF Over
<1>3. CASE at.i <= Len(glob)
  BY <1>1, <1>3, DenIs DEF Star
<1> QED
  BY <1>1, <1>2, <1>3

LEMMA KeptAgain ==
  ASSUME NEW glob \in Glob, NEW str \in Glob, NEW at \in Place(glob, str), Kept(at, glob, str),
         ~Star(at, glob), ~Den(glob, str, at.i, at.j)
  PROVE  /\ MayRetry(str, at) => Kept(Again(at), glob, str)
         /\ ~MayRetry(str, at) => ~Den(glob, str, 1, 1)
<1>1. /\ at.i \in 1..Len(glob) + 1 /\ at.j \in 1..Len(str) + 1
      /\ at.gi \in 0..Len(glob) /\ at.sj \in 0..Len(str) + 1
      /\ Len(glob) \in Nat /\ Len(str) \in Nat
      /\ DOMAIN glob = 1..Len(glob) /\ DOMAIN str = 1..Len(str)
  BY DEF Place, Glob, Kept
<1>2. CASE at.gi = 0
  BY <1>1, <1>2 DEF Kept, MayRetry
<1>3. CASE at.gi # 0
  <2>1. /\ at.sj \in 1..Len(str) + 1 /\ at.gi \in 1..Len(glob) /\ glob[at.gi] = "*"
        /\ at.i # at.gi
        /\ Den(glob, str, 1, 1) <=> Den(glob, str, at.gi, at.sj)
        /\ ~Den(glob, str, at.gi + 1, at.sj)
    BY <1>1, <1>3 DEF Kept, Star
  <2>2. Den(glob, str, at.gi, at.sj)
          <=> \E k \in at.sj..Len(str) + 1 : Den(glob, str, at.gi + 1, k)
    BY <2>1, StarDenotes, Zenon
  <2>3. CASE MayRetry(str, at)
    <3>1. at.sj + 1 \in 1..Len(str) + 1
      BY <1>1, <2>1, <2>3 DEF MayRetry
    <3>2. Den(glob, str, at.gi, at.sj + 1)
            <=> \E k \in (at.sj + 1)..Len(str) + 1 : Den(glob, str, at.gi + 1, k)
      BY <2>1, <3>1, StarDenotes, Zenon
    <3>3. \A k : k \in at.sj..Len(str) + 1 <=> k = at.sj \/ k \in (at.sj + 1)..Len(str) + 1
      BY <1>1, <2>1
    <3>4. Den(glob, str, 1, 1) <=> Den(glob, str, at.gi, at.sj + 1)
      BY <2>1, <2>2, <3>2, <3>3
    <3> QED
      BY <1>1, <1>3, <2>1, <2>3, <3>1, <3>4 DEF Kept, Again
  <2>4. CASE ~MayRetry(str, at)
    <3>1. \A k : k \in at.sj..Len(str) + 1 <=> k = at.sj
      BY <1>1, <2>1, <2>4 DEF MayRetry
    <3> QED
      BY <2>1, <2>2, <2>4, <3>1
  <2> QED
    BY <2>3, <2>4
<1> QED
  BY <1>2, <1>3

LEMMA KeptOver ==
  ASSUME NEW glob \in Glob, NEW str \in Glob, NEW at \in Place(glob, str), Kept(at, glob, str),
         Over(at, glob, str)
  PROVE  Den(glob, str, 1, 1)
<1>1. /\ at.i = Len(glob) + 1 /\ at.j = Len(str) + 1
      /\ at.gi \in 0..Len(glob) /\ at.sj \in 0..Len(str) + 1
      /\ Len(glob) \in Nat /\ Len(str) \in Nat
  BY DEF Place, Glob, Over
<1>2. Den(glob, str, at.i, at.j)
  BY <1>1, DenIs
<1>3. CASE at.gi = 0
  BY <1>2, <1>3 DEF Kept
<1>4. CASE at.gi # 0
  <2>1. /\ at.sj \in 1..Len(str) + 1 /\ at.gi \in 1..Len(glob) /\ glob[at.gi] = "*"
        /\ Den(glob, str, 1, 1) <=> Den(glob, str, at.gi, at.sj)
        /\ Den(glob, str, at.gi + 1, at.sj)
    BY <1>1, <1>2, <1>4 DEF Kept
  <2>2. at.sj \in at.sj..Len(str) + 1
    BY <1>1, <2>1
  <2> QED
    BY <1>1, <2>1, <2>2, DenIs
<1> QED
  BY <1>3, <1>4

\* Every turn leads to a place further on: the last star, then what it was tried on, then
\* how far the pattern got.  So where a turn of each kind keeps what its place says of the
\* whole, the loop ends with the right result.
LEMMA MatchIsDenotation ==
  ASSUME NEW glob \in Glob, NEW str \in Glob
  PROVE  GlobMatch(glob, str) <=> Meaning!Denotes(glob, str)
<1> DEFINE S == Place(glob, str)
           scan == Scan(glob, str)
           good == Den(glob, str, 1, 1)
           start == [i |-> 1, j |-> 1, gi |-> 0, sj |-> 0]
           Wrong(at) == Kept(at, glob, str) /\ ~(scan[at] <=> good)
<1>1. Len(glob) \in Nat /\ Len(str) \in Nat
  BY DEF Glob
<1>2. ASSUME NEW at \in S, Wrong(at)
      PROVE  \E next \in S :
               /\ Wrong(next)
               /\ \/ at.gi < next.gi
                  \/ at.gi = next.gi /\ at.sj < next.sj
                  \/ at.gi = next.gi /\ at.sj = next.sj /\ at.i < next.i
  <2>1. scan[at] <=> Goes(at, scan, glob, str)
    BY ScanIs
  <2>2. /\ at.i \in 1..Len(glob) + 1 /\ at.j \in 1..Len(str) + 1
        /\ at.gi \in 0..Len(glob) /\ at.sj \in 0..Len(str) + 1
    BY <1>1, <1>2 DEF Place, Kept
  <2> HIDE DEF scan, good
  <2>3. CASE Over(at, glob, str)
    BY <1>2, <2>1, <2>3, KeptOver DEF Goes, good
  <2>4. CASE ~Over(at, glob, str) /\ Star(at, glob)
    <3>1. Wrong(Behind(at)) /\ Behind(at) \in S
      BY <1>2, <2>1, <2>4, KeptBehind, GoesTo DEF Goes
    <3>2. \/ at.gi < at.i
          \/ at.gi = at.i /\ at.sj = at.j
      BY <1>1, <1>2, <2>2 DEF Kept
    <3>3. /\ Behind(at).gi = at.i /\ Behind(at).sj = at.j /\ Behind(at).i = at.i + 1
      BY DEF Behind
    <3>4. \/ at.gi < Behind(at).gi
          \/ at.gi = Behind(at).gi /\ at.sj = Behind(at).sj /\ at.i < Behind(at).i
      BY <2>2, <3>2, <3>3
    <3> QED
      BY <3>1, <3>4
  <2>5. CASE ~Over(at, glob, str) /\ ~Star(at, glob) /\ Same(at.i, at.j, glob, str)
    <3>1. Kept(On(at, 1), glob, str)
      BY <1>2, <2>5, KeptOn
    <3>2. Wrong(On(at, 1)) /\ On(at, 1) \in S
      BY <1>2, <2>1, <2>5, <3>1, GoesTo DEF Goes
    <3>3. On(at, 1).gi = at.gi /\ On(at, 1).sj = at.sj /\ at.i < On(at, 1).i
      BY <2>2 DEF On
    <3> QED
      BY <3>2, <3>3
  <2>6. CASE /\ ~Over(at, glob, str) /\ ~Star(at, glob)
             /\ ~Same(at.i, at.j, glob, str) /\ SameQuoted(at.i, at.j, glob, str)
    <3>1. Kept(On(at, 2), glob, str)
      BY <1>2, <2>6, KeptOn
    <3>2. Wrong(On(at, 2)) /\ On(at, 2) \in S
      BY <1>2, <2>1, <2>6, <3>1, GoesTo DEF Goes
    <3>3. On(at, 2).gi = at.gi /\ On(at, 2).sj = at.sj /\ at.i < On(at, 2).i
      BY <2>2 DEF On
    <3> QED
      BY <3>2, <3>3
  <2>7. CASE /\ ~Over(at, glob, str) /\ ~Star(at, glob)
             /\ ~Same(at.i, at.j, glob, str) /\ ~SameQuoted(at.i, at.j, glob, str)
    <3>1. scan[at] <=> MayRetry(str, at) /\ scan[Again(at)]
      BY <2>1, <2>7 DEF Goes
    <3>2. ~Den(glob, str, at.i, at.j)
      BY <2>2, <2>7, NotDenoted
    <3>3. /\ MayRetry(str, at) => Kept(Again(at), glob, str)
          /\ ~MayRetry(str, at) => ~good
      BY <1>2, <2>7, <3>2, KeptAgain DEF good
    <3>4. MayRetry(str, at)
      BY <1>2, <3>1, <3>3
    <3>5. Wrong(Again(at)) /\ Again(at) \in S
      BY <1>2, <3>1, <3>3, <3>4, GoesTo
    <3>6. Again(at).gi = at.gi /\ at.sj < Again(at).sj
      BY <2>2 DEF Again
    <3> QED
      BY <3>5, <3>6
  <2> QED
    BY <2>3, <2>4, <2>5, <2>6, <2>7
<1>3. ASSUME \E at \in S : Wrong(at)
      PROVE  FALSE
  <2> DEFINE Gs == {at.gi : at \in {w \in S : Wrong(w)}}
  <2>1. \A at \in S : /\ at.i \in 0..Len(glob) + 1 /\ at.j \in 1..Len(str) + 1
                      /\ at.gi \in 0..Len(glob) /\ at.sj \in 0..Len(str) + 1
    BY DEF Place
  <2> HIDE DEF Wrong, S
  <2>2. PICK a \in S : Wrong(a) /\ \A other \in S : Wrong(other) => other.gi <= a.gi
    <3>1. Gs # {} /\ Gs \subseteq 0..Len(glob)
      BY <1>3, <2>1
    <3>2. PICK g \in Gs : \A other \in Gs : other <= g
      <4> HIDE DEF Gs
      <4> QED
        BY <1>1, <3>1, GreatestNumber
    <3> QED
      BY <3>2
  <2> DEFINE Ss == {at.sj : at \in {w \in S : Wrong(w) /\ w.gi = a.gi}}
  <2>3. PICK b \in S : /\ Wrong(b) /\ b.gi = a.gi
                       /\ \A other \in S : Wrong(other) /\ other.gi = a.gi => other.sj <= b.sj
    <3>1. Ss # {} /\ Ss \subseteq 0..Len(str) + 1 /\ Len(str) + 1 \in Nat
      BY <1>1, <2>1, <2>2
    <3>2. PICK s \in Ss : \A other \in Ss : other <= s
      <4> HIDE DEF Ss
      <4> QED
        BY <3>1, GreatestNumber
    <3> QED
      BY <3>2
  <2> DEFINE Is == {at.i : at \in {w \in S : Wrong(w) /\ w.gi = a.gi /\ w.sj = b.sj}}
  <2>4. PICK c \in S : /\ Wrong(c) /\ c.gi = a.gi /\ c.sj = b.sj
                       /\ \A other \in S :
                            Wrong(other) /\ other.gi = a.gi /\ other.sj = b.sj => other.i <= c.i
    <3>1. Is # {} /\ Is \subseteq 0..Len(glob) + 1 /\ Len(glob) + 1 \in Nat
      BY <1>1, <2>1, <2>3
    <3>2. PICK i \in Is : \A other \in Is : other <= i
      <4> HIDE DEF Is
      <4> QED
        BY <3>1, GreatestNumber
    <3> QED
      BY <3>2
  <2>5. PICK next \in S :
          /\ Wrong(next)
          /\ \/ c.gi < next.gi
             \/ c.gi = next.gi /\ c.sj < next.sj
             \/ c.gi = next.gi /\ c.sj = next.sj /\ c.i < next.i
    BY <1>2, <2>4
  <2>6. /\ next.gi \in Nat /\ next.sj \in Nat /\ next.i \in Nat
        /\ c.gi \in Nat /\ c.sj \in Nat /\ c.i \in Nat
    BY <1>1, <2>1
  <2> QED
    BY <2>2, <2>3, <2>4, <2>5, <2>6
<1>4. start \in S /\ Kept(start, glob, str)
  BY <1>1 DEF Place, Kept
<1>5. scan[start] <=> good
  <2> HIDE DEF scan, good, start, S
  <2> QED
    BY <1>3, <1>4
<1> QED
  BY <1>5 DEF GlobMatch, Meaning!Denotes, Den

LEMMA Denoted ==
  ASSUME NEW glob \in Glob, NEW str \in Glob
  PROVE  Meaning!Denotes(glob, str) \in BOOLEAN
<1>1. 1 \in 1..Len(glob) + 1 /\ 1 \in 1..Len(str) + 1
  BY DEF Glob
<1> QED
  BY <1>1, DenIs DEF Meaning!Denotes, Den
-----------------------------------------------------------------------------
(***************************************************************************)
(* The shortest and the longest part that a pattern denotes.               *)
(***************************************************************************)

LEMMA LeastIs ==
  ASSUME NEW S, S \subseteq Nat, NEW k \in S, \A other \in S : k <= other
  PROVE  Least(S) = k /\ Meaning!Chosen(S, FALSE) = k
<1>1. \A m \in S : (\A other \in S : m <= other) => m = k
  OBVIOUS
<1>2. Least(S) = k
  BY <1>1 DEF Least
<1>3. Meaning!Chosen(S, FALSE) = k
  BY <1>1 DEF Meaning!Chosen
<1> QED
  BY <1>2, <1>3

LEMMA GreatestIs ==
  ASSUME NEW S, S \subseteq Nat, NEW k \in S, \A other \in S : other <= k
  PROVE  Greatest(S) = k /\ Meaning!Chosen(S, TRUE) = k
<1>1. \A m \in S : (\A other \in S : other <= m) => m = k
  OBVIOUS
<1>2. Greatest(S) = k
  BY <1>1 DEF Greatest
<1>3. Meaning!Chosen(S, TRUE) = k
  BY <1>1 DEF Meaning!Chosen
<1> QED
  BY <1>2, <1>3

LEMMA Whole ==
  ASSUME NEW value \in Glob
  PROVE  /\ SubSeq(value, 1, Len(value)) = value
         /\ \A k, l \in 0..Len(value) + 1 :
              k # 0 /\ l # Len(value) + 1 => SubSeq(value, k, l) \in Glob
  BY DEF Glob

LEMMA PrefixIs ==
  ASSUME NEW value \in Glob, NEW glob \in Glob, NEW largest \in BOOLEAN
  PROVE  RemovePrefix(value, glob, largest) = Meaning!WithoutPrefix(glob, value, largest)
<1> DEFINE all == Meaning!Prefixes(glob, value)
           tried == {k \in (IF largest THEN 1 ELSE 0)..Len(value) :
                       GlobMatch(glob, SubSeq(value, 1, k))}
           start == IF tried = {} THEN 0
                    ELSE IF largest THEN Greatest(tried) ELSE Least(tried)
<1>1. Len(value) \in Nat
  BY DEF Glob
<1>2. \A k \in 0..Len(value) : k \in all <=> GlobMatch(glob, SubSeq(value, 1, k))
  BY <1>1, Whole, MatchIsDenotation DEF Meaning!Prefixes
<1>3. /\ all \subseteq 0..Len(value) /\ tried \subseteq 0..Len(value)
      /\ all \subseteq Nat /\ tried \subseteq Nat
  BY <1>1 DEF Meaning!Prefixes
<1>4. \A k : k \in tried <=> k \in all /\ (largest => k # 0)
  BY <1>1, <1>2, <1>3
<1> HIDE DEF all, tried
<1>5. CASE all = {}
  BY <1>4, <1>5, Whole DEF RemovePrefix, Meaning!WithoutPrefix, all, tried
<1>6. CASE all # {}
  <2>1. start = Meaning!Chosen(all, largest)
    <3>1. CASE ~largest
      <4>1. PICK k \in all : \A other \in all : k <= other
        BY <1>3, <1>6, LeastNumber
      <4>2. Least(tried) = k /\ tried # {}
        BY <1>3, <1>4, <3>1, <4>1, LeastIs
      <4>3. Meaning!Chosen(all, FALSE) = k
        BY <1>3, <4>1, LeastIs
      <4> QED
        BY <3>1, <4>2, <4>3
    <3>2. CASE largest
      <4>1. PICK k \in all : \A other \in all : other <= k
        BY <1>1, <1>3, <1>6, GreatestNumber
      <4>2. Meaning!Chosen(all, TRUE) = k
        BY <1>3, <4>1, GreatestIs
      <4>3. CASE k = 0
        <5>1. tried = {}
          BY <1>3, <1>4, <3>2, <4>1, <4>3
        <5> QED
          BY <3>2, <4>2, <4>3, <5>1
      <4>4. CASE k # 0
        <5>1. Greatest(tried) = k /\ tried # {}
          BY <1>3, <1>4, <4>1, <4>4, GreatestIs
        <5> QED
          BY <3>2, <4>2, <5>1
      <4> QED
        BY <4>3, <4>4
    <3> QED
      BY <3>1, <3>2
  <2>2. RemovePrefix(value, glob, largest) = SubSeq(value, start + 1, Len(value))
    BY DEF RemovePrefix, tried
  <2> QED
    BY <1>6, <2>1, <2>2 DEF Meaning!WithoutPrefix, all
<1> QED
  BY <1>5, <1>6

LEMMA SuffixIs ==
  ASSUME NEW value \in Glob, NEW glob \in Glob, NEW largest \in BOOLEAN
  PROVE  RemoveSuffix(value, glob, largest) = Meaning!WithoutSuffix(glob, value, largest)
<1> DEFINE n == Len(value)
           all == Meaning!Suffixes(glob, value)
           tried == {k \in 1..(IF largest THEN Len(value) ELSE Len(value) + 1) :
                       GlobMatch(glob, SubSeq(value, k, Len(value)))}
           end == IF tried = {} THEN Len(value) + 1
                  ELSE IF largest THEN Least(tried) ELSE Greatest(tried)
<1>1. n \in Nat
  BY DEF Glob
<1>2. \A k \in 0..n : k \in all <=> GlobMatch(glob, SubSeq(value, n - k + 1, n))
  BY <1>1, Whole, MatchIsDenotation DEF Meaning!Suffixes
<1>3. all \subseteq 0..n /\ tried \subseteq 1..n + 1 /\ all \subseteq Nat /\ tried \subseteq Nat
  BY <1>1 DEF Meaning!Suffixes
<1>4. \A k \in 0..n : n - k + 1 \in tried <=> k \in all /\ (largest => k # 0)
  BY <1>1, <1>2
<1>5. \A k \in 1..n + 1 : n - k + 1 \in 0..n /\ n - (n - k + 1) + 1 = k
  BY <1>1
<1>6. \A k \in tried : n - k + 1 \in all /\ (largest => n - k + 1 # 0)
  BY <1>3, <1>4, <1>5
<1> HIDE DEF all, tried, n
<1>7. CASE all = {}
  <2>1. tried = {}
    BY <1>6, <1>7
  <2>2. (n + 1) - 1 = n
    BY <1>1
  <2> QED
    BY <1>7, <2>1, <2>2, Whole DEF RemoveSuffix, Meaning!WithoutSuffix, all, tried, n
<1>8. CASE all # {}
  <2>1. end - 1 = n - Meaning!Chosen(all, largest)
    <3>1. CASE ~largest
      <4>1. PICK k \in all : \A other \in all : k <= other
        BY <1>3, <1>8, LeastNumber
      <4>2. Meaning!Chosen(all, FALSE) = k
        BY <1>3, <4>1, LeastIs
      <4>3. n - k + 1 \in tried
        BY <1>3, <1>4, <3>1
      <4>4. \A other \in tried : other <= n - k + 1
        BY <1>1, <1>3, <1>6, <4>1
      <4>5. Greatest(tried) = n - k + 1
        BY <1>3, <4>3, <4>4, GreatestIs
      <4>6. end = n - k + 1 /\ Meaning!Chosen(all, largest) = k
        BY <3>1, <4>2, <4>3, <4>5
      <4> HIDE DEF end
      <4> QED
        BY <1>1, <1>3, <4>6
    <3>2. CASE largest
      <4>1. PICK k \in all : \A other \in all : other <= k
        BY <1>1, <1>3, <1>8, GreatestNumber
      <4>2. Meaning!Chosen(all, TRUE) = k
        BY <1>3, <4>1, GreatestIs
      <4>3. CASE k = 0
        <5>1. tried = {}
          <6>1. \A other \in all : other = 0
            BY <1>3, <4>1, <4>3
          <6> QED
            BY <1>6, <3>2, <6>1
        <5>2. end = n + 1 /\ Meaning!Chosen(all, largest) = 0
          BY <3>2, <4>2, <4>3, <5>1 DEF n
        <5> HIDE DEF end
        <5> QED
          BY <1>1, <5>2
      <4>4. CASE k # 0
        <5>1. n - k + 1 \in tried
          BY <1>3, <1>4, <4>4
        <5>2. \A other \in tried : n - k + 1 <= other
          BY <1>1, <1>3, <1>6, <4>1
        <5>3. Least(tried) = n - k + 1
          BY <1>3, <5>1, <5>2, LeastIs
        <5>4. end = n - k + 1 /\ Meaning!Chosen(all, largest) = k
          BY <3>2, <4>2, <5>1, <5>3
        <5> HIDE DEF end
        <5> QED
          BY <1>1, <1>3, <5>4
      <4> QED
        BY <4>3, <4>4
    <3> QED
      BY <3>1, <3>2
  <2>2. RemoveSuffix(value, glob, largest) = SubSeq(value, 1, end - 1)
    BY DEF RemoveSuffix, tried
  <2> QED
    BY <1>8, <2>1, <2>2 DEF Meaning!WithoutSuffix, all, n
<1> QED
  BY <1>7, <1>8
-----------------------------------------------------------------------------
(***************************************************************************)
(* The walk through the directories: what a component without a wildcard   *)
(* is, what one with a wildcard is tried on, and what the walk finds.      *)
(***************************************************************************)

NoWildcardFrom(glob, i) ==
  \A k \in DOMAIN glob : i <= k /\ glob[k] \in {"*", "?"} => i < k /\ glob[k - 1] = Esc

LEMMA NoWildcardOn ==
  ASSUME NEW glob \in Glob, IsComponent(glob), NEW i \in 1..Len(glob) + 2
  PROVE  NoWildcardFrom(glob, i)
           <=> \/ i \notin DOMAIN glob
               \/ glob[i] = Esc /\ NoWildcardFrom(glob, i + 2)
               \/ glob[i] \notin {Esc, "*", "?"} /\ NoWildcardFrom(glob, i + 1)
<1>1. /\ Len(glob) \in Nat /\ DOMAIN glob = 1..Len(glob)
      /\ \A k \in DOMAIN glob : glob[k] = Esc => k < Len(glob) /\ glob[k + 1] # Esc
  BY DEF Glob, IsComponent
<1>2. Esc # "*" /\ Esc # "?"
  BY CallsAssumption
<1>3. CASE i \notin DOMAIN glob
  BY <1>1, <1>3 DEF NoWildcardFrom
<1>4. CASE i \in DOMAIN glob /\ glob[i] = Esc
  <2>1. NoWildcardFrom(glob, i) => NoWildcardFrom(glob, i + 2)
    BY <1>1, <1>4 DEF NoWildcardFrom
  <2>2. NoWildcardFrom(glob, i + 2) => NoWildcardFrom(glob, i)
    BY <1>1, <1>2, <1>4 DEF NoWildcardFrom
  <2> QED
    BY <1>2, <1>4, <2>1, <2>2
<1>5. CASE i \in DOMAIN glob /\ glob[i] \in {"*", "?"}
  <2>1. i <= i /\ ~(i < i)
    BY <1>1, <1>5
  <2>3. ~NoWildcardFrom(glob, i)
    BY <1>5, <2>1, Zenon DEF NoWildcardFrom
  <2>2. glob[i] # Esc /\ glob[i] \in {Esc, "*", "?"}
    BY <1>2, <1>5
  <2> QED
    BY <1>5, <2>2, <2>3
<1>6. CASE i \in DOMAIN glob /\ glob[i] \notin {Esc, "*", "?"}
  BY <1>1, <1>6 DEF NoWildcardFrom
<1> QED
  BY <1>3, <1>4, <1>5, <1>6

LEMMA NoWildcardAtAll ==
  ASSUME NEW glob \in Glob
  PROVE  NoWildcardFrom(glob, 1) <=> ~HasWildcard(glob)
<1>1. /\ Len(glob) \in Nat /\ DOMAIN glob = 1..Len(glob)
  BY DEF Glob
<1>2. ASSUME NEW k \in DOMAIN glob
      PROVE  (1 <= k /\ glob[k] \in {"*", "?"} => 1 < k /\ glob[k - 1] = Esc)
               <=> ~(glob[k] \in {"*", "?"} /\ (k = 1 \/ glob[k - 1] # Esc))
  BY <1>1
<1> QED
  BY <1>2 DEF HasWildcard, NoWildcardFrom

LEMMA PlainIs ==
  ASSUME NEW glob \in Glob, IsComponent(glob)
  PROVE  Meaning!Literal(glob) <=> ~HasWildcard(glob)
<1> DEFINE m == Len(glob) + 2
           P(i) == NoWildcardFrom(glob, i)
           p == [i \in 1..m |-> P(i)]
           plain == Meaning!Plain(glob)
<1>1. /\ Len(glob) \in Nat /\ DOMAIN glob = 1..Len(glob)
  BY DEF Glob
<1>3. ASSUME NEW i \in 1..m
      PROVE  P(i) <=> \/ i \notin DOMAIN glob
                      \/ glob[i] = Esc /\ P(i + 2)
                      \/ glob[i] \notin {Esc, "*", "?"} /\ P(i + 1)
  BY NoWildcardOn
<1>4. \A i \in 1..m : P(i) \in BOOLEAN
  BY DEF NoWildcardFrom
<1>5. \A i \in 1..m : p[i] = P(i)
  OBVIOUS
<1>6. \A i \in DOMAIN glob : i + 1 \in 1..m /\ i + 2 \in 1..m /\ i + 1 > i /\ i + 2 > i
  BY <1>1
<1>7. \A i, f : Meaning!PlainFrom(i, f, glob) \in BOOLEAN
  BY DEF Meaning!PlainFrom
<1>8. \A f : \A i \in 1..m : Meaning!PlainFrom(i, f, glob)
        <=> \/ i \notin DOMAIN glob
            \/ glob[i] = Esc /\ f[i + 2]
            \/ glob[i] \notin {Esc, "*", "?"} /\ f[i + 1]
  BY DEF Meaning!PlainFrom
<1>9. \A i \in 1..m : p[i] = Meaning!PlainFrom(i, p, glob)
  <2> TAKE i \in 1..m
  <2> HIDE DEF P, p, m
  <2>1. P(i) <=> Meaning!PlainFrom(i, p, glob)
    BY <1>3, <1>5, <1>6, <1>8
  <2> QED
    BY <1>4, <1>5, <1>7, <2>1
<1>10. p = [i \in 1..m |-> Meaning!PlainFrom(i, p, glob)]
  <2>1. p = [i \in 1..m |-> p[i]]
    OBVIOUS
  <2> HIDE DEF p, m
  <2> QED
    BY <1>9, <2>1
<1>11. plain = [i \in 1..m |-> Meaning!PlainFrom(i, plain, glob)]
  BY <1>10 DEF Meaning!Plain
<1>12. \A i \in 1..m : plain[i] = Meaning!PlainFrom(i, plain, glob)
  <2> HIDE DEF plain, m
  <2> QED
    BY <1>11
<1> HIDE DEF plain
<1>13. \A i \in 1..m : plain[i] <=> P(i)
  <2> DEFINE Bad == {i \in 1..m : ~(plain[i] <=> P(i))}
  <2> SUFFICES ASSUME Bad # {}
               PROVE  FALSE
    OBVIOUS
  <2>1. Bad \subseteq 0..m /\ m \in Nat
    BY <1>1
  <2> HIDE DEF Bad, P, m
  <2>2. PICK i \in Bad : \A k \in Bad : k <= i
    BY <2>1, GreatestNumber
  <2>3. i \in 1..m /\ ~(plain[i] <=> P(i))
    BY <2>2 DEF Bad
  <2>4. \A k \in 1..m : k > i => (plain[k] <=> P(k))
    BY <2>1, <2>2 DEF Bad
  <2>5. i \in DOMAIN glob => (plain[i + 1] <=> P(i + 1)) /\ (plain[i + 2] <=> P(i + 2))
    BY <1>6, <2>4
  <2>6. plain[i] <=> Meaning!PlainFrom(i, plain, glob)
    BY <1>12, <2>3
  <2> QED
    BY <1>3, <1>8, <2>3, <2>5, <2>6
<1>14. P(1) <=> ~HasWildcard(glob)
  BY NoWildcardAtAll
<1>15. 1 \in 1..m
  BY <1>1
<1> HIDE DEF P, m
<1> QED
  BY <1>13, <1>14, <1>15 DEF Meaning!Literal, plain

LEMMA UnquotedIs ==
  ASSUME NEW glob \in Glob, IsComponent(glob)
  PROVE  \E u \in [1..Len(glob) + 2 -> Seq(Character)] :
           /\ Unquoted(glob) = u[1]
           /\ \A i \in 1..Len(glob) + 2 : u[i] = UnquotedFrom(i, u, glob)
<1> DEFINE m == Len(glob) + 2
           A == Seq(Character)
           Ok(k) == \E f \in [1..m -> A] : \A i \in k..m : f[i] = UnquotedFrom(i, f, glob)
           Ks == {k \in 1..m + 1 : Ok(k)}
           u == CHOOSE u : u = [i \in 1..m |-> UnquotedFrom(i, u, glob)]
<1>1. /\ Len(glob) \in Nat /\ DOMAIN glob = 1..Len(glob) /\ m \in Nat
      /\ \A i \in 1..Len(glob) : glob[i] \in Character
      /\ \A i \in 1..Len(glob) : glob[i] = Esc => glob[i + 1] \in Character
      /\ \A i \in 1..Len(glob) : i + 1 \in 1..m /\ i + 2 \in 1..m
  <2>1. /\ Len(glob) \in Nat /\ DOMAIN glob = 1..Len(glob)
        /\ \A i \in 1..Len(glob) : glob[i] \in Character
    BY DEF Glob
  <2>2. \A i \in 1..Len(glob) : glob[i] = Esc => i + 1 \in 1..Len(glob)
    <3>1. \A i \in DOMAIN glob : glob[i] = Esc => i < Len(glob)
      BY DEF IsComponent
    <3> QED
      BY <2>1, <3>1
  <2> QED
    BY <2>1, <2>2
<1>2. ASSUME NEW f, NEW i \in 1..m, i <= Len(glob) => f[i + 1] \in A /\ f[i + 2] \in A
      PROVE  UnquotedFrom(i, f, glob) \in A
  BY <1>1, <1>2 DEF UnquotedFrom
<1>3. m + 1 \in Ks
  <2>1. [i \in 1..m |-> <<>>] \in [1..m -> A]
    OBVIOUS
  <2>2. \A i : ~(i \in (m + 1)..m)
    BY <1>1
  <2>3. Ok(m + 1)
    BY <2>1, <2>2
  <2> QED
    BY <1>1, <2>3
<1>4. ASSUME NEW k \in 1..m, Ok(k + 1)
      PROVE  Ok(k)
  <2>1. PICK f \in [1..m -> A] : \A i \in (k + 1)..m : f[i] = UnquotedFrom(i, f, glob)
    BY <1>4
  <2> DEFINE g == [f EXCEPT ![k] = UnquotedFrom(k, f, glob)]
  <2>2. UnquotedFrom(k, f, glob) \in A
    <3>1. k <= Len(glob) => f[k + 1] \in A /\ f[k + 2] \in A
      <4>1. k <= Len(glob) => k \in 1..Len(glob)
        BY <1>1
      <4> HIDE DEF m, A
      <4> QED
        BY <1>1, <2>1, <4>1
    <3> QED
      BY <1>2, <3>1
  <2>3. /\ g \in [1..m -> A]
        /\ g[k] = UnquotedFrom(k, f, glob)
        /\ \A i \in 1..m : i # k => g[i] = f[i]
    BY <2>2
  <2> HIDE DEF g
  <2>4. ASSUME NEW i \in k..m
        PROVE  UnquotedFrom(i, g, glob) = UnquotedFrom(i, f, glob)
    <3>1. i <= Len(glob) => g[i + 1] = f[i + 1] /\ g[i + 2] = f[i + 2]
      BY <1>1, <2>3
    <3>2. i \in Nat
      BY <1>1
    <3> QED
      BY <1>1, <3>1, <3>2 DEF UnquotedFrom
  <2>5. \A i \in k..m : g[i] = UnquotedFrom(i, g, glob)
    <3> TAKE i \in k..m
    <3>1. i = k \/ (i \in (k + 1)..m /\ i \in 1..m /\ i # k)
      BY <1>1
    <3> QED
      BY <2>1, <2>3, <2>4, <3>1
  <2> QED
    BY <2>3, <2>5
<1>5. Ok(1)
  <2> HIDE DEF Ok, m
  <2>0. Ks \subseteq Nat /\ Ks # {}
    BY <1>1, <1>3
  <2>1. PICK k \in Ks : \A l \in Ks : k <= l
    BY <2>0, LeastNumber
  <2>2. k = 1 \/ (k - 1 \in 1..m /\ (k - 1) + 1 = k /\ ~(k <= k - 1))
    BY <1>1
  <2>3. CASE k = 1
    BY <2>1, <2>3
  <2>4. CASE k # 1
    <3>1. Ok(k - 1) /\ k - 1 \in 1..m + 1
      BY <1>1, <1>4, <2>1, <2>2, <2>4
    <3> QED
      BY <2>1, <2>2, <2>4, <3>1
  <2> QED
    BY <2>3, <2>4
<1>6. PICK f \in [1..m -> A] : \A i \in 1..m : f[i] = UnquotedFrom(i, f, glob)
  BY <1>5
<1>7. f = [i \in 1..m |-> UnquotedFrom(i, f, glob)]
  <2> HIDE DEF m
  <2> QED
    BY <1>6
<1>8. u = [i \in 1..m |-> UnquotedFrom(i, u, glob)]
  BY <1>7
<1>9. \A i \in 1..m : u[i] = UnquotedFrom(i, u, glob)
  <2> HIDE DEF m, u
  <2> QED
    BY <1>8
<1>10. \A i \in 1..m : u[i] \in A
  <2> HIDE DEF u
  <2> DEFINE Bad == {i \in 1..m : u[i] \notin A}
  <2> SUFFICES ASSUME Bad # {}
               PROVE  FALSE
    OBVIOUS
  <2>0. Bad \subseteq 0..m /\ m \in Nat
    BY <1>1
  <2>1. PICK i \in Bad : \A k \in Bad : k <= i
    BY <2>0, GreatestNumber
  <2>2. i <= Len(glob) => u[i + 1] \in A /\ u[i + 2] \in A
    BY <1>1, <2>1
  <2>3. u[i] \in A
    BY <1>2, <1>9, <2>2
  <2> QED
    BY <2>3
<1>11. u \in [1..m -> A]
  <2> HIDE DEF m, u, A
  <2> QED
    BY <1>8, <1>10
<1>12. Unquoted(glob) = u[1]
  BY DEF Unquoted
<1> HIDE DEF u, m
<1> QED
  BY <1>9, <1>11, <1>12 DEF m

LEMMA FirstAndRest ==
  ASSUME NEW A, NEW s \in Seq(A), NEW t \in Seq(A), NEW c \in A, NEW j \in 1..Len(s) + 1
  PROVE  SubSeq(s, j, Len(s)) = <<c>> \o t
           <=> j <= Len(s) /\ s[j] = c /\ SubSeq(s, j + 1, Len(s)) = t
<1> DEFINE r == SubSeq(s, j, Len(s))
           q == SubSeq(s, j + 1, Len(s))
           p == <<c>> \o t
<1>1. /\ Len(s) \in Nat /\ Len(t) \in Nat
      /\ r \in Seq(A) /\ Len(r) = Len(s) - j + 1
      /\ \A k \in 1..Len(s) - j + 1 : r[k] = s[j + k - 1]
  OBVIOUS
<1>2. ASSUME j <= Len(s)
      PROVE  /\ q \in Seq(A) /\ Len(q) = Len(s) - j
             /\ \A k \in 1..Len(s) - j : q[k] = s[j + k]
  <2> DEFINE m == j + 1
  <2>1. m \in 1..Len(s) + 1 /\ q = SubSeq(s, m, Len(s))
    BY <1>1, <1>2
  <2>2. /\ Len(s) - m + 1 = Len(s) - j
        /\ \A k \in 1..Len(s) - j : m + k - 1 = j + k
    BY <1>1
  <2> HIDE DEF m
  <2>3. /\ q \in Seq(A) /\ Len(q) = Len(s) - m + 1
        /\ \A k \in 1..Len(s) - m + 1 : q[k] = s[m + k - 1]
    BY <2>1
  <2> HIDE DEF q
  <2> QED
    BY <2>2, <2>3
<1>3. /\ p \in Seq(A) /\ Len(p) = Len(t) + 1 /\ p[1] = c
      /\ \A k \in 1..Len(t) : p[k + 1] = t[k]
  OBVIOUS
<1> HIDE DEF r, q, p
<1>4. ASSUME r = p
      PROVE  j <= Len(s) /\ s[j] = c /\ q = t
  <2>1. Len(s) - j = Len(t) /\ j <= Len(s)
    BY <1>1, <1>3, <1>4
  <2>2. s[j] = c
    <3>1. 1 \in 1..Len(s) - j + 1 /\ j + 1 - 1 = j
      BY <1>1, <2>1
    <3> QED
      BY <1>1, <1>3, <1>4, <3>1
  <2>3. \A k \in 1..Len(t) : q[k] = t[k]
    <3> TAKE k \in 1..Len(t)
    <3>1. k + 1 \in 1..Len(s) - j + 1 /\ j + (k + 1) - 1 = j + k /\ k \in 1..Len(s) - j
      BY <1>1, <2>1
    <3>2. r[k + 1] = s[j + k]
      BY <1>1, <3>1
    <3> QED
      BY <1>2, <1>3, <1>4, <2>1, <3>1, <3>2
  <2>4. q = t
    BY <1>2, <1>3, <2>1, <2>3, SameText
  <2> QED
    BY <2>1, <2>2, <2>4
<1>5. ASSUME j <= Len(s), s[j] = c, q = t
      PROVE  r = p
  <2>1. Len(s) - j = Len(t) /\ Len(r) = Len(p)
    BY <1>1, <1>2, <1>3, <1>5
  <2>2. r[1] = p[1]
    <3>1. 1 \in 1..Len(s) - j + 1 /\ j + 1 - 1 = j
      BY <1>1, <1>5
    <3> QED
      BY <1>1, <1>3, <1>5, <3>1
  <2>3. \A k \in 1..Len(t) : r[k + 1] = p[k + 1]
    <3> TAKE k \in 1..Len(t)
    <3>1. k + 1 \in 1..Len(s) - j + 1 /\ j + (k + 1) - 1 = j + k /\ k \in 1..Len(s) - j
      BY <1>1, <2>1
    <3>2. r[k + 1] = s[j + k]
      BY <1>1, <3>1
    <3> QED
      BY <1>2, <1>3, <1>5, <3>1, <3>2
  <2>4. \A k \in 1..Len(r) : r[k] = p[k]
    <3> TAKE k \in 1..Len(r)
    <3>1. k = 1 \/ (k - 1 \in 1..Len(t) /\ (k - 1) + 1 = k)
      BY <1>1, <2>1
    <3> QED
      BY <2>2, <2>3, <3>1
  <2> QED
    BY <1>1, <1>3, <2>1, <2>4, SameText
<1> QED
  BY <1>4, <1>5 DEF r, q, p

\* A component without a wildcard denotes one name, the one that glob_file_recur appends.
LEMMA LiteralIs ==
  ASSUME NEW glob \in Glob, IsComponent(glob), ~HasWildcard(glob), NEW name \in Glob
  PROVE  Meaning!Denotes(glob, name) <=> name = Unquoted(glob)
<1> DEFINE m == Len(glob) + 1
           n == Len(name) + 1
           rest(j) == SubSeq(name, j, Len(name))
<1>1. /\ Len(glob) \in Nat /\ DOMAIN glob = 1..Len(glob) /\ Len(name) \in Nat
      /\ DOMAIN name = 1..Len(name)
      /\ \A i \in 1..Len(glob) : glob[i] \in Character
  BY DEF Glob
<1>2. Esc # "*" /\ Esc # "?"
  BY CallsAssumption
<1>3. \A i \in 1..Len(glob) : glob[i] = Esc => i + 1 \in 1..Len(glob)
  <2>1. \A i \in DOMAIN glob : glob[i] = Esc => i < Len(glob)
    BY DEF IsComponent
  <2> QED
    BY <1>1, <2>1
<1>4. PICK u \in [1..Len(glob) + 2 -> Seq(Character)] :
        /\ Unquoted(glob) = u[1]
        /\ \A i \in 1..Len(glob) + 2 : u[i] = UnquotedFrom(i, u, glob)
  BY UnquotedIs
<1> DEFINE Right(i) == \A j \in 1..n : Den(glob, name, i, j) <=> rest(j) = u[i]
           Bad == {i \in 1..m : NoWildcardFrom(glob, i) /\ ~Right(i)}
<1>5. ASSUME NEW i \in 1..m, NoWildcardFrom(glob, i),
             \A k \in 1..m : i < k /\ NoWildcardFrom(glob, k) => Right(k)
      PROVE  Right(i)
  <2> SUFFICES ASSUME NEW j \in 1..n
               PROVE  Den(glob, name, i, j) <=> rest(j) = u[i]
    OBVIOUS
  <2>1. /\ u[i] = UnquotedFrom(i, u, glob)
        /\ i <= Len(glob) => u[i + 1] \in Seq(Character) /\ u[i + 2] \in Seq(Character)
    <3>1. /\ i \in 1..Len(glob) + 2
          /\ i <= Len(glob) => i + 1 \in 1..Len(glob) + 2 /\ i + 2 \in 1..Len(glob) + 2
      BY <1>1
    <3> QED
      BY <1>4, <3>1
  <2>2. \/ i \notin DOMAIN glob
        \/ glob[i] = Esc /\ NoWildcardFrom(glob, i + 2)
        \/ glob[i] \notin {Esc, "*", "?"} /\ NoWildcardFrom(glob, i + 1)
    BY <1>1, <1>5, NoWildcardOn
  <2>3. j <= Len(name) => j \in DOMAIN name /\ j + 1 \in 1..n
    BY <1>1
  <2>4. CASE i \notin DOMAIN glob
    <3>1. i = Len(glob) + 1 /\ u[i] = <<>>
      BY <1>1, <2>1, <2>4 DEF UnquotedFrom
    <3>2. Den(glob, name, i, j) <=> j = n
      BY <3>1, DenIs
    <3>3. rest(j) = <<>> <=> j = n
      <4>1. rest(j) \in Seq(Character) /\ Len(rest(j)) = Len(name) - j + 1
        BY <1>1 DEF Glob
      <4>2. rest(j) = <<>> <=> Len(rest(j)) = 0
        BY <4>1
      <4> QED
        BY <1>1, <4>1, <4>2
    <3> QED
      BY <3>1, <3>2, <3>3
  <2>5. CASE i \in DOMAIN glob /\ glob[i] = Esc /\ NoWildcardFrom(glob, i + 2)
    <3>1. /\ i \in 1..Len(glob) /\ i + 1 \in 1..Len(glob) /\ i + 2 \in 1..m /\ i < i + 2
      BY <1>1, <1>3, <2>5
    <3>2. u[i] = <<glob[i + 1]>> \o u[i + 2]
      BY <1>1, <2>1, <2>5, <3>1 DEF UnquotedFrom
    <3>3. Den(glob, name, i, j)
            <=> SameQuoted(i, j, glob, name) /\ Den(glob, name, i + 2, j + 1)
      <4>1. ~Same(i, j, glob, name)
        BY <1>2, <2>5 DEF Same
      <4> QED
        BY <1>1, <1>2, <2>5, <3>1, <4>1, DenIs
    <3>4. SameQuoted(i, j, glob, name) <=> j <= Len(name) /\ name[j] = glob[i + 1]
      BY <1>1, <2>5, <3>1 DEF SameQuoted
    <3>5. rest(j) = u[i]
            <=> j <= Len(name) /\ name[j] = glob[i + 1] /\ rest(j + 1) = u[i + 2]
      <4> DEFINE c == glob[i + 1]
                 t == u[i + 2]
      <4>1. c \in Character /\ t \in Seq(Character) /\ name \in Seq(Character)
        BY <1>1, <2>1, <3>1 DEF Glob
      <4> HIDE DEF c, t
      <4>2. rest(j) = <<c>> \o t <=> j <= Len(name) /\ name[j] = c /\ rest(j + 1) = t
        BY <4>1, FirstAndRest
      <4> QED
        BY <3>2, <4>2 DEF c, t
    <3>6. j <= Len(name) => (Den(glob, name, i + 2, j + 1) <=> rest(j + 1) = u[i + 2])
      BY <1>5, <2>3, <2>5, <3>1
    <3> QED
      BY <3>3, <3>4, <3>5, <3>6
  <2>6. CASE i \in DOMAIN glob /\ glob[i] \notin {Esc, "*", "?"} /\ NoWildcardFrom(glob, i + 1)
    <3>1. /\ i \in 1..Len(glob) /\ i + 1 \in 1..m /\ i < i + 1
      BY <1>1, <2>6
    <3>2. u[i] = <<glob[i]>> \o u[i + 1]
      BY <1>1, <2>1, <2>6, <3>1 DEF UnquotedFrom
    <3>3. Den(glob, name, i, j)
            <=> Same(i, j, glob, name) /\ Den(glob, name, i + 1, j + 1)
      <4>1. ~SameQuoted(i, j, glob, name)
        BY <2>6 DEF SameQuoted
      <4> QED
        BY <1>1, <2>6, <3>1, <4>1, DenIs
    <3>4. Same(i, j, glob, name) <=> j <= Len(name) /\ name[j] = glob[i]
      BY <1>1, <2>6, <3>1 DEF Same
    <3>5. rest(j) = u[i]
            <=> j <= Len(name) /\ name[j] = glob[i] /\ rest(j + 1) = u[i + 1]
      <4> DEFINE c == glob[i]
                 t == u[i + 1]
      <4>1. c \in Character /\ t \in Seq(Character) /\ name \in Seq(Character)
        BY <1>1, <2>1, <3>1 DEF Glob
      <4> HIDE DEF c, t
      <4>2. rest(j) = <<c>> \o t <=> j <= Len(name) /\ name[j] = c /\ rest(j + 1) = t
        BY <4>1, FirstAndRest
      <4> QED
        BY <3>2, <4>2 DEF c, t
    <3>6. j <= Len(name) => (Den(glob, name, i + 1, j + 1) <=> rest(j + 1) = u[i + 1])
      BY <1>5, <2>3, <2>6, <3>1
    <3> QED
      BY <3>3, <3>4, <3>5, <3>6
  <2> QED
    BY <2>2, <2>4, <2>5, <2>6
<1>6. Bad = {}
  <2> SUFFICES ASSUME Bad # {}
               PROVE  FALSE
    OBVIOUS
  <2>1. Bad \subseteq 0..m /\ m \in Nat
    BY <1>1
  <2> HIDE DEF Right, m
  <2>2. PICK i \in Bad : \A k \in Bad : k <= i
    BY <2>1, GreatestNumber
  <2>3. \A k \in 1..m : i < k /\ NoWildcardFrom(glob, k) => Right(k)
    <3> SUFFICES ASSUME NEW k \in 1..m, i < k, NoWildcardFrom(glob, k), ~Right(k)
                 PROVE  FALSE
      OBVIOUS
    <3>1. k \in Bad
      OBVIOUS
    <3>2. k <= i /\ i \in Nat /\ k \in Nat
      BY <2>1, <2>2, <3>1
    <3> QED
      BY <3>2
  <2> QED
    BY <1>5, <2>2, <2>3
<1>7. NoWildcardFrom(glob, 1)
  BY NoWildcardAtAll
<1>8. 1 \in 1..m /\ 1 \in 1..n
  BY <1>1
<1>9. Right(1)
  <2> HIDE DEF Right, m
  <2> QED
    BY <1>6, <1>7, <1>8
<1>10. Den(glob, name, 1, 1) <=> rest(1) = u[1]
  BY <1>8, <1>9
<1>11. rest(1) = name
  BY Whole
<1> QED
  BY <1>4, <1>10, <1>11 DEF Meaning!Denotes, Den

LEMMA SelectsIs ==
  ASSUME NEW glob \in Glob, IsComponent(glob), NEW name \in Glob
  PROVE  /\ ~HasWildcard(glob) => (Meaning!Selects(glob, name) <=> name = Unquoted(glob))
         /\ HasWildcard(glob) =>
              (Meaning!Selects(glob, name) <=> Visible(name, glob) /\ GlobMatch(glob, name))
<1>1. Meaning!Literal(glob) <=> ~HasWildcard(glob)
  BY PlainIs
<1>2. CASE ~HasWildcard(glob)
  BY <1>1, <1>2, LiteralIs DEF Meaning!Selects
<1>3. CASE HasWildcard(glob)
  <2>1. ~(glob[1] = Esc /\ glob[2] = Dot)
    BY <1>3 DEF IsComponent
  <2>2. Meaning!Denotes(glob, name) <=> GlobMatch(glob, name)
    BY MatchIsDenotation
  <2> QED
    BY <1>1, <1>3, <2>1, <2>2 DEF Meaning!Selects, Visible
<1> QED
  BY <1>2, <1>3

\* What the components behind those of dir select among the paths that start with dir.
SelectedFrom(dir, tree, globs) ==
  {path \in tree :
     /\ Len(path) = Len(globs)
     /\ \A i \in 1..Len(globs) :
          IF i <= Len(dir) THEN path[i] = dir[i] ELSE Meaning!Selects(globs[i], path[i])}

Wild(dir, globs) == {i \in DOMAIN globs : Len(dir) < i /\ HasWildcard(globs[i])}
Way(dir, globs, k) == [i \in 1..k |-> IF i <= Len(dir) THEN dir[i] ELSE Unquoted(globs[i])]
Tried(tree, way, glob) ==
  {e \in Entries(tree, way) \ {<<Dot>>, <<Dot, Dot>>} : Visible(e, glob) /\ GlobMatch(glob, e)}

LEMMA FoundInIs ==
  ASSUME NEW dir, NEW found, NEW tree, NEW globs
  PROVE  /\ Wild(dir, globs) = {} =>
              FoundIn(dir, found, tree, globs) = {Way(dir, globs, Len(globs))} \cap tree
         /\ Wild(dir, globs) # {} =>
              LET k == Least(Wild(dir, globs))
                  way == Way(dir, globs, k - 1)
              IN FoundIn(dir, found, tree, globs)
                   = UNION {found[Append(way, name)] : name \in Tried(tree, way, globs[k])}
  BY DEF FoundIn, Wild, Way, Tried

LEMMA Written ==
  ASSUME NEW globs \in Seq(Glob), \A i \in DOMAIN globs : IsComponent(globs[i]),
         NEW dir \in Seq(Glob), NEW k \in 0..Len(globs)
  PROVE  /\ Way(dir, globs, k) \in Seq(Glob) /\ Len(Way(dir, globs, k)) = k
         /\ \A i \in 1..k :
              Way(dir, globs, k)[i] = IF i <= Len(dir) THEN dir[i] ELSE Unquoted(globs[i])
<1>1. Len(globs) \in Nat /\ Len(dir) \in Nat /\ DOMAIN globs = 1..Len(globs)
  OBVIOUS
<1>2. ASSUME NEW i \in 1..k
      PROVE  (IF i <= Len(dir) THEN dir[i] ELSE Unquoted(globs[i])) \in Glob
  <2>1. globs[i] \in Glob /\ IsComponent(globs[i]) /\ i \in Nat /\ i >= 1
    BY <1>1
  <2>2. Unquoted(globs[i]) \in Glob
    <3>1. PICK u \in [1..Len(globs[i]) + 2 -> Seq(Character)] : Unquoted(globs[i]) = u[1]
      BY <2>1, UnquotedIs
    <3>2. 1 \in 1..Len(globs[i]) + 2
      BY <2>1 DEF Glob
    <3> QED
      BY <3>1, <3>2 DEF Glob
  <2>3. i <= Len(dir) => dir[i] \in Glob
    BY <1>1, <2>1
  <2> QED
    BY <2>2, <2>3
<1>3. Way(dir, globs, k) \in [1..k -> Glob]
  BY <1>2 DEF Way
<1>4. k \in Nat
  BY <1>1
<1>5. Way(dir, globs, k) \in Seq(Glob) /\ Len(Way(dir, globs, k)) = k
  BY <1>3, <1>4
<1> QED
  BY <1>5 DEF Way

\* The names tried in a directory are those of the paths of the tree, which lead on there.
LEMMA TriedIs ==
  ASSUME NEW tree \in SUBSET Seq(Glob), IsTree(tree), NEW way \in Seq(Glob), NEW glob \in Glob
  PROVE  /\ \A e \in Tried(tree, way, glob) :
              /\ Append(way, e) \in tree /\ e \in Glob
              /\ Visible(e, glob) /\ GlobMatch(glob, e)
         /\ \A p \in tree :
              /\ Len(p) = Len(way) + 1 /\ SubSeq(p, 1, Len(way)) = way
              /\ Visible(p[Len(p)], glob) /\ GlobMatch(glob, p[Len(p)])
              => p[Len(p)] \in Tried(tree, way, glob) /\ p = Append(way, p[Len(p)])
<1>1. ASSUME NEW p \in tree, Len(p) = Len(way) + 1, SubSeq(p, 1, Len(way)) = way
      PROVE  /\ p[Len(p)] \in Glob /\ p[Len(p)] \notin {<<Dot>>, <<Dot, Dot>>}
             /\ p = Append(way, p[Len(p)])
  <2>1. p \in Seq(Glob) /\ Len(way) \in Nat /\ Len(p) \in 1..Len(p) /\ DOMAIN p = 1..Len(p)
    BY <1>1
  <2>2. p[Len(p)] \in FileName
    BY <2>1 DEF IsTree
  <2>3. p = Append(way, p[Len(p)])
    <3> DEFINE q == Append(way, p[Len(p)])
    <3>1. /\ q \in Seq(Glob) /\ Len(q) = Len(way) + 1 /\ q[Len(way) + 1] = p[Len(p)]
          /\ \A i \in 1..Len(way) : q[i] = way[i]
      BY <2>1
    <3>2. \A i \in 1..Len(way) : way[i] = p[i]
      <4>1. \A i \in 1..Len(way) : SubSeq(p, 1, Len(way))[i] = p[i]
        BY <1>1, <2>1
      <4> QED
        BY <1>1, <4>1
    <3> HIDE DEF q
    <3>3. \A i \in 1..Len(p) : p[i] = q[i]
      BY <1>1, <2>1, <3>1, <3>2
    <3>4. p = q
      BY <1>1, <2>1, <3>1, <3>3, SameText
    <3> QED
      BY <3>4 DEF q
  <2> QED
    BY <2>2, <2>3 DEF FileName
<1>2. ASSUME NEW e \in Tried(tree, way, glob)
      PROVE  /\ Append(way, e) \in tree /\ e \in Glob
             /\ Visible(e, glob) /\ GlobMatch(glob, e)
  <2>1. /\ e \in Entries(tree, way) \ {<<Dot>>, <<Dot, Dot>>}
        /\ Visible(e, glob) /\ GlobMatch(glob, e)
    BY DEF Tried
  <2>2. PICK p \in tree : /\ Len(p) = Len(way) + 1 /\ SubSeq(p, 1, Len(way)) = way
                          /\ e = p[Len(p)]
    BY <2>1 DEF Entries
  <2> QED
    BY <1>1, <2>1, <2>2
<1>3. ASSUME NEW p \in tree, Len(p) = Len(way) + 1, SubSeq(p, 1, Len(way)) = way,
             Visible(p[Len(p)], glob), GlobMatch(glob, p[Len(p)])
      PROVE  p[Len(p)] \in Tried(tree, way, glob) /\ p = Append(way, p[Len(p)])
  BY <1>1, <1>3 DEF Tried, Entries
<1> QED
  BY <1>2, <1>3

LEMMA FoundFrom ==
  ASSUME NEW tree \in SUBSET Seq(Glob), IsTree(tree),
         NEW globs \in Seq(Glob), \A i \in DOMAIN globs : IsComponent(globs[i]),
         NEW dir \in {<<>>} \cup tree, NEW found,
         \A d \in tree : Len(dir) < Len(d) /\ Len(d) <= Len(globs) =>
           found[d] = SelectedFrom(d, tree, globs)
  PROVE  FoundIn(dir, found, tree, globs) = SelectedFrom(dir, tree, globs)
<1> DEFINE n == Len(globs)
<1>1. /\ dir \in Seq(Glob) /\ Len(dir) \in Nat /\ n \in Nat /\ DOMAIN globs = 1..n
      /\ \A i \in 1..n : globs[i] \in Glob /\ IsComponent(globs[i])
  <2>1. dir \in Seq(Glob)
    <3>1. <<>> \in Seq(Glob) /\ tree \subseteq Seq(Glob)
      OBVIOUS
    <3> QED
      BY <3>1, Zenon
  <2>2. n \in Nat /\ DOMAIN globs = 1..n /\ \A i \in 1..n : globs[i] \in Glob
    OBVIOUS
  <2> HIDE DEF n
  <2> QED
    BY <2>1, <2>2
<1>2. ASSUME NEW path \in tree
      PROVE  /\ path \in Seq(Glob) /\ Len(path) \in Nat
             /\ \A i \in 1..Len(path) : path[i] \in Glob
  OBVIOUS
<1>3. ASSUME NEW path \in tree, Len(path) = n, NEW i \in 1..n, Len(dir) < i
      PROVE  /\ i \notin Wild(dir, globs) =>
                  (Meaning!Selects(globs[i], path[i]) <=> path[i] = Unquoted(globs[i]))
             /\ i \in Wild(dir, globs) =>
                  (Meaning!Selects(globs[i], path[i])
                     <=> Visible(path[i], globs[i]) /\ GlobMatch(globs[i], path[i]))
  <2>1. /\ globs[i] \in Glob /\ IsComponent(globs[i]) /\ path[i] \in Glob
        /\ i \in Wild(dir, globs) <=> HasWildcard(globs[i])
    BY <1>1, <1>2, <1>3 DEF Wild
  <2> QED
    BY <2>1, SelectsIs
<1>4. CASE Wild(dir, globs) = {}
  <2> DEFINE way == Way(dir, globs, n)
  <2>1. /\ way \in Seq(Glob) /\ Len(way) = n
        /\ \A i \in 1..n : way[i] = IF i <= Len(dir) THEN dir[i] ELSE Unquoted(globs[i])
    <3>1. n \in 0..Len(globs)
      BY <1>1
    <3> QED
      BY <1>1, <3>1, Written
  <2> HIDE DEF way
  <2>2. ASSUME NEW path \in tree
        PROVE  path = way <=> path \in SelectedFrom(dir, tree, globs)
    <3>1. path = way <=> Len(path) = n /\ \A i \in 1..n : path[i] = way[i]
      BY <1>2, <2>1, SameText
    <3>2. ASSUME Len(path) = n, NEW i \in 1..n
          PROVE  path[i] = way[i]
                   <=> IF i <= Len(dir) THEN path[i] = dir[i]
                       ELSE Meaning!Selects(globs[i], path[i])
      <4>1. i \notin Wild(dir, globs) /\ (i <= Len(dir) \/ Len(dir) < i)
        BY <1>1, <1>4
      <4> QED
        BY <1>3, <2>1, <3>2, <4>1
    <3> QED
      BY <3>1, <3>2 DEF SelectedFrom
  <2>3. FoundIn(dir, found, tree, globs) = {way} \cap tree
    BY <1>4, FoundInIs DEF way
  <2>4. SelectedFrom(dir, tree, globs) \subseteq tree
    BY DEF SelectedFrom
  <2> QED
    BY <2>2, <2>3, <2>4
<1>5. CASE Wild(dir, globs) # {}
  <2> DEFINE k == Least(Wild(dir, globs))
             way == Way(dir, globs, k - 1)
             tried == Tried(tree, way, globs[k])
  <2>1. k \in Wild(dir, globs) /\ \A i \in Wild(dir, globs) : k <= i
    <3>1. Wild(dir, globs) \subseteq Nat
      BY <1>1 DEF Wild
    <3>2. PICK l \in Wild(dir, globs) : \A i \in Wild(dir, globs) : l <= i
      BY <1>5, <3>1, LeastNumber
    <3> QED
      BY <3>1, <3>2, LeastIs
  <2> HIDE DEF k
  <2>2. k \in 1..n /\ Len(dir) < k /\ k - 1 \in 0..n
    BY <1>1, <2>1 DEF Wild
  <2>3. /\ way \in Seq(Glob) /\ Len(way) = k - 1 /\ Len(way) + 1 = k
        /\ \A i \in 1..k - 1 : way[i] = IF i <= Len(dir) THEN dir[i] ELSE Unquoted(globs[i])
    <3>1. k - 1 \in 0..Len(globs) /\ (k - 1) + 1 = k
      BY <1>1, <2>2
    <3> DEFINE l == k - 1
    <3> HIDE DEF l
    <3>2. l \in 0..Len(globs)
      BY <3>1 DEF l
    <3>3. /\ Way(dir, globs, l) \in Seq(Glob) /\ Len(Way(dir, globs, l)) = l
          /\ \A i \in 1..l :
               Way(dir, globs, l)[i] = IF i <= Len(dir) THEN dir[i] ELSE Unquoted(globs[i])
      BY <1>1, <3>2, Written
    <3> QED
      BY <3>1, <3>3 DEF l
  <2>4. FoundIn(dir, found, tree, globs) = UNION {found[Append(way, name)] : name \in tried}
    BY <1>5, FoundInIs DEF k
  <2>5. /\ \A e \in tried :
             /\ Append(way, e) \in tree /\ e \in Glob
             /\ Visible(e, globs[k]) /\ GlobMatch(globs[k], e)
        /\ \A p \in tree :
             /\ Len(p) = Len(way) + 1 /\ SubSeq(p, 1, Len(way)) = way
             /\ Visible(p[Len(p)], globs[k]) /\ GlobMatch(globs[k], p[Len(p)])
             => p[Len(p)] \in tried /\ p = Append(way, p[Len(p)])
    BY <1>1, <2>2, <2>3, TriedIs
  <2> HIDE DEF way, tried, n
  <2>6. ASSUME NEW e \in tried
        PROVE  /\ found[Append(way, e)] = SelectedFrom(Append(way, e), tree, globs)
               /\ Len(Append(way, e)) = k /\ Append(way, e)[k] = e
               /\ \A i \in 1..k - 1 : Append(way, e)[i] = way[i]
    <3>1. /\ Len(Append(way, e)) = k /\ Append(way, e)[k] = e
          /\ \A i \in 1..k - 1 : Append(way, e)[i] = way[i]
      BY <2>2, <2>3, <2>5
    <3>2. Append(way, e) \in tree
      BY <2>5
    <3>3. Len(dir) < Len(Append(way, e)) /\ Len(Append(way, e)) <= Len(globs)
      BY <1>1, <2>2, <3>1 DEF n
    <3> QED
      BY <3>1, <3>2, <3>3
  <2>7. ASSUME NEW path \in tree, Len(path) = n, NEW e \in tried, path[k] = e,
               \A i \in 1..k - 1 : path[i] = way[i],
               \A i \in 1..n : k < i => Meaning!Selects(globs[i], path[i])
        PROVE  path \in SelectedFrom(dir, tree, globs)
    <3>1. ASSUME NEW i \in 1..n
          PROVE  IF i <= Len(dir) THEN path[i] = dir[i] ELSE Meaning!Selects(globs[i], path[i])
      <4>1. CASE i < k
        <5>1. i \in 1..k - 1 /\ i \notin Wild(dir, globs) /\ (i <= Len(dir) \/ Len(dir) < i)
          BY <1>1, <2>1, <2>2, <4>1
        <5> QED
          BY <1>3, <2>3, <2>7, <5>1
      <4>2. CASE i = k
        <5>1. ~(i <= Len(dir))
          BY <1>1, <2>2, <4>2
        <5> QED
          BY <1>3, <2>1, <2>2, <2>5, <2>7, <4>2, <5>1
      <4>3. CASE k < i
        <5>1. ~(i <= Len(dir))
          BY <1>1, <2>2, <4>3
        <5> QED
          BY <2>7, <4>3, <5>1
      <4> QED
        BY <1>1, <2>2, <4>1, <4>2, <4>3
    <3> QED
      BY <2>7, <3>1 DEF SelectedFrom, n
  <2>8. ASSUME NEW e \in tried, NEW path \in SelectedFrom(Append(way, e), tree, globs)
        PROVE  path \in SelectedFrom(dir, tree, globs)
    <3>1. /\ path \in tree /\ Len(path) = n
          /\ \A i \in 1..n : IF i <= k THEN path[i] = Append(way, e)[i]
                                       ELSE Meaning!Selects(globs[i], path[i])
      BY <2>6 DEF SelectedFrom, n
    <3>2. path[k] = e
      BY <1>1, <2>2, <2>6, <3>1
    <3>3. \A i \in 1..k - 1 : path[i] = way[i]
      <4>1. \A i \in 1..k - 1 : i \in 1..n /\ i <= k
        BY <1>1, <2>2
      <4> QED
        BY <2>6, <3>1, <4>1
    <3>4. \A i \in 1..n : k < i => Meaning!Selects(globs[i], path[i])
      <4>1. \A i \in 1..n : k < i => ~(i <= k)
        BY <1>1, <2>2
      <4> QED
        BY <3>1, <4>1
    <3> QED
      BY <2>7, <3>1, <3>2, <3>3, <3>4
  <2>9. ASSUME NEW path \in SelectedFrom(dir, tree, globs)
        PROVE  \E e \in tried : path \in SelectedFrom(Append(way, e), tree, globs)
    <3>1. /\ path \in tree /\ Len(path) = n
          /\ \A i \in 1..n : IF i <= Len(dir) THEN path[i] = dir[i]
                                              ELSE Meaning!Selects(globs[i], path[i])
      BY DEF SelectedFrom, n
    <3> DEFINE p == SubSeq(path, 1, k)
    <3>2. p \in tree /\ Len(p) = k /\ \A i \in 1..k : p[i] = path[i]
      <4>1. path \in Seq(Glob) /\ k \in 1..Len(path)
        BY <2>2, <3>1, <1>2
      <4>2. p \in tree
        BY <3>1, <4>1 DEF IsTree
      <4> QED
        BY <4>1, <4>2
    <3> HIDE DEF p
    <3>3. \A i \in 1..k - 1 : path[i] = way[i]
      <4> TAKE i \in 1..k - 1
      <4>1. /\ i \in 1..n /\ i < k /\ i \notin Wild(dir, globs)
            /\ i <= Len(dir) \/ (Len(dir) < i /\ ~(i <= Len(dir)))
        BY <1>1, <2>1, <2>2
      <4> QED
        BY <1>3, <2>3, <3>1, <4>1
    <3>4. SubSeq(p, 1, Len(way)) = way
      <4> DEFINE q == SubSeq(p, 1, k - 1)
      <4>1. q \in Seq(Glob) /\ Len(q) = k - 1 /\ \A i \in 1..k - 1 : q[i] = p[i]
        BY <1>2, <2>2, <3>2
      <4> HIDE DEF q
      <4>2. \A i \in 1..k - 1 : q[i] = way[i]
        <5>1. \A i \in 1..k - 1 : i \in 1..k
          BY <1>1, <2>2
        <5> QED
          BY <3>2, <3>3, <4>1, <5>1
      <4>3. q = way
        BY <2>3, <4>1, <4>2, SameText
      <4> QED
        BY <2>3, <4>3 DEF q
    <3>5. p[k] = path[k] /\ Visible(path[k], globs[k]) /\ GlobMatch(globs[k], path[k])
      <4>1. k \in 1..k /\ ~(k <= Len(dir)) /\ k \in 1..n
        BY <1>1, <2>2
      <4> QED
        BY <1>3, <2>1, <2>2, <3>1, <3>2, <4>1
    <3>6. p[k] \in tried /\ p = Append(way, p[k])
      BY <2>3, <2>5, <3>2, <3>4, <3>5
    <3>7. path \in SelectedFrom(p, tree, globs)
      <4>1. \A i \in 1..n : (i <= k => i \in 1..k) /\ (~(i <= k) => ~(i <= Len(dir)))
        BY <1>1, <2>2
      <4> QED
        BY <3>1, <3>2, <4>1 DEF SelectedFrom, n
    <3> QED
      BY <3>6, <3>7
  <2> QED
    BY <2>4, <2>6, <2>8, <2>9
<1> QED
  BY <1>4, <1>5

\* So no other function than the one that SelectedFrom is solves the walk's equation.
LEMMA FoundIs ==
  ASSUME NEW tree \in SUBSET Seq(Glob), IsTree(tree),
         NEW globs \in Seq(Glob), \A i \in DOMAIN globs : IsComponent(globs[i])
  PROVE  Found(tree, globs) = Meaning!Selected(globs, tree)
<1> DEFINE D == {<<>>} \cup tree
           n == Len(globs)
           all == [dir \in D |-> SelectedFrom(dir, tree, globs)]
           found == CHOOSE found : found = [dir \in D |-> FoundIn(dir, found, tree, globs)]
<1>1. \A dir \in D : all[dir] = SelectedFrom(dir, tree, globs)
  OBVIOUS
<1>2. all = [dir \in D |-> FoundIn(dir, all, tree, globs)]
  <2>1. \A dir \in D : FoundIn(dir, all, tree, globs) = SelectedFrom(dir, tree, globs)
    <3> TAKE dir \in D
    <3>1. \A d \in tree : all[d] = SelectedFrom(d, tree, globs)
      BY <1>1
    <3> HIDE DEF all
    <3> QED
      BY <3>1, FoundFrom
  <2> QED
    BY <2>1
<1>3. found = [dir \in D |-> FoundIn(dir, found, tree, globs)]
  <2> HIDE DEF all, D
  <2> QED
    BY <1>2
<1>4. \A dir \in D : found[dir] = FoundIn(dir, found, tree, globs)
  <2> HIDE DEF found, D
  <2> QED
    BY <1>3
<1>5. Found(tree, globs) = found[<<>>]
  BY DEF Found
<1> HIDE DEF found
<1>6. n \in Nat /\ \A dir \in D : Len(dir) \in Nat
  OBVIOUS
<1>7. \A dir \in D : found[dir] = SelectedFrom(dir, tree, globs)
  <2> DEFINE Bad == {dir \in D : found[dir] # SelectedFrom(dir, tree, globs)}
             Lengths == {Len(dir) : dir \in Bad}
  <2> SUFFICES ASSUME Bad # {}
               PROVE  FALSE
    OBVIOUS
  <2>1. ASSUME NEW dir \in D,
               \A d \in tree : Len(dir) < Len(d) /\ Len(d) <= Len(globs) => d \notin Bad
        PROVE  dir \notin Bad
    <3>1. \A d \in tree : Len(dir) < Len(d) /\ Len(d) <= Len(globs) =>
            found[d] = SelectedFrom(d, tree, globs)
      BY <2>1
    <3>2. FoundIn(dir, found, tree, globs) = SelectedFrom(dir, tree, globs)
      BY <3>1, FoundFrom
    <3> QED
      BY <1>4, <3>2
  <2>2. Bad \subseteq D /\ tree \subseteq D
    OBVIOUS
  <2> HIDE DEF Bad, D
  <2>3. Lengths \subseteq 0..n /\ Lengths # {}
    <3>1. ASSUME NEW dir \in Bad
          PROVE  Len(dir) \in 0..n
      <4>1. dir \in D /\ Len(dir) \in Nat
        BY <1>6, <2>2
      <4>2. PICK d \in tree : Len(dir) < Len(d) /\ Len(d) <= Len(globs)
        BY <2>1, <4>1
      <4> QED
        BY <1>6, <2>2, <4>1, <4>2
    <3> QED
      BY <3>1
  <2>4. PICK l \in Lengths : \A m \in Lengths : m <= l
    <3> HIDE DEF Lengths
    <3> QED
      BY <1>6, <2>3, GreatestNumber
  <2>5. PICK dir \in Bad : \A d \in Bad : Len(d) <= Len(dir)
    BY <2>4
  <2>6. PICK d \in tree : Len(dir) < Len(d) /\ d \in Bad
    BY <2>1, <2>2, <2>5
  <2>7. Len(d) <= Len(dir) /\ Len(d) \in Nat /\ Len(dir) \in Nat
    BY <1>6, <2>2, <2>5, <2>6
  <2> QED
    BY <2>6, <2>7
<1>8. SelectedFrom(<<>>, tree, globs) = Meaning!Selected(globs, tree)
  <2>1. ASSUME NEW path \in tree
        PROVE  path \in SelectedFrom(<<>>, tree, globs) <=> path \in Meaning!Selected(globs, tree)
    <3>1. path \in Seq(Glob) /\ DOMAIN path = 1..Len(path)
      OBVIOUS
    <3>2. \A i \in 1..n : ~(i <= Len(<<>>))
      BY <1>6
    <3> QED
      BY <3>1, <3>2 DEF SelectedFrom, Meaning!Selected
  <2> QED
    BY <2>1 DEF SelectedFrom, Meaning!Selected
<1> QED
  BY <1>5, <1>7, <1>8
-----------------------------------------------------------------------------
(***************************************************************************)
(* What the calls give.                                                    *)
(***************************************************************************)

LEMMA CallIs ==
  ASSUME NEW c \in Calls
  PROVE  /\ c.op = "match" => c.glob \in Glob /\ c.str \in Glob
         /\ c.op \in {"prefix", "suffix"} =>
              c.glob \in Glob /\ c.value \in Glob /\ c.largest \in BOOLEAN
         /\ c.op = "files" =>
              /\ c.tree \in SUBSET Seq(Glob) /\ IsTree(c.tree)
              /\ c.globs \in Seq(Glob) /\ \A i \in DOMAIN c.globs : IsComponent(c.globs[i])
<1>1. c \in MatchCall \cup RemovalCall \cup FilesCall
  BY CallsAssumption
<1>2. c.op = "files" => IsTree(c.tree) /\ \A i \in DOMAIN c.globs : IsComponent(c.globs[i])
  BY CallsAssumption
<1>3. CASE c \in MatchCall
  BY <1>3 DEF MatchCall
<1>4. CASE c \in RemovalCall
  BY <1>4 DEF RemovalCall
<1>5. CASE c \in FilesCall
  BY <1>2, <1>5 DEF FilesCall
<1> QED
  BY <1>1, <1>3, <1>4, <1>5

LEMMA CallStays ==
  GlobSpec => [](call \in Calls)
<1>1. GlobInit => call \in Calls
  BY DEF GlobInit
<1>2. call \in Calls /\ [GlobNext]_globVars => (call \in Calls)'
  BY DEF GlobNext, Gives, globVars
<1> QED
  BY <1>1, <1>2, PTL DEF GlobSpec

\* A result is what the function gives for the call.
Given ==
  /\ Gave("match") => result[1] = (call.op = "match" /\ GlobMatch(call.glob, call.str))
  /\ Gave("prefix") => result[1] = RemovePrefix(call.value, call.glob, call.largest)
  /\ Gave("suffix") => result[1] = RemoveSuffix(call.value, call.glob, call.largest)
  /\ Gave("files") => result[1] = Words(call.tree, call.globs)

LEMMA ResultsAreGiven ==
  GlobSpec => []Given
<1>1. GlobInit => Given
  BY DEF GlobInit, Given, Gave
<1>2. Given /\ [GlobNext]_globVars => Given'
  <2> SUFFICES ASSUME Given, [GlobNext]_globVars
               PROVE  Given'
    OBVIOUS
  <2>1. ASSUME NEW op, NEW value, Gives(op, value)
        PROVE  /\ \A other : Gave(other)' => other = op
               /\ result'[1] = value /\ call' = call /\ call.op = op
    BY <2>1 DEF Gives, Gave
  <2>2. CASE Gives("match", call.op = "match" /\ GlobMatch(call.glob, call.str))
    BY <2>1, <2>2 DEF Given
  <2>3. CASE Gives("prefix", RemovePrefix(call.value, call.glob, call.largest))
    BY <2>1, <2>3 DEF Given
  <2>4. CASE Gives("suffix", RemoveSuffix(call.value, call.glob, call.largest))
    BY <2>1, <2>4 DEF Given
  <2>5. CASE Gives("files", Words(call.tree, call.globs))
    BY <2>1, <2>5 DEF Given
  <2>6. CASE UNCHANGED globVars
    BY <2>6 DEF Given, Gave, globVars
  <2> QED
    BY <2>2, <2>3, <2>4, <2>5, <2>6 DEF GlobNext
<1> QED
  BY <1>1, <1>2, PTL DEF GlobSpec

\* For every pattern and every string: glob_match, which goes back only to the last star and
\* never tries an earlier one again (globing.c 44-49), accepts what the pattern denotes.
THEOREM GlobMatches ==
  GlobSpec => []MatchesWhatItDenotes
<1>1. call \in Calls /\ Given => MatchesWhatItDenotes
  <2> SUFFICES ASSUME call \in Calls, Given, Gave("match")
               PROVE  result[1] = Meaning!Denotes(call.glob, call.str)
    BY DEF MatchesWhatItDenotes
  <2>1. /\ call.op = "match"
        /\ result[1] = (call.op = "match" /\ GlobMatch(call.glob, call.str))
    BY DEF Given, Gave
  <2>2. call.glob \in Glob /\ call.str \in Glob
    BY <2>1, CallIs
  <2>3. /\ GlobMatch(call.glob, call.str) <=> Meaning!Denotes(call.glob, call.str)
        /\ Meaning!Denotes(call.glob, call.str) \in BOOLEAN
    BY <2>2, MatchIsDenotation, Denoted
  <2> QED
    BY <2>1, <2>3
<1> QED
  BY <1>1, CallStays, ResultsAreGiven, PTL

\* For every value and pattern: the loops of remove_prefix_suffix, two of which leave the
\* empty part out (expand.c), remove the shortest or the longest part that it denotes.
THEOREM RemovalIsRight ==
  GlobSpec => []RemovesTheRightPart
<1>1. call \in Calls /\ Given => RemovesTheRightPart
  <2> SUFFICES ASSUME call \in Calls, Given
               PROVE  RemovesTheRightPart
    OBVIOUS
  <2>1. ASSUME Gave("prefix")
        PROVE  result[1] = Meaning!WithoutPrefix(call.glob, call.value, call.largest)
    BY <2>1, CallIs, PrefixIs DEF Given, Gave
  <2>2. ASSUME Gave("suffix")
        PROVE  result[1] = Meaning!WithoutSuffix(call.glob, call.value, call.largest)
    BY <2>2, CallIs, SuffixIs DEF Given, Gave
  <2> QED
    BY <2>1, <2>2 DEF RemovesTheRightPart
<1> QED
  BY <1>1, CallStays, ResultsAreGiven, PTL

\* For every tree and every list of components: the walk of glob_file_recur, which opens
\* a directory only for a component with a wildcard and appends the others unread, finds
\* the paths that they select, no more and no fewer.
THEOREM FilesAreFound ==
  GlobSpec => []FindsWhatIsSelected
<1>1. call \in Calls /\ Given => FindsWhatIsSelected
  <2> SUFFICES ASSUME call \in Calls, Given, Gave("files"),
                      Meaning!Selected(call.globs, call.tree) # {}
               PROVE  result[1] = Meaning!Selected(call.globs, call.tree)
    BY DEF FindsWhatIsSelected
  <2>1. call.op = "files" /\ result[1] = Words(call.tree, call.globs)
    BY DEF Given, Gave
  <2>2. Found(call.tree, call.globs) = Meaning!Selected(call.globs, call.tree)
    BY <2>1, CallIs, FoundIs
  <2> QED
    BY <2>1, <2>2 DEF Words
<1> QED
  BY <1>1, CallStays, ResultsAreGiven, PTL
=============================================================================
