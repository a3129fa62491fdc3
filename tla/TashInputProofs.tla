--------------------------- MODULE TashInputProofs ---------------------------
(***************************************************************************)
(* Proofs about the prompt and the lexer, alone and together: for any size *)
(* of the buffer, any names to complete and any number of keys, what is on *)
(* the screen, and that TashPrompt implements LineEditor; for any text and *)
(* any way of typing it, when another line is asked for, and that the      *)
(* tokens are the text.                                                    *)
(***************************************************************************)
EXTENDS TashInput, SequenceTheorems, WellFoundedInduction, TLAPS
-----------------------------------------------------------------------------
(***************************************************************************)
(* Numbers and parts of the buffer.                                        *)
(***************************************************************************)
LEMMA LeastNumber ==
  ASSUME NEW S, S \subseteq Nat, S # {}
  PROVE  \E m \in S : \A k \in S : m <= k
<1> DEFINE R == OpToRel(<, Nat)
<1>1. IsWellFoundedOn(R, Nat)
  BY NatLessThanWellFounded
<1>2. \A i, j \in Nat : <<j, i>> \in R <=> j < i
  BY DEF OpToRel
<1> HIDE DEF R
<1>3. PICK m \in S : \A k \in S : ~ (<<k, m>> \in R)
  BY <1>1, WFMin
<1>4. \A k \in S : ~(k < m) /\ k \in Nat /\ m \in Nat
  BY <1>2, <1>3
<1> QED
  BY <1>4

LEMMA GreatestNumber ==
  ASSUME NEW n \in Nat, NEW S, S \subseteq 0..n, S # {}
  PROVE  \E m \in S : \A k \in S : k <= m
<1> DEFINE T == {n - k : k \in S}
<1>1. T \subseteq Nat /\ T # {}
  <2>1. \A k \in S : n - k \in Nat
    OBVIOUS
  <2> QED
    BY <2>1
<1>2. PICK t \in T : \A k \in T : t <= k
  BY <1>1, LeastNumber
<1>3. PICK m \in S : t = n - m
  BY <1>2
<1>4. ASSUME NEW k \in S PROVE k <= m
  <2>1. n - m <= n - k
    BY <1>2, <1>3
  <2> QED
    BY <1>3, <2>1
<1> QED
  BY <1>4

LEMMA SameText ==
  ASSUME NEW S, NEW s \in Seq(S), NEW t \in Seq(S), Len(s) = Len(t),
         \A i \in 1..Len(s) : s[i] = t[i]
  PROVE  s = t
  OBVIOUS

\* What can be in the buffer.
Typed == Printable \cup {Newline, Nul}
Buffer == [0..(Size - 1) -> Typed]

\* A part of the buffer.
LEMMA PartIs ==
  ASSUME NEW buf, NEW i \in Nat, NEW j \in Nat, i <= j
  PROVE  /\ Len(Part(buf, i, j)) = j - i
         /\ DOMAIN Part(buf, i, j) = 1..(j - i)
         /\ \A k \in 1..(j - i) : Part(buf, i, j)[k] = buf[i + k - 1]
  BY DEF Part

LEMMA PartType ==
  ASSUME NEW buf, NEW i \in Nat, NEW j \in Nat, i <= j, NEW S,
         \A k \in i..(j - 1) : buf[k] \in S
  PROVE  Part(buf, i, j) \in Seq(S)
<1>1. \A k \in 1..(j - i) : buf[i + k - 1] \in S
  <2> SUFFICES ASSUME NEW k \in 1..(j - i) PROVE buf[i + k - 1] \in S
    OBVIOUS
  <2>1. i + k - 1 \in i..(j - 1)
    OBVIOUS
  <2> QED
    BY <2>1
<1>2. j - i \in Nat
  OBVIOUS
<1> QED
  BY <1>1, <1>2 DEF Part

LEMMA PartEmpty ==
  ASSUME NEW buf, NEW i \in Int, NEW j \in Int, j <= i
  PROVE  Part(buf, i, j) = <<>>
  BY DEF Part

\* What the screen shows after s was printed from col on.
LEMMA PrintedIs ==
  ASSUME cells \in Seq(Printable), NEW col \in 0..Len(cells), NEW s \in Seq(Printable)
  PROVE  /\ Printed(col, s) \in Seq(Printable)
         /\ Len(Printed(col, s)) = IF col + Len(s) > Len(cells) THEN col + Len(s) ELSE Len(cells)
         /\ \A i \in DOMAIN Printed(col, s) :
              /\ i > col /\ i <= col + Len(s) =>
                   i - col \in 1..Len(s) /\ Printed(col, s)[i] = s[i - col]
              /\ i <= col \/ i > col + Len(s) =>
                   i \in DOMAIN cells /\ Printed(col, s)[i] = cells[i]
<1> DEFINE n == IF col + Len(s) > Len(cells) THEN col + Len(s) ELSE Len(cells)
           v(i) == IF i > col /\ i <= col + Len(s) THEN s[i - col] ELSE cells[i]
<1>1. n \in Nat /\ Len(s) \in Nat /\ Len(cells) \in Nat
  OBVIOUS
<1>2. Printed(col, s) = [i \in 1..n |-> v(i)]
  BY DEF Printed
<1>3. ASSUME NEW i \in 1..n, i > col, i <= col + Len(s)
      PROVE  i - col \in 1..Len(s) /\ v(i) = s[i - col] /\ v(i) \in Printable
  BY <1>1, <1>3
<1>4. ASSUME NEW i \in 1..n, i <= col \/ i > col + Len(s)
      PROVE  i \in DOMAIN cells /\ v(i) = cells[i] /\ v(i) \in Printable
  <2>1. i \in 1..Len(cells)
    BY <1>1, <1>4
  <2> QED
    BY <1>1, <1>4, <2>1
<1> HIDE DEF n, v
<1>5. \A i \in 1..n : v(i) \in Printable
  BY <1>1, <1>3, <1>4
<1>6. Printed(col, s) \in Seq(Printable) /\ Len(Printed(col, s)) = n
      /\ DOMAIN Printed(col, s) = 1..n /\ \A i \in 1..n : Printed(col, s)[i] = v(i)
  BY <1>1, <1>2, <1>5
<1> QED
  BY <1>3, <1>4, <1>6 DEF n
-----------------------------------------------------------------------------
(***************************************************************************)
(* The line.                                                               *)
(***************************************************************************)
\* While a line is edited it is shorter than the buffer, the cursor is in it, and
\* it has nothing but what was typed or completed.
LineInv ==
  /\ prompt_buf \in Buffer
  /\ prompt_len \in 0..Size /\ prompt_cursor \in Nat /\ prompt_index \in Nat
  /\ editing \in BOOLEAN /\ stale \in BOOLEAN
  /\ cells \in Seq(Printable) /\ column \in Int
  /\ got \in Seq(Typed)
  /\ editing =>
       /\ prompt_len < Size /\ prompt_cursor <= prompt_len /\ prompt_index = 0
       /\ \A i \in 0..(prompt_len - 1) : prompt_buf[i] \in Printable

PInv == LineInv /\ ShowsTheLine

LEMMA PInit == PromptInit => PInv
<1> SUFFICES ASSUME PromptInit PROVE PInv
  OBVIOUS
<1>1. prompt_buf \in Buffer
  BY DEF PromptInit, Buffer, Typed
<1>2. cells = <<>> /\ got = <<>> /\ editing = FALSE
  BY DEF PromptInit
<1> QED
  BY <1>1, <1>2, PromptAssumption DEF PromptInit, PInv, LineInv, ShowsTheLine

\* Where the word at the cursor begins and ends.
LEMMA WordBounds ==
  ASSUME LineInv, editing
  PROVE  WordStart \in 0..prompt_cursor /\ WordEnd \in prompt_cursor..prompt_len
<1>1. prompt_cursor \in Nat /\ prompt_len \in Nat /\ prompt_cursor <= prompt_len
  BY PromptAssumption DEF LineInv
<1> DEFINE before == IF prompt_cursor > 0 THEN prompt_cursor - 1 ELSE 0
           first == CHOOSE i \in 0..before : Back(i) /\ \A j \in (i + 1)..before : ~Back(j)
<1>2. before \in Nat /\ before <= prompt_cursor
  BY <1>1
<1>3. first \in 0..before
  <2> DEFINE backs == {i \in 0..before : Back(i)}
  <2>1. 0 \in backs
    BY <1>2 DEF Back
  <2>2. PICK m \in backs : \A k \in backs : k <= m
    BY <1>2, <2>1, GreatestNumber
  <2>3. \A j \in (m + 1)..before : ~Back(j)
    <3> SUFFICES ASSUME NEW j \in (m + 1)..before, Back(j) PROVE FALSE
      OBVIOUS
    <3>1. j \in backs /\ j > m
      BY <1>2
    <3> QED
      BY <1>2, <2>2, <3>1
  <2>4. \E i \in 0..before : Back(i) /\ \A j \in (i + 1)..before : ~Back(j)
    BY <2>2, <2>3
  <2> QED
    BY <2>4
<1>4. WordStart = IF IsBlank(first) /\ first < prompt_cursor THEN first + 1 ELSE first
  BY DEF WordStart
<1> HIDE DEF before, first
<1>5. WordStart \in 0..prompt_cursor
  BY <1>1, <1>2, <1>3, <1>4
<1>6. WordEnd \in prompt_cursor..prompt_len
  <2> DEFINE ends == {i \in prompt_cursor..prompt_len : i = prompt_len \/ IsBlank(i)}
  <2>1. prompt_len \in ends /\ ends \subseteq Nat
    BY <1>1
  <2>2. PICK m \in ends : \A k \in ends : m <= k
    BY <2>1, LeastNumber
  <2>3. \A j \in prompt_cursor..(m - 1) : ~IsBlank(j)
    <3> SUFFICES ASSUME NEW j \in prompt_cursor..(m - 1), IsBlank(j) PROVE FALSE
      OBVIOUS
    <3>1. j \in ends /\ j < m
      BY <1>1, <2>2
    <3> QED
      BY <1>1, <2>2, <3>1
  <2>4. \E i \in prompt_cursor..prompt_len :
          (i = prompt_len \/ IsBlank(i)) /\ \A j \in prompt_cursor..(i - 1) : ~IsBlank(j)
    BY <2>2, <2>3
  <2> QED
    BY <2>4 DEF WordEnd
<1> QED
  BY <1>5, <1>6

LEMMA SearchIs ==
  ASSUME LineInv, editing
  PROVE  /\ Search \in Seq(Printable)
         /\ Len(Search) = WordEnd - WordStart
         /\ \A k \in 1..(WordEnd - WordStart) : Search[k] = prompt_buf[WordStart + k - 1]
<1>1. /\ WordStart \in Nat /\ WordEnd \in Nat /\ WordStart <= WordEnd /\ WordEnd <= prompt_len
      /\ prompt_len \in Nat
  BY WordBounds, PromptAssumption DEF LineInv
<1>2. \A k \in WordStart..(WordEnd - 1) : prompt_buf[k] \in Printable
  BY <1>1 DEF LineInv
<1>3. Search \in Seq(Printable)
  BY <1>1, <1>2, PartType DEF Search
<1>4. /\ Len(Search) = WordEnd - WordStart
      /\ \A k \in 1..(WordEnd - WordStart) : Search[k] = prompt_buf[WordStart + k - 1]
  BY <1>1, PartIs, Zenon DEF Search
<1> QED
  BY <1>3, <1>4

\* What a completion makes of the word: the start of a name that it was the start of.
LEMMA CommonIs ==
  ASSUME LineInv, editing, Found # {}
  PROVE  /\ Common \in Seq(Printable)
         /\ \E f \in File : \E n \in 0..Len(f) :
              /\ f \in Seq(Printable) /\ StartsWith(f, Search)
              /\ Common = SubSeq(f, 1, n) /\ Len(Common) = n
              /\ \A k \in 1..n : Common[k] = f[k]
<1> DEFINE f == CHOOSE f \in Found : TRUE
           All(n) == \A g \in Found : StartsWith(g, SubSeq(f, 1, n))
           Longest(n) == All(n) /\ (n = Len(f) \/ \E g \in Found : ~StartsWith(g, SubSeq(f, 1, n + 1)))
           n == CHOOSE n \in 0..Len(f) : Longest(n)
<1>1. f \in Found
  OBVIOUS
<1>2. f \in File /\ StartsWith(f, Search)
  BY <1>1 DEF Found
<1>3. f \in Seq(Printable) /\ \A g \in Found : g \in Seq(Printable)
  BY <1>2, PromptAssumption DEF Found
<1> HIDE DEF f
<1>4. All(0)
  <2> SUFFICES ASSUME NEW g \in Found PROVE StartsWith(g, SubSeq(f, 1, 0))
    OBVIOUS
  <2>1. SubSeq(f, 1, 0) = <<>> /\ SubSeq(g, 1, 0) = <<>> /\ Len(g) \in Nat
    BY <1>3
  <2> QED
    BY <2>1 DEF StartsWith
<1>5. n \in 0..Len(f)
  <2> DEFINE S == {k \in 0..Len(f) : All(k)}
  <2>1. Len(f) \in Nat /\ 0 \in S
    BY <1>3, <1>4
  <2> HIDE DEF All
  <2>2. PICK m \in S : \A k \in S : k <= m
    BY <2>1, GreatestNumber
  <2>3. Longest(m)
    <3>1. CASE m = Len(f)
      BY <2>2, <3>1
    <3>2. CASE m # Len(f)
      <4>1. m + 1 \in 0..Len(f) /\ ~(m + 1 <= m)
        BY <2>1, <2>2, <3>2
      <4>2. ~All(m + 1)
        BY <2>2, <4>1
      <4> QED
        BY <2>2, <4>2 DEF All
    <3> QED
      BY <3>1, <3>2
  <2>4. \E k \in 0..Len(f) : Longest(k)
    BY <2>2, <2>3
  <2> QED
    BY <2>4
<1>6. Common = SubSeq(f, 1, n)
  BY DEF Common, f
<1> HIDE DEF n
<1>7. SubSeq(f, 1, n) \in Seq(Printable) /\ Len(SubSeq(f, 1, n)) = n
      /\ \A k \in 1..n : SubSeq(f, 1, n)[k] = f[k]
  BY <1>3, <1>5
<1> QED
  BY <1>2, <1>3, <1>5, <1>6, <1>7
-----------------------------------------------------------------------------
(***************************************************************************)
(* Lines as sequences.                                                     *)
(***************************************************************************)
LEMMA InsertIs ==
  ASSUME NEW s \in Seq(Printable), NEW n \in 0..Len(s), NEW new \in Seq(Printable)
  PROVE  /\ Editor!Insert(s, n, new) \in Seq(Printable)
         /\ Len(Editor!Insert(s, n, new)) = Len(s) + Len(new)
         /\ \A i \in 1..(Len(s) + Len(new)) :
              /\ i <= n => Editor!Insert(s, n, new)[i] = s[i]
              /\ i > n /\ i <= n + Len(new) => Editor!Insert(s, n, new)[i] = new[i - n]
              /\ i > n + Len(new) => Editor!Insert(s, n, new)[i] = s[i - Len(new)]
<1> DEFINE v(i) == IF i <= n THEN s[i]
                   ELSE IF i <= n + Len(new) THEN new[i - n] ELSE s[i - Len(new)]
<1>1. Len(s) \in Nat /\ Len(new) \in Nat /\ n \in Nat
  OBVIOUS
<1>2. ASSUME NEW i \in 1..(Len(s) + Len(new)) PROVE v(i) \in Printable
  <2>1. CASE i <= n
    BY <1>1, <2>1
  <2>2. CASE i > n /\ i <= n + Len(new)
    <3>1. i - n \in 1..Len(new)
      BY <1>1, <2>2
    <3> QED
      BY <1>1, <2>2, <3>1
  <2>3. CASE i > n /\ i > n + Len(new)
    <3>1. i - Len(new) \in 1..Len(s)
      BY <1>1, <2>3
    <3> QED
      BY <1>1, <2>3, <3>1
  <2> QED
    BY <1>1, <2>1, <2>2, <2>3
<1>3. Editor!Insert(s, n, new) = [i \in 1..(Len(s) + Len(new)) |-> v(i)]
  BY DEF Editor!Insert
<1> HIDE DEF v
<1>4. /\ Editor!Insert(s, n, new) \in Seq(Printable)
      /\ Len(Editor!Insert(s, n, new)) = Len(s) + Len(new)
      /\ \A i \in 1..(Len(s) + Len(new)) : Editor!Insert(s, n, new)[i] = v(i)
  BY <1>1, <1>2, <1>3
<1> QED
  BY <1>1, <1>4 DEF v

LEMMA EraseIs ==
  ASSUME NEW s \in Seq(Printable), NEW n \in 1..Len(s)
  PROVE  /\ Editor!Erase(s, n) \in Seq(Printable)
         /\ Len(Editor!Erase(s, n)) = Len(s) - 1
         /\ \A i \in 1..(Len(s) - 1) : /\ i < n => Editor!Erase(s, n)[i] = s[i]
                                       /\ i >= n => Editor!Erase(s, n)[i] = s[i + 1]
<1>1. Len(s) \in Nat /\ Len(s) - 1 \in Nat
  OBVIOUS
<1>2. \A i \in 1..(Len(s) - 1) : (IF i < n THEN s[i] ELSE s[i + 1]) \in Printable
  BY <1>1
<1> QED
  BY <1>1, <1>2 DEF Editor!Erase

\* The line that is edited.
LEMMA LineIs ==
  ASSUME NEW buf, NEW n \in Nat, \A i \in 0..(n - 1) : buf[i] \in Printable
  PROVE  /\ Part(buf, 0, n) \in Seq(Printable)
         /\ Len(Part(buf, 0, n)) = n
         /\ \A i \in 1..n : Part(buf, 0, n)[i] = buf[i - 1]
<1>1. Part(buf, 0, n) = [k \in 1..n |-> buf[k - 1]]
  <2>1. n - 0 = n /\ \A k \in 1..n : 0 + k - 1 = k - 1
    OBVIOUS
  <2> QED
    BY <2>1 DEF Part
<1>2. \A k \in 1..n : buf[k - 1] \in Printable
  OBVIOUS
<1> QED
  BY <1>1, <1>2
-----------------------------------------------------------------------------
(***************************************************************************)
(* Keys.                                                                   *)
(***************************************************************************)
\* redraw() shows the new line from the cursor on, and nothing behind it.
LEMMA Redrawn ==
  ASSUME cells \in Seq(Printable), NEW col \in 0..Len(cells), NEW buf \in Buffer, NEW len \in Nat,
         col <= len, len < Size, \A i \in 0..(len - 1) : buf[i] \in Printable,
         \A i \in 1..col : cells[i] = buf[i - 1],
         \A i \in DOMAIN cells : i > len + 1 => cells[i] = Space,
         Redraw(col, buf, len)
  PROVE  /\ prompt_buf' \in Buffer /\ \A i \in 0..(len - 1) : prompt_buf'[i] = buf[i]
         /\ stale' = FALSE /\ cells' \in Seq(Printable) /\ Len(cells') >= len
         /\ \A i \in DOMAIN cells' : /\ i <= len => cells'[i] = prompt_buf'[i - 1]
                                     /\ i > len => cells'[i] = Space
<1> DEFINE rest == Part(buf, col, len)
           s == Append(rest, Space)
<1>1. Space \in Printable /\ Size \in Nat
  BY PromptAssumption
<1>2. prompt_buf' = [buf EXCEPT ![len] = Space] /\ cells' = Printed(col, s) /\ stale' = FALSE
  BY DEF Redraw
<1>3. len \in 0..(Size - 1)
  BY <1>1
<1>4. prompt_buf' \in Buffer /\ \A i \in 0..(len - 1) : prompt_buf'[i] = buf[i]
  BY <1>1, <1>2, <1>3 DEF Buffer, Typed
<1>5. rest \in Seq(Printable) /\ Len(rest) = len - col
      /\ \A k \in 1..(len - col) : rest[k] = buf[col + k - 1]
  <2>1. col \in Nat /\ \A k \in col..(len - 1) : buf[k] \in Printable
    OBVIOUS
  <2>2. rest \in Seq(Printable)
    BY <2>1, PartType
  <2>3. /\ Len(Part(buf, col, len)) = len - col
        /\ \A k \in 1..(len - col) : Part(buf, col, len)[k] = buf[col + k - 1]
    <3>1. col \in Nat /\ len \in Nat /\ col <= len
      OBVIOUS
    <3> QED
      BY <3>1 DEF Part
  <2> QED
    BY <2>2, <2>3
<1> HIDE DEF rest
<1>6. s \in Seq(Printable) /\ Len(s) = len - col + 1 /\ s[len - col + 1] = Space
      /\ \A k \in 1..(len - col) : s[k] = buf[col + k - 1]
  <2>1. /\ s \in Seq(Printable) /\ Len(s) = Len(rest) + 1
        /\ \A k \in 1..Len(rest) : s[k] = rest[k]
        /\ s[Len(rest) + 1] = Space
    <3>1. Space \in Printable /\ rest \in Seq(Printable)
      BY <1>1, <1>5
    <3>2. s \in Seq(Printable) /\ Len(s) = Len(rest) + 1
      BY <3>1
    <3>3. s[Len(rest) + 1] = Space
      BY <3>1
    <3>4. \A k \in 1..Len(rest) : s[k] = rest[k]
      BY <3>1
    <3> QED
      BY <3>2, <3>3, <3>4
  <2> HIDE DEF s
  <2>2. Len(rest) = len - col
    BY <1>5
  <2>3. \A k \in 1..(len - col) : s[k] = buf[col + k - 1]
    BY <1>5, <2>1, <2>2, Zenon
  <2>4. Len(s) = len - col + 1 /\ s[len - col + 1] = Space
    BY <2>1, <2>2, Zenon
  <2> QED
    BY <2>1, <2>3, <2>4, Zenon
<1> HIDE DEF s
<1>7. /\ cells' \in Seq(Printable)
      /\ Len(cells') = IF col + Len(s) > Len(cells) THEN col + Len(s) ELSE Len(cells)
      /\ \A i \in DOMAIN cells' :
           /\ i > col /\ i <= col + Len(s) => i - col \in 1..Len(s) /\ cells'[i] = s[i - col]
           /\ i <= col \/ i > col + Len(s) => i \in DOMAIN cells /\ cells'[i] = cells[i]
  BY <1>2, <1>6, PrintedIs
<1>8. Len(cells') >= len
  BY <1>6, <1>7
<1>9. ASSUME NEW i \in DOMAIN cells'
      PROVE  /\ i <= len => cells'[i] = prompt_buf'[i - 1]
             /\ i > len => cells'[i] = Space
  <2>1. i \in Nat /\ i >= 1
    BY <1>7
  <2>2. CASE i <= col
    <3>1. i - 1 \in 0..(len - 1)
      BY <2>1, <2>2
    <3> QED
      BY <1>4, <1>7, <2>1, <2>2, <3>1
  <2>3. CASE i > col /\ i <= len
    <3>1. i - col \in 1..(len - col) /\ col + (i - col) - 1 = i - 1 /\ i - 1 \in 0..(len - 1)
          /\ i <= col + Len(s)
      BY <1>6, <2>1, <2>3
    <3>2. cells'[i] = buf[i - 1]
      BY <1>6, <1>7, <2>3, <3>1
    <3> QED
      BY <1>4, <2>1, <2>3, <3>1, <3>2
  <2>4. CASE i = len + 1
    <3>1. i - col = len - col + 1 /\ i <= col + Len(s) /\ i > col /\ i > len
      BY <1>6, <2>1, <2>4
    <3>2. cells'[i] = s[len - col + 1]
      BY <1>7, <3>1
    <3>3. cells'[i] = Space
      BY <1>6, <3>2, Zenon
    <3> QED
      BY <2>1, <2>4, <3>3
  <2>5. CASE i > len + 1
    BY <1>6, <1>7, <2>1, <2>5
  <2> QED
    BY <2>1, <2>2, <2>3, <2>4, <2>5
<1> QED
  BY <1>2, <1>4, <1>7, <1>8, <1>9

\* What a state with a line in it looks like.
LEMMA Editing ==
  ASSUME PInv, editing
  PROVE  /\ prompt_len \in Nat /\ prompt_cursor \in Nat /\ prompt_cursor <= prompt_len
         /\ prompt_len < Size /\ Size \in Nat /\ prompt_index = 0 /\ column = prompt_cursor
         /\ prompt_cursor \in 0..Len(cells) /\ cells \in Seq(Printable)
         /\ \A i \in 0..(prompt_len - 1) : prompt_buf[i] \in Printable
         /\ \A i \in 1..prompt_cursor : cells[i] = prompt_buf[i - 1]
         /\ \A i \in DOMAIN cells :
              /\ i <= prompt_len /\ ~stale => cells[i] = prompt_buf[i - 1]
              /\ i > prompt_len => cells[i] = Space
<1>1. prompt_len \in Nat /\ prompt_cursor \in Nat /\ prompt_cursor <= prompt_len
      /\ prompt_len < Size /\ Size \in Nat /\ prompt_index = 0 /\ column = prompt_cursor
      /\ cells \in Seq(Printable) /\ stale \in BOOLEAN
      /\ \A i \in 0..(prompt_len - 1) : prompt_buf[i] \in Printable
  BY PromptAssumption DEF PInv, LineInv, ShowsTheLine
<1>2. Len(cells) >= IF stale THEN prompt_cursor ELSE prompt_len
  BY DEF PInv, ShowsTheLine
<1>3. prompt_cursor \in 0..Len(cells)
  BY <1>1, <1>2
<1>4. \A i \in DOMAIN cells :
         /\ i <= prompt_len /\ (~stale \/ i <= prompt_cursor) => cells[i] = prompt_buf[i - 1]
         /\ i > prompt_len => cells[i] = Space
  BY DEF PInv, ShowsTheLine
<1>5. \A i \in 1..prompt_cursor : i \in DOMAIN cells /\ i <= prompt_len
  BY <1>1, <1>3
<1> QED
  BY <1>1, <1>3, <1>4, <1>5

LEMMA InsertKey ==
  ASSUME PInv, Insert
  PROVE  PInv' /\ Editor!Edit
<1>1. editing /\ editing' = editing /\ UNCHANGED <<prompt_index, got>> /\ prompt_len + 1 < Size
      /\ prompt_len' = prompt_len + 1 /\ prompt_cursor' = prompt_cursor + 1 /\ column' = column + 1
  BY DEF Insert, Key, Fits
<1> DEFINE new(c) == [i \in 0..(Size - 1) |->
                       IF i = prompt_cursor THEN c
                       ELSE IF i > prompt_cursor /\ i <= prompt_len THEN prompt_buf[i - 1]
                       ELSE prompt_buf[i]]
<1>2. PICK c \in Printable : Redraw(prompt_cursor, new(c), prompt_len + 1)
  BY DEF Insert
<1>3. /\ prompt_len \in Nat /\ prompt_cursor \in Nat /\ prompt_cursor <= prompt_len
      /\ Size \in Nat /\ prompt_index = 0 /\ column = prompt_cursor
      /\ prompt_cursor \in 0..Len(cells) /\ cells \in Seq(Printable)
      /\ \A i \in 0..(prompt_len - 1) : prompt_buf[i] \in Printable
      /\ \A i \in 1..prompt_cursor : cells[i] = prompt_buf[i - 1]
      /\ \A i \in DOMAIN cells : i > prompt_len => cells[i] = Space
  BY <1>1, Editing
<1> DEFINE len == prompt_len + 1
           b == new(c)
<1>4. b \in Buffer
      /\ \A i \in 0..(Size - 1) :
           b[i] = IF i = prompt_cursor THEN c
                  ELSE IF i > prompt_cursor /\ i <= prompt_len THEN prompt_buf[i - 1]
                  ELSE prompt_buf[i]
  <2>1. prompt_buf \in Buffer
    BY DEF PInv, LineInv
  <2>2. \A i \in 0..(Size - 1) : b[i] \in Typed
    BY <1>3, <2>1 DEF Buffer, Typed
  <2> QED
    BY <2>2 DEF Buffer
<1> HIDE DEF new, b
<1>5. \A i \in 0..prompt_len :
         /\ i < prompt_cursor => b[i] = prompt_buf[i]
         /\ i = prompt_cursor => b[i] = c
         /\ i > prompt_cursor => b[i] = prompt_buf[i - 1] /\ i - 1 \in 0..(prompt_len - 1)
  BY <1>1, <1>3, <1>4
<1>6. \A i \in 0..(len - 1) : b[i] \in Printable
  BY <1>3, <1>5
<1>7. /\ len \in Nat /\ prompt_cursor <= len /\ len < Size
      /\ \A i \in 1..prompt_cursor : cells[i] = b[i - 1]
      /\ \A i \in DOMAIN cells : i > len + 1 => cells[i] = Space
  BY <1>1, <1>3, <1>5
<1>8. Redraw(prompt_cursor, b, len)
  BY <1>2 DEF b
<1> HIDE DEF len
<1>9. /\ prompt_buf' \in Buffer /\ \A i \in 0..(len - 1) : prompt_buf'[i] = b[i]
      /\ stale' = FALSE /\ cells' \in Seq(Printable) /\ Len(cells') >= len
      /\ \A i \in DOMAIN cells' : /\ i <= len => cells'[i] = prompt_buf'[i - 1]
                                  /\ i > len => cells'[i] = Space
  BY <1>3, <1>4, <1>6, <1>7, <1>8, Redrawn
<1>10. LineInv'
  <2>1. prompt_len' \in 0..Size /\ prompt_len' = len /\ prompt_cursor' <= len
        /\ prompt_cursor' \in Nat /\ column' \in Int
    BY <1>1, <1>3, <1>7 DEF len
  <2> QED
    BY <1>1, <1>3, <1>6, <1>7, <1>9, <2>1 DEF PInv, LineInv
<1>11. ShowsTheLine'
  BY <1>1, <1>3, <1>9 DEF ShowsTheLine, len
<1>12. Editor!Edit
  <2> DEFINE line == Part(prompt_buf, 0, prompt_len)
             after == Part(prompt_buf', 0, prompt_len')
  <2>1. line \in Seq(Printable) /\ Len(line) = prompt_len
        /\ \A i \in 1..prompt_len : line[i] = prompt_buf[i - 1]
    BY <1>3, LineIs
  <2>2. after \in Seq(Printable) /\ Len(after) = len
        /\ \A i \in 1..len : after[i] = b[i - 1]
    <3>1. prompt_len' = len /\ len \in Nat /\ \A i \in 0..(len - 1) : prompt_buf'[i] \in Printable
      BY <1>1, <1>6, <1>7, <1>9 DEF len
    <3>2. after \in Seq(Printable) /\ Len(after) = len
          /\ \A i \in 1..len : after[i] = prompt_buf'[i - 1]
      BY <3>1, LineIs
    <3> QED
      BY <1>9, <3>1, <3>2
  <2> HIDE DEF line, after
  <2>3. <<c>> \in Seq(Printable) /\ Len(<<c>>) = 1 /\ <<c>>[1] = c /\ prompt_cursor \in 0..Len(line)
    BY <1>3, <2>1
  <2>4. /\ Editor!Insert(line, prompt_cursor, <<c>>) \in Seq(Printable)
        /\ Len(Editor!Insert(line, prompt_cursor, <<c>>)) = len
        /\ \A i \in 1..len :
             /\ i <= prompt_cursor => Editor!Insert(line, prompt_cursor, <<c>>)[i] = line[i]
             /\ i > prompt_cursor /\ i <= prompt_cursor + 1 =>
                  Editor!Insert(line, prompt_cursor, <<c>>)[i] = <<c>>[i - prompt_cursor]
             /\ i > prompt_cursor + 1 =>
                  Editor!Insert(line, prompt_cursor, <<c>>)[i] = line[i - 1]
    BY <2>1, <2>3, InsertIs DEF len
  <2>5. ASSUME NEW i \in 1..len PROVE after[i] = Editor!Insert(line, prompt_cursor, <<c>>)[i]
    <3>1. CASE i <= prompt_cursor
      <4>1. i \in 1..prompt_len /\ i - 1 \in 0..prompt_len /\ i - 1 < prompt_cursor
        BY <1>3, <3>1 DEF len
      <4>2. after[i] = b[i - 1] /\ line[i] = prompt_buf[i - 1]
            /\ Editor!Insert(line, prompt_cursor, <<c>>)[i] = line[i]
        BY <2>1, <2>2, <2>4, <3>1, <4>1
      <4>3. b[i - 1] = prompt_buf[i - 1]
        BY <1>5, <4>1
      <4> QED
        BY <4>2, <4>3, Zenon
    <3>2. CASE i = prompt_cursor + 1
      <4>1. i - prompt_cursor = 1 /\ i - 1 = prompt_cursor /\ ~(i <= prompt_cursor)
        BY <1>3, <3>2
      <4> QED
        BY <1>3, <1>5, <2>2, <2>3, <2>4, <3>2, <4>1
    <3>3. CASE i > prompt_cursor + 1
      <4>1. i - 1 \in 1..prompt_len /\ i - 1 \in 0..prompt_len /\ i - 1 > prompt_cursor
        BY <1>3, <3>3 DEF len
      <4>2. after[i] = b[i - 1] /\ line[i - 1] = prompt_buf[i - 1 - 1]
            /\ Editor!Insert(line, prompt_cursor, <<c>>)[i] = line[i - 1]
        BY <2>1, <2>2, <2>4, <3>3, <4>1
      <4>3. b[i - 1] = prompt_buf[i - 1 - 1]
        BY <1>5, <4>1
      <4> QED
        BY <4>2, <4>3, Zenon
    <3> QED
      BY <1>3, <3>1, <3>2, <3>3 DEF len
  <2>6. after = Editor!Insert(line, prompt_cursor, <<c>>)
    BY <2>2, <2>4, <2>5, SameText
  <2> QED
    BY <1>1, <2>6, Zenon DEF Editor!Edit, Editor!Type, line, after
<1> QED
  BY <1>10, <1>11, <1>12 DEF PInv

LEMMA BackspaceKey ==
  ASSUME PInv, Backspace
  PROVE  PInv' /\ Editor!Edit
<1>1. editing /\ editing' = editing /\ UNCHANGED <<prompt_index, got>> /\ prompt_cursor > 0
      /\ prompt_len' = prompt_len - 1 /\ prompt_cursor' = prompt_cursor - 1 /\ column' = column - 1
  BY DEF Backspace, Key
<1> DEFINE b == [i \in 0..(Size - 1) |->
                  IF i >= prompt_cursor - 1 /\ i < prompt_len THEN prompt_buf[i + 1]
                  ELSE prompt_buf[i]]
           len == prompt_len - 1
           col == prompt_cursor - 1
<1>2. Redraw(col, b, len)
  BY DEF Backspace
<1>3. /\ prompt_len \in Nat /\ prompt_cursor \in Nat /\ prompt_cursor <= prompt_len
      /\ prompt_len < Size /\ Size \in Nat /\ prompt_index = 0 /\ column = prompt_cursor
      /\ prompt_cursor \in 0..Len(cells) /\ cells \in Seq(Printable)
      /\ \A i \in 0..(prompt_len - 1) : prompt_buf[i] \in Printable
      /\ \A i \in 1..prompt_cursor : cells[i] = prompt_buf[i - 1]
      /\ \A i \in DOMAIN cells : i > prompt_len => cells[i] = Space
  BY <1>1, Editing
<1>4. b \in Buffer
      /\ \A i \in 0..(Size - 1) :
           b[i] = IF i >= prompt_cursor - 1 /\ i < prompt_len THEN prompt_buf[i + 1]
                  ELSE prompt_buf[i]
  <2>1. prompt_buf \in Buffer
    BY DEF PInv, LineInv
  <2>2. \A i \in 0..(Size - 1) : b[i] \in Typed
    BY <1>3, <2>1 DEF Buffer, Typed
  <2> QED
    BY <2>2 DEF Buffer
<1> HIDE DEF b
<1>5. /\ len \in Nat /\ col \in Nat /\ col <= len /\ len < Size
      /\ \A i \in 0..(len - 1) :
           /\ i < col => b[i] = prompt_buf[i]
           /\ i >= col => b[i] = prompt_buf[i + 1] /\ i + 1 \in 0..(prompt_len - 1)
  BY <1>1, <1>3, <1>4
<1>6. ASSUME NEW i \in 0..(len - 1) PROVE b[i] \in Printable
  <2>1. CASE i < col
    <3>1. i \in 0..(prompt_len - 1) /\ b[i] = prompt_buf[i]
      BY <1>3, <1>5, <2>1
    <3> QED
      BY <1>3, <3>1
  <2>2. CASE i >= col
    BY <1>3, <1>5, <2>2
  <2> QED
    BY <1>5, <2>1, <2>2
<1>7. /\ col \in 0..Len(cells)
      /\ \A i \in 1..col : cells[i] = b[i - 1]
      /\ \A i \in DOMAIN cells : i > len + 1 => cells[i] = Space
  BY <1>1, <1>3, <1>5
<1> HIDE DEF len, col
<1>9. /\ prompt_buf' \in Buffer /\ \A i \in 0..(len - 1) : prompt_buf'[i] = b[i]
      /\ stale' = FALSE /\ cells' \in Seq(Printable) /\ Len(cells') >= len
      /\ \A i \in DOMAIN cells' : /\ i <= len => cells'[i] = prompt_buf'[i - 1]
                                  /\ i > len => cells'[i] = Space
  BY <1>2, <1>3, <1>4, <1>5, <1>6, <1>7, Redrawn
<1>10. LineInv'
  <2>1. prompt_len' \in 0..Size /\ prompt_len' = len /\ prompt_cursor' <= len
        /\ prompt_cursor' \in Nat /\ column' \in Int
    BY <1>1, <1>3, <1>5 DEF len, col
  <2> QED
    BY <1>1, <1>3, <1>5, <1>6, <1>9, <2>1 DEF PInv, LineInv
<1>11. ShowsTheLine'
  BY <1>1, <1>3, <1>9 DEF ShowsTheLine, len
<1>12. Editor!Edit
  <2> DEFINE line == Part(prompt_buf, 0, prompt_len)
             after == Part(prompt_buf', 0, prompt_len')
             erased == Editor!Erase(line, prompt_cursor)
  <2>1. line \in Seq(Printable) /\ Len(line) = prompt_len
        /\ \A i \in 1..prompt_len : line[i] = prompt_buf[i - 1]
    BY <1>3, LineIs
  <2>2. after \in Seq(Printable) /\ Len(after) = len
        /\ \A i \in 1..len : after[i] = b[i - 1]
    <3>1. prompt_len' = len /\ len \in Nat /\ \A i \in 0..(len - 1) : prompt_buf'[i] \in Printable
      BY <1>1, <1>5, <1>6, <1>9 DEF len
    <3>2. after \in Seq(Printable) /\ Len(after) = len
          /\ \A i \in 1..len : after[i] = prompt_buf'[i - 1]
      BY <3>1, LineIs
    <3> QED
      BY <1>9, <3>1, <3>2
  <2> HIDE DEF line, after
  <2>3. prompt_cursor \in 1..Len(line)
    BY <1>1, <1>3, <2>1
  <2>4. /\ erased \in Seq(Printable) /\ Len(erased) = len
        /\ \A i \in 1..len : /\ i < prompt_cursor => erased[i] = line[i]
                             /\ i >= prompt_cursor => erased[i] = line[i + 1]
    <3>1. Len(line) - 1 = len
      BY <2>1 DEF len
    <3> QED
      BY <2>1, <2>3, <3>1, EraseIs
  <2> HIDE DEF erased
  <2>5. ASSUME NEW i \in 1..len PROVE after[i] = erased[i]
    <3>1. CASE i < prompt_cursor
      <4>1. i \in 1..prompt_len /\ i - 1 \in 0..(len - 1) /\ i - 1 < col
        BY <1>3, <3>1 DEF len, col
      <4>2. after[i] = b[i - 1] /\ line[i] = prompt_buf[i - 1] /\ erased[i] = line[i]
        BY <2>1, <2>2, <2>4, <3>1, <4>1
      <4>3. b[i - 1] = prompt_buf[i - 1]
        BY <1>5, <4>1
      <4> QED
        BY <4>2, <4>3, Zenon
    <3>2. CASE i >= prompt_cursor
      <4>1. i + 1 \in 1..prompt_len /\ i - 1 \in 0..(len - 1) /\ i - 1 >= col
            /\ i - 1 + 1 = i /\ i + 1 - 1 = i
        BY <1>3, <3>2 DEF len, col
      <4>2. after[i] = b[i - 1] /\ line[i + 1] = prompt_buf[i] /\ erased[i] = line[i + 1]
        BY <2>1, <2>2, <2>4, <3>2, <4>1
      <4>3. b[i - 1] = prompt_buf[i]
        BY <1>5, <4>1
      <4> QED
        BY <4>2, <4>3, Zenon
    <3> QED
      BY <1>3, <3>1, <3>2 DEF len
  <2>6. after = erased
    BY <2>2, <2>4, <2>5, SameText
  <2> QED
    BY <1>1, <2>6, Zenon DEF Editor!Edit, Editor!Rubout, line, after, erased
<1> QED
  BY <1>10, <1>11, <1>12 DEF PInv

\* Moving over the line prints what is there already, or what a completion left undrawn.
LEMMA ArrowKey ==
  ASSUME PInv, Arrow
  PROVE  PInv' /\ Editor!Edit
<1>1. editing /\ editing' = editing /\ UNCHANGED <<prompt_index, got>>
      /\ UNCHANGED <<prompt_buf, prompt_len, editing, stale>>
  BY DEF Arrow, Key
<1>2. /\ prompt_len \in Nat /\ prompt_cursor \in Nat /\ prompt_cursor <= prompt_len
      /\ prompt_len < Size /\ Size \in Nat /\ prompt_index = 0 /\ column = prompt_cursor
      /\ prompt_cursor \in 0..Len(cells) /\ cells \in Seq(Printable)
      /\ \A i \in 0..(prompt_len - 1) : prompt_buf[i] \in Printable
      /\ \A i \in 1..prompt_cursor : cells[i] = prompt_buf[i - 1]
      /\ \A i \in DOMAIN cells : /\ i <= prompt_len /\ ~stale => cells[i] = prompt_buf[i - 1]
                                 /\ i > prompt_len => cells[i] = Space
  BY <1>1, Editing
<1>3. PICK to \in 0..prompt_len : Move(to)
  BY <1>2 DEF Arrow
<1>4. /\ prompt_cursor' = to /\ column' = to
      /\ cells' = IF to > prompt_cursor
                  THEN Printed(prompt_cursor, Part(prompt_buf, prompt_cursor, to)) ELSE cells
  BY <1>2, <1>3 DEF Move
<1>5. /\ cells' \in Seq(Printable)
      /\ Len(cells') >= Len(cells) /\ Len(cells') >= to
      /\ \A i \in DOMAIN cells' :
           /\ i <= to => cells'[i] = prompt_buf[i - 1]
           /\ i > to => i \in DOMAIN cells /\ cells'[i] = cells[i]
  <2>1. CASE to <= prompt_cursor
    <3>1. cells' = cells
      BY <1>2, <1>4, <2>1
    <3> QED
      BY <1>2, <2>1, <3>1
  <2>2. CASE to > prompt_cursor
    <3> DEFINE s == Part(prompt_buf, prompt_cursor, to)
    <3>1. /\ Len(s) = to - prompt_cursor
          /\ \A k \in 1..(to - prompt_cursor) : s[k] = prompt_buf[prompt_cursor + k - 1]
      BY <1>2, <2>2 DEF Part
    <3>2. s \in Seq(Printable)
      <4>1. prompt_cursor \in Nat /\ to \in Nat /\ prompt_cursor <= to
            /\ \A k \in prompt_cursor..(to - 1) : prompt_buf[k] \in Printable
        BY <1>2, <2>2
      <4> QED
        BY <4>1, PartType
    <3> HIDE DEF s
    <3>3. cells' = Printed(prompt_cursor, s)
      BY <1>4, <2>2 DEF s
    <3>4. /\ cells' \in Seq(Printable)
          /\ Len(cells') = IF prompt_cursor + Len(s) > Len(cells) THEN prompt_cursor + Len(s)
                           ELSE Len(cells)
          /\ \A i \in DOMAIN cells' :
               /\ i > prompt_cursor /\ i <= prompt_cursor + Len(s) =>
                    i - prompt_cursor \in 1..Len(s) /\ cells'[i] = s[i - prompt_cursor]
               /\ i <= prompt_cursor \/ i > prompt_cursor + Len(s) =>
                    i \in DOMAIN cells /\ cells'[i] = cells[i]
      BY <1>2, <3>2, <3>3, PrintedIs
    <3>5. prompt_cursor + Len(s) = to
      BY <1>2, <3>1
    <3>6. ASSUME NEW i \in DOMAIN cells'
          PROVE  /\ i <= to => cells'[i] = prompt_buf[i - 1]
                 /\ i > to => i \in DOMAIN cells /\ cells'[i] = cells[i]
      <4>1. i \in Nat /\ i >= 1
        BY <3>4
      <4>2. CASE i <= prompt_cursor
        <5>1. cells'[i] = cells[i] /\ cells[i] = prompt_buf[i - 1]
          BY <1>2, <3>4, <4>1, <4>2
        <5> QED
          BY <1>2, <2>2, <4>1, <4>2, <5>1
      <4>3. CASE i > prompt_cursor /\ i <= to
        <5>1. i - prompt_cursor \in 1..(to - prompt_cursor) /\ prompt_cursor + (i - prompt_cursor) - 1 = i - 1
          BY <1>2, <4>1, <4>3
        <5>2. cells'[i] = s[i - prompt_cursor]
          BY <3>4, <3>5, <4>3
        <5>3. s[i - prompt_cursor] = prompt_buf[i - 1]
          BY <3>1, <5>1
        <5> QED
          BY <4>1, <4>3, <5>2, <5>3
      <4>4. CASE i > to
        BY <3>4, <3>5, <4>1, <4>4
      <4> QED
        BY <1>2, <4>1, <4>2, <4>3, <4>4
    <3> QED
      BY <1>2, <3>1, <3>4, <3>5, <3>6
  <2> QED
    BY <1>2, <2>1, <2>2
<1>6. LineInv'
  BY <1>1, <1>2, <1>4, <1>5 DEF PInv, LineInv
<1>7. ShowsTheLine'
  <2>1. Len(cells) >= IF stale THEN prompt_cursor ELSE prompt_len
    BY <1>1 DEF PInv, ShowsTheLine
  <2>2. Len(cells') >= IF stale THEN to ELSE prompt_len
    BY <1>2, <1>5, <2>1
  <2>3. ASSUME NEW i \in DOMAIN cells'
        PROVE  /\ i <= prompt_len /\ (~stale \/ i <= to) => cells'[i] = prompt_buf[i - 1]
               /\ i > prompt_len => cells'[i] = Space
    BY <1>2, <1>5
  <2> QED
    BY <1>1, <1>4, <2>2, <2>3 DEF ShowsTheLine
<1>8. Editor!Edit
  <2>1. Len(Part(prompt_buf, 0, prompt_len)) = prompt_len
    BY <1>2, LineIs
  <2> QED
    BY <1>1, <1>2, <1>4, <2>1 DEF Editor!Edit, Editor!Move
<1> QED
  BY <1>6, <1>7, <1>8 DEF PInv

\* The names are listed, and the line is drawn again.
LEMMA ListNamesKey ==
  ASSUME PInv, ListNames
  PROVE  PInv' /\ Editor!Edit
<1>1. editing /\ editing' = editing /\ UNCHANGED <<prompt_index, got>>
      /\ UNCHANGED <<prompt_len, prompt_cursor>>
      /\ prompt_buf' = [prompt_buf EXCEPT ![prompt_len] = Space]
      /\ cells' = Append(Part(prompt_buf, 0, prompt_len), Space)
      /\ column' = prompt_cursor /\ stale' = FALSE
  BY DEF ListNames, Key
<1>2. /\ prompt_len \in Nat /\ prompt_cursor \in Nat /\ prompt_cursor <= prompt_len
      /\ prompt_len < Size /\ Size \in Nat /\ prompt_index = 0 /\ column = prompt_cursor
      /\ \A i \in 0..(prompt_len - 1) : prompt_buf[i] \in Printable
  BY <1>1, Editing
<1>3. prompt_buf' \in Buffer /\ \A i \in 0..(prompt_len - 1) : prompt_buf'[i] = prompt_buf[i]
  BY <1>1, <1>2, PromptAssumption DEF PInv, LineInv, Buffer, Typed
<1> DEFINE line == Part(prompt_buf, 0, prompt_len)
<1>4. line \in Seq(Printable) /\ Len(line) = prompt_len
      /\ \A i \in 1..prompt_len : line[i] = prompt_buf[i - 1]
  BY <1>2, LineIs
<1>5. Part(prompt_buf', 0, prompt_len) \in Seq(Printable)
      /\ Len(Part(prompt_buf', 0, prompt_len)) = prompt_len
      /\ \A i \in 1..prompt_len : Part(prompt_buf', 0, prompt_len)[i] = prompt_buf'[i - 1]
  <2>1. \A i \in 0..(prompt_len - 1) : prompt_buf'[i] \in Printable
    BY <1>2, <1>3
  <2> QED
    BY <1>2, <2>1, LineIs
<1>6. Part(prompt_buf', 0, prompt_len) = line
  <2> HIDE DEF line
  <2>1. \A i \in 1..prompt_len : Part(prompt_buf', 0, prompt_len)[i] = line[i]
    BY <1>2, <1>3, <1>4, <1>5
  <2> QED
    BY <1>4, <1>5, <2>1, SameText
<1>7. cells' = Append(line, Space)
  BY <1>1
<1>8. Editor!Edit
  BY <1>1, <1>2, <1>4, <1>6 DEF Editor!Edit, Editor!Move
<1> HIDE DEF line
<1>9. cells' \in Seq(Printable) /\ Len(cells') = prompt_len + 1
      /\ cells'[prompt_len + 1] = Space
      /\ \A i \in 1..prompt_len : cells'[i] = prompt_buf'[i - 1]
  BY <1>2, <1>3, <1>4, <1>7, PromptAssumption
<1>10. LineInv'
  BY <1>1, <1>2, <1>3, <1>9 DEF PInv, LineInv
<1>11. ShowsTheLine'
  BY <1>1, <1>2, <1>9 DEF ShowsTheLine
<1> QED
  BY <1>8, <1>10, <1>11 DEF PInv

\* The text of the line after a completion: what is behind the word has moved.
LEMMA CompletedLine ==
  ASSUME PInv, Complete
  PROVE  LET more == Len(Common) - Len(Search)
             end == WordStart + Len(Common)
         IN  /\ more \in Nat /\ more > 0 /\ end = WordEnd + more
             /\ prompt_len' = prompt_len + more /\ prompt_len' < Size /\ prompt_cursor' = end
             /\ column' = end /\ stale' = (stale \/ WordEnd < prompt_len)
             /\ prompt_buf' \in Buffer
             /\ \A i \in 0..(prompt_len' - 1) :
                  /\ i < WordEnd => prompt_buf'[i] = prompt_buf[i]
                  /\ i >= WordStart /\ i < end => prompt_buf'[i] = Common[i - WordStart + 1]
                  /\ i >= end => prompt_buf'[i] = prompt_buf[i - more]
             /\ \A i \in 0..(prompt_len' - 1) : prompt_buf'[i] \in Printable
<1> DEFINE m == Len(Common)
           k == Len(Search)
           end == WordStart + m
           len == prompt_len + m - k
<1>1. /\ editing /\ Found # {} /\ m > k /\ len < Size /\ prompt_len' = len
      /\ prompt_buf' = [i \in 0..(Size - 1) |->
           IF i < WordStart \/ i >= len THEN prompt_buf[i]
           ELSE IF i < end THEN Common[i - WordStart + 1] ELSE prompt_buf[i - end + WordEnd]]
      /\ prompt_cursor' = end /\ column' = column + (end - prompt_cursor)
      /\ stale' = (stale \/ WordEnd < prompt_len)
  BY DEF Complete, Key, Fits
<1>2. /\ prompt_len \in Nat /\ prompt_cursor \in Nat /\ prompt_len < Size /\ Size \in Nat
      /\ column = prompt_cursor /\ \A i \in 0..(prompt_len - 1) : prompt_buf[i] \in Printable
  BY <1>1, Editing
<1>3. WordStart \in 0..prompt_cursor /\ WordEnd \in prompt_cursor..prompt_len
  BY <1>1, WordBounds DEF PInv
<1>4. k = WordEnd - WordStart
      /\ \A j \in 1..(WordEnd - WordStart) : Search[j] = prompt_buf[WordStart + j - 1]
  BY <1>1, SearchIs DEF PInv
<1>5. Common \in Seq(Printable) /\ \A j \in 1..k : Common[j] = Search[j]
  <2> HIDE DEF m, k, end, len
  <2>1. Common \in Seq(Printable) /\ Search \in Seq(Printable)
    <3>1. LineInv /\ editing /\ Found # {}
      BY <1>1 DEF PInv
    <3>2. Common \in Seq(Printable)
      BY <3>1, CommonIs, Zenon
    <3> QED
      BY <3>1, <3>2, SearchIs, Zenon
  <2>name. PICK f \in File : \E n \in 0..Len(f) :
          /\ f \in Seq(Printable) /\ StartsWith(f, Search)
          /\ Common = SubSeq(f, 1, n) /\ Len(Common) = n
          /\ \A j \in 1..n : Common[j] = f[j]
    BY <1>1, CommonIs, Zenon DEF PInv
  <2>2. PICK n \in 0..Len(f) :
          /\ f \in Seq(Printable) /\ StartsWith(f, Search)
          /\ Common = SubSeq(f, 1, n) /\ Len(Common) = n
          /\ \A j \in 1..n : Common[j] = f[j]
    BY <2>name
  <2>3. SubSeq(f, 1, k) = Search /\ Len(f) >= k
    BY <2>2 DEF StartsWith, k
  <2>4. k \in Nat /\ k <= n
    BY <1>1, <2>1, <2>2 DEF k, m
  <2>5. \A j \in 1..k : SubSeq(f, 1, k)[j] = f[j]
    BY <2>2, <2>3, <2>4
  <2>6. \A j \in 1..k : Search[j] = f[j]
    BY <2>3, <2>5, Zenon
  <2> QED
    BY <2>1, <2>2, <2>4, <2>6
<1>6. m \in Nat /\ k \in Nat /\ \A j \in 1..m : Common[j] \in Printable
  BY <1>3, <1>4, <1>5
<1> HIDE DEF m, k
<1>7. end \in Nat /\ len \in Nat /\ end = WordEnd + (m - k) /\ len = prompt_len + (m - k)
      /\ end <= len /\ WordEnd < end
  BY <1>1, <1>2, <1>3, <1>4, <1>6
<1> HIDE DEF end, len
<1>8. ASSUME NEW i \in 0..(Size - 1)
      PROVE  prompt_buf'[i] = IF i < WordStart \/ i >= len THEN prompt_buf[i]
                              ELSE IF i < end THEN Common[i - WordStart + 1]
                              ELSE prompt_buf[i - end + WordEnd]
  BY <1>1
<1>9. ASSUME NEW i \in 0..(len - 1)
      PROVE  /\ i < WordEnd => prompt_buf'[i] = prompt_buf[i]
             /\ i >= WordStart /\ i < end => prompt_buf'[i] = Common[i - WordStart + 1]
             /\ i >= end => prompt_buf'[i] = prompt_buf[i - (m - k)]
             /\ prompt_buf'[i] \in Printable
  <2>1. i \in 0..(Size - 1) /\ i < len
    BY <1>1, <1>2, <1>7
  <2>2. CASE i < WordStart
    <3>1. prompt_buf'[i] = prompt_buf[i] /\ i \in 0..(prompt_len - 1)
      BY <1>2, <1>3, <1>8, <2>1, <2>2
    <3> QED
      BY <1>2, <1>3, <1>7, <2>2, <3>1
  <2>3. CASE i >= WordStart /\ i < end
    <3>1. prompt_buf'[i] = Common[i - WordStart + 1]
      <4>1. ~(i < WordStart \/ i >= len)
        BY <1>3, <1>7, <2>1, <2>3
      <4>2. prompt_buf'[i] = IF i < end THEN Common[i - WordStart + 1]
                             ELSE prompt_buf[i - end + WordEnd]
        BY <1>8, <2>1, <4>1, Zenon
      <4> QED
        BY <2>3, <4>2, Zenon
    <3>2. i - WordStart + 1 \in 1..m
      BY <1>3, <1>6, <2>3 DEF end
    <3>3. ASSUME i < WordEnd PROVE Common[i - WordStart + 1] = prompt_buf[i]
      <4>1. i - WordStart + 1 \in 1..(WordEnd - WordStart)
            /\ WordStart + (i - WordStart + 1) - 1 = i
        BY <1>2, <1>3, <2>3, <3>3
      <4>2. Common[i - WordStart + 1] = Search[i - WordStart + 1]
        BY <1>4, <1>5, <4>1
      <4>3. Search[i - WordStart + 1] = prompt_buf[i]
        BY <1>4, <4>1
      <4> QED
        BY <4>2, <4>3, Zenon
    <3> QED
      BY <1>6, <1>7, <2>3, <3>1, <3>2, <3>3
  <2>4. CASE i >= end
    <3>1. i - end + WordEnd = i - (m - k) /\ i - (m - k) \in 0..(prompt_len - 1)
          /\ ~(i < WordStart \/ i >= len) /\ ~(i < end)
      BY <1>2, <1>3, <1>6, <1>7, <2>1, <2>4
    <3>2. prompt_buf'[i] = prompt_buf[i - end + WordEnd]
      BY <1>8, <2>1, <3>1
    <3> QED
      BY <1>2, <1>3, <1>7, <2>4, <3>1, <3>2
  <2> QED
    BY <1>3, <1>7, <2>2, <2>3, <2>4
<1>10. prompt_buf' \in Buffer
  <2>1. prompt_buf \in Buffer
    BY DEF PInv, LineInv
  <2>2. ASSUME NEW i \in 0..(Size - 1) PROVE prompt_buf'[i] \in Typed
    <3>1. CASE i < len
      BY <1>7, <1>9, <3>1 DEF Typed
    <3>2. CASE i >= len
      <4>1. prompt_buf'[i] = prompt_buf[i]
        BY <1>8, <3>2
      <4> QED
        BY <2>1, <4>1 DEF Buffer
    <3> QED
      BY <1>7, <3>1, <3>2
  <2>3. prompt_buf' = [i \in 0..(Size - 1) |-> prompt_buf'[i]]
    BY <1>1
  <2> QED
    BY <2>2, <2>3 DEF Buffer
<1>11. column' = end
  BY <1>1, <1>2, <1>7
<1> QED
  <2>1. /\ m - k \in Nat /\ m - k > 0 /\ end = WordEnd + (m - k)
        /\ prompt_len' = prompt_len + (m - k) /\ prompt_len' < Size
    BY <1>1, <1>6, <1>7
  <2>2. /\ \A i \in 0..(prompt_len' - 1) :
             /\ i < WordEnd => prompt_buf'[i] = prompt_buf[i]
             /\ i >= WordStart /\ i < end => prompt_buf'[i] = Common[i - WordStart + 1]
             /\ i >= end => prompt_buf'[i] = prompt_buf[i - (m - k)]
        /\ \A i \in 0..(prompt_len' - 1) : prompt_buf'[i] \in Printable
    BY <1>1, <1>9
  <2>3. prompt_cursor' = end /\ stale' = (stale \/ WordEnd < prompt_len)
    BY <1>1
  <2> QED
    BY <1>10, <1>11, <2>1, <2>2, <2>3, Zenon DEF m, k, end

\* A name, or what several names start with, is in the place of the word.
LEMMA CompleteKey ==
  ASSUME PInv, Complete
  PROVE  PInv' /\ Editor!Edit
<1> DEFINE more == Len(Common) - Len(Search)
           end == WordStart + Len(Common)
           ws == WordStart
           we == WordEnd
<1>1. editing /\ editing' = editing /\ UNCHANGED <<prompt_index, got>> /\ Found # {}
      /\ cells' = Printed(column, SubSeq(Common, prompt_cursor - ws + 1, Len(Common)))
  BY DEF Complete, Key
<1>2. /\ prompt_len \in Nat /\ prompt_cursor \in Nat /\ prompt_cursor <= prompt_len
      /\ prompt_len < Size /\ Size \in Nat /\ prompt_index = 0 /\ column = prompt_cursor
      /\ prompt_cursor \in 0..Len(cells) /\ cells \in Seq(Printable)
      /\ \A i \in 0..(prompt_len - 1) : prompt_buf[i] \in Printable
      /\ \A i \in 1..prompt_cursor : cells[i] = prompt_buf[i - 1]
      /\ \A i \in DOMAIN cells : i > prompt_len => cells[i] = Space
  BY <1>1, Editing
<1>3. ws \in 0..prompt_cursor /\ we \in prompt_cursor..prompt_len
  BY <1>1, WordBounds DEF PInv
<1>4. /\ more \in Nat /\ more > 0 /\ end = we + more
      /\ prompt_len' = prompt_len + more /\ prompt_len' < Size /\ prompt_cursor' = end
      /\ column' = end /\ stale' = (stale \/ we < prompt_len)
      /\ prompt_buf' \in Buffer
  BY CompletedLine
<1>5. /\ \A i \in 0..(prompt_len' - 1) :
           /\ i < we => prompt_buf'[i] = prompt_buf[i]
           /\ i >= ws /\ i < end => prompt_buf'[i] = Common[i - ws + 1]
           /\ i >= end => prompt_buf'[i] = prompt_buf[i - more]
      /\ \A i \in 0..(prompt_len' - 1) : prompt_buf'[i] \in Printable
  BY CompletedLine
<1>6. Common \in Seq(Printable) /\ Search \in Seq(Printable) /\ Len(Search) = we - ws
      /\ Len(Common) = end - ws
  <2>1. Common \in Seq(Printable) /\ Search \in Seq(Printable) /\ Len(Search) = we - ws
    BY <1>1, CommonIs, SearchIs DEF PInv
  <2> QED
    BY <1>2, <1>3, <2>1
<1>name. PICK f \in File : \E n \in 0..Len(f) :
        /\ f \in Seq(Printable) /\ StartsWith(f, Search)
        /\ Common = SubSeq(f, 1, n) /\ Len(Common) = n
        /\ \A j \in 1..n : Common[j] = f[j]
  BY <1>1, CommonIs, Zenon DEF PInv
<1>7. PICK n \in 0..Len(f) :
        /\ f \in Seq(Printable) /\ StartsWith(f, Search)
        /\ Common = SubSeq(f, 1, n) /\ Len(Common) = n
        /\ \A j \in 1..n : Common[j] = f[j]
  BY <1>name
<1>8. Len(Search) = Len(Common) - more
  BY <1>6
<1> HIDE DEF more, end, ws, we
<1> DEFINE s == SubSeq(Common, prompt_cursor - ws + 1, Len(Common))
<1>9. s \in Seq(Printable) /\ Len(s) = end - prompt_cursor
      /\ \A j \in 1..(end - prompt_cursor) : s[j] = Common[prompt_cursor - ws + j]
  <2>1. prompt_cursor - ws + 1 \in 1..(Len(Common) + 1) /\ Len(Common) \in Nat
    BY <1>2, <1>3, <1>4, <1>6
  <2>2. Len(Common) - (prompt_cursor - ws + 1) + 1 = end - prompt_cursor
    BY <1>2, <1>3, <1>4, <1>6
  <2> QED
    BY <1>2, <1>3, <1>4, <1>6, <2>1, <2>2
<1> HIDE DEF s
<1>10. /\ cells' \in Seq(Printable)
       /\ Len(cells') = IF end > Len(cells) THEN end ELSE Len(cells)
       /\ \A i \in DOMAIN cells' :
            /\ i > prompt_cursor /\ i <= end =>
                 i - prompt_cursor \in 1..(end - prompt_cursor) /\ cells'[i] = s[i - prompt_cursor]
            /\ i <= prompt_cursor \/ i > end => i \in DOMAIN cells /\ cells'[i] = cells[i]
  <2>1. cells' = Printed(prompt_cursor, s)
    BY <1>1, <1>2, Zenon DEF s
  <2>2. prompt_cursor + Len(s) = end
    BY <1>2, <1>3, <1>4, <1>9
  <2>3. /\ cells' \in Seq(Printable)
        /\ Len(cells') = IF prompt_cursor + Len(s) > Len(cells) THEN prompt_cursor + Len(s)
                         ELSE Len(cells)
        /\ \A i \in DOMAIN cells' :
             /\ i > prompt_cursor /\ i <= prompt_cursor + Len(s) =>
                  i - prompt_cursor \in 1..Len(s) /\ cells'[i] = s[i - prompt_cursor]
             /\ i <= prompt_cursor \/ i > prompt_cursor + Len(s) =>
                  i \in DOMAIN cells /\ cells'[i] = cells[i]
    BY <1>2, <1>9, <2>1, PrintedIs
  <2> QED
    BY <1>9, <2>2, <2>3
<1>11. ASSUME NEW i \in DOMAIN cells'
       PROVE  /\ i <= end => cells'[i] = prompt_buf'[i - 1]
              /\ i > end => i \in DOMAIN cells /\ cells'[i] = cells[i]
  <2>1. i \in Nat /\ i >= 1
    BY <1>10
  <2>2. CASE i <= prompt_cursor
    <3>1. i - 1 \in 0..(prompt_len' - 1) /\ i - 1 < we /\ i \in 1..prompt_cursor /\ i <= end
      BY <1>2, <1>3, <1>4, <2>1, <2>2
    <3>2. cells'[i] = cells[i] /\ cells[i] = prompt_buf[i - 1]
      BY <1>2, <1>10, <2>2, <3>1
    <3>3. prompt_buf'[i - 1] = prompt_buf[i - 1]
      BY <1>5, <3>1
    <3> QED
      BY <1>3, <1>4, <2>1, <3>1, <3>2, <3>3
  <2>3. CASE i > prompt_cursor /\ i <= end
    <3>1. /\ i - 1 \in 0..(prompt_len' - 1) /\ i - 1 >= ws /\ i - 1 < end
          /\ i - prompt_cursor \in 1..(end - prompt_cursor)
          /\ prompt_cursor - ws + (i - prompt_cursor) = i - 1 - ws + 1
      BY <1>2, <1>3, <1>4, <2>1, <2>3
    <3>2. cells'[i] = s[i - prompt_cursor]
      BY <1>10, <2>3
    <3>3. s[i - prompt_cursor] = Common[prompt_cursor - ws + (i - prompt_cursor)]
      BY <1>9, <3>1
    <3>4. prompt_buf'[i - 1] = Common[i - 1 - ws + 1]
      BY <1>5, <3>1
    <3>5. cells'[i] = prompt_buf'[i - 1]
      BY <3>1, <3>2, <3>3, <3>4, Zenon
    <3> QED
      BY <1>3, <1>4, <2>1, <2>3, <3>5
  <2>4. CASE i > end
    BY <1>3, <1>4, <1>10, <2>1, <2>4
  <2> QED
    BY <1>2, <1>3, <1>4, <2>1, <2>2, <2>3, <2>4
<1>12. LineInv'
  <2>1. prompt_len' \in 0..Size /\ prompt_cursor' \in Nat /\ prompt_cursor' <= prompt_len'
        /\ column' \in Int /\ stale' \in BOOLEAN
    BY <1>2, <1>3, <1>4 DEF PInv, LineInv
  <2> QED
    BY <1>1, <1>2, <1>4, <1>5, <1>10, <2>1 DEF PInv, LineInv
<1>13. ShowsTheLine'
  <2>1. stale \in BOOLEAN /\ stale' \in BOOLEAN
    BY <1>4 DEF PInv, LineInv
  <2>2. ASSUME ~stale' PROVE prompt_len' = end
    <3>1. ~(we < prompt_len)
      BY <1>4, <2>2, Zenon
    <3> QED
      BY <1>2, <1>3, <1>4, <3>1
  <2>3. Len(cells') >= IF stale' THEN end ELSE prompt_len'
    BY <1>2, <1>3, <1>4, <1>10, <2>1, <2>2
  <2>4. ASSUME NEW i \in DOMAIN cells'
        PROVE  /\ i <= prompt_len' /\ (~stale' \/ i <= end) => cells'[i] = prompt_buf'[i - 1]
               /\ i > prompt_len' => cells'[i] = Space
    <3>1. i \in Nat
      BY <1>10
    <3>2. i <= prompt_len' /\ (~stale' \/ i <= end) => i <= end
      BY <2>1, <2>2
    <3>3. i > prompt_len' => i > end /\ i > prompt_len
      BY <1>2, <1>3, <1>4, <3>1
    <3> QED
      BY <1>2, <1>11, <3>2, <3>3
  <2> QED
    BY <1>4, <2>3, <2>4 DEF ShowsTheLine
<1>14. Editor!Edit
  <2> DEFINE line == Part(prompt_buf, 0, prompt_len)
             after == Part(prompt_buf', 0, prompt_len')
             rest == SubSeq(f, n - more + 1, n)
             whole == Editor!Insert(line, we, rest)
  <2>1. line \in Seq(Printable) /\ Len(line) = prompt_len
        /\ \A i \in 1..prompt_len : line[i] = prompt_buf[i - 1]
    BY <1>2, LineIs
  <2>2. after \in Seq(Printable) /\ Len(after) = prompt_len'
        /\ \A i \in 1..prompt_len' : after[i] = prompt_buf'[i - 1]
    <3>1. prompt_len' \in Nat
      BY <1>2, <1>4
    <3> QED
      BY <1>5, <3>1, LineIs
  <2>3. /\ n \in Nat /\ n - more + 1 \in 1..Len(f) /\ n \in 1..Len(f) /\ n = end - ws
        /\ n - more = we - ws
    BY <1>2, <1>3, <1>4, <1>6, <1>7, <1>8
  <2>4. rest \in Added
    <3> DEFINE parts(g) == {SubSeq(g, i, j) : i, j \in 1..Len(g)}
    <3>1. rest \in parts(f)
      BY <2>3
    <3>2. parts(f) \in {parts(g) : g \in File}
      OBVIOUS
    <3>3. Added = UNION {parts(g) : g \in File}
      BY DEF Added
    <3> HIDE DEF parts
    <3> QED
      BY <3>1, <3>2, <3>3
  <2>5. rest \in Seq(Printable) /\ Len(rest) = more
        /\ \A j \in 1..more : rest[j] = f[n - more + j]
    <3>1. n - (n - more + 1) + 1 = more /\ more \in Nat /\ n - more + 1 \in 1..Len(f) /\ n \in 1..Len(f)
      BY <1>4, <2>3
    <3>2. f \in Seq(Printable)
      BY <1>7
    <3>3. /\ rest \in Seq(Printable) /\ Len(rest) = n - (n - more + 1) + 1
          /\ \A j \in 1..(n - (n - more + 1) + 1) : rest[j] = f[(n - more + 1) + j - 1]
      <4> DEFINE a == n - more + 1
      <4>1. a \in 1..Len(f) /\ n \in 1..Len(f) /\ n - a + 1 \in Nat
        BY <3>1
      <4> HIDE DEF a
      <4>2. /\ SubSeq(f, a, n) \in Seq(Printable) /\ Len(SubSeq(f, a, n)) = n - a + 1
            /\ \A j \in 1..(n - a + 1) : SubSeq(f, a, n)[j] = f[a + j - 1]
        BY <3>2, <4>1
      <4> QED
        BY <4>2, Zenon DEF a
    <3>4. \A j \in 1..more : f[(n - more + 1) + j - 1] = f[n - more + j]
      <4> TAKE j \in 1..more
      <4>1. n \in Nat /\ more \in Nat /\ j \in Nat
        BY <2>3, <3>1
      <4>2. (n - more + 1) + j - 1 = n - more + j
        BY <4>1
      <4> QED
        BY <4>2, Zenon
    <3> HIDE DEF rest
    <3> QED
      BY <3>1, <3>3, <3>4, Zenon
  <2> HIDE DEF line, after, rest
  <2>6. we \in 0..Len(line) /\ Len(line) + Len(rest) = prompt_len'
    BY <1>2, <1>3, <1>4, <2>1, <2>5
  <2>7. /\ whole \in Seq(Printable) /\ Len(whole) = Len(line) + Len(rest)
        /\ \A i \in 1..(Len(line) + Len(rest)) :
             /\ i <= we => whole[i] = line[i]
             /\ i > we /\ i <= we + Len(rest) => whole[i] = rest[i - we]
             /\ i > we + Len(rest) => whole[i] = line[i - Len(rest)]
    BY <2>1, <2>5, <2>6, InsertIs
  <2> HIDE DEF whole
  <2>8. ASSUME NEW i \in 1..prompt_len' PROVE after[i] = whole[i]
    <3>1. i - 1 \in 0..(prompt_len' - 1) /\ i \in 1..(Len(line) + Len(rest))
          /\ we + Len(rest) = end /\ prompt_len' \in Nat
      BY <1>2, <1>3, <1>4, <2>5, <2>6
    <3>2. after[i] = prompt_buf'[i - 1]
      BY <2>2
    <3>3. CASE i <= we
      <4>1. i \in 1..prompt_len /\ i - 1 < we
        BY <1>2, <1>3, <3>1, <3>3
      <4>2. prompt_buf'[i - 1] = prompt_buf[i - 1]
        BY <1>5, <3>1, <4>1
      <4>3. whole[i] = line[i] /\ line[i] = prompt_buf[i - 1]
        BY <2>1, <2>7, <3>1, <3>3, <4>1
      <4> QED
        BY <3>2, <4>2, <4>3, Zenon
    <3>4. CASE i > we /\ i <= end
      <4>1. /\ i - 1 >= ws /\ i - 1 < end /\ i - we \in 1..more
            /\ n - more + (i - we) = i - 1 - ws + 1 /\ n - more + (i - we) \in 1..n
        BY <1>2, <1>3, <1>4, <2>3, <3>1, <3>4
      <4>2. prompt_buf'[i - 1] = Common[i - 1 - ws + 1]
        BY <1>5, <3>1, <4>1
      <4>3. whole[i] = rest[i - we]
        BY <2>7, <3>1, <3>4
      <4>4. rest[i - we] = f[n - more + (i - we)]
        BY <2>5, <4>1
      <4>5. f[n - more + (i - we)] = Common[n - more + (i - we)]
        BY <1>7, <4>1
      <4> QED
        BY <3>2, <4>1, <4>2, <4>3, <4>4, <4>5, Zenon
    <3>5. CASE i > end
      <4>1. i - 1 >= end /\ i - more \in 1..prompt_len /\ i - 1 - more = i - more - 1
        BY <1>2, <1>3, <1>4, <3>1, <3>5
      <4>2. prompt_buf'[i - 1] = prompt_buf[i - 1 - more]
        BY <1>5, <3>1, <4>1
      <4>3. whole[i] = line[i - more]
        BY <2>5, <2>7, <3>1, <3>5
      <4>4. line[i - more] = prompt_buf[i - more - 1]
        BY <2>1, <4>1
      <4> QED
        BY <3>2, <4>1, <4>2, <4>3, <4>4, Zenon
    <3> QED
      BY <1>2, <1>3, <1>4, <3>1, <3>3, <3>4, <3>5
  <2>9. after = whole
    BY <2>2, <2>6, <2>7, <2>8, SameText
  <2>10. we \in prompt_cursor..Len(line) /\ prompt_cursor' = we + Len(rest)
    BY <1>2, <1>3, <1>4, <2>1, <2>5
  <2>11. Editor!Complete(we, rest)
    BY <1>1, <2>9, <2>10, Zenon DEF Editor!Complete, whole, line, after
  <2> QED
    BY <1>1, <2>4, <2>10, <2>11, Zenon DEF Editor!Edit, line
<1> QED
  BY <1>12, <1>13, <1>14 DEF PInv
-----------------------------------------------------------------------------
(***************************************************************************)
(* The end of a line, and what is read of it.                              *)
(***************************************************************************)
\* Its first character and the others.
LEMMA PartFirst ==
  ASSUME NEW buf \in Buffer, NEW i \in Nat, NEW j \in 0..Size, i < j
  PROVE  /\ Part(buf, i, j) \in Seq(Typed) /\ Part(buf, i + 1, j) \in Seq(Typed)
         /\ buf[i] \in Typed /\ Part(buf, i, j) = <<buf[i]>> \o Part(buf, i + 1, j)
<1>1. Size \in Nat /\ i + 1 \in Nat /\ j \in Nat /\ i <= j /\ i + 1 <= j
  BY PromptAssumption
<1>2. \A k \in i..(j - 1) : buf[k] \in Typed
  BY <1>1 DEF Buffer
<1>3. \A k \in (i + 1)..(j - 1) : buf[k] \in Typed
  BY <1>1, <1>2
<1>4. buf[i] \in Typed
  BY <1>1, <1>2
<1>5. Part(buf, i, j) \in Seq(Typed)
  BY <1>1, <1>2, PartType
<1>6. Part(buf, i + 1, j) \in Seq(Typed)
  BY <1>1, <1>3, PartType
<1> DEFINE rest == Part(buf, i + 1, j)
<1>7. Len(rest) = j - (i + 1) /\ \A k \in 1..(j - (i + 1)) : rest[k] = buf[(i + 1) + k - 1]
  BY <1>1 DEF Part
<1>8. Len(Part(buf, i, j)) = j - i /\ \A k \in 1..(j - i) : Part(buf, i, j)[k] = buf[i + k - 1]
  BY <1>1 DEF Part
<1> HIDE DEF rest
<1>9. rest \in Seq(Typed)
  BY <1>6 DEF rest
<1>10. /\ <<buf[i]>> \o rest \in Seq(Typed) /\ Len(<<buf[i]>> \o rest) = j - i
       /\ (<<buf[i]>> \o rest)[1] = buf[i]
       /\ \A k \in 2..(j - i) : (<<buf[i]>> \o rest)[k] = rest[k - 1]
  BY <1>1, <1>4, <1>7, <1>9
<1>11. ASSUME NEW k \in 1..(j - i) PROVE Part(buf, i, j)[k] = (<<buf[i]>> \o rest)[k]
  <2>1. CASE k = 1
    BY <1>1, <1>8, <1>10, <2>1
  <2>2. CASE k # 1
    <3>1. k \in 2..(j - i) /\ k - 1 \in 1..(j - (i + 1)) /\ (i + 1) + (k - 1) - 1 = i + k - 1
      BY <1>1, <2>2
    <3> QED
      BY <1>7, <1>8, <1>10, <3>1
  <2> QED
    BY <2>1, <2>2
<1>12. Part(buf, i, j) = <<buf[i]>> \o rest
  BY <1>5, <1>8, <1>10, <1>11, SameText
<1> QED
  BY <1>4, <1>5, <1>6, <1>12 DEF rest

\* Its last character and the others.
LEMMA PartLast ==
  ASSUME NEW buf \in Buffer, NEW n \in 0..(Size - 1), NEW c \in Typed
  PROVE  /\ Part(buf, 0, n) \in Seq(Typed) /\ Len(Part(buf, 0, n)) = n
         /\ Part([buf EXCEPT ![n] = c], 0, n + 1) = Part(buf, 0, n) \o <<c>>
<1> DEFINE new == [buf EXCEPT ![n] = c]
<1>1. Size \in Nat /\ n \in Nat /\ n + 1 \in Nat /\ 0 <= n /\ 0 <= n + 1
  BY PromptAssumption
<1>2. new \in Buffer /\ new[n] = c /\ \A k \in 0..(n - 1) : new[k] = buf[k]
  BY <1>1 DEF Buffer
<1> HIDE DEF new
<1>3. (\A k \in 0..(n - 1) : buf[k] \in Typed) /\ \A k \in 0..((n + 1) - 1) : new[k] \in Typed
  BY <1>1, <1>2 DEF Buffer
<1>4. Part(buf, 0, n) \in Seq(Typed)
  BY <1>1, <1>3, PartType
<1>5. Part(new, 0, n + 1) \in Seq(Typed)
  BY <1>1, <1>3, PartType
<1>6. Len(Part(buf, 0, n)) = n /\ \A k \in 1..n : Part(buf, 0, n)[k] = buf[k - 1]
  BY <1>1 DEF Part
<1>7. Len(Part(new, 0, n + 1)) = n + 1 /\ \A k \in 1..(n + 1) : Part(new, 0, n + 1)[k] = new[k - 1]
  BY <1>1 DEF Part
<1> DEFINE line == Part(buf, 0, n)
<1> HIDE DEF line
<1>8. /\ line \o <<c>> \in Seq(Typed) /\ Len(line \o <<c>>) = n + 1
      /\ (line \o <<c>>)[n + 1] = c
      /\ \A k \in 1..n : (line \o <<c>>)[k] = line[k]
  BY <1>1, <1>4, <1>6 DEF line
<1>9. ASSUME NEW k \in 1..(n + 1) PROVE Part(new, 0, n + 1)[k] = (line \o <<c>>)[k]
  <2>1. CASE k = n + 1
    <3>1. k - 1 = n
      BY <1>1, <2>1
    <3> QED
      BY <1>2, <1>7, <1>8, <2>1, <3>1
  <2>2. CASE k # n + 1
    <3>1. k \in 1..n /\ k - 1 \in 0..(n - 1)
      BY <1>1, <2>2
    <3> QED
      BY <1>2, <1>6, <1>7, <1>8, <3>1 DEF line
  <2> QED
    BY <2>1, <2>2
<1>10. Part(new, 0, n + 1) = line \o <<c>>
  BY <1>5, <1>7, <1>8, <1>9, SameText
<1> QED
  BY <1>4, <1>6, <1>10 DEF line, new

LEMMA EnterKey ==
  ASSUME PInv, Enter
  PROVE  PInv' /\ Editor!Send
<1>1. /\ editing /\ editing' = FALSE /\ prompt_len' = prompt_len + 1
      /\ prompt_buf' = [prompt_buf EXCEPT ![prompt_len] = Newline]
      /\ UNCHANGED <<prompt_index, got, prompt_cursor, cells, column, stale>>
  BY DEF Enter, Key, Done
<1>2. /\ prompt_len \in Nat /\ prompt_len < Size /\ Size \in Nat /\ prompt_index = 0
      /\ prompt_buf \in Buffer /\ got \in Seq(Typed) /\ Newline \in Typed
  BY <1>1, Editing DEF PInv, LineInv, Typed
<1>3. LineInv'
  <2>1. prompt_buf' \in Buffer
    BY <1>1, <1>2 DEF Buffer
  <2>2. prompt_len' \in 0..Size /\ prompt_index' \in Nat /\ got' \in Seq(Typed)
    BY <1>1, <1>2
  <2>3. /\ prompt_cursor \in Nat /\ stale \in BOOLEAN /\ cells \in Seq(Printable)
        /\ column \in Int
    BY DEF PInv, LineInv
  <2> QED
    BY <1>1, <2>1, <2>2, <2>3 DEF LineInv
<1>4. ShowsTheLine'
  BY <1>1 DEF ShowsTheLine
<1>5. Editor!Send
  <2> DEFINE line == Part(prompt_buf, 0, prompt_len)
  <2>1. line \in Seq(Typed) /\ Part(prompt_buf', 0, prompt_len + 1) = line \o <<Newline>>
    <3>1. prompt_len \in 0..(Size - 1)
      BY <1>2
    <3> QED
      BY <1>1, <1>2, <3>1, PartLast
  <2>2. got \o (line \o <<Newline>>) = got \o line \o <<Newline>>
    <3> HIDE DEF line
    <3> QED
      BY <1>2, <2>1
  <2>3. Part(prompt_buf', prompt_index', prompt_len') = line \o <<Newline>>
    BY <1>1, <1>2, <2>1, Zenon
  <2> QED
    BY <1>1, <2>2, <2>3 DEF Editor!Send
<1> QED
  BY <1>3, <1>4, <1>5 DEF PInv

LEMMA CtrlDKey ==
  ASSUME PInv, CtrlD
  PROVE  PInv' /\ Editor!Send
<1>1. /\ editing /\ editing' = FALSE /\ prompt_len = 0 /\ prompt_len' = 1
      /\ prompt_buf' = [prompt_buf EXCEPT ![0] = Nul]
      /\ UNCHANGED <<prompt_index, got, prompt_cursor, cells, column, stale>>
  BY DEF CtrlD, Key, Done
<1>2. /\ Size \in Nat /\ 0 \in 0..(Size - 1) /\ prompt_index = 0
      /\ prompt_buf \in Buffer /\ got \in Seq(Typed) /\ Nul \in Typed
  BY <1>1, Editing DEF PInv, LineInv, Typed
<1>3. LineInv'
  <2>1. prompt_buf' \in Buffer
    BY <1>1, <1>2 DEF Buffer
  <2>2. prompt_len' \in 0..Size /\ prompt_index' \in Nat /\ got' \in Seq(Typed)
    BY <1>1, <1>2
  <2>3. /\ prompt_cursor \in Nat /\ stale \in BOOLEAN /\ cells \in Seq(Printable)
        /\ column \in Int
    BY DEF PInv, LineInv
  <2> QED
    BY <1>1, <2>1, <2>2, <2>3 DEF LineInv
<1>4. ShowsTheLine'
  BY <1>1 DEF ShowsTheLine
<1>5. Editor!Send
  <2>1. Part(prompt_buf, 0, 0) = <<>>
    BY PartEmpty
  <2>2. Part(prompt_buf', 0, 0 + 1) = Part(prompt_buf, 0, 0) \o <<Nul>>
    BY <1>1, <1>2, PartLast
  <2>3. Part(prompt_buf', prompt_index', prompt_len') = <<Nul>>
    <3>1. <<>> \o <<Nul>> = <<Nul>> /\ 0 + 1 = prompt_len' /\ prompt_index' = 0
      BY <1>1, <1>2
    <3> QED
      BY <2>1, <2>2, <3>1, Zenon
  <2> QED
    BY <1>1, <2>1, <2>3 DEF Editor!Send
<1> QED
  BY <1>3, <1>4, <1>5 DEF PInv

LEMMA DoPromptStep ==
  ASSUME PInv, DoPrompt
  PROVE  PInv' /\ UNCHANGED Editor!vars
<1>1. /\ ~editing /\ prompt_index >= prompt_len /\ editing' = TRUE
      /\ prompt_index' = 0 /\ prompt_cursor' = 0 /\ prompt_len' = 0
      /\ cells' = <<>> /\ column' = 0 /\ stale' = FALSE /\ UNCHANGED <<prompt_buf, got>>
  BY DEF DoPrompt
<1>2. /\ Size \in Nat \ {0, 1} /\ prompt_len \in Nat /\ prompt_index \in Nat /\ got \in Seq(Typed)
      /\ prompt_buf \in Buffer /\ editing \in BOOLEAN
  BY PromptAssumption DEF PInv, LineInv
<1>3. LineInv'
  <2>1. cells' \in Seq(Printable) /\ prompt_buf' \in Buffer /\ got' \in Seq(Typed)
        /\ prompt_len' \in 0..Size /\ column' \in Int
    BY <1>1, <1>2
  <2>2. \A i \in 0..(prompt_len' - 1) : prompt_buf'[i] \in Printable
    BY <1>1
  <2>3. /\ prompt_len' < Size /\ prompt_cursor' \in Nat /\ prompt_cursor' <= prompt_len'
        /\ prompt_index' = 0 /\ prompt_index' \in Nat
    BY <1>1, <1>2
  <2>4. editing' \in BOOLEAN /\ stale' \in BOOLEAN
    BY <1>1, Zenon
  <2> QED
    BY <2>1, <2>2, <2>3, <2>4 DEF LineInv
<1>4. ShowsTheLine'
  BY <1>1 DEF ShowsTheLine
<1>5. UNCHANGED Editor!vars
  <2>1. Part(prompt_buf', 0, 0) = <<>> /\ Part(prompt_buf, prompt_index, prompt_len) = <<>>
    <3>1. Part(prompt_buf', 0, 0) = <<>>
      BY PartEmpty
    <3> QED
      BY <1>1, <1>2, <3>1, PartEmpty
  <2>2. got \o <<>> = got
    BY <1>2
  <2> QED
    BY <1>1, <2>1, <2>2 DEF Editor!vars
<1> QED
  BY <1>3, <1>4, <1>5 DEF PInv

LEMMA GetcStep ==
  ASSUME PInv, Getc
  PROVE  PInv' /\ Editor!Receive
<1>1. /\ ~editing /\ prompt_index < prompt_len /\ prompt_index' = prompt_index + 1
      /\ got' = Append(got, prompt_buf[prompt_index])
      /\ UNCHANGED <<prompt_buf, prompt_len, prompt_cursor, editing, cells, column, stale>>
  BY DEF Getc
<1>2. /\ prompt_len \in 0..Size /\ prompt_index \in Nat /\ got \in Seq(Typed)
      /\ prompt_buf \in Buffer /\ editing' = FALSE /\ editing = FALSE
  BY <1>1 DEF PInv, LineInv
<1> DEFINE c == prompt_buf[prompt_index]
           left == Part(prompt_buf, prompt_index, prompt_len)
           rest == Part(prompt_buf, prompt_index + 1, prompt_len)
<1>3. left \in Seq(Typed) /\ rest \in Seq(Typed) /\ c \in Typed /\ left = <<c>> \o rest
  BY <1>1, <1>2, PartFirst
<1>4. LineInv'
  BY <1>1, <1>2, <1>3 DEF PInv, LineInv
<1>5. ShowsTheLine'
  BY <1>1 DEF ShowsTheLine
<1>6. Editor!Receive
  <2> HIDE DEF c, left, rest
  <2>1. /\ Append(got, c) \o rest = got \o left
        /\ Len(got) < Len(got \o left) /\ (got \o left)[Len(got) + 1] = c
    <3>1. got \in Seq(Typed) /\ rest \in Seq(Typed) /\ c \in Typed /\ left \in Seq(Typed)
      BY <1>2, <1>3
    <3>2. left = <<c>> \o rest
      BY <1>3
    <3>3. Len(left) >= 1 /\ left[1] = c
      BY <3>1, <3>2
    <3>4. Len(got) < Len(got \o left) /\ (got \o left)[Len(got) + 1] = c
      BY <3>1, <3>3
    <3>5. Append(got, c) \o rest = got \o (<<c>> \o rest)
      BY <3>1
    <3> QED
      BY <3>2, <3>4, <3>5, Zenon
  <2>2. got' = Append(got, c) /\ Part(prompt_buf', prompt_index', prompt_len') = rest
        /\ Part(prompt_buf, prompt_index, prompt_len) = left
    BY <1>1 DEF c, left, rest
  <2> QED
    BY <1>1, <1>2, <2>1, <2>2 DEF Editor!Receive
<1> QED
  BY <1>4, <1>5, <1>6 DEF PInv
-----------------------------------------------------------------------------
(***************************************************************************)
(* The prompt.                                                             *)
(***************************************************************************)
LEMMA PromptStep ==
  ASSUME PInv, [PromptNext]_promptVars
  PROVE  PInv' /\ [Editor!Next]_Editor!vars
<1>1. CASE Insert
  BY <1>1, InsertKey DEF Editor!Next
<1>2. CASE Backspace
  BY <1>2, BackspaceKey DEF Editor!Next
<1>3. CASE Arrow
  BY <1>3, ArrowKey DEF Editor!Next
<1>4. CASE ListNames
  BY <1>4, ListNamesKey DEF Editor!Next
<1>5. CASE Complete
  BY <1>5, CompleteKey DEF Editor!Next
<1>6. CASE Enter
  BY <1>6, EnterKey DEF Editor!Next
<1>7. CASE CtrlD
  BY <1>7, CtrlDKey DEF Editor!Next
<1>8. CASE DoPrompt
  BY <1>8, DoPromptStep
<1>9. CASE Getc
  BY <1>9, GetcStep DEF Editor!Next
<1>10. CASE UNCHANGED promptVars
  <2>1. UNCHANGED <<prompt_buf, prompt_len, prompt_cursor, prompt_index, editing, cells, column,
                    stale, got>>
    BY <1>10 DEF promptVars
  <2>2. UNCHANGED Editor!vars
    BY <2>1, Zenon DEF Editor!vars
  <2>3. PInv'
    BY <2>1 DEF PInv, LineInv, ShowsTheLine
  <2> QED
    BY <2>2, <2>3
<1> QED
  BY <1>1, <1>2, <1>3, <1>4, <1>5, <1>6, <1>7, <1>8, <1>9, <1>10 DEF PromptNext, Press

LEMMA EditorInit == PromptInit => Editor!Init
<1> SUFFICES ASSUME PromptInit PROVE Editor!Init
  OBVIOUS
<1>1. Part(prompt_buf, 0, 0) = <<>>
  BY PartEmpty
<1>2. editing = FALSE /\ got = <<>> /\ prompt_index = 0 /\ prompt_len = 0
  BY DEF PromptInit
<1>3. <<>> \o Part(prompt_buf, prompt_index, prompt_len) = <<>>
  BY <1>1, <1>2
<1> QED
  BY <1>2, <1>3 DEF Editor!Init

\* By the way TashInput joins the two, the lexer leaves the prompt alone but for
\* calling prompt_getc(): what is proved of PromptSpec holds of InputSpec.
LEMMA PromptOfTheShell == InputSpec => PromptSpec
<1>1. InputInit => PromptInit
  BY DEF InputInit
<1>2. [InputNext]_<<vars, promptVars>> => [PromptNext]_promptVars
  <2> SUFFICES ASSUME [InputNext]_<<vars, promptVars>>
               PROVE  [PromptNext]_promptVars
    OBVIOUS
  <2>1. CASE Lex
    BY <2>1 DEF Lex
  <2>2. CASE PromptGetc
    BY <2>2 DEF PromptGetc, PromptNext
  <2>3. CASE Types
    BY <2>3 DEF Types, PromptNext
  <2>4. CASE UNCHANGED <<vars, promptVars>>
    BY <2>4
  <2> QED
    BY <2>1, <2>2, <2>3, <2>4 DEF InputNext
<1> QED
  BY <1>1, <1>2, PTL DEF InputSpec, PromptSpec

\* What is kept by every key, by do_prompt() and by prompt_getc() (PInv): the
\* indices stay within the buffer, and the screen shows what lies between them.
THEOREM PromptInvariant == PromptSpec => []PInv
<1>1. PromptInit => PInv
  BY PInit
<1>2. PInv /\ [PromptNext]_promptVars => PInv'
  BY PromptStep
<1> QED
  BY <1>1, <1>2, PTL DEF PromptSpec

\* While a line is edited the screen shows it, with the cursor where it is in the
\* line: after any insertions, deletions, movements and completions, for a buffer of
\* any size and any names.
THEOREM ScreenShowsTheLine == InputSpec => []ShowsTheLine
<1>1. PInv => ShowsTheLine
  BY DEF PInv
<1> QED
  BY <1>1, PromptOfTheShell, PromptInvariant, PTL

\* The prompt implements LineEditor: what is typed and edited before Enter reaches
\* the shell as it stood, in order and once; DoPrompt is a stutter.
THEOREM LinesAreEdited == InputSpec => EditsLines
<1>1. PInv /\ [PromptNext]_promptVars => [Editor!Next]_Editor!vars
  BY PromptStep
<1>2. PromptSpec => Editor!Spec
  BY <1>1, EditorInit, PromptInvariant, PTL DEF PromptSpec, Editor!Spec
<1> QED
  BY <1>2, PromptOfTheShell, PTL DEF EditsLines

-----------------------------------------------------------------------------
(***************************************************************************)
(* The lexer.                                                              *)
(***************************************************************************)
Ends == {None, ")", "}", "backtick"}
CallType == [end : Ends, sub : Nat, quote : {None, "quote", "dquote"},
             after : {None, "backslash", "$"}]
TokenType == [type : Seq(Char \cup {"word"}), digit : Char \cup {None}, value : Seq(Char \cup Mark),
              quoted : BOOLEAN, from : Nat, to : Nat]
At == {"blanks", "comment", "second", "word", "end", "failed"}

\* how many characters have been taken and not put back
Used == Len(seen) - (IF unget = None THEN 0 ELSE 1)

\* calls of get_word_helper: all but the first one are for something that ends, and
\* all but the last one wait for the next one
Calls(fs) ==
  /\ fs \in Seq(CallType) /\ fs # <<>> /\ fs[1].end = None
  /\ \A i \in DOMAIN fs : i > 1 => fs[i].end # None
  /\ \A i \in DOMAIN fs : i < Len(fs) => fs[i].after = None

LexerType ==
  /\ at \in At /\ hold \in Char \cup {None}
  /\ frames \in Seq(CallType) /\ token \in TokenType /\ tokens \in Seq(TokenType)

\* What is put back is the last character read.
Stands ==
  /\ seen \in Seq(Char \ {"eof"}) /\ eof \in BOOLEAN /\ unget \in Char \cup {None}
  /\ unget # "eof"
  /\ unget # None => ~eof /\ seen # <<>> /\ seen[Len(seen)] = unget

\* The lexer stands behind a character that it has taken: the one in hand, or the
\* one that made it look on.
LexerInv ==
  /\ LexerType /\ Stands
  /\ at = "comment" => unget = None /\ (eof \/ (seen # <<>> /\ seen[Len(seen)] # "nl"))
  /\ at = "second" =>
       /\ unget = None /\ ~eof /\ seen # <<>>
       /\ hold \notin {None, "nl", "eof"} /\ seen[Len(seen)] = hold
  /\ at = "word" =>
       /\ Calls(frames) /\ Used >= 1
       /\ hold # None => hold \notin {"nl", "eof"} /\ seen[Used] = hold /\ Top.after = None
       /\ Top.after = "backslash" => seen[Used] = "backslash"

\* A character has been taken, or the end of the input has been met.
Advanced(c) ==
  /\ seen' \in Seq(Char \ {"eof"}) /\ unget' = None
  /\ Len(seen) <= Len(seen') /\ \A i \in 1..Len(seen) : seen'[i] = seen[i]
  /\ c = "eof" => seen' = seen /\ eof' = TRUE /\ unget = None
  /\ c # "eof" => eof' = FALSE /\ eof = FALSE /\ Len(seen') = Used + 1 /\ seen'[Used + 1] = c

\* A character has been looked at.
Looked(c) ==
  /\ seen' \in Seq(Char \ {"eof"})
  /\ Len(seen) <= Len(seen') /\ \A i \in 1..Len(seen) : seen'[i] = seen[i]
  /\ c = "eof" => seen' = seen /\ eof' = TRUE /\ unget = None /\ unget' = None
  /\ c # "eof" => eof' = FALSE /\ eof = FALSE /\ Len(seen') = Used + 1 /\ seen'[Used + 1] = c
                    /\ unget' = c

LEMMA NoneIsNoChar == None \notin Char
  BY DEF None, Char, Delimiter, Wild, Digit, Ordinary, Blank

LEMMA GetIs ==
  ASSUME LexerInv, NEW c \in Char, Get(c)
  PROVE  Advanced(c)
<1>1. /\ seen \in Seq(Char \ {"eof"}) /\ eof \in BOOLEAN /\ unget \in Char \cup {None}
      /\ unget # "eof" /\ (unget # None => ~eof /\ seen # <<>> /\ seen[Len(seen)] = unget)
      /\ Len(seen) \in Nat
  BY DEF LexerInv, Stands
<1>2. /\ c \in Readable
      /\ seen' = IF eof \/ unget # None \/ c = "eof" THEN seen ELSE Append(seen, c)
      /\ eof' = (eof \/ (unget = None /\ c = "eof"))
      /\ unget' = IF eof THEN unget ELSE None
  BY Zenon DEF Get
<1> HIDE DEF Char
<1>3. CASE eof
  <2>1. c = "eof" /\ unget = None
    BY <1>1, <1>2, <1>3, Zenon DEF Readable
  <2>2. seen' = seen /\ unget' = None /\ eof' = TRUE
    BY <1>2, <1>3, <2>1, Zenon
  <2> QED
    BY <1>1, <2>1, <2>2 DEF Advanced
<1>4. CASE ~eof /\ unget # None
  <2>1. c = unget /\ c # "eof"
    BY <1>1, <1>2, <1>4, Zenon DEF Readable
  <2>2. seen' = seen /\ unget' = None /\ eof' = FALSE /\ eof = FALSE
    BY <1>1, <1>2, <1>4, <2>1, Zenon
  <2>3. Used = Len(seen) - 1
    BY <1>4, Zenon DEF Used
  <2>4. seen # <<>> /\ seen[Len(seen)] = c
    BY <1>1, <1>4, <2>1, Zenon
  <2> QED
    BY <1>1, <2>1, <2>2, <2>3, <2>4 DEF Advanced
<1>5. CASE ~eof /\ unget = None
  <2>1. CASE c = "eof"
    <3>1. seen' = seen /\ unget' = None /\ eof' = TRUE
      BY <1>2, <1>5, <2>1, Zenon
    <3> QED
      BY <1>1, <1>5, <2>1, <3>1 DEF Advanced
  <2>2. CASE c # "eof"
    <3>1. seen' = Append(seen, c) /\ unget' = None /\ eof' = FALSE /\ eof = FALSE
      BY <1>1, <1>2, <1>5, <2>2, Zenon
    <3>2. Used = Len(seen) - 0
      BY <1>5, Zenon DEF Used
    <3> QED
      BY <1>1, <2>2, <3>1, <3>2 DEF Advanced
  <2> QED
    BY <2>1, <2>2
<1> QED
  BY <1>1, <1>3, <1>4, <1>5

LEMMA PeekIs ==
  ASSUME LexerInv, NEW c \in Char, Peek(c)
  PROVE  Looked(c)
<1>1. /\ seen \in Seq(Char \ {"eof"}) /\ eof \in BOOLEAN /\ unget \in Char \cup {None}
      /\ unget # "eof" /\ (unget # None => ~eof /\ seen # <<>> /\ seen[Len(seen)] = unget)
      /\ Len(seen) \in Nat
  BY DEF LexerInv, Stands
<1>2. /\ c \in Readable
      /\ seen' = IF eof \/ unget # None \/ c = "eof" THEN seen ELSE Append(seen, c)
      /\ eof' = (eof \/ c = "eof")
      /\ unget' = IF eof THEN unget ELSE IF c = "eof" THEN None ELSE c
  BY Zenon DEF Peek, Unget
<1> HIDE DEF Char
<1>3. CASE eof
  <2>1. c = "eof" /\ unget = None
    BY <1>1, <1>2, <1>3, Zenon DEF Readable
  <2>2. seen' = seen /\ unget' = None /\ eof' = TRUE
    BY <1>2, <1>3, <2>1, Zenon
  <2> QED
    BY <1>1, <2>1, <2>2 DEF Looked
<1>4. CASE ~eof /\ unget # None
  <2>1. c = unget /\ c # "eof"
    BY <1>1, <1>2, <1>4, Zenon DEF Readable
  <2>2. seen' = seen /\ unget' = c /\ eof' = FALSE /\ eof = FALSE
    BY <1>1, <1>2, <1>4, <2>1, Zenon
  <2>3. Used = Len(seen) - 1
    BY <1>4, Zenon DEF Used
  <2>4. seen # <<>> /\ seen[Len(seen)] = c
    BY <1>1, <1>4, <2>1, Zenon
  <2> QED
    BY <1>1, <2>1, <2>2, <2>3, <2>4 DEF Looked
<1>5. CASE ~eof /\ unget = None
  <2>1. CASE c = "eof"
    <3>1. seen' = seen /\ unget' = None /\ eof' = TRUE
      BY <1>2, <1>5, <2>1, Zenon
    <3> QED
      BY <1>1, <1>5, <2>1, <3>1 DEF Looked
  <2>2. CASE c # "eof"
    <3>1. seen' = Append(seen, c) /\ unget' = c /\ eof' = FALSE /\ eof = FALSE
      BY <1>1, <1>2, <1>5, <2>2, Zenon
    <3>2. Used = Len(seen) - 0
      BY <1>5, Zenon DEF Used
    <3> QED
      BY <1>1, <2>2, <3>1, <3>2 DEF Looked
  <2> QED
    BY <2>1, <2>2
<1> QED
  BY <1>1, <1>3, <1>4, <1>5

LEMMA StillStands ==
  ASSUME LexerInv, NEW c \in Char, Advanced(c) \/ Looked(c)
  PROVE  Stands'
<1>1. unget' \in {None, c} /\ (unget' = c => c # "eof" \/ c = None)
  BY DEF Advanced, Looked, None
<1>2. seen' \in Seq(Char \ {"eof"})
  BY DEF Advanced, Looked
<1>3. eof' \in BOOLEAN
  BY Zenon DEF Advanced, Looked
<1>4. ASSUME unget' # None PROVE ~eof' /\ seen' # <<>> /\ seen'[Len(seen')] = unget'
  <2>1. eof' = FALSE /\ Len(seen') = Used + 1 /\ seen'[Used + 1] = c /\ unget' = c
    BY <1>4, Zenon DEF Advanced, Looked
  <2>2. Len(seen) \in Nat /\ ((Used + 1 = Len(seen) /\ Len(seen) >= 1) \/ Used + 1 = Len(seen) + 1)
    BY DEF Used, LexerInv, Stands
  <2>3. Len(seen') >= Len(seen)
    BY Zenon DEF Advanced, Looked
  <2> QED
    BY <1>2, <2>1, <2>2, <2>3
<1>5. unget' # "eof"
  BY <1>1 DEF Advanced, Looked, None
<1> QED
  BY <1>1, <1>2, <1>3, <1>4, <1>5 DEF Stands

LEMMA OneOf ==
  ASSUME NEW S, NEW c \in S
  PROVE  <<c>> \in Seq(S)
  OBVIOUS

LEMMA AllButLast ==
  ASSUME NEW S, NEW s \in Seq(S), Len(s) >= 1
  PROVE  /\ SubSeq(s, 1, Len(s) - 1) \in Seq(S) /\ Len(SubSeq(s, 1, Len(s) - 1)) = Len(s) - 1
         /\ \A i \in 1..(Len(s) - 1) : SubSeq(s, 1, Len(s) - 1)[i] = s[i]
<1>1. CASE Len(s) = 1
  <2>1. SubSeq(s, 1, Len(s) - 1) = <<>>
    BY <1>1
  <2> QED
    BY <1>1, <2>1
<1>2. CASE Len(s) > 1
  BY <1>2
<1>3. Len(s) = 1 \/ Len(s) > 1
  OBVIOUS
<1> QED
  BY <1>1, <1>2, <1>3, Zenon

LEMMA CallGoesOn ==
  ASSUME NEW fs, Calls(fs), NEW g \in CallType, g.end = fs[Len(fs)].end
  PROVE  LET new == SubSeq(fs, 1, Len(fs) - 1) \o <<g>>
         IN  Calls(new) /\ Len(new) = Len(fs) /\ new[Len(new)] = g
<1> DEFINE outer == SubSeq(fs, 1, Len(fs) - 1)
           new == outer \o <<g>>
<1>1. fs \in Seq(CallType) /\ Len(fs) \in Nat /\ Len(fs) >= 1
  BY DEF Calls
<1>2. outer \in Seq(CallType) /\ Len(outer) = Len(fs) - 1
      /\ \A i \in 1..(Len(fs) - 1) : outer[i] = fs[i]
  BY <1>1, AllButLast
<1> HIDE DEF outer
<1>3. /\ new \in Seq(CallType) /\ Len(new) = Len(fs) /\ new[Len(fs)] = g
      /\ \A i \in 1..(Len(fs) - 1) : new[i] = fs[i]
  BY <1>1, <1>2
<1> HIDE DEF new
<1>4. new[1].end = None
  BY <1>1, <1>3 DEF Calls
<1>5. ASSUME NEW i \in 1..Len(fs) PROVE /\ i > 1 => new[i].end # None
                                        /\ i < Len(fs) => new[i].after = None
  BY <1>1, <1>3 DEF Calls
<1>6. Calls(new)
  BY <1>1, <1>3, <1>4, <1>5 DEF Calls
<1> QED
  BY <1>3, <1>6 DEF new, outer

LEMMA CallOpens ==
  ASSUME NEW fs, Calls(fs), NEW g \in CallType, g.end = fs[Len(fs)].end, g.after = None,
         NEW h \in CallType, h.end # None
  PROVE  LET new == SubSeq(fs, 1, Len(fs) - 1) \o <<g, h>>
         IN  Calls(new) /\ Len(new) = Len(fs) + 1 /\ new[Len(new)] = h
<1> DEFINE outer == SubSeq(fs, 1, Len(fs) - 1)
           new == outer \o <<g, h>>
<1>1. fs \in Seq(CallType) /\ Len(fs) \in Nat /\ Len(fs) >= 1
  BY DEF Calls
<1>2. outer \in Seq(CallType) /\ Len(outer) = Len(fs) - 1
      /\ \A i \in 1..(Len(fs) - 1) : outer[i] = fs[i]
  BY <1>1, AllButLast
<1> HIDE DEF outer
<1>3. /\ new \in Seq(CallType) /\ Len(new) = Len(fs) + 1
      /\ new[Len(fs)] = g /\ new[Len(fs) + 1] = h
      /\ \A i \in 1..(Len(fs) - 1) : new[i] = fs[i]
  BY <1>1, <1>2
<1> HIDE DEF new
<1>4. new[1].end = None
  BY <1>1, <1>3 DEF Calls
<1>5. ASSUME NEW i \in 1..(Len(fs) + 1) PROVE /\ i > 1 => new[i].end # None
                                              /\ i < Len(fs) + 1 => new[i].after = None
  BY <1>1, <1>3 DEF Calls
<1>6. Calls(new)
  BY <1>1, <1>3, <1>4, <1>5 DEF Calls
<1> QED
  BY <1>3, <1>6 DEF new, outer

LEMMA CallEnds ==
  ASSUME NEW fs, Calls(fs), fs[Len(fs)].end # None
  PROVE  LET new == SubSeq(fs, 1, Len(fs) - 1) \o <<>>
         IN  Calls(new) /\ Len(new) = Len(fs) - 1 /\ new[Len(new)].after = None
<1> DEFINE outer == SubSeq(fs, 1, Len(fs) - 1)
<1>1. fs \in Seq(CallType) /\ Len(fs) \in Nat /\ Len(fs) > 1
  BY DEF Calls
<1>2. outer \in Seq(CallType) /\ Len(outer) = Len(fs) - 1
      /\ \A i \in 1..(Len(fs) - 1) : outer[i] = fs[i]
  BY <1>1, AllButLast
<1> HIDE DEF outer
<1>3. outer \o <<>> = outer
  BY <1>2
<1>4. Calls(outer) /\ outer[Len(outer)].after = None
  BY <1>1, <1>2 DEF Calls
<1> QED
  BY <1>2, <1>3, <1>4, Zenon DEF outer

LEMMA TokenGrows ==
  ASSUME NEW t \in TokenType, NEW s \in Seq(Char \cup Mark)
  PROVE  [t EXCEPT !.value = @ \o s] \in TokenType
<1>1. t.value \o s \in Seq(Char \cup Mark)
  BY DEF TokenType
<1> QED
  BY <1>1 DEF TokenType

LEMMA NewTokenIs == NewToken \in TokenType
  BY DEF NewToken, TokenType

\* The word, with the next character taken.
LEMMA NextCharIs ==
  ASSUME LexerInv, at = "word", Top.after = None, NEW c \in Char \ {"eof"}, NextChar(c)
  PROVE  /\ Stands' /\ hold' = None
         /\ Used' >= 1 /\ seen'[Used'] = c
         /\ unget' = None => seen'[Len(seen')] = c
<1>1. /\ seen \in Seq(Char \ {"eof"}) /\ eof \in BOOLEAN /\ unget \in Char \cup {None}
      /\ unget # "eof" /\ (unget # None => ~eof /\ seen # <<>> /\ seen[Len(seen)] = unget)
      /\ Used >= 1 /\ Used \in Int /\ Len(seen) \in Nat /\ Len(seen) >= Used
  BY DEF LexerInv, Stands, Used
<1>2. CASE hold # None
  <2>1. c = hold /\ hold' = None /\ UNCHANGED <<seen, eof, unget>>
    BY <1>2 DEF NextChar
  <2>2. seen[Used] = c
    BY <1>2, <2>1 DEF LexerInv
  <2>3. Used' = Used
    BY <2>1 DEF Used
  <2>4. unget = None => Used = Len(seen)
    BY <1>1 DEF Used
  <2>5. Stands'
    BY <2>1 DEF LexerInv, Stands
  <2> QED
    BY <1>1, <2>1, <2>2, <2>3, <2>4, <2>5, Zenon
<1>3. CASE hold = None
  <2>1. Get(c) /\ hold' = None
    BY <1>3 DEF NextChar
  <2>2. Advanced(c)
    BY <2>1, GetIs
  <2>3. seen' \in Seq(Char \ {"eof"}) /\ unget' = None /\ eof' = FALSE
        /\ Len(seen') = Used + 1 /\ seen'[Used + 1] = c
    BY <2>2 DEF Advanced
  <2>4. Used' = Len(seen') - 0
    BY <2>3, Zenon DEF Used
  <2> QED
    <3>1. Used' >= 1 /\ seen'[Used'] = c /\ seen'[Len(seen')] = c
      BY <1>1, <2>3, <2>4
    <3>3. Stands'
      BY <2>2, StillStands
    <3> QED
      BY <2>1, <3>1, <3>3
<1> QED
  BY <1>2, <1>3

\* Where it stands then.
LEMMA OneTaken ==
  ASSUME LexerInv, NEW c \in Char, Get(c)
  PROVE  /\ Stands' /\ Advanced(c) /\ unget' = None /\ Used' = Len(seen') /\ Used' >= 0
         /\ c = "eof" => eof' = TRUE
         /\ c # "eof" => /\ eof' = FALSE /\ seen' # <<>> /\ seen'[Len(seen')] = c
                         /\ Used' = Used + 1 /\ Used' >= 1
<1>1. Advanced(c) /\ Stands'
  BY GetIs, StillStands
<1>2. Used >= 0 /\ Used \in Int
  BY DEF LexerInv, Stands, Used
<1>3. unget' = None
  BY <1>1 DEF Advanced
<1>4. Used' = Len(seen') - 0
  BY <1>3, Zenon DEF Used
<1>5. seen' \in Seq(Char \ {"eof"})
  BY <1>1 DEF Advanced
<1>6. CASE c = "eof"
  <2>1. eof' = TRUE
    BY <1>1, <1>6, Zenon DEF Advanced
  <2> QED
    BY <1>1, <1>3, <1>4, <1>5, <1>6, <2>1
<1>7. CASE c # "eof"
  <2>1. eof' = FALSE /\ Len(seen') = Used + 1 /\ seen'[Used + 1] = c
    BY <1>1, <1>7, Zenon DEF Advanced
  <2> QED
    BY <1>1, <1>2, <1>3, <1>4, <1>5, <1>7, <2>1
<1> QED
  BY <1>6, <1>7

LEMMA OneLooked ==
  ASSUME LexerInv, NEW c \in Char, Peek(c)
  PROVE  /\ Stands' /\ Looked(c) /\ Used' = Used /\ Used >= 0
         /\ c = "eof" => eof' = TRUE
         /\ c # "eof" => unget' # None
         /\ \A i \in 1..Used : seen'[i] = seen[i]
<1>1. Looked(c) /\ Stands'
  BY PeekIs, StillStands
<1>2. Used >= 0 /\ Used \in Int /\ Used <= Len(seen) /\ Len(seen) \in Nat
  BY DEF LexerInv, Stands, Used
<1>3. \A i \in 1..Used : seen'[i] = seen[i]
  BY <1>1, <1>2 DEF Looked
<1>4. CASE c = "eof"
  <2>1. eof' = TRUE /\ unget' = unget /\ seen' = seen
    BY <1>1, <1>4, Zenon DEF Looked
  <2>2. Used' = Used
    BY <2>1, Zenon DEF Used
  <2> QED
    BY <1>1, <1>2, <1>3, <1>4, <2>1, <2>2
<1>5. CASE c # "eof"
  <2>1. unget' = c /\ unget' # None
    BY <1>1, <1>5, NoneIsNoChar DEF Looked
  <2>2. Len(seen') = Used + 1
    BY <1>1, <1>5 DEF Looked
  <2>3. Used' = Len(seen') - 1
    BY <2>1, Zenon DEF Used
  <2> QED
    BY <1>1, <1>2, <1>3, <1>5, <2>1, <2>2, <2>3
<1> QED
  BY <1>4, <1>5

AInv == LexerInv /\ AsksForALineWhenNeeded

\* A token has been made.
LEMMA MadeIs ==
  ASSUME LexerInv, NEW type \in Seq(Char \cup {"word"}), type # <<"eof">>,
         Stands', Used' >= 0, Made(type, Taken)
  PROVE  AInv'
<1>1. /\ tokens' = Append(tokens, [token EXCEPT !.type = type, !.to = Taken])
      /\ token' = NewToken /\ hold' = None /\ frames' = <<>> /\ at' = "blanks"
  BY DEF Made
<1>2. Taken = Used' /\ Used' \in Nat
  BY DEF Taken, Used, Stands
<1>3. [token EXCEPT !.type = type, !.to = Taken] \in TokenType
  BY <1>2 DEF LexerInv, LexerType, TokenType
<1>4. LexerType'
  BY <1>1, <1>3, NewTokenIs DEF LexerInv, LexerType, At
<1>5. LexerInv'
  BY <1>1, <1>4 DEF LexerInv
<1>6. ASSUME unget' = None PROVE tokens' # <<>> /\ tokens'[Len(tokens')].to = Len(seen')
  <2>1. Taken = Len(seen') - 0
    BY <1>6, Zenon DEF Taken
  <2>2. tokens \in Seq(TokenType) /\ tokens'[Len(tokens')] = [token EXCEPT !.type = type, !.to = Taken]
    BY <1>1, <1>3 DEF LexerInv, LexerType
  <2>3. [token EXCEPT !.type = type, !.to = Taken].to = Taken
    BY DEF LexerInv, LexerType, TokenType
  <2>4. seen' \in Seq(Char \ {"eof"})
    BY DEF Stands
  <2> QED
    BY <1>1, <2>1, <2>2, <2>3, <2>4
<1>7. AsksForALineWhenNeeded'
  BY <1>6, Zenon DEF AsksForALineWhenNeeded, Wants
<1> QED
  BY <1>5, <1>7 DEF AInv

LEMMA BlanksStep ==
  ASSUME AInv, Blanks
  PROVE  AInv'
<1>1. PICK c \in Blank \cup {"#"} : Get(c) /\ at' = IF c = "#" THEN "comment" ELSE at
  BY DEF Blanks
<1>2. at = "blanks" /\ UNCHANGED <<hold, frames, token, tokens>>
  BY DEF Blanks
<1>3. c \in Char /\ c \notin {"eof", "nl"} /\ at' \in {"blanks", "comment"}
  BY <1>1, <1>2 DEF Blank, Char, Delimiter, Wild, Digit, Ordinary
<1>4. Advanced(c) /\ Stands'
  BY <1>1, <1>3, GetIs, StillStands DEF AInv
<1>5. unget' = None /\ seen' # <<>> /\ seen'[Len(seen')] = c
  <2>1. unget' = None /\ Len(seen') = Used + 1 /\ seen'[Used + 1] = c
        /\ seen' \in Seq(Char \ {"eof"})
    BY <1>3, <1>4 DEF Advanced
  <2>2. Used >= 0 /\ Used \in Int
    BY DEF AInv, LexerInv, Stands, Used
  <2> QED
    BY <2>1, <2>2
<1>6. LexerType'
  BY <1>2, <1>3 DEF AInv, LexerInv, LexerType, At
<1>7. LexerInv'
  BY <1>3, <1>4, <1>5, <1>6 DEF LexerInv
<1>8. AsksForALineWhenNeeded'
  BY <1>3, <1>5 DEF AsksForALineWhenNeeded
<1> QED
  BY <1>7, <1>8 DEF AInv

LEMMA CommentStep ==
  ASSUME AInv, Comment
  PROVE  AInv'
<1>1. PICK c \in Char \ {"nl"} : Get(c)
  BY DEF Comment
<1>2. at = "comment" /\ UNCHANGED <<at, hold, frames, token, tokens>>
  BY DEF Comment
<1>4. Advanced(c) /\ Stands'
  BY <1>1, GetIs, StillStands DEF AInv
<1>5. unget' = None /\ (eof' \/ (seen' # <<>> /\ seen'[Len(seen')] # "nl"))
  <2>1. CASE c = "eof"
    BY <1>4, <2>1, Zenon DEF Advanced
  <2>2. CASE c # "eof"
    <3>1. unget' = None /\ Len(seen') = Used + 1 /\ seen'[Used + 1] = c
          /\ seen' \in Seq(Char \ {"eof"})
      BY <1>4, <2>2 DEF Advanced
    <3>2. Used >= 0 /\ Used \in Int
      BY DEF AInv, LexerInv, Stands, Used
    <3> QED
      BY <3>1, <3>2
  <2> QED
    BY <2>1, <2>2
<1>6. LexerType'
  BY <1>2 DEF AInv, LexerInv, LexerType
<1>7. LexerInv'
  BY <1>2, <1>4, <1>5, <1>6 DEF LexerInv
<1>8. AsksForALineWhenNeeded'
  BY <1>5, Zenon DEF AsksForALineWhenNeeded, Wants
<1> QED
  BY <1>7, <1>8 DEF AInv

LEMMA FirstStep ==
  ASSUME AInv, First
  PROVE  AInv'
<1>1. CASE /\ at \in {"blanks", "comment"}
           /\ \E c \in IF at = "comment" THEN {"nl"} ELSE Single \cup {"eof"} :
                /\ Get(c)
                /\ tokens' = Append(tokens, [NewToken EXCEPT !.type = <<c>>, !.from = Taken, !.to = Taken])
                /\ at' = IF c = "eof" THEN "end" ELSE "blanks"
           /\ UNCHANGED <<input, hold, frames, token>>
  <2>1. PICK c \in Single \cup {"eof"} :
          /\ Get(c)
          /\ tokens' = Append(tokens, [NewToken EXCEPT !.type = <<c>>, !.from = Taken, !.to = Taken])
          /\ at' = IF c = "eof" THEN "end" ELSE "blanks"
    BY <1>1 DEF Single
  <2>2. c \in Char
    BY DEF Char, Single, Delimiter
  <2>3. /\ Stands' /\ unget' = None /\ Used' = Len(seen') /\ Used' >= 0
    BY <2>1, <2>2, OneTaken DEF AInv
  <2>4. Taken = Used' /\ Len(seen') \in Nat
    BY <2>3 DEF Taken, Used, Stands
  <2>5. <<c>> \in Seq(Char \cup {"word"}) /\ Taken \in Nat
    BY <2>2, <2>3, <2>4
  <2> DEFINE t == [NewToken EXCEPT !.type = <<c>>, !.from = Taken, !.to = Taken]
  <2>6. t \in TokenType /\ t.to = Taken
    BY <2>5, NewTokenIs DEF TokenType
  <2> HIDE DEF t
  <2>7. tokens \in Seq(TokenType) /\ tokens' = Append(tokens, t)
    BY <2>1 DEF AInv, LexerInv, LexerType, t
  <2>8. LexerType'
    BY <1>1, <2>1, <2>6, <2>7 DEF AInv, LexerInv, LexerType, At
  <2>9. LexerInv'
    BY <2>1, <2>3, <2>8 DEF LexerInv
  <2>10. tokens' # <<>> /\ tokens'[Len(tokens')].to = Len(seen')
    BY <2>3, <2>4, <2>6, <2>7
  <2> QED
    BY <2>9, <2>10 DEF AInv, AsksForALineWhenNeeded
<1>2. CASE /\ at = "blanks"
           /\ \E c \in Char \ (Blank \cup {"#", "eof"} \cup Single) :
                /\ Get(c)
                /\ at' = "second" /\ hold' = c /\ token' = [NewToken EXCEPT !.from = Taken]
           /\ UNCHANGED <<input, frames, tokens>>
  <2>1. PICK c \in Char \ (Blank \cup {"#", "eof"} \cup Single) :
          Get(c) /\ at' = "second" /\ hold' = c /\ token' = [NewToken EXCEPT !.from = Taken]
    BY <1>2
  <2>2. c \in Char /\ c # "eof" /\ c # "nl" /\ c # None
    BY NoneIsNoChar DEF Single
  <2>3. /\ Stands' /\ unget' = None /\ Used' = Len(seen') /\ Used' >= 0
        /\ eof' = FALSE /\ seen' # <<>> /\ seen'[Len(seen')] = c
    BY <2>1, <2>2, OneTaken DEF AInv
  <2>4. Taken \in Nat
    BY <2>3 DEF Taken, Used, Stands
  <2>5. token' \in TokenType
    <3>1. token' = [type |-> <<>>, digit |-> None, value |-> <<>>, quoted |-> FALSE,
                    from |-> Taken, to |-> 0]
      BY <2>1 DEF NewToken
    <3> QED
      BY <2>4, <3>1 DEF TokenType
  <2>6. LexerType'
    BY <1>2, <2>1, <2>5 DEF AInv, LexerInv, LexerType, At
  <2>7. LexerInv'
    BY <2>1, <2>2, <2>3, <2>6 DEF LexerInv
  <2>8. AsksForALineWhenNeeded'
    BY <2>2, <2>3 DEF AsksForALineWhenNeeded
  <2> QED
    BY <2>7, <2>8 DEF AInv
<1> QED
  BY <1>1, <1>2 DEF First

LEMMA SecondStep ==
  ASSUME AInv, Second
  PROVE  AInv'
<1>1. PICK c \in Char :
        IF c \in Follow[hold]
          THEN Get(c) /\ Made(IF hold = "cr" THEN <<"nl">> ELSE <<hold, c>>, Taken)
          ELSE Peek(c) /\ Made(IF hold = "cr" THEN <<"nl">> ELSE <<hold>>, Taken)
  BY DEF Second
<1>2. at = "second" /\ hold \in DOMAIN Follow /\ LexerInv
  BY DEF Second, AInv
<1>3. hold \in Char /\ hold # "eof" /\ hold # None
  BY <1>2 DEF LexerInv, LexerType
<1>4. PICK type \in Seq(Char \cup {"word"}) : type # <<"eof">> /\ Made(type, Taken)
  <2>1. <<"nl">> \in Seq(Char \cup {"word"}) /\ <<"nl">> # <<"eof">>
    <3>1. "nl" \in Char
      BY DEF Char, Delimiter
    <3> QED
      BY <3>1
  <2>2. <<hold, c>> \in Seq(Char \cup {"word"}) /\ <<hold, c>> # <<"eof">>
    BY <1>3
  <2>3. <<hold>> \in Seq(Char \cup {"word"}) /\ <<hold>> # <<"eof">>
    BY <1>3
  <2>4. CASE hold = "cr" /\ Made(<<"nl">>, Taken)
    BY <2>1, <2>4
  <2>5. CASE Made(<<hold, c>>, Taken)
    BY <2>2, <2>5
  <2>6. CASE Made(<<hold>>, Taken)
    BY <2>3, <2>6
  <2> QED
    BY <1>1, <2>4, <2>5, <2>6, Zenon
<1>5. Get(c) \/ Peek(c)
  BY <1>1, Zenon
<1>6. Stands' /\ Used' >= 0
  BY <1>2, <1>5, OneTaken, OneLooked, Zenon
<1> QED
  BY <1>2, <1>4, <1>6, MadeIs

LEMMA RedirDigitStep ==
  ASSUME AInv, RedirDigit
  PROVE  AInv'
<1>1. PICK c \in {"<", ">"} : Get(c) /\ hold' = c
  BY DEF RedirDigit
<1>2. /\ at = "second" /\ hold \in Digit /\ token' = [token EXCEPT !.digit = hold]
      /\ UNCHANGED <<at, frames, tokens>>
  BY DEF RedirDigit
<1>3. c \in Char /\ c \notin {"eof", "nl", None}
  BY DEF Char, Delimiter, None
<1>4. /\ Stands' /\ unget' = None /\ Used' = Len(seen') /\ Used' >= 0
      /\ eof' = FALSE /\ seen' # <<>> /\ seen'[Len(seen')] = c
  BY <1>1, <1>3, OneTaken DEF AInv
<1>5. token' \in TokenType
  BY <1>2 DEF AInv, LexerInv, LexerType, TokenType, Char
<1>6. LexerType'
  BY <1>1, <1>2, <1>3, <1>5 DEF AInv, LexerInv, LexerType
<1>7. LexerInv'
  BY <1>1, <1>2, <1>3, <1>4, <1>6 DEF LexerInv
<1>8. AsksForALineWhenNeeded'
  BY <1>3, <1>4 DEF AsksForALineWhenNeeded
<1> QED
  BY <1>7, <1>8 DEF AInv

LEMMA StartWordStep ==
  ASSUME AInv, StartWord
  PROVE  AInv'
<1>1. PICK c \in Char : Peek(c)
  BY DEF StartWord
<1>2. /\ at = "second" /\ at' = "word" /\ frames' = <<Frame(None, 0)>>
      /\ UNCHANGED <<hold, token, tokens>> /\ LexerInv
  BY DEF StartWord, AInv
<1>3. /\ Stands' /\ Used' = Used /\ \A i \in 1..Used : seen'[i] = seen[i]
  BY <1>1, <1>2, OneLooked
<1>4. unget = None /\ seen # <<>> /\ hold \notin {None, "nl", "eof"} /\ seen[Len(seen)] = hold
  BY <1>2 DEF LexerInv
<1>5. Used = Len(seen) /\ Used >= 1 /\ Used \in Nat
  <2>1. Used = Len(seen) - 0
    BY <1>4, Zenon DEF Used
  <2> QED
    BY <1>2, <1>4, <2>1 DEF LexerInv, Stands
<1>6. seen'[Used'] = hold'
  BY <1>2, <1>3, <1>4, <1>5
<1>7. Calls(frames') /\ Top'.after = None
  <2>1. Frame(None, 0) = [end |-> None, sub |-> 0, quote |-> None, after |-> None]
    BY DEF Frame
  <2>2. Frame(None, 0) \in CallType
    <3>1. [end |-> None, sub |-> 0, quote |-> None, after |-> None] \in CallType
      BY DEF CallType, Ends
    <3> QED
      BY <2>1, <3>1, Zenon
  <2>3. frames' \in Seq(CallType) /\ Len(frames') = 1 /\ frames'[1] = Frame(None, 0)
    BY <1>2, <2>2
  <2>4. Calls(frames')
    BY <2>1, <2>3 DEF Calls
  <2> QED
    BY <2>1, <2>3, <2>4 DEF Top
<1>8. LexerType'
  BY <1>2, <1>7 DEF LexerInv, LexerType, At, Calls
<1>9. LexerInv'
  BY <1>2, <1>3, <1>4, <1>5, <1>6, <1>7, <1>8 DEF LexerInv, None
<1>10. AsksForALineWhenNeeded'
  BY <1>2, <1>4 DEF AsksForALineWhenNeeded, Wants
<1> QED
  BY <1>9, <1>10 DEF AInv

LEMMA OtherCall ==
  ASSUME NEW g \in CallType, NEW a \in {None, "backslash", "$"}
  PROVE  /\ [g EXCEPT !.after = a] \in CallType /\ [g EXCEPT !.after = a].end = g.end
         /\ [g EXCEPT !.after = a].after = a /\ [g EXCEPT !.after = a].quote = g.quote
         /\ [g EXCEPT !.after = a].sub = g.sub
  BY DEF CallType

LEMMA FrameIs ==
  ASSUME NEW end \in Ends, NEW sub \in Nat
  PROVE  /\ Frame(end, sub) \in CallType /\ Frame(end, sub).end = end
         /\ Frame(end, sub).after = None /\ Frame(end, sub).quote = None
         /\ Frame(end, sub).sub = sub
<1>1. [end |-> end, sub |-> sub, quote |-> None, after |-> None] \in CallType
  BY DEF CallType
<1>2. Frame(end, sub) = [end |-> end, sub |-> sub, quote |-> None, after |-> None]
  BY DEF Frame
<1> QED
  BY <1>1, <1>2

LEMMA EscapedIs ==
  ASSUME NEW c \in Char
  PROVE  Escaped(c) \in Seq(Char \cup Mark) /\ <<c>> \in Seq(Char \cup Mark)
         /\ <<"ESC", c>> \in Seq(Char \cup Mark)
<1>1. <<c>> \in Seq(Char \cup Mark) /\ <<"ESC", c>> \in Seq(Char \cup Mark)
  BY DEF Mark
<1> QED
  BY <1>1, Zenon DEF Escaped

LEMMA TopIs ==
  ASSUME LexerInv, at = "word"
  PROVE  Calls(frames) /\ Top \in CallType /\ Top = frames[Len(frames)]
         /\ Outer = SubSeq(frames, 1, Len(frames) - 1) /\ Used >= 1
         /\ (Top.end = None => Len(frames) = 1) /\ (Top.end # None => Len(frames) > 1)
<1>1. Calls(frames) /\ Used >= 1
  BY DEF LexerInv
<1>2. frames \in Seq(CallType) /\ Len(frames) \in 1..Len(frames) /\ Len(frames) \in Nat
  BY <1>1 DEF Calls
<1>3. Top = frames[Len(frames)] /\ Outer = SubSeq(frames, 1, Len(frames) - 1)
  BY DEF Top, Outer
<1>4. Top \in CallType
  BY <1>2, <1>3
<1>5. Top.end = None => Len(frames) = 1
  <2>1. Len(frames) \in DOMAIN frames /\ Len(frames) >= 1
    BY <1>2
  <2>2. Len(frames) > 1 => frames[Len(frames)].end # None
    BY <1>1, <2>1 DEF Calls
  <2>3. Top.end = None => ~(Len(frames) > 1)
    BY <1>3, <2>2, Zenon
  <2>4. Len(frames) \in Nat
    BY <1>2
  <2>5. ~(Len(frames) > 1) => Len(frames) = 1
    BY <2>1, <2>4
  <2> QED
    BY <2>3, <2>5, Zenon
<1>6. Top.end # None => Len(frames) > 1
  BY <1>1, <1>2, <1>3 DEF Calls
<1> QED
  BY <1>1, <1>3, <1>4, <1>5, <1>6, Zenon

\* A character of a word.
LEMMA InWordIs ==
  ASSUME LexerInv, NEW c \in Char \ {"eof"}, InWord(c)
  PROVE  /\ at = "word" /\ Calls(frames) /\ Top \in CallType /\ Top.after = None
         /\ Stands' /\ hold' = None /\ Used' >= 1 /\ seen'[Used'] = c
         /\ unget' = None => seen'[Len(seen')] = c
<1>1. at = "word" /\ Top.after = None /\ NextChar(c)
  BY DEF InWord
<1> QED
  BY <1>1, NextCharIs, TopIs

LEMMA WordGoes ==
  ASSUME LexerInv, at = "word", at' = at, tokens' = tokens, token' \in TokenType,
         Calls(frames'), Stands', Used' >= 1, hold' \in Char \cup {None},
         hold' # None => hold' \notin {"nl", "eof"} /\ seen'[Used'] = hold' /\ Top'.after = None,
         Top'.after = "backslash" => seen'[Used'] = "backslash",
         unget' = None /\ eof' = FALSE /\ hold' = None /\ seen'[Len(seen')] = "nl" => Open'
  PROVE  AInv'
<1>1. LexerType'
  BY DEF LexerInv, LexerType, Calls
<1>2. LexerInv'
  BY <1>1 DEF LexerInv
<1>3. AsksForALineWhenNeeded'
  <2> SUFFICES ASSUME Wants', seen'[Len(seen')] = "nl" PROVE Open'
    BY DEF AsksForALineWhenNeeded
  <2>1. at' = "word" /\ eof' \in BOOLEAN
    BY DEF Stands
  <2>2. unget' = None /\ eof' = FALSE /\ hold' = None
    BY <2>1, Zenon DEF Wants
  <2> QED
    BY <2>2
<1> QED
  BY <1>2, <1>3 DEF AInv

\* A character that is not a newline, and changes at most what the call is in.
LEMMA SameCall ==
  ASSUME AInv, NEW c \in Char \ {"eof"}, InWord(c), NEW g \in CallType, g.end = Top.end,
         g.after = "backslash" => c = "backslash",
         NEW s \in Seq(Char \cup Mark), Goes(<<g>>, s),
         c = "nl" => (Top.quote # None /\ g.quote = Top.quote) \/ Top.end # None
  PROVE  AInv'
<1>1. LexerInv
  BY DEF AInv
<1>2. /\ at = "word" /\ Calls(frames) /\ Top \in CallType /\ Top.after = None
      /\ Stands' /\ hold' = None /\ Used' >= 1 /\ seen'[Used'] = c
      /\ unget' = None => seen'[Len(seen')] = c
  BY <1>1, InWordIs
<1>3. frames' = SubSeq(frames, 1, Len(frames) - 1) \o <<g>> /\ at' = at /\ tokens' = tokens
      /\ token' = [token EXCEPT !.value = @ \o s]
  BY DEF Goes, Outer
<1>4. Calls(frames') /\ Len(frames') = Len(frames) /\ Top' = g
  BY <1>2, <1>3, CallGoesOn DEF Top
<1>5. token' \in TokenType
  BY <1>1, <1>3, TokenGrows DEF LexerInv, LexerType
<1>6. ASSUME unget' = None, seen'[Len(seen')] = "nl" PROVE Open'
  <2>1. c = "nl"
    BY <1>2, <1>6
  <2>2. CASE Top.end # None
    <3>1. Len(frames') > 1
      BY <1>1, <1>2, <1>4, <2>2, TopIs
    <3> QED
      BY <1>2, <1>3, <3>1 DEF Open
  <2>3. CASE Top.quote # None /\ g.quote = Top.quote
    BY <1>2, <1>3, <1>4, <2>3 DEF Open
  <2> QED
    BY <2>1, <2>2, <2>3
<1> QED
  BY <1>1, <1>2, <1>3, <1>4, <1>5, <1>6, WordGoes

\* A character that opens something.
LEMMA OtherCalls ==
  ASSUME AInv, NEW c \in Char \ {"eof", "nl"}, InWord(c), NEW h \in CallType, h.end # None,
         h.after = None, NEW s \in Seq(Char \cup Mark), Goes(<<Top, h>>, s)
  PROVE  AInv'
<1>1. LexerInv
  BY DEF AInv
<1>2. /\ at = "word" /\ Calls(frames) /\ Top \in CallType /\ Top.after = None
      /\ Stands' /\ hold' = None /\ Used' >= 1 /\ seen'[Used'] = c
      /\ unget' = None => seen'[Len(seen')] = c
  BY <1>1, InWordIs
<1>3. frames' = SubSeq(frames, 1, Len(frames) - 1) \o <<Top, h>> /\ at' = at /\ tokens' = tokens
      /\ token' = [token EXCEPT !.value = @ \o s]
  BY DEF Goes, Outer
<1>4. Calls(frames') /\ Top' = h
  BY <1>2, <1>3, CallOpens DEF Top
<1>5. token' \in TokenType
  BY <1>1, <1>3, TokenGrows DEF LexerInv, LexerType
<1> QED
  BY <1>1, <1>2, <1>3, <1>4, <1>5, WordGoes DEF None

LEMMA WordEndsStep ==
  ASSUME AInv, WordEnds
  PROVE  AInv'
<1>1. PICK c \in Delimiter : Peek(c)
  BY DEF WordEnds
<1>2. at = "word" /\ Made(Type, Taken) /\ LexerInv
  BY DEF WordEnds, AInv
<1>3. Stands' /\ Used' >= 0
  BY <1>1, <1>2, OneLooked DEF Char
<1>4. Type \in Seq(Char \cup {"word"}) /\ Type # <<"eof">>
  <2>1. \A k \in Keyword : k \in Seq(Char \cup {"word"}) /\ k # <<"eof">>
    <3>1. {"{", "}", "!"} \subseteq Char
      BY DEF Char
    <3>2. ASSUME NEW d \in {"{", "}", "!"}
          PROVE  <<d>> \in Seq(Char \cup {"word"}) /\ <<d>> # <<"eof">>
      <4>1. <<d>>[1] # <<"eof">>[1]
        OBVIOUS
      <4>2. <<d>> \in Seq(Char \cup {"word"})
        <5>1. d \in Char \cup {"word"}
          BY <3>1
        <5> QED
          BY <5>1, OneOf
      <4> QED
        BY <4>1, <4>2, Zenon
    <3> QED
      BY <3>2, Zenon DEF Keyword
  <2>2. <<"word">> \in Seq(Char \cup {"word"}) /\ <<"word">> # <<"eof">>
    OBVIOUS
  <2> QED
    BY <2>1, <2>2, Zenon DEF Type
<1> QED
  BY <1>2, <1>3, <1>4, MadeIs

LEMMA ClosesStep ==
  ASSUME AInv, Closes
  PROVE  AInv'
<1>1. /\ LexerInv /\ at = "word" /\ Top.after = None /\ Top.end # None /\ NextChar(Top.end)
      /\ Goes(<<>>, <<Top.end>>)
  BY DEF Closes, AInv
<1>2. Calls(frames) /\ Top \in CallType /\ Top = frames[Len(frames)]
      /\ Outer = SubSeq(frames, 1, Len(frames) - 1)
  BY <1>1, TopIs
<1>3. Top.end \in Char \ {"eof", "nl"}
  BY <1>1, <1>2 DEF CallType, Ends, Char, Delimiter
<1>4. /\ Stands' /\ hold' = None /\ Used' >= 1 /\ seen'[Used'] = Top.end
      /\ unget' = None => seen'[Len(seen')] = Top.end
  BY <1>1, <1>3, NextCharIs
<1>5. frames' = SubSeq(frames, 1, Len(frames) - 1) \o <<>> /\ at' = at /\ tokens' = tokens
      /\ token' = [token EXCEPT !.value = @ \o <<Top.end>>]
  BY <1>1, <1>2 DEF Goes
<1>6. Calls(frames') /\ Top'.after = None
  BY <1>1, <1>2, <1>5, CallEnds DEF Top
<1>7. token' \in TokenType
  <2>1. <<Top.end>> \in Seq(Char \cup Mark) /\ token \in TokenType
    BY <1>1, <1>3 DEF LexerInv, LexerType
  <2> QED
    BY <1>5, <2>1, TokenGrows
<1> QED
  BY <1>1, <1>3, <1>4, <1>5, <1>6, <1>7, WordGoes DEF None

LEMMA UnterminatedStep ==
  ASSUME AInv, Unterminated
  PROVE  AInv'
<1>1. /\ LexerInv /\ at = "word" /\ Top.after = None /\ NextChar("eof")
      /\ at' = "failed" /\ frames' = <<>> /\ token' = NewToken /\ tokens' = tokens
  BY DEF Unterminated, AInv, InWord
<1>2. "eof" \in Char
  BY DEF Char, Delimiter
<1>3. Stands' /\ hold' = None
  <2>1. CASE hold # None
    <3>1. hold = "eof"
      BY <1>1, <2>1 DEF NextChar
    <3> QED
      BY <1>1, <2>1, <3>1 DEF LexerInv
  <2>2. CASE hold = None
    <3>1. Get("eof") /\ hold' = None
      BY <1>1, <2>2 DEF NextChar
    <3> QED
      BY <1>1, <1>2, <3>1, OneTaken
  <2> QED
    BY <2>1, <2>2
<1>4. LexerType'
  BY <1>1, <1>3, NewTokenIs DEF LexerInv, LexerType, At
<1>5. LexerInv'
  BY <1>1, <1>3, <1>4 DEF LexerInv
<1>6. AsksForALineWhenNeeded'
  BY <1>1 DEF AsksForALineWhenNeeded, Wants
<1> QED
  BY <1>5, <1>6 DEF AInv

LEMMA QuoteStep ==
  ASSUME AInv, Quote
  PROVE  AInv'
<1>1. PICK q \in {"quote", "dquote"} :
        /\ InWord(q)
        /\ IF Top.quote \notin {None, q}
             THEN Goes(<<Top>>, Escaped(q))
             ELSE /\ frames' = Outer \o <<[Top EXCEPT !.quote = IF @ = q THEN None ELSE q]>>
                  /\ token' = [token EXCEPT !.value = Append(@, IF Top.sub > 0 THEN q ELSE "QUOT"),
                                            !.quoted = @ \/ Top.sub = 0]
                  /\ UNCHANGED <<input, at, tokens>>
  BY DEF Quote
<1>2. q \in Char \ {"eof", "nl"} /\ q # "backslash"
  BY DEF Char
<1>3. /\ LexerInv /\ at = "word" /\ Calls(frames) /\ Top \in CallType /\ Top.after = None
      /\ Stands' /\ hold' = None /\ Used' >= 1 /\ seen'[Used'] = q
      /\ unget' = None => seen'[Len(seen')] = q
  BY <1>1, <1>2, InWordIs DEF AInv
<1>4. CASE Top.quote \notin {None, q}
  <2>1. Goes(<<Top>>, Escaped(q))
    BY <1>1, <1>4
  <2>2. Escaped(q) \in Seq(Char \cup Mark)
    BY <1>2, EscapedIs
  <2> QED
    BY <1>1, <1>2, <1>3, <2>1, <2>2, SameCall DEF None
<1>5. CASE Top.quote \in {None, q}
  <2> DEFINE v == IF Top.quote = q THEN None ELSE q
             g == [Top EXCEPT !.quote = v]
             a == IF Top.sub > 0 THEN q ELSE "QUOT"
  <2>1. /\ frames' = SubSeq(frames, 1, Len(frames) - 1) \o <<g>>
        /\ token' = [token EXCEPT !.value = Append(@, a), !.quoted = @ \/ Top.sub = 0]
        /\ at' = at /\ tokens' = tokens
    BY <1>1, <1>5 DEF Outer
  <2>2. v \in {None, "quote", "dquote"} /\ a \in Char \cup Mark
    BY <1>2 DEF Mark
  <2> HIDE DEF v, a
  <2>3. g \in CallType /\ g.end = Top.end /\ g.after = None
    BY <1>3, <2>2 DEF CallType
  <2> HIDE DEF g
  <2>4. Calls(frames') /\ Top' = g
    BY <1>3, <2>1, <2>3, CallGoesOn DEF Top
  <2>5. token' \in TokenType
    <3>1. token \in TokenType /\ Append(token.value, a) \in Seq(Char \cup Mark)
      BY <1>3, <2>2 DEF LexerInv, LexerType, TokenType
    <3>2. (token.quoted \/ Top.sub = 0) \in BOOLEAN
      BY Zenon
    <3> QED
      BY <2>1, <3>1, <3>2 DEF TokenType
  <2> QED
    BY <1>2, <1>3, <2>1, <2>3, <2>4, <2>5, WordGoes DEF None
<1> QED
  BY <1>4, <1>5

LEMMA BackslashStep ==
  ASSUME AInv, Backslash
  PROVE  AInv'
<1>1. /\ InWord("backslash")
      /\ IF Top.quote = "quote" THEN Goes(<<Top>>, <<"backslash">>)
                                ELSE Goes(<<[Top EXCEPT !.after = "backslash"]>>, <<>>)
  BY DEF Backslash
<1>2. "backslash" \in Char \ {"eof", "nl"}
  BY DEF Char
<1>3. LexerInv /\ Top \in CallType /\ Top.after = None
  BY <1>1, <1>2, InWordIs DEF AInv
<1>4. CASE Top.quote = "quote"
  <2>1. <<"backslash">> \in Seq(Char \cup Mark)
    BY <1>2
  <2> QED
    BY <1>1, <1>2, <1>3, <1>4, <2>1, SameCall
<1>5. CASE Top.quote # "quote"
  <2>1. <<>> \in Seq(Char \cup Mark)
    OBVIOUS
  <2>2. PICK g \in CallType : g = [Top EXCEPT !.after = "backslash"] /\ g.end = Top.end
    BY <1>3, OtherCall
  <2>3. Goes(<<g>>, <<>>)
    BY <1>1, <1>5, <2>2
  <2> QED
    BY <1>1, <1>2, <2>1, <2>2, <2>3, SameCall
<1> QED
  BY <1>4, <1>5

LEMMA DollarStep ==
  ASSUME AInv, Dollar
  PROVE  AInv'
<1>1. /\ InWord("$")
      /\ IF Top.quote = "quote" THEN Goes(<<Top>>, Escaped("$"))
                                ELSE Goes(<<[Top EXCEPT !.after = "$"]>>, <<"$">>)
  BY DEF Dollar
<1>2. "$" \in Char \ {"eof", "nl"}
  BY DEF Char
<1>3. LexerInv /\ Top \in CallType /\ Top.after = None
  BY <1>1, <1>2, InWordIs DEF AInv
<1>4. CASE Top.quote = "quote"
  <2>1. Escaped("$") \in Seq(Char \cup Mark)
    BY <1>2, EscapedIs
  <2> QED
    BY <1>1, <1>2, <1>3, <1>4, <2>1, SameCall DEF None
<1>5. CASE Top.quote # "quote"
  <2>1. <<"$">> \in Seq(Char \cup Mark)
    BY <1>2
  <2>2. PICK g \in CallType : /\ g = [Top EXCEPT !.after = "$"] /\ g.end = Top.end
                              /\ g.after = "$"
    BY <1>3, OtherCall
  <2>3. Goes(<<g>>, <<"$">>)
    BY <1>1, <1>5, <2>2
  <2> QED
    BY <1>1, <1>2, <2>1, <2>2, <2>3, SameCall
<1> QED
  BY <1>4, <1>5

LEMMA MagicStep ==
  ASSUME AInv, Magic
  PROVE  AInv'
<1>1. PICK c \in Wild \cup Blank \cup {"nl"} :
        InWord(c) /\ Goes(<<Top>>, IF Quoting THEN Escaped(c) ELSE <<c>>)
  BY DEF Magic
<1>2. c \in Char \ {"eof"} /\ c # "backslash"
  BY DEF Char, Wild, Blank, Delimiter
<1>3. LexerInv /\ Top \in CallType /\ Top.after = None
  BY <1>1, <1>2, InWordIs DEF AInv
<1>4. (IF Quoting THEN Escaped(c) ELSE <<c>>) \in Seq(Char \cup Mark)
  BY <1>2, EscapedIs, Zenon
<1>5. c = "nl" => Top.quote # None \/ Top.end # None
  <2>1. ~Stops(c)
    BY <1>1 DEF InWord
  <2>2. "nl" \in Delimiter
    BY DEF Delimiter
  <2> QED
    BY <2>1, <2>2, Zenon DEF Stops, Quoting
<1> QED
  BY <1>1, <1>2, <1>3, <1>4, <1>5, SameCall DEF None

LEMMA ParenStep ==
  ASSUME AInv, Paren
  PROVE  AInv'
<1>1. InWord("(")
      /\ Goes(IF Top.sub = 1 /\ ~Quoting THEN <<Top, Frame(")", 1)>> ELSE <<Top>>, <<"(">>)
  BY DEF Paren
<1>2. "(" \in Char \ {"eof", "nl"} /\ <<"(">> \in Seq(Char \cup Mark)
  <2>1. "(" \in Char
    BY DEF Char, Delimiter
  <2> QED
    BY <2>1
<1>3. LexerInv /\ Top \in CallType /\ Top.after = None
  BY <1>1, <1>2, InWordIs DEF AInv
<1>4. CASE Goes(<<Top>>, <<"(">>)
  BY <1>1, <1>2, <1>3, <1>4, SameCall DEF None
<1>5. CASE Goes(<<Top, Frame(")", 1)>>, <<"(">>)
  <2>1. Frame(")", 1) \in CallType /\ Frame(")", 1).end = ")" /\ Frame(")", 1).after = None
    BY FrameIs DEF Ends
  <2> QED
    BY <1>1, <1>2, <1>5, <2>1, OtherCalls DEF None
<1> QED
  BY <1>1, <1>4, <1>5, Zenon

LEMMA BacktickStep ==
  ASSUME AInv, Backtick
  PROVE  AInv'
<1>1. /\ InWord("backtick")
      /\ IF Top.quote = "quote" THEN Goes(<<Top>>, Escaped("backtick"))
                                ELSE Goes(<<Top, Frame("backtick", 1)>>, <<"backtick">>)
  BY DEF Backtick
<1>2. "backtick" \in Char \ {"eof", "nl"}
  BY DEF Char
<1>3. LexerInv /\ Top \in CallType /\ Top.after = None
  BY <1>1, <1>2, InWordIs DEF AInv
<1>4. Escaped("backtick") \in Seq(Char \cup Mark) /\ <<"backtick">> \in Seq(Char \cup Mark)
  BY <1>2, EscapedIs
<1>5. CASE Goes(<<Top>>, Escaped("backtick"))
  BY <1>1, <1>2, <1>3, <1>4, <1>5, SameCall DEF None
<1>6. CASE Goes(<<Top, Frame("backtick", 1)>>, <<"backtick">>)
  <2>1. Frame("backtick", 1) \in CallType /\ Frame("backtick", 1).end = "backtick"
        /\ Frame("backtick", 1).after = None
    BY FrameIs DEF Ends
  <2> QED
    BY <1>1, <1>2, <1>4, <1>6, <2>1, OtherCalls DEF None
<1> QED
  BY <1>1, <1>5, <1>6, Zenon

LEMMA CtlStep ==
  ASSUME AInv, Ctl
  PROVE  AInv'
<1>1. InWord("ctl") /\ Goes(<<Top>>, Escaped("ctl"))
  BY DEF Ctl
<1>2. "ctl" \in Char \ {"eof", "nl"}
  BY DEF Char
<1>3. LexerInv /\ Top \in CallType /\ Top.after = None
  BY <1>1, <1>2, InWordIs DEF AInv
<1>4. Escaped("ctl") \in Seq(Char \cup Mark)
  BY <1>2, EscapedIs
<1> QED
  BY <1>1, <1>2, <1>3, <1>4, SameCall DEF None

LEMMA PlainStep ==
  ASSUME AInv, Plain
  PROVE  AInv'
<1>1. PICK c \in Char \ (Wild \cup Blank \cup {"nl", "(", "backtick", "ctl", "$", "backslash",
                                               "quote", "dquote", "eof"}) :
        InWord(c) /\ Goes(<<Top>>, <<c>>)
  BY DEF Plain
<1>2. c \in Char \ {"eof", "nl"} /\ <<c>> \in Seq(Char \cup Mark)
  OBVIOUS
<1>3. LexerInv /\ Top \in CallType /\ Top.after = None
  BY <1>1, <1>2, InWordIs DEF AInv
<1> QED
  BY <1>1, <1>2, <1>3, SameCall DEF None

LEMMA AfterBackslashStep ==
  ASSUME AInv, AfterBackslash
  PROVE  AInv'
<1> DEFINE g == [Top EXCEPT !.after = None]
<1>1. /\ LexerInv /\ at = "word" /\ Top.after = "backslash" /\ UNCHANGED hold
  BY DEF AfterBackslash, AInv
<1>2. Calls(frames) /\ Top \in CallType /\ Top = frames[Len(frames)] /\ Used >= 1
      /\ Outer = SubSeq(frames, 1, Len(frames) - 1)
  BY <1>1, TopIs
<1>3. g \in CallType /\ g.end = Top.end /\ g.after = None /\ g.quote = Top.quote
  BY <1>2, OtherCall
<1>4. hold = None /\ seen[Used] = "backslash"
  BY <1>1 DEF LexerInv, None
<1>5. PICK c \in Char :
        IF Top.quote = "dquote" /\ c \notin {"$", "dquote", "backtick", "backslash", "nl"}
          THEN Peek(c) /\ Goes(<<g>>, <<"backslash">>)
          ELSE /\ Get(c)
               /\ Goes(<<g>>, IF c \in {"nl", "eof"} THEN <<>>
                              ELSE <<IF Top.sub > 0 THEN "backslash" ELSE "ESC", c>>)
  BY DEF AfterBackslash
<1> HIDE DEF g
<1>6. PICK s \in Seq(Char \cup Mark) : Goes(<<g>>, s)
  <2>1. <<"backslash">> \in Seq(Char \cup Mark) /\ <<>> \in Seq(Char \cup Mark)
        /\ <<"backslash", c>> \in Seq(Char \cup Mark) /\ <<"ESC", c>> \in Seq(Char \cup Mark)
    <3>1. "backslash" \in Char
      BY DEF Char
    <3> QED
      BY <3>1 DEF Mark
  <2>2. (IF c \in {"nl", "eof"} THEN <<>> ELSE <<IF Top.sub > 0 THEN "backslash" ELSE "ESC", c>>)
          \in Seq(Char \cup Mark)
    BY <2>1, Zenon
  <2> QED
    BY <1>5, <2>1, <2>2, Zenon
<1>7. frames' = SubSeq(frames, 1, Len(frames) - 1) \o <<g>> /\ at' = at /\ tokens' = tokens
      /\ token' = [token EXCEPT !.value = @ \o s]
  BY <1>2, <1>6 DEF Goes
<1>8. Calls(frames') /\ Top' = g
  BY <1>2, <1>3, <1>7, CallGoesOn DEF Top
<1>9. token' \in TokenType
  BY <1>1, <1>7, TokenGrows DEF LexerInv, LexerType
<1>10. Get(c) \/ Peek(c)
  BY <1>5, Zenon
<1>11. Stands' /\ Used' >= 1
  <2>1. CASE Get(c) /\ c # "eof"
    BY <1>1, <2>1, OneTaken
  <2>2. CASE Get(c) /\ c = "eof"
    <3>1. Stands' /\ Advanced(c)
      BY <1>1, <2>2, OneTaken
    <3>2. seen' = seen /\ unget' = unget
      BY <2>2, <3>1 DEF Advanced
    <3>3. Used' = Used
      BY <3>2 DEF Used
    <3> QED
      BY <1>2, <3>1, <3>3
  <2>3. CASE Peek(c)
    BY <1>1, <1>2, <2>3, OneLooked
  <2> QED
    BY <1>10, <2>1, <2>2, <2>3
<1>12. ASSUME unget' = None, eof' = FALSE, seen'[Len(seen')] = "nl" PROVE Open'
  <2>1. Get(c) /\ c # "eof"
    BY <1>1, <1>10, <1>12, OneTaken, OneLooked, Zenon
  <2>2. Advanced(c) /\ Used' = Len(seen') /\ Used' = Used + 1
    BY <1>1, <2>1, OneTaken
  <2>3. seen'[Used] = seen[Used]
    <3>1. Used \in 1..Len(seen)
      BY <1>1, <1>2 DEF Used, LexerInv, Stands
    <3> QED
      BY <2>2, <3>1 DEF Advanced
  <2>4. Len(seen') - 1 = Used
    BY <1>1, <2>2 DEF Used, LexerInv, Stands
  <2>5. seen'[Len(seen') - 1] = "backslash"
    BY <1>4, <2>3, <2>4, Zenon
  <2> QED
    BY <1>1, <1>7, <2>5 DEF Open
<1> QED
  BY <1>1, <1>3, <1>4, <1>7, <1>8, <1>9, <1>11, <1>12, WordGoes DEF None

LEMMA AfterDollarStep ==
  ASSUME AInv, AfterDollar
  PROVE  AInv'
<1> DEFINE g == [Top EXCEPT !.after = None]
<1>1. /\ LexerInv /\ at = "word" /\ Top.after = "$"
  BY DEF AfterDollar, AInv
<1>2. Calls(frames) /\ Top \in CallType /\ Top = frames[Len(frames)] /\ Used >= 1
      /\ Outer = SubSeq(frames, 1, Len(frames) - 1)
  BY <1>1, TopIs
<1>3. g \in CallType /\ g.end = Top.end /\ g.after = None /\ g.quote = Top.quote
  BY <1>2, OtherCall
<1>4. hold = None
  BY <1>1 DEF LexerInv, None
<1>5. \/ Get("(") /\ Goes(<<g, Frame(")", 1)>>, <<"(">>) /\ UNCHANGED hold
      \/ /\ Get("{") /\ hold' = "{"
         /\ Goes(<<g, Frame("}", IF Top.sub > 0 THEN Top.sub + 1 ELSE 0)>>, <<>>)
      \/ \E c \in Wild : Get(c) /\ Goes(<<g>>, <<c>>) /\ UNCHANGED hold
      \/ \E c \in Char \ (Wild \cup {"(", "{"}) : Peek(c) /\ Goes(<<g>>, <<>>) /\ UNCHANGED hold
  BY DEF AfterDollar
<1> HIDE DEF g
<1>6. "(" \in Char /\ "{" \in Char /\ <<"(">> \in Seq(Char \cup Mark) /\ <<>> \in Seq(Char \cup Mark)
  <2>1. "(" \in Char /\ "{" \in Char
    BY DEF Char, Delimiter
  <2>2. <<"(">> \in Seq(Char \cup Mark)
    <3>1. "(" \in Char \cup Mark
      BY <2>1
    <3> QED
      BY <3>1, OneOf
  <2>3. <<>> \in Seq(Char \cup Mark)
    OBVIOUS
  <2> QED
    BY <2>1, <2>2, <2>3
<1>7. ASSUME NEW h \in CallType, h.end # None, h.after = None, NEW s \in Seq(Char \cup Mark),
             Goes(<<g, h>>, s)
      PROVE  Calls(frames') /\ Top' = h /\ at' = at /\ tokens' = tokens /\ token' \in TokenType
  <2>1. frames' = SubSeq(frames, 1, Len(frames) - 1) \o <<g, h>> /\ at' = at /\ tokens' = tokens
        /\ token' = [token EXCEPT !.value = @ \o s]
    BY <1>2, <1>7 DEF Goes
  <2>2. Calls(frames') /\ Top' = h
    BY <1>2, <1>3, <1>7, <2>1, CallOpens DEF Top
  <2>3. token' \in TokenType
    BY <1>1, <2>1, TokenGrows DEF LexerInv, LexerType
  <2> QED
    BY <2>1, <2>2, <2>3
<1>8. ASSUME NEW s \in Seq(Char \cup Mark), Goes(<<g>>, s)
      PROVE  Calls(frames') /\ Top' = g /\ at' = at /\ tokens' = tokens /\ token' \in TokenType
  <2>1. frames' = SubSeq(frames, 1, Len(frames) - 1) \o <<g>> /\ at' = at /\ tokens' = tokens
        /\ token' = [token EXCEPT !.value = @ \o s]
    BY <1>2, <1>8 DEF Goes
  <2>2. Calls(frames') /\ Top' = g
    BY <1>2, <1>3, <2>1, CallGoesOn DEF Top
  <2>3. token' \in TokenType
    BY <1>1, <2>1, TokenGrows DEF LexerInv, LexerType
  <2> QED
    BY <2>1, <2>2, <2>3
<1>9. CASE Get("(") /\ Goes(<<g, Frame(")", 1)>>, <<"(">>) /\ UNCHANGED hold
  <2>1. Frame(")", 1) \in CallType /\ Frame(")", 1).end # None /\ Frame(")", 1).after = None
    BY FrameIs DEF Ends, None
  <2>2. Calls(frames') /\ Top'.after = None /\ at' = at /\ tokens' = tokens /\ token' \in TokenType
    BY <1>6, <1>7, <1>9, <2>1
  <2>3. Stands' /\ Used' >= 1 /\ seen'[Len(seen')] = "("
    BY <1>1, <1>6, <1>9, OneTaken
  <2> QED
    BY <1>1, <1>4, <1>9, <2>2, <2>3, WordGoes DEF None
<1>10. CASE /\ Get("{") /\ hold' = "{"
            /\ Goes(<<g, Frame("}", IF Top.sub > 0 THEN Top.sub + 1 ELSE 0)>>, <<>>)
  <2> DEFINE n == IF Top.sub > 0 THEN Top.sub + 1 ELSE 0
  <2>1. n \in Nat
    BY <1>2 DEF CallType
  <2> HIDE DEF n
  <2>2. Frame("}", n) \in CallType /\ Frame("}", n).end # None /\ Frame("}", n).after = None
    BY <2>1, FrameIs DEF Ends, None
  <2>3. Goes(<<g, Frame("}", n)>>, <<>>)
    BY <1>10 DEF n
  <2>4. Calls(frames') /\ Top'.after = None /\ at' = at /\ tokens' = tokens /\ token' \in TokenType
    BY <1>6, <1>7, <2>2, <2>3
  <2>5. Stands' /\ Used' >= 1 /\ seen'[Used'] = "{"
    BY <1>1, <1>6, <1>10, OneTaken
  <2>6. hold' \in Char /\ hold' # None /\ hold' \notin {"nl", "eof"} /\ seen'[Used'] = hold'
    BY <1>6, <1>10, <2>5 DEF None
  <2> QED
    BY <1>1, <2>4, <2>5, <2>6, WordGoes DEF None
<1>11. CASE \E c \in Wild : Get(c) /\ Goes(<<g>>, <<c>>) /\ UNCHANGED hold
  <2>1. PICK c \in Wild : Get(c) /\ Goes(<<g>>, <<c>>) /\ UNCHANGED hold
    BY <1>11
  <2>2. c \in Char /\ c \notin {"nl", "eof"}
    BY DEF Wild, Char
  <2>3. <<c>> \in Seq(Char \cup Mark)
    BY <2>2
  <2>4. Calls(frames') /\ Top'.after = None /\ at' = at /\ tokens' = tokens /\ token' \in TokenType
    BY <1>3, <1>8, <2>1, <2>3
  <2>5. Stands' /\ Used' >= 1 /\ seen'[Len(seen')] = c
    BY <1>1, <2>1, <2>2, OneTaken
  <2> QED
    BY <1>1, <1>4, <2>1, <2>2, <2>4, <2>5, WordGoes DEF None
<1>12. CASE \E c \in Char \ (Wild \cup {"(", "{"}) : Peek(c) /\ Goes(<<g>>, <<>>) /\ UNCHANGED hold
  <2>1. PICK c \in Char : Peek(c) /\ Goes(<<g>>, <<>>) /\ UNCHANGED hold
    BY <1>12
  <2>2. Calls(frames') /\ Top'.after = None /\ at' = at /\ tokens' = tokens /\ token' \in TokenType
    BY <1>3, <1>6, <1>8, <2>1
  <2>3. Stands' /\ Used' >= 1 /\ (unget' # None \/ eof' = TRUE)
    BY <1>1, <1>2, <2>1, OneLooked
  <2> QED
    BY <1>1, <1>4, <2>1, <2>2, <2>3, WordGoes DEF None
<1> QED
  BY <1>5, <1>9, <1>10, <1>11, <1>12, Zenon
-----------------------------------------------------------------------------
LEMMA LexerInit == Init => AInv
<1> SUFFICES ASSUME Init PROVE AInv
  OBVIOUS
<1>1. /\ seen = <<>> /\ eof = FALSE /\ unget = None /\ at = "blanks" /\ hold = None
      /\ frames = <<>> /\ token = NewToken /\ tokens = <<>>
  BY DEF Init
<1>2. LexerType
  BY <1>1, NewTokenIs DEF LexerType, At
<1>3. Stands
  <2>1. <<>> \in Seq(Char \ {"eof"}) /\ None # "eof"
    BY DEF None
  <2> QED
    BY <1>1, <2>1 DEF Stands
<1> QED
  BY <1>1, <1>2, <1>3 DEF AInv, LexerInv, AsksForALineWhenNeeded

LEMMA LexerStep ==
  ASSUME AInv, Next \/ UNCHANGED lexer
  PROVE  AInv'
<1>1. CASE NextToken
  BY <1>1, BlanksStep, CommentStep, FirstStep, SecondStep, RedirDigitStep, StartWordStep
     DEF NextToken
<1>2. CASE Word
  BY <1>2, WordEndsStep, ClosesStep, UnterminatedStep, QuoteStep, BackslashStep,
     AfterBackslashStep, DollarStep, AfterDollarStep, MagicStep, ParenStep, BacktickStep, CtlStep,
     PlainStep DEF Word
<1>3. CASE UNCHANGED lexer
  <2>1. UNCHANGED <<seen, eof, unget, at, hold, frames, token, tokens>>
    BY <1>3 DEF lexer
  <2>2. LexerType' /\ Stands' /\ Used' = Used /\ Top' = Top
    BY <2>1 DEF AInv, LexerInv, LexerType, Stands, Used, Top
  <2>3. LexerInv'
    BY <2>1, <2>2 DEF AInv, LexerInv
  <2>4. AsksForALineWhenNeeded'
    BY <2>1, <2>2 DEF AInv, AsksForALineWhenNeeded, Wants, Open
  <2> QED
    BY <2>3, <2>4 DEF AInv
<1> QED
  BY <1>1, <1>2, <1>3 DEF Next

\* Whoever types is only asked for another line where the newline of the last one is
\* a token already, so that the line can be executed, or where a quote, a
\* substitution or a backslash goes on behind it: for any text and any typing.
THEOREM LinesAreAskedForInTime == InputSpec => []AsksForALineWhenNeeded
<1>1. InputInit => AInv
  BY LexerInit DEF InputInit
<1>2. AInv /\ [InputNext]_<<vars, promptVars>> => AInv'
  <2> SUFFICES ASSUME AInv, [InputNext]_<<vars, promptVars>>
               PROVE  Next \/ UNCHANGED lexer
    BY LexerStep
  <2>1. CASE Lex
    BY <2>1 DEF Lex
  <2>2. CASE PromptGetc
    BY <2>2 DEF PromptGetc
  <2>3. CASE Types \/ UNCHANGED <<vars, promptVars>>
    BY <2>3 DEF Types, vars, lexer
  <2> QED
    BY <2>1, <2>2, <2>3 DEF InputNext
<1>3. AInv => AsksForALineWhenNeeded
  BY DEF AInv
<1> QED
  BY <1>1, <1>2, <1>3, PTL DEF InputSpec
-----------------------------------------------------------------------------
\* What has been read only grows at its end.
Prolongs(s, t) ==
  /\ s \in Seq(Char \ {"eof"}) /\ t \in Seq(Char \ {"eof"})
  /\ Len(s) <= Len(t) /\ \A i \in 1..Len(s) : t[i] = s[i]

\* A token that stays what it is, whatever is read next.
Stable(s, t) ==
  \/ t.type # <<"eof">> /\ t.to < Len(s)
  \/ t.type \in {<<"(">>, <<")">>}
  \/ t.type = <<"nl">> /\ s[t.to] = "nl"
  \/ t.type # <<"eof">> /\ Len(t.type) = 2

LEMMA GapStays ==
  ASSUME NEW s, NEW t, Prolongs(s, t), NEW first \in Nat \ {0}, NEW last \in Int, last <= Len(s),
         Gap(s, first, last)
  PROVE  Gap(t, first, last)
<1>1. PICK k \in (first - 1)..last :
        /\ \A i \in first..k : s[i] \in Blank
        /\ k < last => s[k + 1] = "#" /\ \A i \in (k + 1)..last : s[i] # "nl"
  BY DEF Gap
<1>2. Len(s) \in Nat /\ \A i \in 1..Len(s) : t[i] = s[i]
  BY DEF Prolongs
<1>3. \A i \in first..last : t[i] = s[i]
  BY <1>2
<1>4. \A i \in first..k : t[i] \in Blank
  BY <1>1, <1>3
<1>5. k < last => t[k + 1] = "#" /\ \A i \in (k + 1)..last : t[i] # "nl"
  BY <1>1, <1>3
<1> QED
  BY <1>1, <1>4, <1>5 DEF Gap

LEMMA SamePart ==
  ASSUME NEW S, NEW s \in Seq(S), NEW t \in Seq(S), NEW a \in Nat \ {0}, NEW b \in Int,
         b <= Len(s), b <= Len(t), \A i \in a..b : t[i] = s[i]
  PROVE  SubSeq(t, a, b) = SubSeq(s, a, b)
<1>1. /\ SubSeq(t, a, b) \in Seq(S) /\ Len(SubSeq(t, a, b)) = (IF a <= b THEN b - a + 1 ELSE 0)
      /\ \A i \in 1..(b - a + 1) : SubSeq(t, a, b)[i] = t[a + i - 1]
  <2>1. \A i \in a..b : t[i] \in S
    OBVIOUS
  <2> QED
    BY <2>1, SubSeqProperties
<1>2. /\ SubSeq(s, a, b) \in Seq(S) /\ Len(SubSeq(s, a, b)) = (IF a <= b THEN b - a + 1 ELSE 0)
      /\ \A i \in 1..(b - a + 1) : SubSeq(s, a, b)[i] = s[a + i - 1]
  <2>1. \A i \in a..b : s[i] \in S
    OBVIOUS
  <2> QED
    BY <2>1, SubSeqProperties
<1>3. \A i \in 1..(b - a + 1) : a + i - 1 \in a..b
  OBVIOUS
<1>4. \A i \in 1..Len(SubSeq(t, a, b)) : SubSeq(t, a, b)[i] = SubSeq(s, a, b)[i]
  BY <1>1, <1>2, <1>3
<1> QED
  BY <1>1, <1>2, <1>4, SeqEqual

\* A tuple of one or two characters.
LEMMA Tuples ==
  ASSUME NEW a, NEW b
  PROVE  /\ <<a>> = <<b>> => a = b
         /\ Len(<<a>>) = 1 /\ <<a>>[1] = a /\ Len(<<a, b>>) = 2 /\ <<a, b>>[1] = a /\ <<a, b>>[2] = b
<1>1. <<a>>[1] = a /\ <<b>>[1] = b
  OBVIOUS
<1> QED
  BY <1>1

LEMMA TypesDiffer ==
  /\ <<"eof">> # <<"nl">> /\ <<"eof">> \notin Keyword \cup {<<"word">>}
  /\ <<"nl">> \notin Keyword \cup {<<"word">>}
<1>1. \A a, b : <<a>> = <<b>> => a = b
  BY Tuples
<1>2. ASSUME NEW t \in Keyword \cup {<<"word">>} PROVE t # <<"eof">> /\ t # <<"nl">>
  <2>1. t = <<"{">> \/ t = <<"}">> \/ t = <<"!">> \/ t = <<"word">>
    BY Zenon DEF Keyword
  <2> QED
    BY <1>1, <2>1, Zenon
<1>3. <<"eof">> # <<"nl">>
  BY <1>1, Zenon
<1> QED
  BY <1>2, <1>3, Zenon

\* What each kind of token is spelled as.
LEMMA SpellsEnd ==
  ASSUME NEW read, NEW t, t.type = <<"eof">>
  PROVE  Spells(read, t) <=> t.to = Len(read)
  BY TypesDiffer, Zenon DEF Spells

LEMMA SpellsNewline ==
  ASSUME NEW read, NEW t, t.type = <<"nl">>
  PROVE  Spells(read, t) <=>
           /\ SubSeq(read, t.from, t.to) \in {<<"nl">>, <<"cr">>, <<"cr", "nl">>}
           /\ SubSeq(read, t.from, t.to) = <<"cr">> =>
                ~(t.to < Len(read) /\ read[t.to + 1] \in {"nl"})
  BY TypesDiffer, Zenon DEF Spells

LEMMA SpellsWord ==
  ASSUME NEW read, NEW t, t.type \in Keyword \cup {<<"word">>}
  PROVE  LET s == SubSeq(read, t.from, t.to)
         IN  Spells(read, t) <=>
               /\ s[1] \notin Delimiter \cup {"#"}
               /\ (t.to < Len(read) /\ read[t.to + 1] \in Delimiter) \/ t.to = Len(read)
               /\ s \in {<<d>> : d \in Digit} => ~(t.to < Len(read) /\ read[t.to + 1] \in {"<", ">"})
               /\ (\A i \in DOMAIN s : s[i] \notin Quoter \cup {"ctl"}) =>
                    t.value = s /\ \A i \in DOMAIN s : s[i] \notin Delimiter
  BY TypesDiffer, Zenon DEF Spells

LEMMA SpellsOperator ==
  ASSUME NEW read, NEW t, t.type # <<"eof">>, t.type # <<"nl">>, t.type \notin Keyword \cup {<<"word">>}
  PROVE  Spells(read, t) <=>
           /\ SubSeq(read, t.from, t.to) = (IF t.digit = None THEN <<>> ELSE <<t.digit>>) \o t.type
           /\ Len(t.type) = 1 /\ t.type[1] \in DOMAIN Follow =>
                ~(t.to < Len(read) /\ read[t.to + 1] \in Follow[t.type[1]])
  BY Zenon DEF Spells

LEMMA SpellsStays ==
  ASSUME NEW s, NEW t, Prolongs(s, t), NEW u \in TokenType, Spells(s, u),
         1 <= u.from, u.from <= u.to, u.to <= Len(s), Stable(s, u)
  PROVE  Spells(t, u)
<1>1. u.from \in Nat /\ u.to \in Nat /\ u.type \in Seq(Char \cup {"word"}) /\ Len(s) \in Nat
      /\ Len(t) \in Nat /\ Len(s) <= Len(t)
  BY DEF TokenType, Prolongs
<1>2. SubSeq(t, u.from, u.to) = SubSeq(s, u.from, u.to)
  <2>1. s \in Seq(Char) /\ t \in Seq(Char) /\ \A i \in u.from..u.to : t[i] = s[i]
    BY <1>1 DEF Prolongs
  <2> QED
    BY <1>1, <2>1, SamePart
<1>3. ASSUME u.to < Len(s)
      PROVE  u.to < Len(t) /\ u.to # Len(t) /\ u.to # Len(s) /\ t[u.to + 1] = s[u.to + 1]
  BY <1>1, <1>3 DEF Prolongs
<1>4. CASE u.type # <<"eof">> /\ u.to < Len(s)
  BY <1>2, <1>3, <1>4, Zenon DEF Spells
<1>5. CASE u.type \in {<<"(">>, <<")">>}
  <2>1. u.type[1] \in {"(", ")"}
    BY <1>5, Tuples
  <2>2. u.type # <<"eof">> /\ u.type # <<"nl">> /\ u.type \notin Keyword \cup {<<"word">>}
    BY <2>1, Tuples DEF Keyword
  <2>3. u.type[1] \notin DOMAIN Follow
    BY <2>1 DEF Follow
  <2> QED
    BY <1>2, <2>2, <2>3, Zenon DEF Spells
<1>6. CASE u.type = <<"nl">> /\ s[u.to] = "nl"
  <2>1. SubSeq(s, u.from, u.to) # <<"cr">>
    <3> DEFINE p == SubSeq(s, u.from, u.to)
    <3>1. Len(p) = u.to - u.from + 1 /\ p[u.to - u.from + 1] = s[u.to]
      BY <1>1, <1>6 DEF Prolongs
    <3> HIDE DEF p
    <3>2. SUFFICES ASSUME p = <<"cr">> PROVE FALSE
      BY DEF p
    <3>3. Len(p) = 1 /\ p[1] = "cr"
      BY <3>2, Tuples, Zenon
    <3>4. u.to - u.from + 1 = 1
      BY <3>1, <3>3
    <3> QED
      BY <1>6, <3>1, <3>3, <3>4
  <2>2. u.type # <<"eof">> /\ u.type = <<"nl">>
    BY <1>6, Tuples
  <2>3. SubSeq(s, u.from, u.to) \in {<<"nl">>, <<"cr">>, <<"cr", "nl">>}
    BY <2>2, SpellsNewline
  <2> QED
    BY <1>2, <2>1, <2>2, <2>3, SpellsNewline, Zenon
<1>7. CASE u.type # <<"eof">> /\ Len(u.type) = 2
  <2>1. u.type # <<"nl">> /\ u.type \notin Keyword \cup {<<"word">>} /\ Len(u.type) # 1
    BY <1>7, Tuples DEF Keyword
  <2> QED
    BY <1>2, <1>7, <2>1, Zenon DEF Spells
<1> QED
  BY <1>4, <1>5, <1>6, <1>7, Zenon DEF Stable

LEMMA TilesStay ==
  ASSUME NEW s, NEW t, Prolongs(s, t), NEW ts \in Seq(TokenType), Tiles(s, ts),
         \A i \in DOMAIN ts : /\ 1 <= ts[i].from /\ ts[i].from <= ts[i].to /\ ts[i].to <= Len(s)
                              /\ Stable(s, ts[i])
  PROVE  Tiles(t, ts)
<1> SUFFICES ASSUME NEW i \in DOMAIN ts
             PROVE  /\ Spells(t, ts[i])
                    /\ LET first == IF i = 1 THEN 1 ELSE ts[i - 1].to + 1
                           last == IF ts[i].type = <<"eof">> THEN ts[i].to ELSE ts[i].from - 1
                       IN  first <= last + 1 /\ Gap(t, first, last)
  BY DEF Tiles
<1> DEFINE first == IF i = 1 THEN 1 ELSE ts[i - 1].to + 1
           last == IF ts[i].type = <<"eof">> THEN ts[i].to ELSE ts[i].from - 1
<1>1. Spells(s, ts[i]) /\ first <= last + 1 /\ Gap(s, first, last)
  BY Zenon DEF Tiles
<1>2. ts[i] \in TokenType /\ 1 <= ts[i].from /\ ts[i].from <= ts[i].to /\ ts[i].to <= Len(s)
      /\ Stable(s, ts[i]) /\ ts[i].from \in Nat /\ ts[i].to \in Nat
  <2>1. ts[i] \in TokenType
    OBVIOUS
  <2>2. ts[i].from \in Nat /\ ts[i].to \in Nat
    BY <2>1 DEF TokenType
  <2> QED
    BY <2>1, <2>2
<1>3. Spells(t, ts[i])
  BY <1>1, <1>2, SpellsStays
<1>4. first \in Nat \ {0}
  <2>1. CASE i = 1
    BY <2>1
  <2>2. CASE i # 1
    <3>1. ts[i - 1] \in TokenType
      BY <2>2
    <3>2. ts[i - 1].to \in Nat
      BY <3>1 DEF TokenType
    <3> QED
      BY <2>2, <3>2
  <2> QED
    BY <2>1, <2>2
<1>5. last \in Int /\ last <= Len(s)
  BY <1>2 DEF Prolongs
<1> HIDE DEF first, last
<1>6. Gap(t, first, last)
  BY <1>1, <1>4, <1>5, GapStays
<1> QED
  BY <1>1, <1>3, <1>6, Zenon DEF first, last

\* Where the next token may begin.
Behind(ts) == IF ts = <<>> THEN 1 ELSE ts[Len(ts)].to + 1

LEMMA OneMore ==
  ASSUME NEW s, NEW ts \in Seq(TokenType), Tiles(s, ts), NEW u \in TokenType, Spells(s, u),
         NEW last \in Int, last = (IF u.type = <<"eof">> THEN u.to ELSE u.from - 1),
         Behind(ts) <= last + 1, Gap(s, Behind(ts), last)
  PROVE  Tiles(s, Append(ts, u))
<1> DEFINE new == Append(ts, u)
<1>1. /\ DOMAIN new = 1..(Len(ts) + 1) /\ Len(ts) \in Nat /\ new[Len(ts) + 1] = u
      /\ \A i \in 1..Len(ts) : new[i] = ts[i]
  OBVIOUS
<1> HIDE DEF new
<1> SUFFICES ASSUME NEW i \in 1..(Len(ts) + 1)
             PROVE  /\ Spells(s, new[i])
                    /\ LET first == IF i = 1 THEN 1 ELSE new[i - 1].to + 1
                           end == IF new[i].type = <<"eof">> THEN new[i].to ELSE new[i].from - 1
                       IN  first <= end + 1 /\ Gap(s, first, end)
  BY <1>1 DEF Tiles, new
<1>2. CASE i \in 1..Len(ts)
  <2>1. new[i] = ts[i] /\ (i # 1 => new[i - 1] = ts[i - 1]) /\ i \in DOMAIN ts
    BY <1>1, <1>2
  <2> QED
    BY <2>1, Zenon DEF Tiles
<1>3. CASE i = Len(ts) + 1
  <2>1. new[i] = u
    BY <1>1, <1>3
  <2>2. Behind(ts) = IF i = 1 THEN 1 ELSE new[i - 1].to + 1
    <3>1. CASE ts = <<>>
      <4>1. i = 1
        BY <1>3, <3>1
      <4> QED
        BY <3>1, <4>1, Zenon DEF Behind
    <3>2. CASE ts # <<>>
      <4>1. i # 1 /\ i - 1 = Len(ts) /\ new[Len(ts)] = ts[Len(ts)]
        BY <1>1, <1>3, <3>2
      <4> QED
        BY <3>2, <4>1, Zenon DEF Behind
    <3> QED
      BY <3>1, <3>2
  <2> QED
    BY <2>1, <2>2, Zenon
<1> QED
  BY <1>1, <1>2, <1>3
-----------------------------------------------------------------------------
(***************************************************************************)
(* The invariant: the tokens tile what is in front of the one being made,  *)
(* and that one is so far what it will have to be.                         *)
(***************************************************************************)
Start == Behind(tokens)

Sound(t) == t.to <= Used /\ (eof \/ (1 <= t.from /\ t.from <= t.to /\ Stable(seen, t)))
TokensSound == \A i \in DOMAIN tokens : Sound(tokens[i])

\* a word without anything special in it
Unquoted == \A j \in token.from..Used : seen[j] \notin Quoter \cup {"ctl"}
Plainly ==
  /\ Len(frames) = 1 /\ Top.quote = None /\ Top.after = None
  /\ token.value = SubSeq(seen, token.from, IF hold = None THEN Used ELSE Used - 1)
  /\ \A j \in token.from..Used : seen[j] \notin Delimiter

BlanksInv == at = "blanks" => \A j \in Start..Used : seen[j] \in Blank
CommentInv ==
  at = "comment" =>
    \E k \in (Start - 1)..(Used - 1) :
      /\ \A j \in Start..k : seen[j] \in Blank
      /\ seen[k + 1] = "#" /\ \A j \in (k + 1)..Used : seen[j] # "nl"
Begun == Start <= token.from /\ token.from <= Used /\ Gap(seen, Start, token.from - 1)
SecondInv ==
  at = "second" =>
    /\ Begun /\ token.value = <<>>
    /\ hold \in Char \ (Blank \cup {"#", "eof"} \cup Single)
    /\ token.digit = None => token.from = Used
    /\ token.digit # None =>
         token.from = Used - 1 /\ seen[Used - 1] = token.digit /\ hold \in {"<", ">"}
WordInv ==
  at = "word" =>
    /\ Begun /\ seen[token.from] \notin Delimiter \cup {"#"}
    /\ Used = token.from /\ seen[Used] \in Digit => eof \/ unget \notin {None, "<", ">"}
    /\ Unquoted => Plainly

TInv ==
  /\ AInv /\ TilesTheText /\ TokensSound
  /\ BlanksInv /\ CommentInv /\ SecondInv /\ WordInv

\* What a step does to what has been read.
Grows ==
  /\ Prolongs(seen, seen') /\ Used' \in Nat /\ Used <= Used' /\ Used' <= Len(seen')
  /\ eof => eof' /\ seen' = seen
  /\ unget # None /\ Used' = Used => unget' = unget

LEMMA UsedIs ==
  ASSUME Stands
  PROVE  /\ Len(seen) \in Nat /\ Used \in Nat /\ Used <= Len(seen)
         /\ unget = None => Used = Len(seen)
<1>1. seen \in Seq(Char \ {"eof"}) /\ (unget # None => seen # <<>>)
  BY DEF Stands
<1> QED
  BY <1>1 DEF Used

LEMMA UsedThen ==
  ASSUME Stands'
  PROVE  /\ Len(seen') \in Nat /\ Used' \in Nat /\ Used' <= Len(seen')
         /\ unget' = None => Used' = Len(seen')
<1>1. seen' \in Seq(Char \ {"eof"}) /\ (unget' # None => seen' # <<>>)
  BY DEF Stands
<1> QED
  BY <1>1 DEF Used

LEMMA TakenGrows ==
  ASSUME LexerInv, NEW c \in Char, Get(c)
  PROVE  /\ Grows /\ unget' = None /\ Used' = Len(seen')
         /\ c = "eof" => eof' = TRUE /\ seen' = seen /\ Used' = Used
         /\ c # "eof" => Used' = Used + 1 /\ seen'[Used'] = c /\ eof' = FALSE
<1>1. /\ Stands' /\ Advanced(c) /\ unget' = None /\ Used' = Len(seen')
      /\ c # "eof" => /\ eof' = FALSE /\ seen'[Len(seen')] = c /\ Used' = Used + 1
  BY OneTaken
<1>2. /\ Len(seen) \in Nat /\ Used \in Nat /\ Used <= Len(seen)
      /\ unget = None => Used = Len(seen)
  BY UsedIs DEF LexerInv
<1>3. Used' \in Nat /\ Used' <= Len(seen')
  BY <1>1, UsedThen
<1>4. Prolongs(seen, seen')
  BY <1>1 DEF Advanced, Prolongs, LexerInv, Stands
<1>5. CASE c = "eof"
  <2>1. eof' = TRUE /\ seen' = seen /\ unget = None
    BY <1>1, <1>5, Zenon DEF Advanced
  <2> QED
    BY <1>1, <1>2, <1>3, <1>4, <1>5, <2>1 DEF Grows
<1>6. CASE c # "eof"
  <2>1. eof = FALSE /\ eof' = FALSE
    BY <1>1, <1>6, Zenon DEF Advanced
  <2> QED
    BY <1>1, <1>2, <1>3, <1>4, <1>6, <2>1 DEF Grows
<1> QED
  BY <1>5, <1>6

LEMMA LookedGrows ==
  ASSUME LexerInv, NEW c \in Char, Peek(c)
  PROVE  /\ Grows /\ Used' = Used
         /\ c = "eof" => eof' = TRUE /\ seen' = seen /\ Used = Len(seen)
         /\ c # "eof" => Used < Len(seen') /\ seen'[Used + 1] = c /\ unget' = c /\ c # None
         /\ unget # None => unget' = unget
<1>1. /\ Stands' /\ Looked(c) /\ Used' = Used
  BY OneLooked
<1>2. /\ Len(seen) \in Nat /\ Used \in Nat /\ Used <= Len(seen)
      /\ unget = None => Used = Len(seen)
  BY UsedIs DEF LexerInv
<1>3. Used' \in Nat /\ Used' <= Len(seen')
  BY <1>1, UsedThen
<1>4. Prolongs(seen, seen')
  BY <1>1 DEF Looked, Prolongs, LexerInv, Stands
<1>5. CASE c = "eof"
  <2>1. eof' = TRUE /\ seen' = seen /\ unget = None
    BY <1>1, <1>5, Zenon DEF Looked
  <2> QED
    BY <1>1, <1>2, <1>3, <1>4, <1>5, <2>1 DEF Grows
<1>6. CASE c # "eof"
  <2>1. eof = FALSE /\ eof' = FALSE /\ unget' = c
    BY <1>1, <1>6, Zenon DEF Looked
  <2>2. unget # None => unget' = unget
    BY <1>6, <2>1, Zenon DEF Peek, Readable
  <2>3. Used < Len(seen') /\ seen'[Used + 1] = c
    BY <1>1, <1>2, <1>6 DEF Looked
  <2> QED
    BY <1>1, <1>2, <1>3, <1>4, <1>6, <2>1, <2>2, <2>3, NoneIsNoChar DEF Grows
<1> QED
  BY <1>5, <1>6

LEMMA StillGrows ==
  ASSUME LexerInv, UNCHANGED <<seen, eof, unget>>
  PROVE  Grows /\ Used' = Used
<1>1. Used' = Used
  BY DEF Used
<1>2. Used \in Nat /\ Used <= Len(seen) /\ Len(seen) \in Nat
  BY UsedIs DEF LexerInv
<1>3. Prolongs(seen, seen')
  BY DEF Prolongs, LexerInv, Stands
<1> QED
  BY <1>1, <1>2, <1>3 DEF Grows

LEMMA NextCharGrows ==
  ASSUME LexerInv, NEW c \in Char, NextChar(c)
  PROVE  Grows
<1>1. CASE hold # None
  BY <1>1, StillGrows DEF NextChar
<1>2. CASE hold = None
  BY <1>2, TakenGrows DEF NextChar
<1> QED
  BY <1>1, <1>2

LEMMA StartIs ==
  ASSUME TInv
  PROVE  Start \in Nat \ {0} /\ Start <= Used + 1 /\ tokens \in Seq(TokenType)
<1>1. tokens \in Seq(TokenType) /\ Used \in Nat
  BY UsedIs DEF TInv, AInv, LexerInv, LexerType
<1>2. CASE tokens = <<>>
  BY <1>1, <1>2 DEF Start, Behind
<1>3. CASE tokens # <<>>
  <2>1. Len(tokens) \in DOMAIN tokens /\ tokens[Len(tokens)] \in TokenType
    BY <1>1, <1>3
  <2>2. tokens[Len(tokens)].to <= Used /\ tokens[Len(tokens)].to \in Nat
    BY <2>1 DEF TInv, TokensSound, Sound, TokenType
  <2>3. Start = tokens[Len(tokens)].to + 1
    BY <1>3, Zenon DEF Start, Behind
  <2> QED
    BY <1>1, <2>2, <2>3
<1> QED
  BY <1>2, <1>3

\* The tokens there are stay what they are.
LEMMA SoundStays ==
  ASSUME TInv, Grows, NEW t \in TokenType, Sound(t)
  PROVE  t.to <= Used' /\ (eof' \/ (1 <= t.from /\ t.from <= t.to /\ Stable(seen', t)))
<1>1. Len(seen) \in Nat /\ Used \in Nat /\ Used <= Len(seen) /\ t.to \in Nat /\ t.from \in Nat
  BY UsedIs DEF TInv, AInv, LexerInv, TokenType
<1>2. t.to <= Used /\ t.to <= Used'
  BY <1>1 DEF Sound, Grows
<1>3. CASE eof
  BY <1>2, <1>3 DEF Grows
<1>4. CASE ~eof
  <2>1. 1 <= t.from /\ t.from <= t.to /\ Stable(seen, t)
    BY <1>4 DEF Sound
  <2>2. seen'[t.to] = seen[t.to] /\ Len(seen) <= Len(seen') /\ Len(seen') \in Nat
    BY <1>1, <1>2, <2>1 DEF Grows, Prolongs
  <2>3. t.to < Len(seen) => t.to < Len(seen')
    BY <1>1, <2>2
  <2>4. Stable(seen', t)
    BY <2>1, <2>2, <2>3, Zenon DEF Stable
  <2> QED
    BY <1>2, <2>1, <2>4
<1> QED
  BY <1>3, <1>4

LEMMA TokensGrow ==
  ASSUME TInv, Grows
  PROVE  Tiles(seen', tokens)
<1>1. Tiles(seen, tokens) /\ tokens \in Seq(TokenType)
  BY StartIs DEF TInv, TilesTheText
<1>2. CASE eof
  BY <1>1, <1>2 DEF Grows
<1>3. CASE ~eof
  <2>1. \A i \in DOMAIN tokens :
          /\ 1 <= tokens[i].from /\ tokens[i].from <= tokens[i].to /\ tokens[i].to <= Len(seen)
          /\ Stable(seen, tokens[i])
    <3> SUFFICES ASSUME NEW i \in DOMAIN tokens
                 PROVE  /\ 1 <= tokens[i].from /\ tokens[i].from <= tokens[i].to
                        /\ tokens[i].to <= Len(seen) /\ Stable(seen, tokens[i])
      OBVIOUS
    <3>1. Sound(tokens[i]) /\ tokens[i] \in TokenType
      BY <1>1 DEF TInv, TokensSound
    <3>2. Used <= Len(seen) /\ Used \in Nat /\ Len(seen) \in Nat
      BY UsedIs DEF TInv, AInv, LexerInv
    <3>3. tokens[i].to \in Nat
      BY <3>1 DEF TokenType
    <3> QED
      BY <1>3, <3>1, <3>2, <3>3 DEF Sound
  <2>2. Prolongs(seen, seen')
    BY DEF Grows
  <2> QED
    BY <1>1, <2>1, <2>2, TilesStay
<1> QED
  BY <1>2, <1>3

LEMMA TokensStay ==
  ASSUME TInv, Grows, tokens' = tokens
  PROVE  TilesTheText' /\ TokensSound' /\ Start' = Start
<1>1. TilesTheText'
  BY TokensGrow DEF TilesTheText
<1>2. Start' = Start
  BY DEF Start
<1>3. ASSUME NEW i \in DOMAIN tokens
      PROVE  tokens[i].to <= Used' /\ (eof' \/ (/\ 1 <= tokens[i].from /\ tokens[i].from <= tokens[i].to
                                               /\ Stable(seen', tokens[i])))
  <2>1. tokens[i] \in TokenType /\ Sound(tokens[i])
    BY StartIs DEF TInv, TokensSound
  <2> QED
    BY <2>1, SoundStays
<1>4. TokensSound'
  BY <1>3, Zenon DEF TokensSound, Sound
<1> QED
  BY <1>1, <1>2, <1>4

\* A token has been made.
LEMMA TokenMade ==
  ASSUME TInv, AInv', Grows, NEW t \in TokenType, tokens' = Append(tokens, t), Spells(seen', t),
         NEW last \in Int, last = (IF t.type = <<"eof">> THEN t.to ELSE t.from - 1),
         Start <= last + 1, last <= Len(seen), Gap(seen, Start, last), t.to = Used',
         eof' \/ (1 <= t.from /\ t.from <= t.to /\ Stable(seen', t)), at' \in {"blanks", "end"}
  PROVE  TInv'
<1>1. tokens \in Seq(TokenType) /\ Start \in Nat \ {0} /\ Used' \in Nat
  BY StartIs DEF Grows
<1>2. TilesTheText'
  <2>1. Gap(seen', Start, last)
    BY <1>1, GapStays DEF Grows
  <2>2. Tiles(seen', tokens)
    BY TokensGrow
  <2> QED
    BY <1>1, <2>1, <2>2, OneMore DEF Start, TilesTheText
<1>3. TokensSound'
  <2> SUFFICES ASSUME NEW i \in DOMAIN tokens'
               PROVE  tokens'[i].to <= Used' /\ (eof' \/ (/\ 1 <= tokens'[i].from
                                                         /\ tokens'[i].from <= tokens'[i].to
                                                         /\ Stable(seen', tokens'[i])))
    BY DEF TokensSound, Sound
  <2>1. CASE i \in DOMAIN tokens
    <3>1. tokens'[i] = tokens[i] /\ tokens[i] \in TokenType /\ Sound(tokens[i])
      BY <1>1, <2>1 DEF TInv, TokensSound
    <3>2. tokens[i].to <= Used' /\ (eof' \/ (/\ 1 <= tokens[i].from /\ tokens[i].from <= tokens[i].to
                                            /\ Stable(seen', tokens[i])))
      BY <3>1, SoundStays
    <3> QED
      BY <3>1, <3>2
  <2>2. CASE i \notin DOMAIN tokens
    <3>1. tokens'[i] = t
      BY <1>1, <2>2
    <3> QED
      BY <1>1, <3>1
  <2> QED
    BY <2>1, <2>2
<1>4. BlanksInv'
  <2>1. Start' = Used' + 1
    <3>1. tokens' # <<>> /\ tokens'[Len(tokens')] = t
      BY <1>1
    <3> QED
      BY <3>1, Zenon DEF Start, Behind
  <2>2. \A j \in (Used' + 1)..Used' : seen'[j] \in Blank
    BY <1>1
  <2> QED
    BY <2>1, <2>2, Zenon DEF BlanksInv
<1>5. CommentInv' /\ SecondInv' /\ WordInv'
  BY DEF CommentInv, SecondInv, WordInv
<1> QED
  BY <1>2, <1>3, <1>4, <1>5 DEF TInv
-----------------------------------------------------------------------------
LEMMA GapBefore ==
  ASSUME TInv, at \in {"blanks", "comment"}
  PROVE  Gap(seen, Start, Used)
<1>1. Start \in Nat \ {0} /\ Start <= Used + 1 /\ Used \in Nat
  BY StartIs, UsedIs DEF TInv, AInv, LexerInv
<1>2. CASE at = "blanks"
  <2>1. \A j \in Start..Used : seen[j] \in Blank
    BY <1>2 DEF TInv, BlanksInv
  <2>2. Used \in (Start - 1)..Used /\ ~(Used < Used)
    BY <1>1
  <2> QED
    BY <2>1, <2>2, Zenon DEF Gap
<1>3. CASE at = "comment"
  <2>1. PICK k \in (Start - 1)..(Used - 1) :
          /\ \A j \in Start..k : seen[j] \in Blank
          /\ seen[k + 1] = "#" /\ \A j \in (k + 1)..Used : seen[j] # "nl"
    BY <1>3 DEF TInv, CommentInv
  <2>2. k \in (Start - 1)..Used
    BY <1>1
  <2> QED
    BY <2>1, <2>2, Zenon DEF Gap
<1> QED
  BY <1>2, <1>3

LEMMA BlanksTile ==
  ASSUME TInv, AInv', Blanks
  PROVE  TInv'
<1>1. PICK c \in Blank \cup {"#"} : Get(c) /\ at' = IF c = "#" THEN "comment" ELSE at
  BY DEF Blanks
<1>2. at = "blanks" /\ tokens' = tokens
  BY DEF Blanks
<1>3. c \in Char /\ c # "eof" /\ (c # "#" => c \in Blank)
  BY <1>1 DEF Blank, Char, Delimiter
<1>4. Grows /\ Used' = Used + 1 /\ seen'[Used'] = c
  BY <1>1, <1>3, TakenGrows DEF TInv, AInv
<1>5. TilesTheText' /\ TokensSound' /\ Start' = Start
  BY <1>2, <1>4, TokensStay
<1>6. Start \in Nat \ {0} /\ Start <= Used + 1 /\ Used \in Nat /\ Used <= Len(seen) /\ Len(seen) \in Nat
  BY StartIs, UsedIs DEF TInv, AInv, LexerInv
<1>7. \A j \in Start..Used : seen'[j] = seen[j] /\ seen[j] \in Blank
  BY <1>2, <1>4, <1>6 DEF Grows, Prolongs, TInv, BlanksInv
<1>8. CASE c = "#"
  <2>1. at' = "comment"
    BY <1>1, <1>8
  <2>2. Used \in (Start' - 1)..(Used' - 1)
    BY <1>4, <1>5, <1>6
  <2>3. \A j \in Start'..Used : seen'[j] \in Blank
    BY <1>5, <1>7
  <2>4. seen'[Used + 1] = "#" /\ \A j \in (Used + 1)..Used' : seen'[j] # "nl"
    BY <1>4, <1>6, <1>8
  <2>5. CommentInv'
    BY <2>2, <2>3, <2>4, Zenon DEF CommentInv
  <2> QED
    BY <1>5, <2>1, <2>5 DEF TInv, BlanksInv, SecondInv, WordInv
<1>9. CASE c # "#"
  <2>1. at' = "blanks"
    BY <1>1, <1>2, <1>9
  <2>2. \A j \in Start..Used' : seen'[j] \in Blank
    BY <1>3, <1>4, <1>6, <1>7, <1>9
  <2>3. BlanksInv'
    BY <1>5, <2>2 DEF BlanksInv
  <2> QED
    BY <1>5, <2>1, <2>3 DEF TInv, CommentInv, SecondInv, WordInv
<1> QED
  BY <1>8, <1>9

LEMMA CommentTile ==
  ASSUME TInv, AInv', Comment
  PROVE  TInv'
<1>1. PICK c \in Char \ {"nl"} : Get(c)
  BY DEF Comment
<1>2. at = "comment" /\ at' = "comment" /\ tokens' = tokens
  BY DEF Comment
<1>3. /\ Grows
      /\ c = "eof" => seen' = seen /\ Used' = Used
      /\ c # "eof" => Used' = Used + 1 /\ seen'[Used'] = c
  BY <1>1, TakenGrows DEF TInv, AInv
<1>4. TilesTheText' /\ TokensSound' /\ Start' = Start
  BY <1>2, <1>3, TokensStay
<1>5. Start \in Nat \ {0} /\ Used \in Nat /\ Used <= Len(seen) /\ Len(seen) \in Nat
  BY StartIs, UsedIs DEF TInv, AInv, LexerInv
<1>6. \A j \in Start..Used : seen'[j] = seen[j]
  BY <1>3, <1>5 DEF Grows, Prolongs
<1>7. PICK k \in (Start - 1)..(Used - 1) :
        /\ \A j \in Start..k : seen[j] \in Blank
        /\ seen[k + 1] = "#" /\ \A j \in (k + 1)..Used : seen[j] # "nl"
  BY <1>2 DEF TInv, CommentInv
<1>8. k \in (Start' - 1)..(Used' - 1)
  BY <1>3, <1>4, <1>5
<1>9. (\A j \in Start'..k : seen'[j] \in Blank) /\ seen'[k + 1] = "#"
  BY <1>4, <1>5, <1>6, <1>7
<1>10. \A j \in (k + 1)..Used' : seen'[j] # "nl"
  BY <1>1, <1>3, <1>5, <1>6, <1>7
<1>11. CommentInv'
  BY <1>8, <1>9, <1>10, Zenon DEF CommentInv
<1> QED
  BY <1>2, <1>4, <1>11 DEF TInv, BlanksInv, SecondInv, WordInv

\* What one character is spelled as.
LEMMA OnePart ==
  ASSUME NEW s \in Seq(Char), NEW i \in 1..Len(s)
  PROVE  SubSeq(s, i, i) = <<s[i]>>
<1>1. \A j \in i..i : s[j] \in Char
  OBVIOUS
<1>2. /\ SubSeq(s, i, i) \in Seq(Char) /\ Len(SubSeq(s, i, i)) = i - i + 1
      /\ \A j \in 1..(i - i + 1) : SubSeq(s, i, i)[j] = s[i + j - 1]
  BY <1>1, SubSeqProperties
<1>3. Len(SubSeq(s, i, i)) = 1 /\ SubSeq(s, i, i)[1] = s[i]
  BY <1>2
<1>4. <<s[i]>> \in Seq(Char) /\ Len(<<s[i]>>) = 1 /\ <<s[i]>>[1] = s[i]
  BY <1>1
<1>5. \A j \in 1..Len(SubSeq(s, i, i)) : SubSeq(s, i, i)[j] = <<s[i]>>[j]
  BY <1>3, <1>4
<1> QED
  BY <1>2, <1>3, <1>4, <1>5, SeqEqual

LEMMA OnePartMore ==
  ASSUME NEW s \in Seq(Char), NEW i \in Nat \ {0}, NEW j \in 1..Len(s), i <= j
  PROVE  SubSeq(s, i, j) = SubSeq(s, i, j - 1) \o <<s[j]>>
<1>1. \A k \in i..j : s[k] \in Char
  OBVIOUS
<1>2. /\ SubSeq(s, i, j) \in Seq(Char) /\ Len(SubSeq(s, i, j)) = j - i + 1
      /\ \A k \in 1..(j - i + 1) : SubSeq(s, i, j)[k] = s[i + k - 1]
  BY <1>1, SubSeqProperties
<1>3. /\ SubSeq(s, i, j - 1) \in Seq(Char) /\ Len(SubSeq(s, i, j - 1)) = j - i
      /\ \A k \in 1..(j - i) : SubSeq(s, i, j - 1)[k] = s[i + k - 1]
  <2>1. \A k \in i..(j - 1) : s[k] \in Char
    BY <1>1
  <2>2. /\ SubSeq(s, i, j - 1) \in Seq(Char)
        /\ Len(SubSeq(s, i, j - 1)) = (IF i <= j - 1 THEN (j - 1) - i + 1 ELSE 0)
        /\ \A k \in 1..((j - 1) - i + 1) : SubSeq(s, i, j - 1)[k] = s[i + k - 1]
    BY <2>1, SubSeqProperties
  <2>3. (j - 1) - i + 1 = j - i /\ (~(i <= j - 1) => j - i = 0)
    OBVIOUS
  <2> QED
    BY <2>2, <2>3
<1>4. <<s[j]>> \in Seq(Char) /\ Len(<<s[j]>>) = 1 /\ <<s[j]>>[1] = s[j]
  BY <1>1
<1> DEFINE p == SubSeq(s, i, j - 1)
           q == <<s[j]>>
           r == SubSeq(s, i, j)
<1>5. /\ r \in Seq(Char) /\ p \in Seq(Char) /\ q \in Seq(Char) /\ Len(r) = j - i + 1
      /\ Len(p) = j - i /\ Len(q) = 1 /\ q[1] = s[j]
      /\ \A k \in 1..(j - i + 1) : r[k] = s[i + k - 1]
      /\ \A k \in 1..(j - i) : p[k] = s[i + k - 1]
  BY <1>2, <1>3, <1>4
<1> HIDE DEF p, q, r
<1>6. /\ p \o q \in Seq(Char) /\ Len(p \o q) = j - i + 1
      /\ \A k \in 1..(j - i + 1) : (p \o q)[k] = IF k <= j - i THEN p[k] ELSE q[k - (j - i)]
  <2>1. /\ p \o q \in Seq(Char) /\ Len(p \o q) = Len(p) + Len(q)
        /\ \A k \in 1..(Len(p) + Len(q)) : (p \o q)[k] = IF k <= Len(p) THEN p[k] ELSE q[k - Len(p)]
    BY <1>5, ConcatProperties
  <2> QED
    BY <1>5, <2>1
<1>7. \A k \in 1..Len(r) : r[k] = (p \o q)[k]
  <2> SUFFICES ASSUME NEW k \in 1..(j - i + 1) PROVE r[k] = (p \o q)[k]
    BY <1>5
  <2>1. CASE k <= j - i
    <3>1. k \in 1..(j - i)
      BY <2>1
    <3> QED
      BY <1>5, <1>6, <2>1, <3>1
  <2>2. CASE k = j - i + 1
    <3>1. (p \o q)[k] = q[1] /\ i + k - 1 = j
      <4>1. k - (j - i) = 1 /\ ~(k <= j - i) /\ i + k - 1 = j
        BY <2>2
      <4> QED
        BY <1>6, <4>1
    <3> QED
      BY <1>5, <3>1
  <2>3. k <= j - i \/ k = j - i + 1
    OBVIOUS
  <2> QED
    BY <2>1, <2>2, <2>3
<1>8. r = p \o q
  BY <1>5, <1>6, <1>7, SeqEqual
<1> QED
  BY <1>8 DEF p, q, r

LEMMA FirstTile ==
  ASSUME TInv, AInv', First
  PROVE  TInv'
<1>1. Start \in Nat \ {0} /\ Start <= Used + 1 /\ Used \in Nat /\ Used <= Len(seen) /\ Len(seen) \in Nat
  BY StartIs, UsedIs DEF TInv, AInv, LexerInv
<1>2. at \in {"blanks", "comment"} /\ Gap(seen, Start, Used)
  BY GapBefore DEF First
<1>3. CASE /\ \E c \in IF at = "comment" THEN {"nl"} ELSE Single \cup {"eof"} :
                /\ Get(c)
                /\ tokens' = Append(tokens, [NewToken EXCEPT !.type = <<c>>, !.from = Taken, !.to = Taken])
                /\ at' = IF c = "eof" THEN "end" ELSE "blanks"
           /\ UNCHANGED <<input, hold, frames, token>>
  <2>1. PICK c \in Single \cup {"eof"} :
          /\ Get(c)
          /\ tokens' = Append(tokens, [NewToken EXCEPT !.type = <<c>>, !.from = Taken, !.to = Taken])
          /\ at' = IF c = "eof" THEN "end" ELSE "blanks"
    BY <1>3 DEF Single
  <2>2. c \in Char /\ c \in {"(", ")", "nl", "eof"}
    BY DEF Char, Single, Delimiter
  <2>3. /\ Grows /\ unget' = None /\ Used' = Len(seen')
        /\ c = "eof" => eof' = TRUE /\ seen' = seen /\ Used' = Used
        /\ c # "eof" => Used' = Used + 1 /\ seen'[Used'] = c /\ eof' = FALSE
    BY <2>1, <2>2, TakenGrows DEF TInv, AInv
  <2>4. Taken = Used' /\ Used' \in Nat /\ Len(seen') \in Nat /\ seen' \in Seq(Char)
    BY <2>3 DEF Taken, Used, Grows, Prolongs
  <2>5. NewToken = [type |-> <<>>, digit |-> None, value |-> <<>>, quoted |-> FALSE, from |-> 0, to |-> 0]
    BY DEF NewToken
  <2>6. PICK t \in TokenType : /\ tokens' = Append(tokens, t) /\ t.type = <<c>> /\ t.digit = None
                               /\ t.from = Used' /\ t.to = Used'
    <3> DEFINE t == [NewToken EXCEPT !.type = <<c>>, !.from = Used', !.to = Used']
    <3>1. NewToken \in TokenType /\ NewToken.digit = None /\ <<c>> \in Seq(Char \cup {"word"})
      BY <2>2, <2>5, NewTokenIs
    <3>2. t \in TokenType /\ t.type = <<c>> /\ t.digit = None /\ t.from = Used' /\ t.to = Used'
      BY <2>4, <3>1 DEF TokenType
    <3>3. tokens' = Append(tokens, t)
      BY <2>1, <2>4, Zenon
    <3> QED
      BY <3>2, <3>3
  <2> DEFINE last == IF t.type = <<"eof">> THEN t.to ELSE t.from - 1
  <2>7. t.type = <<"eof">> <=> c = "eof"
    BY <2>6, Tuples
  <2>8. last = Used
    <3>1. CASE c = "eof"
      BY <2>3, <2>6, <2>7, <3>1
    <3>2. CASE c # "eof"
      <4>1. last = t.from - 1
        BY <2>7, <3>2
      <4> QED
        BY <1>1, <2>3, <2>6, <3>2, <4>1
    <3> QED
      BY <3>1, <3>2
  <2>9. Spells(seen', t) /\ (eof' \/ Stable(seen', t))
    <3>1. CASE c = "eof"
      BY <2>3, <2>6, <2>7, <3>1, SpellsEnd
    <3>2. CASE c # "eof"
      <4>1. SubSeq(seen', t.from, t.to) = <<c>>
        <5>1. Used' \in 1..Len(seen') /\ seen'[Used'] = c
          BY <1>1, <2>3, <2>4, <3>2
        <5> QED
          BY <2>4, <2>6, <5>1, OnePart
      <4>2. CASE c = "nl"
        <5>1. t.type = <<"nl">> /\ <<"nl">> # <<"cr">>
          BY <2>6, <4>2, Tuples
        <5> QED
          BY <2>3, <2>6, <3>2, <4>1, <4>2, <5>1, SpellsNewline DEF Stable
      <4>3. CASE c \in {"(", ")"}
        <5>1. t.type[1] = c /\ t.type \in {<<"(">>, <<")">>}
          BY <2>6, <4>3
        <5>2. t.type # <<"eof">> /\ t.type # <<"nl">> /\ t.type \notin Keyword \cup {<<"word">>}
          <6>1. \A a, b : <<a>> = <<b>> => a = b
            BY Tuples
          <6>2. c # "eof" /\ c # "nl" /\ c # "{" /\ c # "}" /\ c # "!" /\ c # "word"
            BY <4>3
          <6> QED
            BY <2>6, <6>1, <6>2, Zenon DEF Keyword
        <5>3. t.type[1] \notin DOMAIN Follow
          BY <4>3, <5>1 DEF Follow
        <5>4. <<>> \o t.type = t.type
          BY <2>6
        <5> QED
          BY <2>6, <4>1, <5>1, <5>2, <5>3, <5>4, SpellsOperator DEF Stable
      <4> QED
        BY <2>2, <3>2, <4>2, <4>3
    <3> QED
      BY <3>1, <3>2
  <2>10. eof' \/ (1 <= t.from /\ t.from <= t.to)
    BY <1>1, <2>3, <2>4, <2>6
  <2>11. at' \in {"blanks", "end"}
    BY <2>1
  <2> HIDE DEF last
  <2>12. TInv'
    <3>1. last = IF t.type = <<"eof">> THEN t.to ELSE t.from - 1
      BY DEF last
    <3>2. Gap(seen, Start, last) /\ last \in Int /\ Start <= last + 1 /\ last <= Len(seen)
      BY <1>1, <1>2, <2>8
    <3>3. t.to = Used'
      BY <2>6
    <3> QED
      BY <2>3, <2>6, <2>9, <2>10, <2>11, <3>1, <3>2, <3>3, TokenMade
  <2> QED
    BY <2>12
<1>4. CASE /\ at = "blanks"
           /\ \E c \in Char \ (Blank \cup {"#", "eof"} \cup Single) :
                /\ Get(c)
                /\ at' = "second" /\ hold' = c /\ token' = [NewToken EXCEPT !.from = Taken]
           /\ UNCHANGED <<input, frames, tokens>>
  <2>1. PICK c \in Char \ (Blank \cup {"#", "eof"} \cup Single) :
          Get(c) /\ at' = "second" /\ hold' = c /\ token' = [NewToken EXCEPT !.from = Taken]
    BY <1>4
  <2>2. Grows /\ unget' = None /\ Used' = Len(seen') /\ Used' = Used + 1
    BY <2>1, TakenGrows DEF TInv, AInv
  <2>3. TilesTheText' /\ TokensSound' /\ Start' = Start
    BY <1>4, <2>2, TokensStay
  <2>4. Taken = Used'
    BY <2>2 DEF Taken, Used
  <2>5. token' = [type |-> <<>>, digit |-> None, value |-> <<>>, quoted |-> FALSE, from |-> Used', to |-> 0]
    BY <2>1, <2>4 DEF NewToken
  <2>6. Gap(seen', Start, Used)
    BY <1>1, <1>2, <2>2, GapStays DEF Grows
  <2>7. Begun'
    <3>1. token'.from - 1 = Used /\ Start' <= token'.from /\ token'.from <= Used'
      BY <1>1, <2>2, <2>3, <2>5
    <3>2. Gap(seen', Start', token'.from - 1)
      BY <2>3, <2>6, <3>1, Zenon
    <3> QED
      BY <3>1, <3>2, Zenon DEF Begun
  <2>8. SecondInv'
    BY <2>1, <2>5, <2>7 DEF SecondInv
  <2> QED
    BY <2>1, <2>3, <2>8 DEF TInv, BlanksInv, CommentInv, WordInv
<1> QED
  BY <1>3, <1>4 DEF First
-----------------------------------------------------------------------------
Number(t) == IF t.digit = None THEN <<>> ELSE <<t.digit>>

LEMMA Joined ==
  ASSUME NEW S, NEW a \in S, NEW b \in S
  PROVE  /\ <<>> \o <<a>> = <<a>> /\ <<>> \o <<a, b>> = <<a, b>> /\ <<a>> \o <<b>> = <<a, b>>
<1>1. <<>> \in Seq(S) /\ <<a>> \in Seq(S) /\ <<b>> \in Seq(S) /\ <<a, b>> \in Seq(S)
  OBVIOUS
<1>2. /\ Len(<<a>>) = 1 /\ Len(<<b>>) = 1 /\ Len(<<a, b>>) = 2
      /\ <<a>>[1] = a /\ <<b>>[1] = b /\ <<a, b>>[1] = a /\ <<a, b>>[2] = b
  OBVIOUS
<1>3. <<>> \o <<a>> = <<a>> /\ <<>> \o <<a, b>> = <<a, b>>
  BY <1>1, ConcatEmptySeq
<1>4. <<a>> \o <<b>> = <<a, b>>
  <2> DEFINE p == <<a>>
             q == <<b>>
             r == <<a, b>>
  <2>1. /\ p \in Seq(S) /\ q \in Seq(S) /\ r \in Seq(S) /\ Len(p) = 1 /\ Len(q) = 1 /\ Len(r) = 2
        /\ p[1] = a /\ q[1] = b /\ r[1] = a /\ r[2] = b
    BY <1>1, <1>2
  <2> HIDE DEF p, q, r
  <2>2. /\ p \o q \in Seq(S) /\ Len(p \o q) = Len(p) + Len(q)
        /\ \A i \in 1..(Len(p) + Len(q)) : (p \o q)[i] = IF i <= Len(p) THEN p[i] ELSE q[i - Len(p)]
    BY <2>1, ConcatProperties
  <2>3. Len(p \o q) = Len(r) /\ \A i \in 1..Len(p \o q) : (p \o q)[i] = r[i]
    BY <2>1, <2>2
  <2>4. p \o q = r
    BY <2>1, <2>2, <2>3, SeqEqual
  <2> QED
    BY <2>4 DEF p, q, r
<1> QED
  BY <1>3, <1>4

LEMMA Regrouped ==
  ASSUME NEW S, NEW a \in S, NEW b \in S, NEW c \in S
  PROVE  <<a, b>> \o <<c>> = <<a>> \o <<b, c>>
<1> DEFINE p == <<a, b>>
           q == <<c>>
           r == <<a>>
           s == <<b, c>>
<1>1. /\ p \in Seq(S) /\ q \in Seq(S) /\ r \in Seq(S) /\ s \in Seq(S)
      /\ Len(p) = 2 /\ Len(q) = 1 /\ Len(r) = 1 /\ Len(s) = 2
      /\ p[1] = a /\ p[2] = b /\ q[1] = c /\ r[1] = a /\ s[1] = b /\ s[2] = c
  OBVIOUS
<1> HIDE DEF p, q, r, s
<1>2. /\ p \o q \in Seq(S) /\ Len(p \o q) = Len(p) + Len(q)
      /\ \A i \in 1..(Len(p) + Len(q)) : (p \o q)[i] = IF i <= Len(p) THEN p[i] ELSE q[i - Len(p)]
  BY <1>1, ConcatProperties
<1>3. /\ r \o s \in Seq(S) /\ Len(r \o s) = Len(r) + Len(s)
      /\ \A i \in 1..(Len(r) + Len(s)) : (r \o s)[i] = IF i <= Len(r) THEN r[i] ELSE s[i - Len(r)]
  BY <1>1, ConcatProperties
<1>4. Len(p \o q) = Len(r \o s) /\ \A i \in 1..Len(p \o q) : (p \o q)[i] = (r \o s)[i]
  BY <1>1, <1>2, <1>3
<1>5. p \o q = r \o s
  BY <1>2, <1>3, <1>4, SeqEqual
<1> QED
  BY <1>5 DEF p, q, r, s

\* What an operator is spelled as, up to the character in hand.
LEMMA SecondPart ==
  ASSUME TInv, at = "second", Grows
  PROVE  /\ SubSeq(seen', token.from, Used) = Number(token) \o <<hold>>
         /\ token.from \in Nat \ {0} /\ token.from <= Used /\ unget = None /\ ~eof /\ hold \in Char
         /\ token \in TokenType /\ seen'[Used] = hold /\ Used \in 1..Len(seen) /\ seen' \in Seq(Char)
<1>1. /\ Start \in Nat \ {0} /\ Used \in Nat /\ Used <= Len(seen) /\ Len(seen) \in Nat
      /\ unget = None => Used = Len(seen)
  BY StartIs, UsedIs DEF TInv, AInv, LexerInv
<1>2. /\ unget = None /\ ~eof /\ seen[Len(seen)] = hold /\ token \in TokenType /\ token.from \in Nat
      /\ token.digit \in Char \cup {None}
  <2>1. /\ unget = None /\ ~eof /\ seen[Len(seen)] = hold /\ token \in TokenType
    BY DEF TInv, AInv, LexerInv, LexerType
  <2> QED
    BY <2>1 DEF TokenType
<1>3. /\ Begun /\ hold \in Char
      /\ token.digit = None => token.from = Used
      /\ token.digit # None => token.from = Used - 1 /\ seen[Used - 1] = token.digit
  BY DEF TInv, SecondInv
<1>4. token.from \in Nat \ {0} /\ token.from <= Used /\ Used \in 1..Len(seen)
  BY <1>1, <1>2, <1>3 DEF Begun
<1>5. seen' \in Seq(Char) /\ Len(seen) <= Len(seen') /\ \A i \in 1..Used : seen'[i] = seen[i]
  BY <1>1, <1>4 DEF Grows, Prolongs
<1>6. seen'[Used] = hold
  BY <1>1, <1>2, <1>4, <1>5
<1>7. Used \in 1..Len(seen')
  BY <1>1, <1>4, <1>5
<1>8. CASE token.digit = None
  <2>1. SubSeq(seen', token.from, Used) = <<hold>>
    BY <1>3, <1>5, <1>6, <1>7, <1>8, OnePart
  <2> QED
    BY <1>2, <1>3, <1>4, <1>5, <1>6, <1>8, <2>1, Joined DEF Number
<1>9. CASE token.digit # None
  <2>1. token.from = Used - 1 /\ seen'[Used - 1] = token.digit /\ Used - 1 \in 1..Len(seen')
    BY <1>1, <1>3, <1>4, <1>5, <1>7, <1>9
  <2>2. SubSeq(seen', token.from, Used) = SubSeq(seen', token.from, Used - 1) \o <<hold>>
    BY <1>4, <1>5, <1>6, <1>7, OnePartMore
  <2>3. SubSeq(seen', token.from, Used - 1) = <<token.digit>>
    BY <1>5, <2>1, OnePart
  <2> QED
    BY <1>2, <1>3, <1>4, <1>5, <1>6, <1>9, <2>2, <2>3 DEF Number
<1> QED
  BY <1>8, <1>9

LEMMA MadeToken ==
  ASSUME NEW t \in TokenType, NEW type \in Seq(Char \cup {"word"}), NEW last \in Nat,
         NEW made, made = [t EXCEPT !.type = type, !.to = last]
  PROVE  /\ made \in TokenType /\ made.type = type /\ made.to = last /\ made.from = t.from
         /\ made.digit = t.digit /\ made.value = t.value
  BY DEF TokenType

LEMMA SecondTile ==
  ASSUME TInv, AInv', Second
  PROVE  TInv'
<1>1. PICK c \in Char :
        IF c \in Follow[hold]
          THEN Get(c) /\ Made(IF hold = "cr" THEN <<"nl">> ELSE <<hold, c>>, Taken)
          ELSE Peek(c) /\ Made(IF hold = "cr" THEN <<"nl">> ELSE <<hold>>, Taken)
  BY DEF Second
<1>2. at = "second" /\ hold \in DOMAIN Follow /\ LexerInv
  BY DEF Second, TInv, AInv
<1>3. hold \in {";", "&", "|", "<", ">", "cr"}
  BY <1>2 DEF Follow
<1>4. Follow[hold] \subseteq {"nl", ";", "&", "|", "<", ">"} /\ (hold = "cr" => Follow[hold] = {"nl"})
  BY <1>3 DEF Follow
<1>5. Begun /\ (token.digit # None => hold \in {"<", ">"})
  BY <1>2 DEF TInv, SecondInv
<1>6. /\ Grows
      /\ c \in Follow[hold] => Used' = Used + 1 /\ seen'[Used'] = c /\ Used' = Len(seen')
      /\ c \notin Follow[hold] =>
           /\ Used' = Used
           /\ c = "eof" => eof' = TRUE /\ Used = Len(seen')
           /\ c # "eof" => Used < Len(seen') /\ seen'[Used + 1] = c
  <2>1. CASE c \in Follow[hold]
    <3>1. Get(c) /\ c # "eof"
      BY <1>1, <1>4, <2>1
    <3> QED
      BY <1>2, <2>1, <3>1, TakenGrows
  <2>2. CASE c \notin Follow[hold]
    <3>1. Peek(c)
      BY <1>1, <2>2
    <3> QED
      BY <1>2, <2>2, <3>1, LookedGrows
  <2> QED
    BY <2>1, <2>2
<1>7. /\ SubSeq(seen', token.from, Used) = Number(token) \o <<hold>>
      /\ token.from \in Nat \ {0} /\ token.from <= Used /\ hold \in Char
      /\ token \in TokenType /\ seen'[Used] = hold /\ Used \in 1..Len(seen) /\ seen' \in Seq(Char)
  BY <1>2, <1>6, SecondPart
<1>16. token.from \in Nat /\ 1 <= token.from /\ token.from <= Used /\ token \in TokenType
  BY <1>7
<1>8. Used \in Nat /\ Used' \in Nat /\ Used <= Used' /\ Used' <= Len(seen') /\ Len(seen') \in Nat
      /\ Start \in Nat \ {0} /\ Len(seen) \in Nat
  BY <1>2, <1>6, <1>7, UsedIs, StartIs DEF Grows, LexerInv
<1>9. Taken = Used'
  BY DEF Taken, Used
<1>17. ASSUME NEW type \in Seq(Char \cup {"word"}), NEW t, t = [token EXCEPT !.type = type, !.to = Taken]
       PROVE  /\ t \in TokenType /\ t.type = type /\ t.to = Used' /\ t.from = token.from
              /\ t.digit = token.digit
  <2>1. Taken \in Nat
    BY <1>8, <1>9, Zenon
  <2>2. /\ t \in TokenType /\ t.type = type /\ t.to = Taken /\ t.from = token.from
        /\ t.digit = token.digit
    <3>1. PICK n \in Nat : n = Taken
      BY <2>1
    <3>2. t = [token EXCEPT !.type = type, !.to = n] /\ token \in TokenType
      BY <1>16, <1>17, <3>1, Zenon
    <3>3. /\ t \in TokenType /\ t.type = type /\ t.to = n /\ t.from = token.from
          /\ t.digit = token.digit
      BY <3>2 DEF TokenType
    <3> QED
      BY <3>1, <3>3
  <2> QED
    BY <1>9, <2>2, Zenon
<1>10. ASSUME NEW type \in Seq(Char \cup {"word"}), Made(type, Taken), type # <<"eof">>,
              NEW t, t = [token EXCEPT !.type = type, !.to = Taken],
              Spells(seen', t), eof' \/ Stable(seen', t)
       PROVE  TInv'
  <2>1. tokens' = Append(tokens, t) /\ at' = "blanks"
    BY <1>10 DEF Made
  <2>2. t \in TokenType /\ t.type = type /\ t.to = Used' /\ t.from = token.from
    BY <1>10, <1>17, Zenon
  <2>3. 1 <= t.from /\ t.from <= t.to
    BY <1>8, <1>16, <2>2
  <2> DEFINE last == t.from - 1
  <2>4. /\ last \in Int /\ last = (IF t.type = <<"eof">> THEN t.to ELSE t.from - 1)
        /\ Start <= last + 1 /\ last <= Len(seen) /\ Gap(seen, Start, last)
    <3>1. last \in Int /\ Start <= last + 1 /\ last <= Len(seen)
      <4>1. Start <= token.from /\ last = token.from - 1
        BY <1>5, <2>2, Zenon DEF Begun
      <4>2. Used <= Len(seen)
        BY <1>2, UsedIs DEF LexerInv
      <4> QED
        BY <1>8, <1>16, <4>1, <4>2
    <3>2. Gap(seen, Start, last)
      BY <1>5, <2>2, Zenon DEF Begun
    <3> QED
      BY <1>10, <2>2, <3>1, <3>2
  <2> HIDE DEF last
  <2> QED
    BY <1>6, <1>10, <2>1, <2>2, <2>3, <2>4, TokenMade
<1>11. "nl" \in Char /\ <<"nl">> \in Seq(Char \cup {"word"}) /\ <<hold>> \in Seq(Char \cup {"word"})
       /\ <<hold, c>> \in Seq(Char \cup {"word"})
  <2>1. "nl" \in Char
    BY DEF Char, Delimiter
  <2> QED
    BY <1>7, <2>1
<1>12. \A a, b : <<a>> = <<b>> => a = b
  BY Tuples
<1>13. CASE hold = "cr"
  <2>0. PICK t : t = [token EXCEPT !.type = <<"nl">>, !.to = Taken]
    OBVIOUS
  <2>1. t \in TokenType /\ t.type = <<"nl">> /\ t.to = Used' /\ t.from = token.from
    BY <1>11, <1>17, <2>0, Zenon
  <2>2. Made(<<"nl">>, Taken)
    BY <1>1, <1>13
  <2>3. SubSeq(seen', token.from, Used) = <<"cr">>
    <3>1. Number(token) = <<>>
      BY <1>5, <1>13 DEF Number
    <3> QED
      BY <1>7, <1>13, <3>1, Joined
  <2>4. Spells(seen', t) /\ (eof' \/ Stable(seen', t))
    <3>1. CASE c \in Follow[hold]
      <4>1. c = "nl"
        BY <1>4, <1>13, <3>1
      <4>2. SubSeq(seen', t.from, t.to) = SubSeq(seen', token.from, Used) \o <<"nl">>
        <5>1. Used' \in 1..Len(seen') /\ token.from <= Used' /\ seen'[Used'] = "nl" /\ Used' - 1 = Used
          <6>1. Used' = Used + 1
            BY <1>6, <3>1
          <6>2. seen'[Used'] = c
            BY <1>6, <3>1
          <6>3. Used' - 1 = Used
            BY <1>8, <6>1
          <6>4. Used' \in 1..Len(seen')
            BY <1>8, <6>1
          <6>5. token.from <= Used'
            BY <1>8, <1>16, <6>1
          <6> QED
            BY <4>1, <6>1, <6>2, <6>3, <6>4, <6>5
        <5> QED
          BY <1>7, <2>1, <5>1, OnePartMore
      <4>3. SubSeq(seen', t.from, t.to) = <<"cr", "nl">> /\ <<"cr", "nl">> # <<"cr">>
        <5>1. <<"cr">> \o <<"nl">> = <<"cr", "nl">>
          BY <1>7, <1>11, <1>13, Joined, Zenon
        <5>2. Len(<<"cr", "nl">>) # Len(<<"cr">>)
          OBVIOUS
        <5> QED
          BY <2>3, <4>2, <5>1, <5>2, Zenon
      <4>4. seen'[t.to] = "nl"
        BY <1>6, <2>1, <3>1, <4>1
      <4> QED
        BY <2>1, <4>3, <4>4, SpellsNewline DEF Stable
    <3>2. CASE c \notin Follow[hold]
      <4>1. c # "nl"
        BY <1>4, <1>13, <3>2
      <4>2. SubSeq(seen', t.from, t.to) = <<"cr">>
        BY <1>6, <2>1, <2>3, <3>2
      <4>3. ~(t.to < Len(seen') /\ seen'[t.to + 1] \in {"nl"})
        BY <1>6, <1>8, <2>1, <3>2, <4>1
      <4>4. eof' \/ t.to < Len(seen')
        BY <1>6, <2>1, <3>2
      <4> QED
        BY <2>1, <4>2, <4>3, <4>4, SpellsNewline, TypesDiffer DEF Stable
    <3> QED
      BY <3>1, <3>2
  <2> QED
    BY <1>10, <1>11, <2>0, <2>2, <2>4, TypesDiffer
<1>14. CASE hold # "cr" /\ c \in Follow[hold]
  <2>0. PICK t : t = [token EXCEPT !.type = <<hold, c>>, !.to = Taken]
    OBVIOUS
  <2>1. t \in TokenType /\ t.type = <<hold, c>> /\ t.to = Used' /\ t.from = token.from /\ t.digit = token.digit
    BY <1>11, <1>17, <2>0, Zenon
  <2>2. Made(<<hold, c>>, Taken)
    BY <1>1, <1>14
  <2>3. SubSeq(seen', t.from, t.to) = SubSeq(seen', token.from, Used) \o <<c>>
    <3>1. Used' \in 1..Len(seen') /\ token.from <= Used' /\ seen'[Used'] = c /\ Used' - 1 = Used
      <4>1. Used' = Used + 1 /\ seen'[Used'] = c
        BY <1>6, <1>14
      <4>2. Used' \in 1..Len(seen') /\ Used' - 1 = Used
        BY <1>8, <4>1
      <4>3. token.from <= Used'
        BY <1>8, <1>16, <4>1
      <4> QED
        BY <4>1, <4>2, <4>3
    <3> QED
      BY <1>7, <2>1, <3>1, OnePartMore
  <2>4. SubSeq(seen', t.from, t.to) = (IF t.digit = None THEN <<>> ELSE <<t.digit>>) \o t.type
    <3>1. CASE token.digit = None
      <4>1. SubSeq(seen', token.from, Used) = <<hold>>
        BY <1>7, <3>1, Joined DEF Number
      <4> QED
        <5>1. <<hold>> \o <<c>> = <<hold, c>> /\ <<>> \o <<hold, c>> = <<hold, c>>
          BY <1>7, Joined, Zenon
        <5> QED
          BY <2>1, <2>3, <3>1, <4>1, <5>1, Zenon
    <3>2. CASE token.digit # None
      <4>1. SubSeq(seen', token.from, Used) = <<token.digit, hold>>
        <5>1. token.digit \in Char
          BY <1>16, <3>2 DEF TokenType
        <5>2. <<token.digit>> \o <<hold>> = <<token.digit, hold>>
          BY <1>7, <5>1, Joined, Zenon
        <5> QED
          BY <1>7, <3>2, <5>2, Zenon DEF Number
      <4>2. SubSeq(seen', t.from, t.to) = <<token.digit>> \o <<hold, c>>
        <5>1. token.digit \in Char
          BY <1>16, <3>2 DEF TokenType
        <5>2. \A x, y, z \in Char : <<x, y>> \o <<z>> = <<x>> \o <<y, z>>
          BY Regrouped, Zenon
        <5>3. <<token.digit, hold>> \o <<c>> = <<token.digit>> \o <<hold, c>>
          BY <1>7, <5>1, <5>2, Zenon
        <5> QED
          BY <2>3, <4>1, <5>3, Zenon
      <4> QED
        BY <2>1, <3>2, <4>2
    <3> QED
      BY <3>1, <3>2
  <2>5. Len(t.type) = 2
    BY <2>1
  <2>6. t.type # <<"eof">> /\ t.type # <<"nl">> /\ t.type \notin Keyword \cup {<<"word">>}
    <3>1. \A a : Len(<<a>>) = 1
      BY Tuples
    <3>2. \A a : t.type # <<a>>
      BY <2>5, <3>1
    <3> QED
      BY <3>2, Zenon DEF Keyword
  <2>7. Spells(seen', t) /\ Stable(seen', t)
    <3>1. Len(t.type) # 1
      BY <2>5
    <3> QED
      BY <2>4, <2>5, <2>6, <3>1, SpellsOperator, Zenon DEF Stable
  <2>8. <<hold, c>> # <<"eof">>
    BY <2>1, <2>6
  <2> QED
    BY <1>10, <1>11, <2>0, <2>2, <2>7, <2>8
<1>15. CASE hold # "cr" /\ c \notin Follow[hold]
  <2>0. PICK t : t = [token EXCEPT !.type = <<hold>>, !.to = Taken]
    OBVIOUS
  <2>1. t \in TokenType /\ t.type = <<hold>> /\ t.to = Used' /\ t.from = token.from /\ t.digit = token.digit
    BY <1>11, <1>17, <2>0, Zenon
  <2>2. Made(<<hold>>, Taken)
    BY <1>1, <1>15
  <2>3. SubSeq(seen', t.from, t.to) = (IF t.digit = None THEN <<>> ELSE <<t.digit>>) \o t.type
    BY <1>6, <1>7, <1>15, <2>1, Zenon DEF Number
  <2>4. t.type # <<"eof">> /\ t.type # <<"nl">> /\ t.type \notin Keyword \cup {<<"word">>}
    <3>1. hold # "eof" /\ hold # "nl" /\ hold # "{" /\ hold # "}" /\ hold # "!" /\ hold # "word"
      BY <1>3
    <3> QED
      BY <1>12, <2>1, <3>1, Zenon DEF Keyword
  <2>5. ~(t.to < Len(seen') /\ seen'[t.to + 1] \in Follow[t.type[1]])
    <3>1. t.type[1] = hold
      BY <2>1
    <3>2. t.to = Used
      BY <1>6, <1>15, <2>1
    <3> QED
      BY <1>6, <1>8, <1>15, <3>1, <3>2
  <2>6. eof' \/ t.to < Len(seen')
    BY <1>6, <1>15, <2>1
  <2>7. Spells(seen', t) /\ (eof' \/ Stable(seen', t))
    BY <2>3, <2>4, <2>5, <2>6, SpellsOperator DEF Stable
  <2>8. <<hold>> # <<"eof">>
    BY <2>1, <2>4
  <2> QED
    BY <1>10, <1>11, <2>0, <2>2, <2>7, <2>8
<1> QED
  BY <1>13, <1>14, <1>15
-----------------------------------------------------------------------------
\* What has been begun goes on, whatever is read.
LEMMA BegunStays ==
  ASSUME TInv, Begun, Grows, tokens' = tokens, token'.from = token.from, token.from \in Nat
  PROVE  Begun' /\ token.from \in Nat \ {0} /\ token.from <= Used /\ Used \in Nat
         /\ \A j \in token.from..Used : seen'[j] = seen[j]
<1>1. Start \in Nat \ {0} /\ Used \in Nat /\ Used <= Len(seen) /\ Len(seen) \in Nat
  BY StartIs, UsedIs DEF TInv, AInv, LexerInv
<1>2. Start <= token.from /\ token.from <= Used /\ Gap(seen, Start, token.from - 1)
  BY DEF Begun
<1>3. Used' \in Nat /\ Used <= Used' /\ Start' = Start /\ Prolongs(seen, seen')
  BY DEF Grows, Start
<1>4. Gap(seen', Start, token.from - 1)
  <2>1. token.from - 1 \in Int /\ token.from - 1 <= Len(seen)
    BY <1>1, <1>2
  <2> QED
    BY <1>1, <1>2, <1>3, <2>1, GapStays
<1>5. token'.from <= Used'
  BY <1>1, <1>2, <1>3
<1>6. Begun'
  BY <1>2, <1>3, <1>4, <1>5, Zenon DEF Begun
<1>7. \A j \in token.from..Used : seen'[j] = seen[j]
  BY <1>1, <1>2, <1>3 DEF Prolongs
<1> QED
  BY <1>1, <1>2, <1>6, <1>7

LEMMA RedirDigitTile ==
  ASSUME TInv, AInv', RedirDigit
  PROVE  TInv'
<1>1. PICK c \in {"<", ">"} : Get(c) /\ hold' = c
  BY DEF RedirDigit
<1>2. /\ at = "second" /\ at' = "second" /\ hold \in Digit /\ token' = [token EXCEPT !.digit = hold]
      /\ tokens' = tokens
  BY DEF RedirDigit
<1>3. c \in Char \ (Blank \cup {"#", "eof"} \cup Single)
  BY DEF Char, Delimiter, Blank, Single
<1>4. Grows /\ Used' = Used + 1
  BY <1>1, <1>3, TakenGrows DEF TInv, AInv
<1>5. TilesTheText' /\ TokensSound' /\ Start' = Start
  BY <1>2, <1>4, TokensStay
<1>6. token.digit = None /\ token.from = Used /\ token.value = <<>> /\ Begun
  BY <1>2 DEF TInv, SecondInv, Digit
<1>7. /\ token.from \in Nat \ {0} /\ hold \in Char /\ token \in TokenType /\ seen'[Used] = hold
      /\ Used \in Nat
  <2>1. /\ token.from \in Nat \ {0} /\ hold \in Char /\ token \in TokenType /\ seen'[Used] = hold
    BY <1>2, <1>4, SecondPart
  <2> QED
    BY <2>1, <1>6
<1>8. token'.digit = hold /\ token'.from = token.from /\ token'.value = token.value
  BY <1>2, <1>7 DEF TokenType
<1>9. Begun'
  BY <1>2, <1>4, <1>6, <1>7, <1>8, BegunStays
<1>10. Used' - 1 = Used
  BY <1>4, <1>7
<1>11. SecondInv'
  BY <1>1, <1>3, <1>6, <1>7, <1>8, <1>9, <1>10, NoneIsNoChar DEF SecondInv
<1> QED
  BY <1>2, <1>5, <1>11 DEF TInv, BlanksInv, CommentInv, WordInv

LEMMA StartWordTile ==
  ASSUME TInv, AInv', StartWord
  PROVE  TInv'
<1>1. PICK c \in Char : Peek(c) /\ (hold \in Digit => c \notin {"<", ">"})
  BY DEF StartWord
<1>2. /\ at = "second" /\ hold \notin DOMAIN Follow /\ at' = "word" /\ frames' = <<Frame(None, 0)>>
      /\ UNCHANGED <<hold, token, tokens>>
  BY DEF StartWord
<1>3. /\ Grows /\ Used' = Used
      /\ c = "eof" => eof' = TRUE
      /\ c # "eof" => unget' = c /\ c # None
  BY <1>1, LookedGrows DEF TInv, AInv
<1>4. TilesTheText' /\ TokensSound' /\ Start' = Start
  BY <1>2, <1>3, TokensStay
<1>5. /\ hold \in Char \ (Blank \cup {"#", "eof"} \cup Single) /\ token.value = <<>> /\ Begun
      /\ token.digit # None => hold \in {"<", ">"}
      /\ token.digit = None => token.from = Used
  BY <1>2 DEF TInv, SecondInv
<1>6. DOMAIN Follow = {";", "&", "|", "<", ">", "cr"}
  BY DEF Follow
<1>7. token.from = Used /\ hold \notin Delimiter \cup {"#"}
  BY <1>2, <1>5, <1>6 DEF Delimiter, Single
<1>8. token.from \in Nat \ {0} /\ seen'[Used] = hold /\ seen' \in Seq(Char)
  BY <1>2, <1>3, SecondPart
<1>9. Begun'
  BY <1>2, <1>3, <1>5, <1>8, BegunStays
<1>10. hold # None
  BY <1>5, NoneIsNoChar
<1>11. Plainly'
  <2>1. Frame(None, 0) \in CallType /\ Frame(None, 0).after = None /\ Frame(None, 0).quote = None
    BY FrameIs DEF Ends
  <2>2. Len(frames') = 1 /\ Top'.quote = None /\ Top'.after = None
    <3>1. Len(frames') = 1 /\ frames'[1] = Frame(None, 0)
      BY <1>2
    <3>2. Top' = Frame(None, 0)
      BY <3>1 DEF Top
    <3> QED
      BY <2>1, <3>1, <3>2
  <2>3. token'.value = SubSeq(seen', token'.from, Used' - 1)
    <3>1. Used - 1 < Used /\ Used \in Int /\ Used - 1 \in Int
      BY <1>7, <1>8
    <3>2. SubSeq(seen', Used, Used - 1) = <<>>
      BY <3>1, SubSeqEmpty
    <3> QED
      BY <1>2, <1>3, <1>5, <1>7, <3>2, Zenon
  <2>4. \A j \in token'.from..Used' : seen'[j] \notin Delimiter
    <3>1. \A j \in Used..Used : j = Used
      BY <1>7, <1>8
    <3> QED
      BY <1>2, <1>3, <1>7, <1>8, <3>1
  <2>5. hold' # None
    BY <1>2, <1>10
  <2> QED
    BY <2>2, <2>3, <2>4, <2>5, Zenon DEF Plainly
<1>12. seen'[token'.from] \notin Delimiter \cup {"#"}
  BY <1>2, <1>7, <1>8, Zenon
<1>13. seen'[Used'] \in Digit => eof' \/ unget' \notin {None, "<", ">"}
  BY <1>1, <1>3, <1>8
<1>14. WordInv'
  BY <1>9, <1>11, <1>12, <1>13, Zenon DEF WordInv
<1> QED
  BY <1>2, <1>4, <1>14 DEF TInv, BlanksInv, CommentInv, SecondInv

\* A word goes on.
LEMMA WordIs ==
  ASSUME TInv, at = "word"
  PROVE  /\ LexerInv /\ Begun /\ seen[token.from] \notin Delimiter \cup {"#"}
         /\ Used = token.from /\ seen[Used] \in Digit => eof \/ unget \notin {None, "<", ">"}
         /\ Unquoted => Plainly
         /\ token \in TokenType /\ token.from \in Nat \ {0} /\ token.from <= Used /\ Used \in Nat
         /\ seen \in Seq(Char) /\ Used <= Len(seen) /\ Len(seen) \in Nat
         /\ Calls(frames) /\ Top \in CallType
         /\ Top.end = None => Len(frames) = 1
         /\ Top.end # None => Len(frames) > 1
<1>1. Start \in Nat \ {0} /\ Used \in Nat /\ Used <= Len(seen) /\ Len(seen) \in Nat /\ LexerInv
  BY StartIs, UsedIs DEF TInv, AInv, LexerInv
<1>2. Begun /\ seen[token.from] \notin Delimiter \cup {"#"} /\ (Unquoted => Plainly)
  BY DEF TInv, WordInv
<1>3. Used = token.from /\ seen[Used] \in Digit => eof \/ unget \notin {None, "<", ">"}
  BY Zenon DEF TInv, WordInv
<1>4. token \in TokenType /\ seen \in Seq(Char)
  BY <1>1 DEF LexerInv, LexerType, Stands
<1>5. token.from \in Nat
  BY <1>4 DEF TokenType
<1>6. token.from \in Nat \ {0} /\ token.from <= Used
  BY <1>1, <1>2, <1>5 DEF Begun
<1>7. Calls(frames) /\ Top \in CallType /\ (Top.end = None => Len(frames) = 1)
      /\ (Top.end # None => Len(frames) > 1)
  BY <1>1, TopIs
<1> QED
  BY <1>1, <1>2, <1>3, <1>4, <1>6, <1>7

LEMMA WordTile ==
  ASSUME TInv, AInv', Grows, at = "word", at' = "word", tokens' = tokens, token'.from = token.from,
         Unquoted' => Plainly'
  PROVE  TInv'
<1>1. TilesTheText' /\ TokensSound' /\ Start' = Start
  BY TokensStay
<1>2. /\ LexerInv /\ Begun /\ seen[token.from] \notin Delimiter \cup {"#"}
      /\ token.from \in Nat \ {0} /\ token.from <= Used /\ Used \in Nat
  BY WordIs
<1>3. Begun' /\ \A j \in token.from..Used : seen'[j] = seen[j]
  BY <1>2, BegunStays
<1>4. seen'[token'.from] = seen[token.from]
  BY <1>2, <1>3
<1>5. ASSUME Used' = token'.from, seen'[Used'] \in Digit, ~eof'
      PROVE  unget' \notin {None, "<", ">"}
  <2>1. Used' = Used /\ Used = token.from
    BY <1>2, <1>5 DEF Grows
  <2>2. seen[Used] \in Digit
    BY <1>4, <1>5, <2>1
  <2>3. ~eof
    BY <1>5 DEF Grows
  <2>4. unget \notin {None, "<", ">"}
    BY <2>1, <2>2, <2>3, WordIs, Zenon
  <2>5. unget' = unget
    BY <2>1, <2>4 DEF Grows
  <2> QED
    BY <2>4, <2>5
<1>6. WordInv'
  BY <1>2, <1>3, <1>4, <1>5, Zenon DEF WordInv
<1> QED
  BY <1>1, <1>6 DEF TInv, BlanksInv, CommentInv, SecondInv

LEMMA WasUnquoted ==
  ASSUME TInv, at = "word", Grows, tokens' = tokens, token'.from = token.from, Unquoted'
  PROVE  Unquoted /\ Plainly
<1>1. /\ Begun /\ token.from \in Nat \ {0} /\ token.from <= Used /\ Used \in Nat
      /\ Unquoted => Plainly
  BY WordIs
<1>2. \A j \in token.from..Used : seen'[j] = seen[j]
  BY <1>1, BegunStays
<1>3. Used' \in Nat /\ Used <= Used'
  BY DEF Grows
<1>4. \A j \in token.from..Used' : seen'[j] \notin Quoter \cup {"ctl"}
  BY Zenon DEF Unquoted
<1>5. \A j \in token.from..Used : j \in token.from..Used'
  BY <1>1, <1>3
<1>6. Unquoted
  BY <1>2, <1>4, <1>5, Zenon DEF Unquoted
<1> QED
  BY <1>1, <1>6

\* A word with something special in it: the character taken is, or the word was.
LEMMA SpecialTile ==
  ASSUME TInv, AInv', Grows, at = "word", at' = "word", tokens' = tokens, token'.from = token.from,
         ~Plainly \/ seen'[Used'] \in Quoter \cup {"ctl"}
  PROVE  TInv'
<1>1. SUFFICES ASSUME Unquoted' PROVE FALSE
  BY WordTile
<1>2. Plainly
  BY <1>1, WasUnquoted
<1>3. seen'[Used'] \notin Quoter \cup {"ctl"}
  <2>1. token.from \in Nat /\ token.from <= Used /\ Used \in Nat
    BY WordIs
  <2>2. Used' \in Nat /\ Used <= Used'
    BY DEF Grows
  <2>3. Used' \in token'.from..Used'
    BY <2>1, <2>2
  <2> QED
    BY <1>1, <2>3, Zenon DEF Unquoted
<1> QED
  BY <1>2, <1>3
-----------------------------------------------------------------------------
LEMMA GoesOn ==
  ASSUME token \in TokenType, NEW f, NEW s, Goes(f, s)
  PROVE  /\ at' = at /\ tokens' = tokens /\ token'.from = token.from
         /\ token'.value = token.value \o s /\ frames' = Outer \o f
<1>1. token' = [token EXCEPT !.value = @ \o s] /\ at' = at /\ tokens' = tokens /\ frames' = Outer \o f
  BY DEF Goes
<1>2. token'.from = token.from /\ token'.value = token.value \o s
  BY <1>1 DEF TokenType
<1> QED
  BY <1>1, <1>2

LEMMA SpecialChar ==
  ASSUME TInv, AInv', NEW c \in Quoter \cup {"ctl"}, InWord(c), at' = at, tokens' = tokens,
         token'.from = token.from
  PROVE  TInv'
<1>1. c \in Char \ {"eof"} /\ LexerInv
  BY DEF Quoter, Char, TInv, AInv
<1>2. at = "word" /\ seen'[Used'] = c
  BY <1>1, InWordIs
<1>3. Grows
  BY <1>1, NextCharGrows DEF InWord
<1> QED
  BY <1>2, <1>3, SpecialTile

LEMMA TokenIs == TInv => token \in TokenType
  BY DEF TInv, AInv, LexerInv, LexerType

LEMMA QuoteTile ==
  ASSUME TInv, AInv', Quote
  PROVE  TInv'
<1>1. PICK q \in {"quote", "dquote"} :
        /\ InWord(q)
        /\ IF Top.quote \notin {None, q}
             THEN Goes(<<Top>>, Escaped(q))
             ELSE /\ frames' = Outer \o <<[Top EXCEPT !.quote = IF @ = q THEN None ELSE q]>>
                  /\ token' = [token EXCEPT !.value = Append(@, IF Top.sub > 0 THEN q ELSE "QUOT"),
                                            !.quoted = @ \/ Top.sub = 0]
                  /\ UNCHANGED <<input, at, tokens>>
  BY DEF Quote
<1>2. q \in Quoter \cup {"ctl"}
  BY DEF Quoter
<1>3. at' = at /\ tokens' = tokens /\ token'.from = token.from
  <2>1. CASE Goes(<<Top>>, Escaped(q))
    BY <2>1, TokenIs, GoesOn
  <2>2. CASE /\ token' = [token EXCEPT !.value = Append(@, IF Top.sub > 0 THEN q ELSE "QUOT"),
                                       !.quoted = @ \/ Top.sub = 0]
             /\ UNCHANGED <<input, at, tokens>>
    <3>1. token \in TokenType
      BY TokenIs
    <3>2. PICK a, b : token' = [token EXCEPT !.value = a, !.quoted = b]
      BY <2>2
    <3> QED
      BY <2>2, <3>1, <3>2 DEF TokenType
  <2> QED
    BY <1>1, <2>1, <2>2
<1> QED
  BY <1>1, <1>2, <1>3, SpecialChar

LEMMA SpecialTiles ==
  ASSUME TInv, AInv', Backslash \/ Dollar \/ Backtick \/ Ctl
  PROVE  TInv'
<1>1. PICK c \in Quoter \cup {"ctl"} : InWord(c) /\ \E f, s : Goes(f, s)
  <2>1. CASE Backslash
    <3>1. InWord("backslash") /\ \E f, s : Goes(f, s)
      BY <2>1, Zenon DEF Backslash
    <3> QED
      BY <3>1 DEF Quoter
  <2>2. CASE Dollar
    <3>1. InWord("$") /\ \E f, s : Goes(f, s)
      BY <2>2, Zenon DEF Dollar
    <3> QED
      BY <3>1 DEF Quoter
  <2>3. CASE Backtick
    <3>1. InWord("backtick") /\ \E f, s : Goes(f, s)
      BY <2>3, Zenon DEF Backtick
    <3> QED
      BY <3>1 DEF Quoter
  <2>4. CASE Ctl
    <3>1. InWord("ctl") /\ \E f, s : Goes(f, s)
      BY <2>4, Zenon DEF Ctl
    <3> QED
      BY <3>1
  <2> QED
    BY <2>1, <2>2, <2>3, <2>4
<1>2. at' = at /\ tokens' = tokens /\ token'.from = token.from
  BY <1>1, TokenIs, GoesOn
<1> QED
  BY <1>1, <1>2, SpecialChar

\* What the word is does not change behind a backslash or a dollar, or where a call ends.
LEMMA AfterTile ==
  ASSUME TInv, AInv', AfterBackslash \/ AfterDollar
  PROVE  TInv'
<1>1. at = "word" /\ Top.after \in {"backslash", "$"}
  BY DEF AfterBackslash, AfterDollar
<1>2. ~Plainly
  BY <1>1 DEF Plainly, None
<1>3. \E c \in Char : Get(c) \/ Peek(c)
  <2>1. "(" \in Char /\ "{" \in Char /\ Wild \subseteq Char
    BY DEF Char, Delimiter
  <2> QED
    BY <2>1, Zenon DEF AfterBackslash, AfterDollar
<1>4. Grows
  BY <1>3, TakenGrows, LookedGrows DEF TInv, AInv
<1>5. \E f, s : Goes(f, s)
  BY Zenon DEF AfterBackslash, AfterDollar
<1>6. at' = at /\ tokens' = tokens /\ token'.from = token.from
  BY <1>5, TokenIs, GoesOn
<1> QED
  BY <1>1, <1>2, <1>4, <1>6, SpecialTile

LEMMA ClosesTile ==
  ASSUME TInv, AInv', Closes
  PROVE  TInv'
<1>1. /\ at = "word" /\ Top.end # None /\ NextChar(Top.end) /\ Goes(<<>>, <<Top.end>>)
  BY DEF Closes
<1>2. LexerInv /\ Top \in CallType /\ Len(frames) > 1
  BY <1>1, WordIs
<1>3. Top.end \in Char
  BY <1>1, <1>2 DEF CallType, Ends, Char, Delimiter
<1>4. Grows
  BY <1>1, <1>2, <1>3, NextCharGrows
<1>5. ~Plainly
  <2>1. Len(frames) \in Nat
    BY <1>2 DEF LexerInv, LexerType
  <2>2. Len(frames) # 1
    BY <1>2, <2>1
  <2> QED
    BY <2>2, Zenon DEF Plainly
<1>6. at' = at /\ tokens' = tokens /\ token'.from = token.from
  BY <1>1, TokenIs, GoesOn
<1> QED
  BY <1>1, <1>4, <1>5, <1>6, SpecialTile

LEMMA UnterminatedTile ==
  ASSUME TInv, AInv', Unterminated
  PROVE  TInv'
<1>1. NextChar("eof") /\ at' = "failed" /\ tokens' = tokens
  BY DEF Unterminated, InWord
<1>2. "eof" \in Char
  BY DEF Char, Delimiter
<1>3. Grows
  BY <1>1, <1>2, NextCharGrows DEF TInv, AInv
<1>4. TilesTheText' /\ TokensSound'
  BY <1>1, <1>3, TokensStay
<1> QED
  BY <1>1, <1>4 DEF TInv, BlanksInv, CommentInv, SecondInv, WordInv

\* A character that stands for itself.
LEMMA OrdinaryTile ==
  ASSUME TInv, AInv', NEW c \in Char \ {"eof"}, InWord(c), Goes(<<Top>>, <<c>>)
  PROVE  TInv'
<1>1. /\ LexerInv /\ at = "word" /\ Calls(frames) /\ Top \in CallType
      /\ hold' = None /\ seen'[Used'] = c
  BY InWordIs DEF TInv, AInv
<1>2. Grows
  BY <1>1, NextCharGrows DEF InWord
<1>3. /\ at' = at /\ tokens' = tokens /\ token'.from = token.from
      /\ token'.value = token.value \o <<c>> /\ frames' = Outer \o <<Top>>
  BY TokenIs, GoesOn
<1>4. SUFFICES ASSUME Unquoted' PROVE Plainly'
  BY <1>1, <1>2, <1>3, WordTile
<1>5. Plainly
  BY <1>1, <1>2, <1>3, <1>4, WasUnquoted
<1>6. /\ token.from \in Nat \ {0} /\ token.from <= Used /\ Used \in Nat /\ seen \in Seq(Char)
      /\ Used <= Len(seen) /\ Len(seen) \in Nat /\ Begun
      /\ Top.end # None => Len(frames) > 1
  BY <1>1, WordIs
<1>7. /\ seen' \in Seq(Char) /\ Used' \in Nat /\ Used <= Used' /\ Used' <= Len(seen') /\ Len(seen') \in Nat
      /\ \A j \in token.from..Used : seen'[j] = seen[j]
  <2>1. \A j \in token.from..Used : seen'[j] = seen[j]
    BY <1>2, <1>3, <1>6, BegunStays
  <2> QED
    BY <1>2, <2>1 DEF Grows, Prolongs
<1>8. c \notin Delimiter
  <2>1. Top.end = None /\ ~Quoting
    BY <1>5, <1>6 DEF Plainly, Quoting
  <2>2. ~Stops(c)
    BY DEF InWord
  <2> QED
    BY <2>1, <2>2, Zenon DEF Stops
<1>9. Len(frames') = 1 /\ Top' = Top
  <2>1. Len(frames') = Len(frames) /\ frames'[Len(frames')] = Top
    <3>1. frames' = SubSeq(frames, 1, Len(frames) - 1) \o <<Top>> /\ Top.end = frames[Len(frames)].end
      BY <1>3 DEF Outer, Top
    <3> QED
      BY <1>1, <3>1, CallGoesOn
  <2> QED
    BY <1>5, <2>1 DEF Plainly, Top
<1>10. CASE hold # None
  <2>1. c = hold /\ UNCHANGED <<seen, eof, unget>>
    BY <1>10 DEF InWord, NextChar
  <2>2. Used' = Used
    BY <1>1, <2>1, StillGrows
  <2>3. token.value = SubSeq(seen, token.from, Used - 1)
    BY <1>5, <1>10 DEF Plainly
  <2>4. SubSeq(seen', token.from, Used') = SubSeq(seen, token.from, Used - 1) \o <<c>>
    <3>1. Used \in 1..Len(seen) /\ seen[Used] = c
      BY <1>1, <1>6, <2>1, <2>2
    <3>2. SubSeq(seen, token.from, Used) = SubSeq(seen, token.from, Used - 1) \o <<seen[Used]>>
      BY <1>6, <3>1, OnePartMore
    <3> QED
      BY <2>1, <2>2, <3>1, <3>2, Zenon
  <2>5. token'.value = SubSeq(seen', token'.from, Used')
    BY <1>3, <2>3, <2>4, Zenon
  <2>6. \A j \in token'.from..Used' : seen'[j] \notin Delimiter
    BY <1>3, <1>5, <2>1, <2>2 DEF Plainly
  <2> QED
    BY <1>1, <1>5, <1>9, <2>5, <2>6, Zenon DEF Plainly
<1>11. CASE hold = None
  <2>1. Get(c)
    BY <1>11 DEF InWord, NextChar
  <2>2. Used' = Used + 1
    BY <1>1, <2>1, TakenGrows
  <2>3. token.value = SubSeq(seen, token.from, Used)
    BY <1>5, <1>11 DEF Plainly
  <2>4. SubSeq(seen', token.from, Used') = SubSeq(seen, token.from, Used) \o <<c>>
    <3>1. Used' \in 1..Len(seen') /\ Used' - 1 = Used /\ token.from <= Used'
      BY <1>6, <1>7, <2>2
    <3>2. SubSeq(seen', token.from, Used') = SubSeq(seen', token.from, Used' - 1) \o <<seen'[Used']>>
      BY <1>6, <1>7, <3>1, OnePartMore
    <3>3. SubSeq(seen', token.from, Used) = SubSeq(seen, token.from, Used)
      <4>1. Used <= Len(seen') /\ Used \in Int /\ token.from \in Nat \ {0} /\ Used <= Len(seen)
        BY <1>6, <1>7
      <4>2. PICK a \in Nat \ {0} : a = token.from
        BY <4>1
      <4>3. PICK b \in Int : b = Used
        BY <4>1
      <4>4. b <= Len(seen) /\ b <= Len(seen') /\ \A j \in a..b : seen'[j] = seen[j]
        BY <1>7, <4>1, <4>2, <4>3
      <4>5. seen \in Seq(Char) /\ seen' \in Seq(Char)
        BY <1>6, <1>7
      <4>6. SubSeq(seen', a, b) = SubSeq(seen, a, b)
        BY <4>4, <4>5, SamePart
      <4> QED
        BY <4>2, <4>3, <4>6, Zenon
    <3> QED
      BY <1>1, <3>1, <3>2, <3>3, Zenon
  <2>5. token'.value = SubSeq(seen', token'.from, Used')
    BY <1>3, <2>3, <2>4, Zenon
  <2>6. \A j \in token'.from..Used' : seen'[j] \notin Delimiter
    <3> SUFFICES ASSUME NEW j \in token.from..Used' PROVE seen'[j] \notin Delimiter
      BY <1>3
    <3>1. CASE j = Used'
      BY <1>1, <1>8, <3>1
    <3>2. CASE j # Used'
      <4>1. j \in token.from..Used
        BY <1>6, <1>7, <2>2, <3>2
      <4> QED
        BY <1>5, <1>7, <4>1 DEF Plainly
    <3> QED
      BY <3>1, <3>2
  <2> QED
    BY <1>1, <1>5, <1>9, <2>5, <2>6, Zenon DEF Plainly
<1> QED
  BY <1>10, <1>11

LEMMA MagicTile ==
  ASSUME TInv, AInv', Magic
  PROVE  TInv'
<1>1. PICK c \in Wild \cup Blank \cup {"nl"} :
        InWord(c) /\ Goes(<<Top>>, IF Quoting THEN Escaped(c) ELSE <<c>>)
  BY DEF Magic
<1>2. c \in Char \ {"eof"}
  BY DEF Char, Wild, Blank, Delimiter
<1>3. CASE ~Quoting
  BY <1>1, <1>2, <1>3, OrdinaryTile
<1>4. CASE Quoting
  <2>1. ~Plainly
    BY <1>4 DEF Plainly, Quoting
  <2>2. Grows /\ at = "word"
    BY <1>1, <1>2, NextCharGrows DEF InWord, TInv, AInv
  <2>3. at' = at /\ tokens' = tokens /\ token'.from = token.from
    BY <1>1, TokenIs, GoesOn
  <2> QED
    BY <2>1, <2>2, <2>3, SpecialTile
<1> QED
  BY <1>3, <1>4

LEMMA ParenTile ==
  ASSUME TInv, AInv', Paren
  PROVE  TInv'
<1>1. InWord("(") /\ \E f, s : Goes(f, s)
  BY DEF Paren
<1>2. "(" \in Char /\ "(" \in Delimiter
  BY DEF Char, Delimiter
<1>3. at = "word" /\ ~Stops("(")
  BY <1>1 DEF InWord
<1>4. ~Plainly
  <2>1. Top.end # None => Len(frames) > 1
    BY <1>3, WordIs
  <2>2. Quoting \/ Top.end # None
    BY <1>2, <1>3, Zenon DEF Stops
  <2>3. ASSUME Plainly PROVE FALSE
    <3>1. Len(frames) = 1 /\ Top.quote = None
      BY <2>3, Zenon DEF Plainly
    <3>2. Top.end # None
      BY <2>2, <3>1, Zenon DEF Quoting
    <3> QED
      BY <2>1, <3>1, <3>2
  <2> QED
    BY <2>3
<1>5. Grows
  BY <1>1, <1>2, NextCharGrows DEF InWord, TInv, AInv
<1>6. at' = at /\ tokens' = tokens /\ token'.from = token.from
  BY <1>1, TokenIs, GoesOn
<1> QED
  BY <1>3, <1>4, <1>5, <1>6, SpecialTile

LEMMA PlainTile ==
  ASSUME TInv, AInv', Plain
  PROVE  TInv'
<1>1. PICK c \in Char \ {"eof"} : InWord(c) /\ Goes(<<Top>>, <<c>>)
  BY DEF Plain
<1> QED
  BY <1>1, OrdinaryTile

LEMMA WordEndsTile ==
  ASSUME TInv, AInv', WordEnds
  PROVE  TInv'
<1>1. PICK c \in Delimiter : Peek(c)
  BY DEF WordEnds
<1>2. at = "word" /\ Made(Type, Taken) /\ hold = None
  BY DEF WordEnds
<1>3. c \in Char /\ LexerInv
  BY DEF Char, TInv, AInv
<1>4. /\ Grows /\ Used' = Used
      /\ c = "eof" => eof' = TRUE /\ seen' = seen /\ Used = Len(seen)
      /\ c # "eof" => Used < Len(seen') /\ seen'[Used + 1] = c /\ unget' = c /\ c # None
      /\ unget # None => unget' = unget
  BY <1>1, <1>3, LookedGrows
<1>5. /\ Begun /\ seen[token.from] \notin Delimiter \cup {"#"}
      /\ Unquoted => Plainly
      /\ token \in TokenType /\ token.from \in Nat \ {0} /\ token.from <= Used /\ Used \in Nat
      /\ seen \in Seq(Char) /\ Used <= Len(seen) /\ Len(seen) \in Nat
  BY <1>2, WordIs
<1>6. Used = token.from /\ seen[Used] \in Digit => eof \/ unget \notin {None, "<", ">"}
  BY <1>2, WordIs, Zenon
<1>7. /\ seen' \in Seq(Char) /\ Len(seen') \in Nat /\ Used <= Len(seen')
      /\ \A j \in token.from..Used : seen'[j] = seen[j]
  BY <1>4, <1>5 DEF Grows, Prolongs
<1>8. Taken = Used
  BY <1>4 DEF Taken, Used
<1>9. Type \in Keyword \cup {<<"word">>} /\ (Type = token.value \/ Type = <<"word">>)
  BY Zenon DEF Type
<1>10. Type \in Seq(Char \cup {"word"})
  <2>1. "{" \in Char /\ "}" \in Char /\ "!" \in Char
    BY DEF Char
  <2>2. \A a \in {"{", "}", "!", "word"} : <<a>> \in Seq(Char \cup {"word"})
    BY <2>1, OneOf
  <2>3. \E a \in {"{", "}", "!", "word"} : Type = <<a>>
    BY <1>9, Zenon DEF Keyword
  <2> QED
    BY <2>2, <2>3, Zenon
<1>11. PICK t : t = [token EXCEPT !.type = Type, !.to = Taken]
  OBVIOUS
<1>12. /\ t \in TokenType /\ t.type = Type /\ t.to = Used /\ t.from = token.from
       /\ t.value = token.value
  <2>1. PICK n \in Nat : n = Taken /\ n = Used
    BY <1>5, <1>8
  <2>2. PICK ty \in Seq(Char \cup {"word"}) : ty = Type
    BY <1>10
  <2>3. t = [token EXCEPT !.type = ty, !.to = n]
    BY <1>11, <2>1, <2>2, Zenon
  <2>4. /\ t \in TokenType /\ t.type = ty /\ t.to = n /\ t.from = token.from
        /\ t.value = token.value
    BY <1>5, <2>3 DEF TokenType
  <2> QED
    BY <2>1, <2>2, <2>4
<1>13. tokens' = Append(tokens, t) /\ at' = "blanks"
  <2>1. Type # <<"eof">>
    BY <1>9, TypesDiffer, Zenon
  <2> QED
    BY <1>2, <1>11, <2>1, Zenon DEF Made
<1> DEFINE s == SubSeq(seen', t.from, t.to)
<1>14. /\ s = SubSeq(seen, token.from, Used)
       /\ s \in Seq(Char) /\ Len(s) = Used - token.from + 1
       /\ \A i \in 1..(Used - token.from + 1) : s[i] = seen[token.from + i - 1]
  <2>1. s = SubSeq(seen, token.from, Used)
    BY <1>5, <1>7, <1>12, SamePart
  <2>2. \A i \in token.from..Used : seen[i] \in Char
    BY <1>5
  <2> QED
    BY <1>5, <2>1, <2>2, SubSeqProperties
<1> HIDE DEF s
<1>15. s[1] \notin Delimiter \cup {"#"}
  <2>1. 1 \in 1..(Used - token.from + 1) /\ token.from + 1 - 1 = token.from
    BY <1>5
  <2> QED
    BY <1>5, <1>14, <2>1
<1>16. (t.to < Len(seen') /\ seen'[t.to + 1] \in Delimiter) \/ t.to = Len(seen')
  BY <1>1, <1>4, <1>12
<1>17. s \in {<<d>> : d \in Digit} => ~(t.to < Len(seen') /\ seen'[t.to + 1] \in {"<", ">"})
  <2>1. SUFFICES ASSUME NEW d \in Digit, s = <<d>>, t.to < Len(seen'), seen'[t.to + 1] \in {"<", ">"}
                 PROVE  FALSE
    BY Zenon
  <2>2. Len(s) = 1 /\ s[1] = d
    BY <2>1, Tuples, Zenon
  <2>3. Used = token.from
    BY <1>5, <1>14, <2>2
  <2>4. seen[Used] = d
    <3>1. 1 \in 1..(Used - token.from + 1) /\ token.from + 1 - 1 = Used
      BY <1>5, <2>3
    <3>2. s[1] = seen[token.from + 1 - 1]
      BY <1>14, <3>1, Zenon
    <3> QED
      BY <2>2, <3>1, <3>2, Zenon
  <2>5. c # "eof" /\ c \in {"<", ">"}
    BY <1>4, <1>5, <1>7, <1>12, <2>1
  <2>6. ~eof
    BY <1>3, <1>4, <2>5, <1>1, OneLooked, Zenon DEF Looked
  <2>7. unget # None /\ unget \notin {"<", ">"}
    BY <1>6, <2>3, <2>4, <2>6
  <2> QED
    BY <1>4, <2>5, <2>7
<1>18. (\A i \in DOMAIN s : s[i] \notin Quoter \cup {"ctl"}) =>
         t.value = s /\ \A i \in DOMAIN s : s[i] \notin Delimiter
  <2> SUFFICES ASSUME \A i \in DOMAIN s : s[i] \notin Quoter \cup {"ctl"}
               PROVE  t.value = s /\ \A i \in DOMAIN s : s[i] \notin Delimiter
    OBVIOUS
  <2>1. \A j \in token.from..Used : seen[j] \notin Quoter \cup {"ctl"}
    <3> SUFFICES ASSUME NEW j \in token.from..Used PROVE seen[j] \notin Quoter \cup {"ctl"}
      OBVIOUS
    <3>1. j - token.from + 1 \in 1..(Used - token.from + 1)
      BY <1>5
    <3>2. s[j - token.from + 1] = seen[j] /\ j - token.from + 1 \in DOMAIN s
      <4>1. token.from + (j - token.from + 1) - 1 = j
        BY <1>5
      <4>2. s[j - token.from + 1] = seen[token.from + (j - token.from + 1) - 1]
        BY <1>14, <3>1, Zenon
      <4>3. DOMAIN s = 1..(Used - token.from + 1)
        <5>1. s \in Seq(Char) /\ Len(s) = Used - token.from + 1
          BY <1>14
        <5> QED
          BY <5>1
      <4> QED
        BY <3>1, <4>1, <4>2, <4>3, Zenon
    <3> QED
      BY <3>2
  <2>2. Plainly
    BY <1>5, <2>1, Zenon DEF Unquoted
  <2>3. t.value = s
    BY <1>2, <1>12, <1>14, <2>2, Zenon DEF Plainly
  <2>4. ASSUME NEW i \in DOMAIN s PROVE s[i] \notin Delimiter
    <3>1. i \in 1..(Used - token.from + 1) /\ token.from + i - 1 \in token.from..Used
      BY <1>5, <1>14
    <3>2. s[i] = seen[token.from + i - 1]
      BY <1>14, <3>1
    <3> QED
      BY <2>2, <3>1, <3>2 DEF Plainly
  <2> QED
    BY <2>3, <2>4
<1>19. Spells(seen', t)
  <2>1. t.type \in Keyword \cup {<<"word">>}
    BY <1>9, <1>12, Zenon
  <2> QED
    BY <1>15, <1>16, <1>17, <1>18, <2>1, SpellsWord, Zenon DEF s
<1>20. eof' \/ (1 <= t.from /\ t.from <= t.to /\ Stable(seen', t))
  <2>1. 1 <= t.from /\ t.from <= t.to
    BY <1>5, <1>12
  <2>2. t.type # <<"eof">>
    BY <1>9, <1>12, TypesDiffer, Zenon
  <2>3. c # "eof" => t.to < Len(seen')
    BY <1>4, <1>12
  <2> QED
    BY <1>4, <2>1, <2>2, <2>3, Zenon DEF Stable
<1>21. PICK last \in Int : last = t.from - 1
  BY <1>5, <1>12
<1>22. /\ last = (IF t.type = <<"eof">> THEN t.to ELSE t.from - 1)
       /\ Start <= last + 1 /\ last <= Len(seen) /\ Gap(seen, Start, last)
  <2>1. t.type # <<"eof">>
    BY <1>9, <1>12, TypesDiffer, Zenon
  <2>2. Start <= token.from /\ Gap(seen, Start, token.from - 1)
    BY <1>5 DEF Begun
  <2>3. last + 1 = token.from /\ last <= Len(seen) /\ last = token.from - 1
    BY <1>5, <1>12, <1>21
  <2> QED
    BY <1>21, <2>1, <2>2, <2>3
<1>23. t.to = Used'
  BY <1>4, <1>12
<1> QED
  BY <1>4, <1>12, <1>13, <1>19, <1>20, <1>22, <1>23, TokenMade
-----------------------------------------------------------------------------
LEMMA TilesInit == Init => TInv
<1> SUFFICES ASSUME Init PROVE TInv
  OBVIOUS
<1>1. seen = <<>> /\ unget = None /\ at = "blanks" /\ tokens = <<>> /\ AInv
  BY LexerInit DEF Init
<1>2. TilesTheText /\ TokensSound
  BY <1>1 DEF TilesTheText, Tiles, TokensSound
<1>3. Start = 1 /\ Used = 0
  BY <1>1 DEF Start, Behind, Used
<1>4. BlanksInv
  BY <1>3 DEF BlanksInv
<1> QED
  BY <1>1, <1>2, <1>4 DEF TInv, CommentInv, SecondInv, WordInv

LEMMA TilesStep ==
  ASSUME TInv, Next \/ UNCHANGED lexer
  PROVE  TInv'
<1>1. AInv'
  BY LexerStep DEF TInv
<1>2. CASE NextToken
  BY <1>1, <1>2, BlanksTile, CommentTile, FirstTile, SecondTile, RedirDigitTile, StartWordTile
     DEF NextToken
<1>3. CASE Word
  BY <1>1, <1>3, WordEndsTile, ClosesTile, UnterminatedTile, QuoteTile, SpecialTiles, AfterTile,
     MagicTile, ParenTile, PlainTile DEF Word
<1>4. CASE UNCHANGED lexer
  <2>1. UNCHANGED <<seen, eof, unget, at, hold, frames, token, tokens>>
    BY <1>4 DEF lexer
  <2>2. Used' = Used /\ Start' = Start /\ Top' = Top /\ TilesTheText'
    BY <2>1 DEF Used, Start, Top, TInv, TilesTheText
  <2>3. TokensSound'
    BY <2>1, <2>2 DEF TInv, TokensSound, Sound
  <2>4. BlanksInv' /\ CommentInv'
    BY <2>1, <2>2 DEF TInv, BlanksInv, CommentInv
  <2>5. Begun' = Begun /\ Unquoted' = Unquoted /\ Plainly' = Plainly
    BY <2>1, <2>2 DEF Begun, Unquoted, Plainly
  <2>6. SecondInv' /\ WordInv'
    BY <2>1, <2>2, <2>5 DEF TInv, SecondInv, WordInv
  <2> QED
    BY <1>1, <2>2, <2>3, <2>4, <2>6 DEF TInv
<1> QED
  BY <1>2, <1>3, <1>4 DEF Next

\* The tokens are the text: nothing but blanks and comments is between them, each is
\* spelled as it was written, is as long as it can be, and a word without a quote
\* or a substitution is its characters: for any text, however it is read or typed.
THEOREM TokensTileTheText == InputSpec => []TilesTheText
<1>1. InputInit => TInv
  BY TilesInit DEF InputInit
<1>2. TInv /\ [InputNext]_<<vars, promptVars>> => TInv'
  <2> SUFFICES ASSUME TInv, [InputNext]_<<vars, promptVars>>
               PROVE  Next \/ UNCHANGED lexer
    BY TilesStep
  <2>1. CASE Lex
    BY <2>1 DEF Lex
  <2>2. CASE PromptGetc
    BY <2>2 DEF PromptGetc
  <2>3. CASE Types \/ UNCHANGED <<vars, promptVars>>
    BY <2>3 DEF Types, vars, lexer
  <2> QED
    BY <2>1, <2>2, <2>3 DEF InputNext
<1>3. TInv => TilesTheText
  BY DEF TInv
<1> QED
  BY <1>1, <1>2, <1>3, PTL DEF InputSpec
=============================================================================
