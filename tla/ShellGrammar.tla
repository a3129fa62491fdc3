---------------------------- MODULE ShellGrammar ----------------------------
(***************************************************************************)
(* The grammar of the shell's language, over kinds of tokens, as what the  *)
(* parser's trees are measured against.  It says which stretches of tokens *)
(* a tree stands for; it does not parse.                                   *)
(*                                                                         *)
(* Every operator takes a set of positions in the tokens s, and gives the  *)
(* positions that can follow what it names.  Where a tree is part of       *)
(* another, D says where it can end: D[n][i] are the positions that can    *)
(* follow n if it starts at i, without the fi of an if, and without the    *)
(* redirections behind a compound command.                                 *)
(***************************************************************************)
EXTENDS Integers, Sequences

Token(s, kinds, I) == {i + 1 : i \in {j \in I : j \in DOMAIN s /\ s[j] \in kinds}}
\* any number of newlines
Breaks(s, I) ==
  UNION {{j \in i..(Len(s) + 1) : \A m \in i..(j - 1) : m \in DOMAIN s /\ s[m] = "nl"} : i \in I \cap Nat}

WordKind == {"word", "assign", "path", "tight", "if", "then", "elif", "else", "fi", "for", "in",
             "do", "done", "while", "until", "case", "esac", "{", "}", "!"}
Reserved == WordKind \ {"word", "assign", "path", "tight"}
RedirKind == {"<", ">", ">>", "<&", ">&"}

InOrder(q) == \A i, j \in DOMAIN q : i < j => q[i] < q[j]
Covered(n) == {n.words[i] : i \in DOMAIN n.words} \cup {n.assigns[i] : i \in DOMAIN n.assigns}
                \cup {n.redirs[i] : i \in DOMAIN n.redirs} \cup {n.redirs[i] + 1 : i \in DOMAIN n.redirs}
Size(n) == Len(n.words) + Len(n.assigns) + 2 * Len(n.redirs)

\* assignments, then words and redirections in any order; the first word is
\* not a reserved one unless something stands in front of it
IsSimple(s, n, i) ==
  LET first == i + Len(n.assigns) IN
  /\ Size(n) > 0 /\ Covered(n) = i..(i + Size(n) - 1)
  /\ InOrder(n.words) /\ InOrder(n.assigns) /\ InOrder(n.redirs)
  /\ \A m \in DOMAIN n.redirs : s[n.redirs[m]] \in RedirKind /\ s[n.redirs[m] + 1] \in WordKind
  /\ \A m \in DOMAIN n.assigns : s[n.assigns[m]] = "assign" /\ n.assigns[m] = i + m - 1
  /\ \A m \in DOMAIN n.words : s[n.words[m]] \in WordKind
  /\ first \in {n.words[m] : m \in DOMAIN n.words} => s[first] # "assign"
  /\ s[i] \notin Reserved
SimpleEnds(s, n, I) ==
  {i + Size(n) : i \in {j \in I \cap DOMAIN s : j + Size(n) - 1 \in DOMAIN s /\ IsSimple(s, n, j)}}

\* the words of n from the first-th on, one after the other
WordEnds(s, n, first, I) ==
  {i + Len(n.words) - first + 1 : i \in
    {j \in I : \A m \in first..Len(n.words) :
       n.words[m] = j + m - first /\ n.words[m] \in DOMAIN s /\ s[n.words[m]] \in WordKind}}

RedirEnds(s, n, I) ==
  {i + 2 * Len(n.redirs) : i \in
    {j \in I : \A m \in DOMAIN n.redirs :
       /\ n.redirs[m] = j + 2 * (m - 1)
       /\ n.redirs[m] \in DOMAIN s /\ s[n.redirs[m]] \in RedirKind
       /\ n.redirs[m] + 1 \in DOMAIN s /\ s[n.redirs[m] + 1] \in WordKind}}

EndsInBackground(n) == n.type = "bg" \/ (n.type = "sep" /\ n.kids[2].type = "bg")

\* Which lists may be inside which: & and ; bind weakest, then && and ||, which
\* group to the left, then !, then |.  With it a stretch of tokens has one tree.
BareType == {"group", "subshell", "while", "until", "if", "for", "case"}
CommandType == BareType \cup {"func", "cmd"}
StageType == CommandType \cup {"pipe"}
PipelineType == StageType \cup {"negate"}
LogicType == PipelineType \cup {"and", "or"}
ListType == LogicType \cup {"sep", "bg"}
Shaped(n) ==
  LET Types(y) == CASE y = "sep" -> <<ListType, LogicType \cup {"bg"}>>
                    [] y = "bg" -> <<LogicType>>
                    [] y \in {"and", "or"} -> <<LogicType, PipelineType>>
                    [] y = "negate" -> <<StageType>>
                    [] y = "pipe" -> <<CommandType, StageType>>
                    [] y = "func" -> <<BareType>>
                    [] y \in {"group", "subshell", "for"} -> <<ListType>>
                    [] y \in {"while", "until"} -> <<ListType, ListType>>
                    [] y = "if" -> IF Len(n.kids) = 2 THEN <<ListType, ListType>>
                                   ELSE <<ListType, ListType, ListType>>
                    [] y = "item" -> IF n.kids = <<>> THEN <<>> ELSE <<ListType>>
                    [] y = "case" -> [m \in DOMAIN n.kids |-> {"item"}]
                    [] OTHER -> <<>>
  IN  /\ DOMAIN n.kids = DOMAIN Types(n.type)
      /\ \A m \in DOMAIN n.kids : n.kids[m].type \in Types(n.type)[m]

\* a tree with all that belongs to it
Ends(D, s, n, I) ==
  LET bare(J) == UNION {D[n][i] : i \in J \cap Nat}
  IN  IF n.type = "if" THEN RedirEnds(s, n, Token(s, {"fi"}, bare({i \in I \cap DOMAIN s : s[i] = "if"})))
      ELSE IF n.type \in BareType THEN RedirEnds(s, n, bare(I))
      ELSE bare(I)

\* a list with what may close it, and the newlines around it
Body(D, s, n, I) ==
  LET ends == Ends(D, s, n, Breaks(s, I))
  IN  Breaks(s, ends \cup IF EndsInBackground(n) THEN {} ELSE Token(s, {";"}, ends))

\* ( pattern | pattern ) list
ItemEnds(D, s, n, I) ==
  LET start == I \cup Token(s, {"("}, I)
      bars == {i \in start : \A m \in DOMAIN n.words :
                 /\ n.words[m] = i + 2 * (m - 1)
                 /\ n.words[m] \in DOMAIN s /\ s[n.words[m]] \in WordKind
                 /\ m < Len(n.words) => n.words[m] + 1 \in DOMAIN s /\ s[n.words[m] + 1] = "|"}
      head == Breaks(s, Token(s, {")"}, {i + 2 * Len(n.words) - 1 : i \in bars}))
  IN  IF n.kids = <<>> THEN head ELSE Body(D, s, n.kids[1], head)

\* the items of n, which start in front of their first pattern or of a (; the last may have no ;;
Items(D, s, n, I) ==
  LET item(m) == n.kids[m]
      starts(m) == {item(m).words[1] - 1, item(m).words[1]} \cap DOMAIN s
      ends(m) == UNION {D[item(m)][i] : i \in starts(m)}
      next(m) == Breaks(s, Token(s, {";;"}, ends(m)))
      last == Len(n.kids)
  IN  IF last = 0 THEN Breaks(s, I)
      ELSE IF /\ \A m \in 1..last : item(m).type = "item" /\ item(m).words # <<>>
              /\ starts(1) \cap Breaks(s, I) # {}
              /\ \A m \in 1..(last - 1) : starts(m + 1) \cap next(m) # {}
        THEN next(last) \cup ends(last)
        ELSE {}

\* what can follow n if it starts in I
BareEnds(D, s, n, I) ==
  LET Kid(m, J) == Ends(D, s, n.kids[m], J)
      Part(m, J) == Body(D, s, n.kids[m], J)
  IN
  CASE n.type = "cmd"    -> SimpleEnds(s, n, I)
    [] n.type = "sep"    -> LET left == Kid(1, I) IN
                            Kid(2, Breaks(s, IF EndsInBackground(n.kids[1]) THEN left
                                             ELSE Token(s, {";", "nl"}, left)))
    [] n.type = "bg"     -> Token(s, {"&"}, Kid(1, I))
    [] n.type = "and"    -> Kid(2, Breaks(s, Token(s, {"&&"}, Kid(1, I))))
    [] n.type = "or"     -> Kid(2, Breaks(s, Token(s, {"||"}, Kid(1, I))))
    [] n.type = "negate" -> Kid(1, Breaks(s, Token(s, {"!"}, I)))
    [] n.type = "pipe"   -> Kid(2, Breaks(s, Token(s, {"|"}, Kid(1, I))))
    [] n.type = "func"   -> Kid(1, Breaks(s, Token(s, {")"}, Token(s, {"("}, WordEnds(s, n, 1, I)))))
    [] n.type = "group"  -> Token(s, {"}"}, Part(1, Token(s, {"{"}, I)))
    [] n.type = "subshell" -> Token(s, {")"}, Part(1, Token(s, {"("}, I)))
    [] n.type \in {"while", "until"} ->
         Token(s, {"done"}, Part(2, Token(s, {"do"}, Part(1, Token(s, {n.type}, I)))))
    [] n.type = "if"     ->
         LET body == Part(2, Token(s, {"then"}, Part(1, Token(s, {"if", "elif"}, I))))
         IN  IF Len(n.kids) = 2 THEN body
             ELSE Part(3, Token(s, {"else"}, body))
                    \cup IF n.kids[3].type # "if" THEN {}
                         ELSE UNION {D[n.kids[3]][i] : i \in {j \in body \cap DOMAIN s : s[j] = "elif"}}
    [] n.type = "for"    ->
         LET name == Token(s, WordKind, {i \in Token(s, {"for"}, I) : n.words[1] = i})
             head == IF n.words[Len(n.words)] = 0
                       THEN name \cup Token(s, {";", "nl"}, name)
                       ELSE Token(s, {";", "nl"}, WordEnds(s, n, 2, Token(s, {"in"}, name)))
         IN  Token(s, {"done"}, Part(1, Token(s, {"do"}, Breaks(s, head))))
    [] n.type = "case"   ->
         Token(s, {"esac"}, Items(D, s, n, Token(s, {"in"}, WordEnds(s, n, 1, Token(s, {"case"}, I)))))
    [] n.type = "item"   -> ItemEnds(D, s, n, I)
    [] OTHER -> {}

(***************************************************************************)
(* A tree stands for a stretch of tokens if every one of its parts stands  *)
(* for one of its own.  Each part is shorter than what it is part of, so   *)
(* that there is nothing further down than there are tokens.               *)
(***************************************************************************)
Parts(root, deepest) ==
  LET at[depth \in 0..deepest] ==
        IF depth = 0 THEN {root}
        ELSE UNION {{n.kids[m] : m \in DOMAIN n.kids} : n \in at[depth - 1]}
  IN  at
Derived(s, root) ==
  LET end == Len(s) + 1
      parts == Parts(root, end)
      ends[depth \in 0..end] ==
        [n \in parts[depth] |-> [i \in Nat |->
           IF depth = end THEN i..end
           ELSE IF Shaped(n) THEN {j \in BareEnds(ends[depth + 1], s, n, {i}) : i <= j /\ j <= end}
           ELSE {}]]
  IN  ends[0]
=============================================================================
