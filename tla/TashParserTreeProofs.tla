------------------------ MODULE TashParserTreeProofs -------------------------
(***************************************************************************)
(* What the parser makes of a line is the tree the grammar gives to just   *)
(* those tokens, for any input.  Every function on the stack has a role:   *)
(* where it started, what it has been given, and which tokens its          *)
(* label says it has read since.  The roles of neighbours fit together,    *)
(* so that what one function returns is what the one below it waits for;   *)
(* each step of the parser keeps this up, and when the last one returns it *)
(* gives a tree for everything read.                                       *)
(***************************************************************************)
EXTENDS TashParserProofs, WellFoundedInduction
-----------------------------------------------------------------------------
(***************************************************************************)
(* Frames.  A function that starts at p and waits for one that starts at q *)
(* has read what is between them.  What a function gives to the one that   *)
(* waits for it depends on its role.                                       *)
(***************************************************************************)
\* whose work a frame does, by the label at which it goes on
Role(f) ==
  CASE f.at \in {"list", "terminator"} -> IF f.multi THEN "list" ELSE "line"
    [] f.at = "logic" -> "logic"
    [] f.at \in {"bang", "negate"} -> "pipeline"
    [] f.at \in {"stage", "pipe"} -> "stage"
    [] f.at \in {"command", "word", "args", "func_open", "func_close", "func_body"} -> "command"
    [] f.at = "target" -> IF f.type = "cmd" THEN "command" ELSE "compound"
    [] f.at \in {"compound", "redirs"} -> "compound"
    [] OTHER -> "construct"
\* the roles of those it calls there, and what they return in them
Needs(label) ==
  CASE label = "list" -> {"logic"}
    [] label = "logic" -> {"pipeline", "stage"}
    [] label \in {"negate", "pipe"} -> {"stage"}
    [] label = "stage" -> {"command", "compound"}
    [] label = "func_body" -> {"compound"}
    [] label = "redirs" -> {"construct"}
    [] label \in {"then", "elif", "fi", "do", "done", "item_end", "paren", "brace"} -> {"list"}
    [] OTHER -> {}
TypesOf(fam) ==
  CASE fam \in {"line", "list"} -> ListType
    [] fam = "logic" -> LogicType
    [] fam = "pipeline" -> PipelineType
    [] fam = "stage" -> StageType
    [] fam = "command" -> CommandType
    [] OTHER -> BareType
\* a line, which may have a separator behind it
LineTo(s, n, p, h) == \E m \in Nat : After(s, n, p, m) /\ (h = m \/ (Tok(s, m, LineEnd) /\ h = m + 1))
\* n is what a function in the role fam returns if it started at p and has read up to h
Gives(s, fam, n, p, h) ==
  /\ n.type \in TypesOf(fam)
  /\ CASE fam = "line" -> LineTo(s, n, p, h)
       [] fam = "list" -> Listed(s, n, p, h)
       [] fam = "construct" -> Core(s, n, p, h)
       [] OTHER -> After(s, n, p, h)

\* What each label says has been read from p on, when the next function is
\* called and starts at q: the trees so far are k, the words w, the redirections r.
SepTo(s, n, p, q) ==
  /\ n.type \in ListType
  /\ \E m \in Nat : After(s, n, p, m) /\ IF EndsInBackground(n) THEN q = m ELSE Tok(s, m, LineEnd) /\ q = m + 1
EndedTo(s, k, p, q) == \E n : k = <<n>> /\ \E m \in Nat : SepTo(s, n, p, m) /\ Nls(s, m, q)
ListAwaits(s, k, p, q) == (k = <<>> /\ Nls(s, p, q)) \/ EndedTo(s, k, p, q)
Operator(s, y, m) == (y = "and" /\ Tok(s, m, {"&&"})) \/ (y = "or" /\ Tok(s, m, {"||"}))
LogicAwaits(s, y, k, p, q) ==
  \/ k = <<>> /\ q = p
  \/ \E n : k = <<n>> /\ n.type \in LogicType /\ \E m \in Nat : After(s, n, p, m) /\ Operator(s, y, m) /\ q = m + 1
NegateAwaits(s, k, p, q) == k = <<>> /\ Tok(s, p, {"!"}) /\ q = p + 1
StageAwaits(k, p, q) == k = <<>> /\ q = p
PipeAwaits(s, k, p, q) ==
  \E n : k = <<n>> /\ n.type \in CommandType /\ \E m \in Nat : After(s, n, p, m) /\ Tok(s, m, {"|"}) /\ q = m + 1
FuncTo(s, w, p, m) == w = <<m>> /\ m \in Nat /\ Nls(s, p, m) /\ Tok(s, m, WordKind)
FuncAwaits(s, w, k, p, q) ==
  k = <<>> /\ \E m \in Nat : FuncTo(s, w, p, m) /\ Tok(s, m + 1, {"("}) /\ Tok(s, m + 2, {")"}) /\ q = m + 3
RedirsAwaits(s, r, k, p, q) == k = <<>> /\ r = <<>> /\ Nls(s, p, q)

Opening(j) == IF j = 1 THEN {"if"} ELSE {"elif"}
Clause(s, a, b, K, i, j) ==
  \E m \in Nat : /\ Tok(s, i, K) /\ a.type \in ListType /\ Listed(s, a, i + 1, m)
                 /\ Tok(s, m, {"then"}) /\ b.type \in ListType /\ Listed(s, b, m + 1, j)
Clauses(s, k, e, y, p) ==
  /\ y \in [0..e -> Nat] /\ y[0] = p
  /\ \A j \in 1..e : Clause(s, k[2 * j - 1], k[2 * j], Opening(j), y[j - 1], y[j])
ThenAwaits(s, k, p, q) ==
  \E e \in Nat : Len(k) = 2 * e /\ \E y : Clauses(s, k, e, y, p) /\ Tok(s, y[e], Opening(e + 1)) /\ q = y[e] + 1
ElifAwaits(s, k, p, q) ==
  \E e \in Nat : Len(k) = 2 * e + 1 /\ \E y : \E m \in Nat :
    /\ Clauses(s, k, e, y, p) /\ Tok(s, y[e], Opening(e + 1))
    /\ k[2 * e + 1].type \in ListType /\ Listed(s, k[2 * e + 1], y[e] + 1, m) /\ Tok(s, m, {"then"}) /\ q = m + 1
ClausesTo(s, k, p, h) == \E e \in Nat \ {0} : Len(k) = 2 * e /\ \E y : Clauses(s, k, e, y, p) /\ y[e] = h
FiAwaits(s, k, p, q) == \E m \in Nat : ClausesTo(s, k, p, m) /\ Tok(s, m, {"else"}) /\ q = m + 1

Loop == {"while", "until"}
ForTo(s, w, p, h) ==
  w \in Seq(Nat) /\ w # <<>> /\ Tok(s, p, {"for"}) /\ w[1] = p + 1 /\ Tok(s, p + 1, WordKind) /\ ForHead(s, w, p, h)
DoAwaits(s, y, w, k, p, q) == y \in Loop /\ w = <<>> /\ k = <<>> /\ Tok(s, p, {y}) /\ q = p + 1
LoopTo(s, y, w, k, p, m) ==
  y \in Loop /\ w = <<>> /\ \E n : k = <<n>> /\ n.type \in ListType /\ Tok(s, p, {y}) /\ Listed(s, n, p + 1, m)
DoneAwaits(s, y, w, k, p, q) ==
  \E m \in Nat : /\ Tok(s, m, {"do"}) /\ q = m + 1
                 /\ LoopTo(s, y, w, k, p, m) \/ (y = "for" /\ k = <<>> /\ ForTo(s, w, p, m))

CaseHead(s, w, k, p) ==
  Tok(s, p, {"case"}) /\ w = <<p + 1>> /\ Tok(s, p + 1, WordKind) /\ Tok(s, p + 2, {"in"}) /\ Linked(s, k, p + 3)
CaseTo(s, w, k, p, i) == CaseHead(s, w, k, p) /\ p <= i /\ Follows(s, k, Len(k) + 1, p + 3, i)
ItemFrom(s, i, b) == i = b \/ (i + 1 = b /\ Tok(s, i, {"("}))
Barred(s, r, b) == \A x \in DOMAIN r : r[x] = b + 2 * (x - 1) /\ Tok(s, r[x], WordKind) /\ Tok(s, r[x] + 1, {"|"})
PatternTo(s, w, r, k, p, h) ==
  \E i \in Nat : \E b \in Nat : CaseTo(s, w, k, p, i) /\ ItemFrom(s, i, b) /\ Barred(s, r, b) /\ h = b + 2 * Len(r)
BarTo(s, w, r, k, p, h) ==
  \E i \in Nat : \E b \in Nat : /\ CaseTo(s, w, k, p, i) /\ ItemFrom(s, i, b)
                                /\ r # <<>> /\ Patterns(s, r, b) /\ h = b + 2 * Len(r) - 1
BodyTo(s, w, r, k, p, h) == \E z \in Nat : BarTo(s, w, r, k, p, z) /\ Tok(s, z, {")"}) /\ Nls(s, z + 1, h)
EsacTo(s, w, k, p, h) ==
  /\ CaseHead(s, w, k, p) /\ p <= h
  /\ Follows(s, k, Len(k) + 1, p + 3, h) \/ (k # <<>> /\ EndOf(s, k[Len(k)], h))
EnclosedAwaits(s, K, k, p, q) == k = <<>> /\ Tok(s, p, K) /\ q = p + 1

\* a frame at the label l, of type y, waits for a function that starts at q
Awaits(s, l, y, w, r, k, p, q) ==
  /\ l = "list" => ListAwaits(s, k, p, q)
  /\ l = "logic" => LogicAwaits(s, y, k, p, q)
  /\ l = "negate" => NegateAwaits(s, k, p, q)
  /\ l = "stage" => StageAwaits(k, p, q)
  /\ l = "pipe" => PipeAwaits(s, k, p, q)
  /\ l = "func_body" => FuncAwaits(s, w, k, p, q)
  /\ l = "redirs" => y # "cmd" /\ RedirsAwaits(s, r, k, p, q)
  /\ l = "then" => ThenAwaits(s, k, p, q)
  /\ l = "elif" => ElifAwaits(s, k, p, q)
  /\ l = "fi" => FiAwaits(s, k, p, q)
  /\ l = "do" => DoAwaits(s, y, w, k, p, q)
  /\ l = "done" => DoneAwaits(s, y, w, k, p, q)
  /\ l = "item_end" => BodyTo(s, w, r, k, p, q)
  /\ l = "paren" => EnclosedAwaits(s, {"("}, k, p, q)
  /\ l = "brace" => EnclosedAwaits(s, OpenBrace, k, p, q)
FrameAwaits(s, f, p, q) == Awaits(s, f.at, f.type, f.words, f.redirs, f.kids, p, q)

\* a simple command from i, the target of whose last redirection may be missing
Assembled(s, n, i, open) ==
  LET first == i + Len(n.assigns) IN
  /\ Size(n) > 0 /\ Covered(n) = i..(i + Size(n) - 1)
  /\ InOrder(n.words) /\ InOrder(n.assigns) /\ InOrder(n.redirs)
  /\ \A m \in DOMAIN n.redirs : /\ Tok(s, n.redirs[m], RedirKind)
                                /\ Tok(s, n.redirs[m] + 1, WordKind) \/ (open /\ n.redirs[m] + 1 = i + Size(n) - 1)
  /\ \A m \in DOMAIN n.assigns : Tok(s, n.assigns[m], {"assign"}) /\ n.assigns[m] = i + m - 1
  /\ \A m \in DOMAIN n.words : Tok(s, n.words[m], WordKind)
  /\ first \in {n.words[m] : m \in DOMAIN n.words} => Tok(s, first, WordKind \ {"assign"})
  /\ Tok(s, i, Kind \ Reserved)
ArgsTo(s, f, p, h) == \E i \in Nat : Nls(s, p, i) /\ Assembled(s, f, i, FALSE) /\ h = i + Size(f)
TargetTo(s, f, p, h) == \E i \in Nat : Nls(s, p, i) /\ Assembled(s, f, i, TRUE) /\ h = i + Size(f) - 1
\* a compound command with some of its redirections
BehindTo(s, r, k, p, h) ==
  \E n : /\ k = <<n>> /\ n.type \in BareType
         /\ \E i \in Nat : \E m \in Nat : Nls(s, p, i) /\ Core(s, n, i, m) /\ Redirected(s, r, m, h)
OpenTo(s, r, k, p, h) ==
  \E x \in Nat : \E q : q \in Seq(Nat) /\ r = Append(q, x) /\ BehindTo(s, q, k, p, x) /\ Tok(s, x, RedirKind) /\ h = x + 1
ForWordsTo(s, w, p, h) ==
  /\ w \in Seq(Nat) /\ w # <<>> /\ Tok(s, p, {"for"}) /\ w[1] = p + 1 /\ Tok(s, p + 1, WordKind) /\ Tok(s, p + 2, {"in"})
  /\ \A x \in 2..Len(w) : w[x] = p + x + 1 /\ Tok(s, w[x], WordKind)
  /\ h = p + Len(w) + 2

\* what a function has read that does not go on behind one that it called
Lone == {"terminator", "bang", "command", "compound", "word", "func_open", "func_close", "args", "target", "redirs",
         "fi", "do", "for_name", "for_in", "for_words", "case_word", "in", "item", "pattern", "bar", "case_paren",
         "item_body", "item_end", "esac"}
HasRead(s, f, p, h) ==
  /\ f.at \in Lone
  /\ f.at = "terminator" => f.multi /\ EndedTo(s, f.kids, p, h)
  /\ f.at = "bang" => f.kids = <<>> /\ p = h
  /\ f.at \in {"command", "compound"} => f.kids = <<>> /\ Nls(s, p, h)
  /\ f.at \in {"word", "func_open"} =>
       f.kids = <<>> /\ \E m \in Nat : FuncTo(s, f.words, p, m) /\ Tok(s, m, PlainWord) /\ h = m + 1
  /\ f.at = "func_close" => f.kids = <<>> /\ \E m \in Nat : FuncTo(s, f.words, p, m) /\ Tok(s, m + 1, {"("}) /\ h = m + 2
  /\ f.at = "args" => ArgsTo(s, f, p, h)
  /\ f.at = "target" => IF f.type = "cmd" THEN TargetTo(s, f, p, h) ELSE OpenTo(s, f.redirs, f.kids, p, h)
  /\ f.at = "redirs" => f.type # "cmd" /\ BehindTo(s, f.redirs, f.kids, p, h)
  /\ f.at = "fi" => ClausesTo(s, f.kids, p, h)
  /\ f.at = "do" => f.type = "for" /\ f.kids = <<>> /\ ForTo(s, f.words, p, h)
  /\ f.at = "for_name" => f.type = "for" /\ f.kids = <<>> /\ Tok(s, p, {"for"}) /\ h = p + 1
  /\ f.at = "for_in" =>
       f.type = "for" /\ f.kids = <<>> /\ f.words = <<p + 1>> /\ Tok(s, p, {"for"}) /\ Tok(s, p + 1, WordKind) /\ h = p + 2
  /\ f.at = "for_words" => f.type = "for" /\ f.kids = <<>> /\ ForWordsTo(s, f.words, p, h)
  /\ f.at = "case_word" => f.kids = <<>> /\ f.redirs = <<>> /\ Tok(s, p, {"case"}) /\ h = p + 1
  /\ f.at = "in" =>
       f.kids = <<>> /\ f.redirs = <<>> /\ f.words = <<p + 1>> /\ Tok(s, p, {"case"}) /\ Tok(s, p + 1, WordKind) /\ h = p + 2
  /\ f.at = "item" => f.redirs = <<>> /\ CaseTo(s, f.words, f.kids, p, h)
  /\ f.at = "pattern" => PatternTo(s, f.words, f.redirs, f.kids, p, h)
  /\ f.at \in {"bar", "case_paren"} => BarTo(s, f.words, f.redirs, f.kids, p, h)
  /\ f.at \in {"item_body", "item_end"} => BodyTo(s, f.words, f.redirs, f.kids, p, h)
  /\ f.at = "esac" => EsacTo(s, f.words, f.kids, p, h)
\* or it goes on behind one that has given it its last tree
Resumed(s, f, p, h) ==
  \E S, n : \E k \in Seq(S) : \E q \in Nat : \E fam \in Needs(f.at) :
    /\ Awaits(s, f.at, f.type, f.words, f.redirs, k, p, q)
    /\ f.kids = Append(k, n) /\ Gives(s, fam, n, q, h)
Ran(s, f, p, h) == HasRead(s, f, p, h) \/ Resumed(s, f, p, h)

\* the functions c, the first of which starts at p for one that wants W, when the last is at h
Runs(s, c, p, W, h) ==
  \E pos \in [1..Len(c) -> Nat] :
    /\ pos[1] = p /\ Role(c[1]) \in W
    /\ \A i \in 1..(Len(c) - 1) : FrameAwaits(s, c[i], pos[i], pos[i + 1]) /\ Role(c[i + 1]) \in Needs(c[i].at)
    /\ Ran(s, c[Len(c)], pos[Len(c)], h)

-----------------------------------------------------------------------------
LEMMA GivesGrows ==
  ASSUME NEW s, NEW t, Prefix(s, t), NEW fam, NEW n, NEW p \in Nat, NEW h \in Nat, Gives(s, fam, n, p, h)
  PROVE  Gives(t, fam, n, p, h)
<1>1. ASSUME NEW m, After(s, n, p, m) PROVE After(t, n, p, m)
  BY <1>1, AfterGrows
<1>2. LineTo(s, n, p, h) => LineTo(t, n, p, h)
  BY <1>1, TokGrows, Zenon DEF LineTo
<1>3. Listed(s, n, p, h) => Listed(t, n, p, h)
  BY ListedGrows
<1>4. Core(s, n, p, h) => Core(t, n, p, h)
  BY CoreGrows
<1> QED BY <1>1, <1>2, <1>3, <1>4, Zenon DEF Gives

LEMMA EndedGrows ==
  ASSUME NEW s, NEW t, Prefix(s, t), NEW k, NEW p \in Nat, NEW q \in Nat, EndedTo(s, k, p, q)
  PROVE  EndedTo(t, k, p, q)
<1>1. PICK n : k = <<n>> /\ \E m \in Nat : SepTo(s, n, p, m) /\ Nls(s, m, q)
  BY DEF EndedTo
<1>2. PICK m \in Nat : SepTo(s, n, p, m) /\ Nls(s, m, q)
  BY <1>1
<1>3. SepTo(t, n, p, m)
  <2>1. PICK x \in Nat : n.type \in ListType /\ After(s, n, p, x)
                         /\ IF EndsInBackground(n) THEN m = x ELSE Tok(s, x, LineEnd) /\ m = x + 1
    BY <1>2 DEF SepTo
  <2>2. After(t, n, p, x) /\ IF EndsInBackground(n) THEN m = x ELSE Tok(t, x, LineEnd) /\ m = x + 1
    BY <2>1, AfterGrows, TokGrows, Zenon
  <2> QED BY <2>1, <2>2, Zenon DEF SepTo
<1>4. Nls(t, m, q)
  BY <1>2, NlsGrow
<1> QED BY <1>1, <1>3, <1>4, Zenon DEF EndedTo

LEMMA ListAwaitsGrows ==
  ASSUME NEW s, NEW t, Prefix(s, t), NEW k, NEW p \in Nat, NEW q \in Nat, ListAwaits(s, k, p, q)
  PROVE  ListAwaits(t, k, p, q)
  BY NlsGrow, EndedGrows, Zenon DEF ListAwaits

LEMMA LogicAwaitsGrows ==
  ASSUME NEW s, NEW t, Prefix(s, t), NEW y, NEW k, NEW p \in Nat, NEW q \in Nat, LogicAwaits(s, y, k, p, q)
  PROVE  LogicAwaits(t, y, k, p, q)
<1>1. \A m : Operator(s, y, m) => Operator(t, y, m)
  BY TokGrows, Zenon DEF Operator
<1>2. \A n, m : After(s, n, p, m) => After(t, n, p, m)
  BY AfterGrows
<1> QED BY <1>1, <1>2, Zenon DEF LogicAwaits

LEMMA PipeAwaitsGrows ==
  ASSUME NEW s, NEW t, Prefix(s, t), NEW k, NEW p \in Nat, NEW q \in Nat, PipeAwaits(s, k, p, q)
  PROVE  PipeAwaits(t, k, p, q)
<1>2. \A n, m : After(s, n, p, m) => After(t, n, p, m)
  BY AfterGrows
<1> QED BY <1>2, TokGrows, Zenon DEF PipeAwaits

LEMMA FuncGrows ==
  ASSUME NEW s, NEW t, Prefix(s, t), NEW w, NEW p \in Nat, NEW m, FuncTo(s, w, p, m)
  PROVE  FuncTo(t, w, p, m)
  BY NlsGrow, TokGrows DEF FuncTo

LEMMA ClausesGrow ==
  ASSUME NEW s, NEW t, Prefix(s, t), NEW k, NEW e \in Nat, NEW y, NEW p, Clauses(s, k, e, y, p)
  PROVE  Clauses(t, k, e, y, p)
<1> SUFFICES ASSUME NEW j \in 1..e
             PROVE Clause(t, k[2 * j - 1], k[2 * j], Opening(j), y[j - 1], y[j])
  BY Zenon DEF Clauses
<1>1. Clause(s, k[2 * j - 1], k[2 * j], Opening(j), y[j - 1], y[j])
  BY Zenon DEF Clauses
<1>2. y[j - 1] \in Nat /\ y[j] \in Nat
  BY DEF Clauses
<1>3a. PICK a, b : a = k[2 * j - 1] /\ b = k[2 * j]
  OBVIOUS
<1>3b. PICK i \in Nat, l \in Nat : i = y[j - 1] /\ l = y[j]
  BY <1>2
<1>3. a = k[2 * j - 1] /\ b = k[2 * j] /\ i = y[j - 1] /\ l = y[j]
  BY <1>3a, <1>3b
<1>4. PICK m \in Nat : /\ Tok(s, i, Opening(j)) /\ a.type \in ListType /\ Listed(s, a, i + 1, m)
                       /\ Tok(s, m, {"then"}) /\ b.type \in ListType /\ Listed(s, b, m + 1, l)
  BY <1>1, <1>3 DEF Clause
<1>5. i + 1 \in Nat /\ m + 1 \in Nat
  OBVIOUS
<1>6. Listed(t, a, i + 1, m) /\ Listed(t, b, m + 1, l) /\ Tok(t, i, Opening(j)) /\ Tok(t, m, {"then"})
  BY <1>4, <1>5, ListedGrows, TokGrows, Zenon
<1> QED BY <1>3, <1>4, <1>6, Zenon DEF Clause

LEMMA IfGrows ==
  ASSUME NEW s, NEW t, Prefix(s, t), NEW k, NEW p, NEW q
  PROVE  /\ ThenAwaits(s, k, p, q) => ThenAwaits(t, k, p, q)
         /\ ElifAwaits(s, k, p, q) => ElifAwaits(t, k, p, q)
         /\ ClausesTo(s, k, p, q) => ClausesTo(t, k, p, q)
         /\ FiAwaits(s, k, p, q) => FiAwaits(t, k, p, q)
<1>1. ASSUME NEW m, ClausesTo(s, k, p, m) PROVE ClausesTo(t, k, p, m)
  <2>1. PICK e \in Nat \ {0} : Len(k) = 2 * e /\ \E y : Clauses(s, k, e, y, p) /\ y[e] = m
    BY <1>1 DEF ClausesTo
  <2>2. PICK y : Clauses(s, k, e, y, p) /\ y[e] = m
    BY <2>1
  <2>3. Clauses(t, k, e, y, p)
    BY <2>2, ClausesGrow
  <2> QED BY <2>1, <2>2, <2>3, Zenon DEF ClausesTo
<1>2. ThenAwaits(s, k, p, q) => ThenAwaits(t, k, p, q)
  BY ClausesGrow, TokGrows, Zenon DEF ThenAwaits
<1>3. ASSUME ElifAwaits(s, k, p, q) PROVE ElifAwaits(t, k, p, q)
  <2>1. PICK e \in Nat : Len(k) = 2 * e + 1 /\ \E y : \E m \in Nat :
          /\ Clauses(s, k, e, y, p) /\ Tok(s, y[e], Opening(e + 1))
          /\ k[2 * e + 1].type \in ListType /\ Listed(s, k[2 * e + 1], y[e] + 1, m) /\ Tok(s, m, {"then"}) /\ q = m + 1
    BY <1>3, Zenon DEF ElifAwaits
  <2>2. PICK y : \E m \in Nat :
          /\ Clauses(s, k, e, y, p) /\ Tok(s, y[e], Opening(e + 1))
          /\ k[2 * e + 1].type \in ListType /\ Listed(s, k[2 * e + 1], y[e] + 1, m) /\ Tok(s, m, {"then"}) /\ q = m + 1
    BY <2>1
  <2>3. PICK m \in Nat :
          /\ Clauses(s, k, e, y, p) /\ Tok(s, y[e], Opening(e + 1))
          /\ k[2 * e + 1].type \in ListType /\ Listed(s, k[2 * e + 1], y[e] + 1, m) /\ Tok(s, m, {"then"}) /\ q = m + 1
    BY <2>2
  <2>4. y[e] + 1 \in Nat
    BY <2>3 DEF Clauses
  <2>5a. PICK a, b, x : a = y[e] + 1 /\ b = k[2 * e + 1] /\ x = y[e]
    OBVIOUS
  <2>5b. Tok(s, x, Opening(e + 1)) /\ Listed(s, b, a, m) /\ a \in Nat
    BY <2>3, <2>4, <2>5a
  <2>5c. Clauses(t, k, e, y, p) /\ Tok(t, m, {"then"})
    BY <2>3, ClausesGrow, TokGrows
  <2>5d. Tok(t, x, Opening(e + 1)) /\ Listed(t, b, a, m)
    BY <2>5b, ListedGrows, TokGrows
  <2>5. /\ Clauses(t, k, e, y, p) /\ Tok(t, y[e], Opening(e + 1))
        /\ Listed(t, k[2 * e + 1], y[e] + 1, m) /\ Tok(t, m, {"then"})
    BY <2>5a, <2>5c, <2>5d
  <2> QED BY <2>1, <2>3, <2>5, Zenon DEF ElifAwaits
<1> QED BY <1>1, <1>2, <1>3, TokGrows, Zenon DEF FiAwaits

LEMMA ForGrows ==
  ASSUME NEW s, NEW t, Prefix(s, t), NEW w, NEW p, NEW h
  PROVE  /\ ForTo(s, w, p, h) => ForTo(t, w, p, h)
         /\ ForWordsTo(s, w, p, h) => ForWordsTo(t, w, p, h)
  BY TokGrows, ForHeadGrows, Zenon DEF ForTo, ForWordsTo

LEMMA LoopGrows ==
  ASSUME NEW s, NEW t, Prefix(s, t), NEW y, NEW w, NEW k, NEW p \in Nat, NEW q
  PROVE  /\ DoAwaits(s, y, w, k, p, q) => DoAwaits(t, y, w, k, p, q)
         /\ DoneAwaits(s, y, w, k, p, q) => DoneAwaits(t, y, w, k, p, q)
<1>1. p + 1 \in Nat
  OBVIOUS
<1>2. \A m \in Nat : LoopTo(s, y, w, k, p, m) => LoopTo(t, y, w, k, p, m)
  BY <1>1, TokGrows, ListedGrows, Zenon DEF LoopTo
<1> QED BY <1>2, ForGrows, TokGrows, Zenon DEF DoAwaits, DoneAwaits

LEMMA CaseGrows ==
  ASSUME NEW s, NEW t, Prefix(s, t), NEW w, NEW r, NEW k, NEW p \in Nat
  PROVE  /\ CaseHead(s, w, k, p) => CaseHead(t, w, k, p)
         /\ \A h \in Nat : /\ CaseTo(s, w, k, p, h) => CaseTo(t, w, k, p, h)
                           /\ PatternTo(s, w, r, k, p, h) => PatternTo(t, w, r, k, p, h)
                           /\ BarTo(s, w, r, k, p, h) => BarTo(t, w, r, k, p, h)
                           /\ BodyTo(s, w, r, k, p, h) => BodyTo(t, w, r, k, p, h)
                           /\ EsacTo(s, w, k, p, h) => EsacTo(t, w, k, p, h)
<1>1. p + 3 \in Nat
  OBVIOUS
<1>2. CaseHead(s, w, k, p) => CaseHead(t, w, k, p)
  BY <1>1, TokGrows, LinkedGrows, Zenon DEF CaseHead
<1>3. \A h \in Nat : CaseTo(s, w, k, p, h) => CaseTo(t, w, k, p, h)
  BY <1>1, <1>2, FollowsGrows, Zenon DEF CaseTo
<1>4. \A i, b : ItemFrom(s, i, b) => ItemFrom(t, i, b)
  BY TokGrows, Zenon DEF ItemFrom
<1>5. \A b : (Barred(s, r, b) => Barred(t, r, b)) /\ (Patterns(s, r, b) => Patterns(t, r, b))
  BY TokGrows, PatternsGrow, Zenon DEF Barred
<1>6. \A h \in Nat : PatternTo(s, w, r, k, p, h) => PatternTo(t, w, r, k, p, h)
  BY <1>3, <1>4, <1>5, Zenon DEF PatternTo
<1>7. \A h \in Nat : BarTo(s, w, r, k, p, h) => BarTo(t, w, r, k, p, h)
  BY <1>3, <1>4, <1>5, Zenon DEF BarTo
<1>8. ASSUME NEW h \in Nat, BodyTo(s, w, r, k, p, h) PROVE BodyTo(t, w, r, k, p, h)
  <2>1. PICK z \in Nat : BarTo(s, w, r, k, p, z) /\ Tok(s, z, {")"}) /\ Nls(s, z + 1, h)
    BY <1>8 DEF BodyTo
  <2>2. z + 1 \in Nat
    OBVIOUS
  <2>3. BarTo(t, w, r, k, p, z) /\ Tok(t, z, {")"}) /\ Nls(t, z + 1, h)
    BY <1>7, <2>1, <2>2, TokGrows, NlsGrow, Zenon
  <2> QED BY <2>3 DEF BodyTo
<1>9. \A h \in Nat : EsacTo(s, w, k, p, h) => EsacTo(t, w, k, p, h)
  BY <1>1, <1>2, FollowsGrows, EndOfGrows, Zenon DEF EsacTo
<1> QED BY <1>2, <1>3, <1>6, <1>7, <1>8, <1>9, Zenon

LEMMA AwaitsGrow ==
  ASSUME NEW s, NEW t, Prefix(s, t), NEW l, NEW y, NEW w, NEW r, NEW k, NEW p \in Nat, NEW q \in Nat,
         Awaits(s, l, y, w, r, k, p, q)
  PROVE  Awaits(t, l, y, w, r, k, p, q)
<1>1. /\ NegateAwaits(s, k, p, q) => NegateAwaits(t, k, p, q)
      /\ RedirsAwaits(s, r, k, p, q) => RedirsAwaits(t, r, k, p, q)
      /\ \A K : EnclosedAwaits(s, K, k, p, q) => EnclosedAwaits(t, K, k, p, q)
      /\ FuncAwaits(s, w, k, p, q) => FuncAwaits(t, w, k, p, q)
  BY TokGrows, NlsGrow, FuncGrows, Zenon DEF NegateAwaits, RedirsAwaits, EnclosedAwaits, FuncAwaits
<1>2. /\ ListAwaits(s, k, p, q) => ListAwaits(t, k, p, q)
      /\ LogicAwaits(s, y, k, p, q) => LogicAwaits(t, y, k, p, q)
      /\ PipeAwaits(s, k, p, q) => PipeAwaits(t, k, p, q)
      /\ BodyTo(s, w, r, k, p, q) => BodyTo(t, w, r, k, p, q)
  BY ListAwaitsGrows, LogicAwaitsGrows, PipeAwaitsGrows, CaseGrows, Zenon
<1>3. /\ ThenAwaits(s, k, p, q) => ThenAwaits(t, k, p, q)
      /\ ElifAwaits(s, k, p, q) => ElifAwaits(t, k, p, q)
      /\ FiAwaits(s, k, p, q) => FiAwaits(t, k, p, q)
      /\ DoAwaits(s, y, w, k, p, q) => DoAwaits(t, y, w, k, p, q)
      /\ DoneAwaits(s, y, w, k, p, q) => DoneAwaits(t, y, w, k, p, q)
  BY IfGrows, LoopGrows, Zenon
<1>4. /\ EnclosedAwaits(s, {"("}, k, p, q) => EnclosedAwaits(t, {"("}, k, p, q)
      /\ EnclosedAwaits(s, OpenBrace, k, p, q) => EnclosedAwaits(t, OpenBrace, k, p, q)
  BY <1>1
<1> QED BY <1>1, <1>2, <1>3, <1>4, SMT DEF Awaits

LEMMA SimpleGrows ==
  ASSUME NEW s, NEW t, Prefix(s, t), NEW n, NEW i, NEW open, Assembled(s, n, i, open)
  PROVE  Assembled(t, n, i, open)
  BY TokGrows, Zenon DEF Assembled

LEMMA BehindGrows ==
  ASSUME NEW s, NEW t, Prefix(s, t), NEW r, NEW k, NEW p \in Nat, NEW h
  PROVE  /\ BehindTo(s, r, k, p, h) => BehindTo(t, r, k, p, h)
         /\ OpenTo(s, r, k, p, h) => OpenTo(t, r, k, p, h)
<1>1. ASSUME NEW q, NEW x, BehindTo(s, q, k, p, x) PROVE BehindTo(t, q, k, p, x)
  <2>1. PICK n : /\ k = <<n>> /\ n.type \in BareType
                 /\ \E i \in Nat : \E m \in Nat : Nls(s, p, i) /\ Core(s, n, i, m) /\ Redirected(s, q, m, x)
    BY <1>1, Zenon DEF BehindTo
  <2>2. \E i \in Nat : \E m \in Nat : Nls(t, p, i) /\ Core(t, n, i, m) /\ Redirected(t, q, m, x)
    BY <2>1, NlsGrow, CoreGrows, RedirectedGrows
  <2> QED BY <2>1, <2>2, Zenon DEF BehindTo
<1> QED BY <1>1, TokGrows, Zenon DEF OpenTo

LEMMA RanGrows ==
  ASSUME NEW s, NEW t, Prefix(s, t), NEW f, NEW p \in Nat, NEW h \in Nat, Ran(s, f, p, h)
  PROVE  Ran(t, f, p, h)
<1>1. ASSUME Resumed(s, f, p, h) PROVE Resumed(t, f, p, h)
  <2>1. PICK S, n : \E k \in Seq(S) : \E q \in Nat : \E fam \in Needs(f.at) :
          /\ Awaits(s, f.at, f.type, f.words, f.redirs, k, p, q)
          /\ f.kids = Append(k, n) /\ Gives(s, fam, n, q, h)
    BY <1>1, Zenon DEF Resumed
  <2>2. PICK k \in Seq(S), q \in Nat, fam \in Needs(f.at) :
          /\ Awaits(s, f.at, f.type, f.words, f.redirs, k, p, q)
          /\ f.kids = Append(k, n) /\ Gives(s, fam, n, q, h)
    BY <2>1
  <2>3. Awaits(t, f.at, f.type, f.words, f.redirs, k, p, q) /\ Gives(t, fam, n, q, h)
    BY <2>2, AwaitsGrow, GivesGrows
  <2> QED BY <2>2, <2>3, Zenon DEF Resumed
<1>2. ASSUME HasRead(s, f, p, h) PROVE HasRead(t, f, p, h)
  <2>0. Nls(s, p, h) => Nls(t, p, h)
    BY NlsGrow
  <2>1. EndedTo(s, f.kids, p, h) => EndedTo(t, f.kids, p, h)
    BY EndedGrows
  <2>2. \A m, K : (FuncTo(s, f.words, p, m) => FuncTo(t, f.words, p, m)) /\ (Tok(s, m, K) => Tok(t, m, K))
    BY FuncGrows, TokGrows
  <2>3. /\ ArgsTo(s, f, p, h) => ArgsTo(t, f, p, h)
        /\ TargetTo(s, f, p, h) => TargetTo(t, f, p, h)
    BY NlsGrow, SimpleGrows DEF ArgsTo, TargetTo
  <2>4. /\ BehindTo(s, f.redirs, f.kids, p, h) => BehindTo(t, f.redirs, f.kids, p, h)
        /\ OpenTo(s, f.redirs, f.kids, p, h) => OpenTo(t, f.redirs, f.kids, p, h)
        /\ ClausesTo(s, f.kids, p, h) => ClausesTo(t, f.kids, p, h)
        /\ ForTo(s, f.words, p, h) => ForTo(t, f.words, p, h)
        /\ ForWordsTo(s, f.words, p, h) => ForWordsTo(t, f.words, p, h)
    BY BehindGrows, IfGrows, ForGrows, Zenon
  <2>5. /\ CaseTo(s, f.words, f.kids, p, h) => CaseTo(t, f.words, f.kids, p, h)
        /\ PatternTo(s, f.words, f.redirs, f.kids, p, h) => PatternTo(t, f.words, f.redirs, f.kids, p, h)
        /\ BarTo(s, f.words, f.redirs, f.kids, p, h) => BarTo(t, f.words, f.redirs, f.kids, p, h)
        /\ BodyTo(s, f.words, f.redirs, f.kids, p, h) => BodyTo(t, f.words, f.redirs, f.kids, p, h)
        /\ EsacTo(s, f.words, f.kids, p, h) => EsacTo(t, f.words, f.kids, p, h)
    BY CaseGrows, Zenon
  <2>6. /\ f.at \in {"word", "func_open"} =>
             f.kids = <<>> /\ \E m \in Nat : FuncTo(t, f.words, p, m) /\ Tok(t, m, PlainWord) /\ h = m + 1
        /\ f.at = "func_close" =>
             f.kids = <<>> /\ \E m \in Nat : FuncTo(t, f.words, p, m) /\ Tok(t, m + 1, {"("}) /\ h = m + 2
    BY <1>2, <2>2 DEF HasRead
  <2>7. /\ f.at = "for_name" => f.type = "for" /\ f.kids = <<>> /\ Tok(t, p, {"for"}) /\ h = p + 1
        /\ f.at = "for_in" =>
             f.type = "for" /\ f.kids = <<>> /\ f.words = <<p + 1>> /\ Tok(t, p, {"for"}) /\ Tok(t, p + 1, WordKind) /\ h = p + 2
        /\ f.at = "case_word" => f.kids = <<>> /\ f.redirs = <<>> /\ Tok(t, p, {"case"}) /\ h = p + 1
        /\ f.at = "in" =>
             f.kids = <<>> /\ f.redirs = <<>> /\ f.words = <<p + 1>> /\ Tok(t, p, {"case"}) /\ Tok(t, p + 1, WordKind) /\ h = p + 2
    BY <1>2, <2>2 DEF HasRead
  <2> QED BY <1>2, <2>0, <2>1, <2>3, <2>4, <2>5, <2>6, <2>7, SMT DEF HasRead
<1> QED BY <1>1, <1>2 DEF Ran

-----------------------------------------------------------------------------
LEMMA RunsOne ==
  ASSUME NEW s, NEW g, NEW p \in Nat, NEW W, Role(g) \in W, NEW h, Ran(s, g, p, h)
  PROVE  Runs(s, <<g>>, p, W, h)
<1> DEFINE pos == [i \in 1..1 |-> p]
           c == <<g>>
<1>1. Len(c) = 1 /\ c[1] = g
  OBVIOUS
<1>2. pos \in [1..Len(c) -> Nat] /\ pos[1] = p
  BY <1>1
<1>3. \A i \in 1..(Len(c) - 1) : FALSE
  BY <1>1
<1>4. Role(c[1]) \in W /\ Ran(s, c[Len(c)], pos[Len(c)], h)
  BY <1>1, <1>2
<1> HIDE DEF pos, c
<1>5. Runs(s, c, p, W, h)
  BY <1>2, <1>3, <1>4, Zenon DEF Runs
<1> QED BY <1>5 DEF c

Chained(s, c, pos, n) ==
  \A i \in 1..(n - 1) : FrameAwaits(s, c[i], pos[i], pos[i + 1]) /\ Role(c[i + 1]) \in Needs(c[i].at)
Slot(c, n, W) == IF n = 1 THEN W ELSE Needs(c[n - 1].at)

LEMMA RunsParts ==
  ASSUME NEW s, NEW S, NEW c \in Seq(S), c # <<>>, NEW p, NEW W, NEW h, Runs(s, c, p, W, h)
  PROVE  \E pos \in [1..Len(c) -> Nat] :
           /\ pos[1] = p /\ Role(c[1]) \in W /\ Chained(s, c, pos, Len(c))
           /\ Ran(s, c[Len(c)], pos[Len(c)], h)
  BY Zenon DEF Runs, Chained

LEMMA ChainGrows ==
  ASSUME NEW s, NEW t, Prefix(s, t), NEW c, NEW l \in Nat, NEW pos \in [1..l -> Nat], NEW n \in 1..l, Chained(s, c, pos, n)
  PROVE  Chained(t, c, pos, n)
<1> SUFFICES ASSUME NEW i \in 1..(n - 1)
             PROVE FrameAwaits(t, c[i], pos[i], pos[i + 1]) /\ Role(c[i + 1]) \in Needs(c[i].at)
  BY Zenon DEF Chained
<1>1. FrameAwaits(s, c[i], pos[i], pos[i + 1]) /\ Role(c[i + 1]) \in Needs(c[i].at)
  BY Zenon DEF Chained
<1>2. pos[i] \in Nat /\ pos[i + 1] \in Nat
  OBVIOUS
<1> QED BY <1>1, <1>2, AwaitsGrow, Zenon DEF FrameAwaits

LEMMA RunsJoin ==
  ASSUME NEW s, NEW S, NEW c \in Seq(S), NEW n \in 1..Len(c), NEW pos \in [1..Len(c) -> Nat],
         NEW W, Role(c[1]) \in W, Chained(s, c, pos, n),
         NEW T, NEW d \in Seq(T), d # <<>>, NEW h, Runs(s, d, pos[n], Slot(c, n, W), h)
  PROVE  Runs(s, SubSeq(c, 1, n - 1) \o d, pos[1], W, h)
<1> DEFINE b == SubSeq(c, 1, n - 1)
           e == b \o d
<1>1. PICK x \in [1..Len(d) -> Nat] :
        /\ x[1] = pos[n] /\ Role(d[1]) \in Slot(c, n, W) /\ Chained(s, d, x, Len(d))
        /\ Ran(s, d[Len(d)], x[Len(d)], h)
  BY RunsParts
<1>2. PICK l \in Nat \ {0} : l = Len(d) /\ DOMAIN d = 1..l
  OBVIOUS
<1>3. /\ Len(b) = n - 1 /\ \A i \in 1..(n - 1) : b[i] = c[i]
      /\ b \in Seq(S)
  OBVIOUS
<1>4. /\ Len(e) = n - 1 + l
      /\ \A i \in 1..(n - 1) : e[i] = c[i]
      /\ \A i \in 1..l : e[n - 1 + i] = d[i]
  <2>1. b \in Seq(S \cup T) /\ d \in Seq(S \cup T)
    BY <1>3
  <2> HIDE DEF b
  <2>2. Len(e) = Len(b) + Len(d) /\ \A i \in 1..(Len(b) + Len(d)) : e[i] = IF i <= Len(b) THEN b[i] ELSE d[i - Len(b)]
    BY <2>1
  <2>3. \A i \in 1..l : n - 1 + i \in 1..(n - 1 + l) /\ ~(n - 1 + i <= n - 1) /\ (n - 1 + i) - (n - 1) = i
    OBVIOUS
  <2>4. \A i \in 1..(n - 1) : i \in 1..(n - 1 + l) /\ i <= n - 1
    OBVIOUS
  <2> HIDE DEF e
  <2>5. Len(e) = n - 1 + l
    BY <2>2, <1>2, <1>3
  <2>6. \A i \in 1..(n - 1 + l) : e[i] = IF i <= n - 1 THEN b[i] ELSE d[i - (n - 1)]
    BY <2>2, <1>2, <1>3
  <2>7. ASSUME NEW i \in 1..l PROVE e[n - 1 + i] = d[i]
    <3> DEFINE j == n - 1 + i
    <3>1. j \in 1..(n - 1 + l) /\ ~(j <= n - 1) /\ j - (n - 1) = i
      OBVIOUS
    <3> HIDE DEF j
    <3>2. e[j] = d[i]
      BY <2>6, <3>1
    <3> QED BY <3>2 DEF j
  <2> QED BY <2>4, <2>5, <2>6, <2>7, <1>3
<1> HIDE DEF b, e
<1> DEFINE y == [i \in 1..Len(e) |-> IF i < n THEN pos[i] ELSE x[i - n + 1]]
<1>5. y \in [1..Len(e) -> Nat]
  <2> SUFFICES ASSUME NEW i \in 1..Len(e) PROVE (IF i < n THEN pos[i] ELSE x[i - n + 1]) \in Nat
    OBVIOUS
  <2>1. CASE i < n
    BY <2>1
  <2>2. CASE ~(i < n)
    <3>1. i - n + 1 \in 1..l
      BY <2>2, <1>4
    <3> QED BY <2>2, <3>1, <1>2
  <2> QED BY <2>1, <2>2
<1>6. \A i \in 1..n : y[i] = pos[i]
  BY <1>1, <1>2, <1>4
<1>7. \A i \in 1..l : y[n - 1 + i] = x[i]
  <2> SUFFICES ASSUME NEW i \in 1..l PROVE y[n - 1 + i] = x[i]
    OBVIOUS
  <2> DEFINE j == n - 1 + i
  <2>1. j \in 1..Len(e) /\ ~(j < n) /\ j - n + 1 = i
    BY <1>4
  <2> HIDE DEF j
  <2>2. y[j] = x[i]
    BY <2>1
  <2> QED BY <2>2 DEF j
<1>8. n \in 1..(n - 1 + l) /\ n - 1 + 1 = n
  OBVIOUS
<1>9. e[n] = d[1] /\ y[1] = pos[1]
  <2>1. 1 \in 1..l /\ 1 \in 1..n
    OBVIOUS
  <2>2. e[n - 1 + 1] = d[1]
    BY <1>4, <2>1
  <2> QED BY <2>1, <2>2, <1>6, <1>8
<1> HIDE DEF y
<1>10. Role(e[1]) \in W
  <2>1. CASE n = 1
    BY <2>1, <1>1, <1>9, Zenon DEF Slot
  <2>2. CASE n # 1
    <3>1. 1 \in 1..(n - 1)
      BY <2>2
    <3> QED BY <3>1, <1>4
  <2> QED BY <2>1, <2>2
<1>11. ASSUME NEW i \in 1..(Len(e) - 1)
       PROVE  FrameAwaits(s, e[i], y[i], y[i + 1]) /\ Role(e[i + 1]) \in Needs(e[i].at)
  <2>1. CASE i < n - 1
    <3>1. i \in 1..(n - 1) /\ i + 1 \in 1..(n - 1) /\ i \in 1..n /\ i + 1 \in 1..n
      BY <2>1
    <3>2. e[i] = c[i] /\ e[i + 1] = c[i + 1] /\ y[i] = pos[i] /\ y[i + 1] = pos[i + 1]
      BY <3>1, <1>4, <1>6
    <3>3. FrameAwaits(s, c[i], pos[i], pos[i + 1]) /\ Role(c[i + 1]) \in Needs(c[i].at)
      BY <3>1, Zenon DEF Chained
    <3> QED BY <3>2, <3>3
  <2>2. CASE i = n - 1
    <3>1. i \in 1..(n - 1) /\ i \in 1..n /\ n \in 1..n /\ i + 1 = n /\ n # 1
      BY <2>2
    <3>2. e[i] = c[i] /\ e[n] = d[1] /\ y[i] = pos[i] /\ y[n] = pos[n]
      BY <3>1, <1>4, <1>6, <1>9
    <3>3. FrameAwaits(s, c[i], pos[i], pos[i + 1])
      BY <3>1, Zenon DEF Chained
    <3>4. Role(d[1]) \in Needs(c[n - 1].at)
      BY <3>1, <1>1, Zenon DEF Slot
    <3> QED BY <3>1, <3>2, <3>3, <3>4, <2>2
  <2>3. CASE i > n - 1
    <3>1. PICK j \in 1..(l - 1) : i = n - 1 + j
      <4>1. i - n + 1 \in 1..(l - 1) /\ i = n - 1 + (i - n + 1)
        BY <2>3, <1>4
      <4> QED BY <4>1
    <3>2. j \in 1..l /\ j + 1 \in 1..l /\ n - 1 + (j + 1) = i + 1
      BY <3>1
    <3>3. e[i] = d[j] /\ y[i] = x[j]
      BY <3>1, <3>2, <1>4, <1>7
    <3>4. e[i + 1] = d[j + 1] /\ y[i + 1] = x[j + 1]
      <4>1. PICK a \in 1..l : a = j + 1
        BY <3>2
      <4>2. e[n - 1 + a] = d[a] /\ y[n - 1 + a] = x[a]
        BY <1>4, <1>7
      <4>3. n - 1 + a = i + 1
        BY <4>1, <3>1
      <4> QED BY <4>1, <4>2, <4>3
    <3>5. FrameAwaits(s, d[j], x[j], x[j + 1]) /\ Role(d[j + 1]) \in Needs(d[j].at)
      BY <1>1, <1>2, <3>1, Zenon DEF Chained
    <3> QED BY <3>3, <3>4, <3>5
  <2> QED BY <2>1, <2>2, <2>3
<1>12. Ran(s, e[Len(e)], y[Len(e)], h)
  <2>1. e[n - 1 + l] = d[l] /\ y[n - 1 + l] = x[l]
    BY <1>4, <1>7
  <2> QED BY <2>1, <1>1, <1>2, <1>4
<1>13. Runs(s, e, pos[1], W, h)
  BY <1>5, <1>9, <1>10, <1>11, <1>12, Zenon DEF Runs
<1> QED BY <1>13 DEF e, b

LEMMA OneOf ==
  ASSUME NEW S, NEW g \in S, NEW x \in Seq(S), Len(x) = 1, x[1] = g
  PROVE  x = <<g>>
<1>1. x \in [1..1 -> S] /\ <<g>> \in [1..1 -> S] /\ <<g>>[1] = g
  OBVIOUS
<1> QED BY <1>1

LEMMA RunsPush ==
  ASSUME NEW s, NEW g, NEW p \in Nat, NEW q \in Nat, FrameAwaits(s, g, p, q), NEW W, Role(g) \in W,
         NEW T, NEW d \in Seq(T), d # <<>>, NEW h, Runs(s, d, q, Needs(g.at), h)
  PROVE  Runs(s, <<g>> \o d, p, W, h)
<1>0. PICK x \in [1..Len(d) -> Nat] : Role(d[1]) \in Needs(g.at)
  BY RunsParts
<1> DEFINE c == <<g, d[1]>>
           pos == <<p, q>>
<1>1. c \in Seq({g, d[1]}) /\ Len(c) = 2 /\ c[1] = g /\ c[2] = d[1] /\ 2 \in 1..Len(c)
  OBVIOUS
<1>2. pos \in [1..Len(c) -> Nat] /\ pos[1] = p /\ pos[2] = q
  BY <1>1
<1>3. SubSeq(c, 1, 2 - 1) = <<g>>
  <2>1. SubSeq(c, 1, 1) = <<g>>
    <3>1. Len(SubSeq(c, 1, 1)) = 1 /\ SubSeq(c, 1, 1)[1] = g /\ SubSeq(c, 1, 1) \in Seq({g, d[1]})
      BY <1>1
    <3> HIDE DEF c
    <3>2. g \in {g, d[1]}
      OBVIOUS
    <3> QED BY <3>1, <3>2, OneOf
  <2> QED BY <2>1
<1> HIDE DEF c, pos
<1>5. Slot(c, 2, W) = Needs(g.at)
  <2>1. 2 # 1 /\ 2 - 1 = 1
    OBVIOUS
  <2> QED BY <2>1, <1>1, Zenon DEF Slot
<1>6. Chained(s, c, pos, 2)
  <2>1. \A i \in 1..(2 - 1) : i = 1 /\ i + 1 = 2
    OBVIOUS
  <2> QED BY <2>1, <1>0, <1>1, <1>2, Zenon DEF Chained
<1>7. Runs(s, SubSeq(c, 1, 2 - 1) \o d, pos[1], W, h)
  BY <1>1, <1>2, <1>5, <1>6, RunsJoin
<1> QED BY <1>2, <1>3, <1>7

-----------------------------------------------------------------------------
\* The tokens of the last line, and of the one that is being read.
Start == IF lines = <<>> THEN 1 ELSE lines[Len(lines)].to + 1
Root == IF input.entry \in Source THEN {"line"} ELSE {"list"}
LineOf(T) == [tree : T, from : Nat, to : Nat]
LinesInv ==
  /\ \E T : lines \in Seq(LineOf(T))
  /\ at \in {"parsed", "discard"} => lines # <<>>
EndInv == at \in {"line", "parse"} /\ AtEnd => putback # 0
LastLine == lines[Len(lines)]
\* While a line is parsed the stack accounts for its tokens; then its tree does.
TreeInv ==
  /\ at = "parse" => Runs(read, stack, Start, Root, Here)
  /\ at = "line" => Nls(read, Start, Here)
  /\ at = "parsed" => /\ Start = Here
                      /\ \E fam \in Root : Gives(read, fam, LastLine.tree, LastLine.from, Here)
LineInv == ParserInv /\ LinesInv /\ EndInv /\ TreeInv

LEMMA Took ==
  ASSUME TokenInv, EndInv, at \in {"line", "parse"}, NEW k \in Kind, k # "eof", Take(k)
  PROVE  /\ Here \in Nat /\ read' \in Seq(Kind) /\ Prefix(read, read') /\ Tok(read', Here, {k})
         /\ Here' = Here + 1 /\ ~AtEnd' /\ putback' = 0 /\ Here + 1 <= Len(read') + 1
<1>1. read \in Seq(Kind) /\ Len(read) \in Nat /\ putback \in {0, Len(read)}
  BY DEF TokenInv
<1>2. putback' = 0 /\ Next_token(k)
  BY DEF Take
<1>3. CASE putback # 0
  <2>1. read' = read /\ k = read[Len(read)] /\ Len(read) # 0 /\ Here = Len(read)
    BY <1>1, <1>2, <1>3 DEF Next_token, Here
  <2>2. ~AtEnd'
    BY <2>1 DEF AtEnd
  <2>3. Here' = Len(read) + 1
    BY <2>1, <2>2, <1>2 DEF Here
  <2> QED BY <1>1, <1>2, <2>1, <2>2, <2>3, PrefixSelf DEF Tok
<1>4. CASE putback = 0
  <2>1. ~AtEnd
    BY <1>4 DEF EndInv
  <2>2. read' = Append(read, k) /\ Here = Len(read) + 1
    BY <1>4, <2>1, <1>2 DEF Next_token, Here
  <2>3. /\ read' \in Seq(Kind) /\ Len(read') = Len(read) + 1 /\ read'[Len(read) + 1] = k
        /\ \A m \in 1..Len(read) : read'[m] = read[m]
    BY <2>2, <1>1
  <2>4. Prefix(read, read')
    BY <2>3, <1>1 DEF Prefix
  <2>5. ~AtEnd'
    BY <2>3 DEF AtEnd
  <2>6. Here' = Len(read') + 1
    BY <2>5, <1>2 DEF Here
  <2> QED BY <1>1, <1>2, <2>2, <2>3, <2>4, <2>5, <2>6 DEF Tok
<1> QED BY <1>3, <1>4

LEMMA Peeked ==
  ASSUME TokenInv, EndInv, at \in {"line", "parse"}, NEW k \in Kind, Peek(k)
  PROVE  /\ Here \in Nat /\ read' \in Seq(Kind) /\ Prefix(read, read') /\ Tok(read', Here, {k})
         /\ Here' = Here /\ putback' # 0 /\ Here <= Len(read')
<1>1. read \in Seq(Kind) /\ Len(read) \in Nat /\ putback \in {0, Len(read)}
  BY DEF TokenInv
<1>2. putback' = Here /\ Next_token(k)
  BY DEF Peek
<1>3. CASE putback # 0
  <2>1. read' = read /\ k = read[Len(read)] /\ Len(read) # 0 /\ Here = Len(read)
    BY <1>1, <1>2, <1>3 DEF Next_token, Here
  <2>3. Here' = Len(read)
    BY <2>1, <1>1, <1>2 DEF Here
  <2> QED BY <1>1, <1>2, <2>1, <2>3, PrefixSelf DEF Tok
<1>4. CASE putback = 0
  <2>1. ~AtEnd
    BY <1>4 DEF EndInv
  <2>2. read' = Append(read, k) /\ Here = Len(read) + 1
    BY <1>4, <2>1, <1>2 DEF Next_token, Here
  <2>3. /\ read' \in Seq(Kind) /\ Len(read') = Len(read) + 1 /\ read'[Len(read) + 1] = k
        /\ \A m \in 1..Len(read) : read'[m] = read[m]
    BY <2>2, <1>1
  <2>4. Prefix(read, read')
    BY <2>3, <1>1 DEF Prefix
  <2>6. Here' = Len(read')
    BY <1>1, <1>2, <2>2 DEF Here
  <2> QED BY <1>1, <1>2, <2>2, <2>3, <2>4, <2>6 DEF Tok
<1> QED BY <1>3, <1>4

\* what a step needs to know of the frames below
Leads(p, V) ==
  \A t, h, T : \A c \in Seq(T) :
    Prefix(read, t) /\ c # <<>> /\ Runs(t, c, p, V, h) => Runs(t, Callers \o c, Start, Root, h)
Returned(tree) == [Callers EXCEPT ![Len(stack) - 1].kids = Append(@, tree)]
Hands(p, V) ==
  IF Len(stack) = 1 THEN p = Start /\ V = Root
  ELSE \A t, fam, tree : \A h \in Nat :
         Prefix(read, t) /\ fam \in V /\ Gives(t, fam, tree, p, h) => Runs(t, Returned(tree), Start, Root, h)
Within(p, V) ==
  /\ p \in Nat /\ Ran(read, Top, p, Here) /\ Role(Top) \in V
  /\ ("pipeline" \in V => "stage" \in V) /\ ("command" \in V => "compound" \in V)
  /\ Leads(p, V) /\ Hands(p, V)

LEMMA NeedsStage ==
  \A l : ("pipeline" \in Needs(l) => "stage" \in Needs(l)) /\ ("command" \in Needs(l) => "compound" \in Needs(l))
  BY DEF Needs

LEMMA GotKid ==
  ASSUME NEW S, NEW g \in FrameOf(S), NEW tree
  PROVE  LET f == [g EXCEPT !.kids = Append(@, tree)]
         IN  /\ f.at = g.at /\ f.type = g.type /\ f.words = g.words /\ f.redirs = g.redirs
             /\ f.kids = Append(g.kids, tree) /\ Role(f) = Role(g) /\ g.kids \in Seq(S)
  BY DEF FrameOf, Role

LEMMA ResumedThen ==
  ASSUME NEW S, NEW g \in FrameOf(S), NEW s, NEW p \in Nat, NEW q \in Nat, FrameAwaits(s, g, p, q),
         NEW fam \in Needs(g.at), NEW tree, NEW h, Gives(s, fam, tree, q, h)
  PROVE  LET f == [g EXCEPT !.kids = Append(@, tree)] IN Ran(s, f, p, h) /\ Role(f) = Role(g)
<1> DEFINE f == [g EXCEPT !.kids = Append(@, tree)]
<1>1. /\ f.at = g.at /\ f.type = g.type /\ f.words = g.words /\ f.redirs = g.redirs
      /\ f.kids = Append(g.kids, tree) /\ Role(f) = Role(g) /\ g.kids \in Seq(S)
  BY GotKid
<1> HIDE DEF f
<1>2. Awaits(s, f.at, f.type, f.words, f.redirs, g.kids, p, q)
  BY <1>1, Zenon DEF FrameAwaits
<1>3. Resumed(s, f, p, h)
  BY <1>1, <1>2, Zenon DEF Resumed
<1> QED BY <1>1, <1>3 DEF Ran, f

LEMMA ReturnedIs ==
  ASSUME NEW S, StackOf(stack, S), Len(stack) # 1, NEW tree
  PROVE  LET n == Len(stack) - 1
         IN  Returned(tree) = SubSeq(stack, 1, n - 1) \o <<[stack[n] EXCEPT !.kids = Append(@, tree)]>>
<1> DEFINE n == Len(stack) - 1
           g == stack[n]
           f == [g EXCEPT !.kids = Append(@, tree)]
<1>1. stack \in Seq(FrameOf(S)) /\ n \in 1..Len(stack) /\ n \in Nat /\ n - 1 \in Nat
  <2>1. stack \in Seq(FrameOf(S)) /\ stack # <<>>
    BY DEF StackOf
  <2>a. Len(stack) \in Nat
    BY <2>1
  <2>b. Len(stack) # 0
    BY <2>1
  <2>2. PICK l \in Nat : l = Len(stack) /\ l # 0 /\ l # 1
    BY <2>a, <2>b
  <2>3. l - 1 \in 1..l /\ l - 1 \in Nat /\ l - 1 - 1 \in Nat
    BY <2>2
  <2> QED BY <2>1, <2>2, <2>3
<1>2. PICK C : C = Callers
  OBVIOUS
<1>3. C \in Seq(FrameOf(S)) /\ Len(C) = n /\ \A i \in 1..n : C[i] = stack[i]
  BY <1>1, <1>2 DEF Callers
<1>4. PICK m \in Nat \ {0} : m = n
  BY <1>1
<1>5. PICK x : x = f
  OBVIOUS
<1>6. [C EXCEPT ![m].kids = Append(@, tree)] = [C EXCEPT ![m] = x]
  <2>1. m \in 1..m /\ C[m] = g
    BY <1>3, <1>4
  <2>2. [C EXCEPT ![m].kids = Append(@, tree)] = [C EXCEPT ![m] = [C[m] EXCEPT !.kids = Append(@, tree)]]
    OBVIOUS
  <2> HIDE DEF g
  <2> QED BY <2>1, <2>2, <1>5
<1>7. SubSeq(stack, 1, m - 1) = SubSeq(C, 1, m - 1)
  BY <1>1, <1>3, <1>4
<1>8. PICK b : b = SubSeq(C, 1, m - 1)
  OBVIOUS
<1>9. b \in Seq(FrameOf(S)) /\ Len(b) = m - 1 /\ \A i \in 1..(m - 1) : b[i] = C[i]
  BY <1>3, <1>4, <1>8
<1> HIDE DEF f
<1>10. PICK U : U = FrameOf(S) \cup {x}
  OBVIOUS
<1>11. C \in Seq(U) /\ b \in Seq(U) /\ <<x>> \in Seq(U)
  BY <1>3, <1>9, <1>10
<1>12. [C EXCEPT ![m] = x] \in Seq(U) /\ Len([C EXCEPT ![m] = x]) = m
       /\ \A i \in 1..m : [C EXCEPT ![m] = x][i] = IF i = m THEN x ELSE C[i]
  BY <1>11, <1>3, <1>4, <1>10
<1>13. b \o <<x>> \in Seq(U) /\ Len(b \o <<x>>) = m /\ \A i \in 1..m : (b \o <<x>>)[i] = IF i = m THEN x ELSE C[i]
  BY <1>11, <1>9, <1>10
<1>14. [C EXCEPT ![m] = x] = b \o <<x>>
  BY <1>12, <1>13, SeqEqual
<1> QED BY <1>2, <1>4, <1>5, <1>6, <1>7, <1>8, <1>14 DEF Returned, f

LEMMA Standing ==
  ASSUME ParserInv, TreeInv, at = "parse"
  PROVE  \E p \in Nat : \E V : Within(p, V)
<1>1. PICK S : StackOf(stack, S)
  BY DEF ParserInv, StackInv
<1>2. stack \in Seq(FrameOf(S)) /\ stack # <<>> /\ Len(stack) \in Nat \ {0} /\ Len(stack) \in 1..Len(stack)
  BY <1>1 DEF StackOf
<1>3. PICK l \in Nat \ {0} : l = Len(stack)
  BY <1>2
<1>4. PICK pos \in [1..l -> Nat] :
        /\ pos[1] = Start /\ Role(stack[1]) \in Root /\ Chained(read, stack, pos, l) /\ Ran(read, stack[l], pos[l], Here)
  BY <1>2, <1>3, RunsParts DEF TreeInv
<1> DEFINE p == pos[l]
           V == Slot(stack, l, Root)
<1>5. p \in Nat /\ Ran(read, Top, p, Here)
  BY <1>3, <1>4 DEF Top
<1>6. Role(Top) \in V
  <2>1. CASE l = 1
    BY <2>1, <1>3, <1>4 DEF Slot, Top
  <2>2. CASE l # 1
    <3>1. l - 1 \in 1..(l - 1) /\ l - 1 + 1 = l
      BY <2>2
    <3>2. Role(stack[l]) \in Needs(stack[l - 1].at)
      BY <3>1, <1>4, Zenon DEF Chained
    <3> QED BY <3>2, <2>2, <1>3 DEF Slot, Top
  <2> QED BY <2>1, <2>2
<1>7. ("pipeline" \in V => "stage" \in V) /\ ("command" \in V => "compound" \in V)
  <2>1. "pipeline" \notin Root /\ "command" \notin Root
    BY DEF Root
  <2> QED BY <2>1, NeedsStage DEF Slot
<1>8. Leads(p, V)
  <2> SUFFICES ASSUME NEW t, NEW h, NEW T, NEW c \in Seq(T), Prefix(read, t), c # <<>>, Runs(t, c, p, V, h)
               PROVE  Runs(t, Callers \o c, Start, Root, h)
    BY Zenon DEF Leads
  <2>1. l \in 1..l
    OBVIOUS
  <2>2. Chained(t, stack, pos, l)
    BY <1>4, <2>1, ChainGrows
  <2> HIDE DEF p, V
  <2>3. Runs(t, c, pos[l], Slot(stack, l, Root), h)
    BY DEF p, V
  <2>4. Runs(t, SubSeq(stack, 1, l - 1) \o c, pos[1], Root, h)
    BY <1>2, <1>3, <1>4, <2>1, <2>2, <2>3, RunsJoin
  <2> QED BY <2>4, <1>3, <1>4 DEF Callers
<1>9. Hands(p, V)
  <2>1. CASE l = 1
    BY <2>1, <1>3, <1>4 DEF Slot, Hands
  <2>2. CASE l # 1
    <3> SUFFICES ASSUME NEW t, NEW fam, NEW tree, NEW h \in Nat, Prefix(read, t), fam \in V, Gives(t, fam, tree, p, h)
                 PROVE  Runs(t, Returned(tree), Start, Root, h)
      BY <2>2, <1>3, Zenon DEF Hands
    <3>1. PICK n \in Nat : n = l - 1
      OBVIOUS
    <3>2. n \in 1..l /\ n \in 1..(l - 1) /\ n + 1 = l /\ n \in 1..n
      BY <3>1, <2>2
    <3>3. PICK g \in FrameOf(S) : g = stack[n]
      BY <3>2, <1>2, <1>3
    <3>4. V = Needs(g.at) /\ pos[n] \in Nat
      BY <3>1, <3>2, <3>3, <2>2 DEF Slot
    <3>5. FrameAwaits(read, g, pos[n], p)
      BY <3>2, <3>3, <1>4, Zenon DEF Chained
    <3>6. FrameAwaits(t, g, pos[n], p)
      BY <3>4, <3>5, <1>5, AwaitsGrow, Zenon DEF FrameAwaits
    <3> DEFINE f == [g EXCEPT !.kids = Append(@, tree)]
    <3> HIDE DEF p, V
    <3>7. Ran(t, f, pos[n], h) /\ Role(f) = Role(g)
      BY <3>4, <3>6, <1>5, ResumedThen
    <3>8. Role(g) \in Slot(stack, n, Root)
      <4>1. CASE n = 1
        BY <4>1, <3>3, <1>4 DEF Slot
      <4>2. CASE n # 1
        <5>1. n - 1 \in 1..(l - 1) /\ n - 1 + 1 = n
          BY <4>2, <3>2
        <5>2. Role(stack[n]) \in Needs(stack[n - 1].at)
          BY <5>1, <1>4, Zenon DEF Chained
        <5> QED BY <5>2, <4>2, <3>3 DEF Slot
      <4> QED BY <4>1, <4>2
    <3> HIDE DEF f
    <3>9. Runs(t, <<f>>, pos[n], Slot(stack, n, Root), h)
      BY <3>4, <3>7, <3>8, RunsOne
    <3>10. Chained(t, stack, pos, n)
      <4>1. \A i \in 1..(n - 1) : i \in 1..(l - 1)
        BY <3>2
      <4>2. Chained(read, stack, pos, n)
        BY <4>1, <1>4, Zenon DEF Chained
      <4> QED BY <4>2, <3>2, ChainGrows
    <3>11. <<f>> \in Seq({f}) /\ <<f>> # <<>>
      OBVIOUS
    <3>12. Runs(t, SubSeq(stack, 1, n - 1) \o <<f>>, pos[1], Root, h)
      BY <1>2, <1>3, <1>4, <3>2, <3>9, <3>10, <3>11, RunsJoin
    <3>13. Returned(tree) = SubSeq(stack, 1, n - 1) \o <<f>>
      BY <1>1, <1>3, <2>2, <3>1, <3>3, ReturnedIs DEF f
    <3> QED BY <3>12, <3>13, <1>4
  <2> QED BY <2>1, <2>2
<1> HIDE DEF p, V
<1> QED BY <1>5, <1>6, <1>7, <1>8, <1>9, Zenon DEF Within

-----------------------------------------------------------------------------
(***************************************************************************)
(* How a step leaves the stack.                                            *)
(***************************************************************************)
SameLine == UNCHANGED <<input, lines>>
LEMMA LineStays == SameLine => Start' = Start /\ Root' = Root
  BY DEF SameLine, Start, Root

LEMMA GoesOn ==
  ASSUME LinesInv, at = "parse", NEW p, NEW V, Within(p, V), input' = input, Prefix(read, read'),
         NEW f, NEW l, GoOn(f, l, <<>>), NEW g, g = [f EXCEPT !.at = l], Role(g) \in V, Ran(read', g, p, Here')
  PROVE  TreeInv' /\ LinesInv'
<1>1. at' = "parse" /\ SameLine
  BY DEF GoOn, SameLine
<1>2. stack' = Callers \o <<g>> \o <<>>
  BY DEF GoOn
<1>3. p \in Nat /\ Leads(p, V)
  BY DEF Within
<1>4. <<g>> \in Seq({g}) /\ <<g>> # <<>>
  OBVIOUS
<1>5. Runs(read', <<g>>, p, V, Here')
  BY <1>3, RunsOne
<1>6. Runs(read', Callers \o <<g>>, Start, Root, Here')
  BY <1>3, <1>4, <1>5, Zenon DEF Leads
<1>7. Callers \o <<g>> \o <<>> = Callers \o <<g>>
  OBVIOUS
<1>8. Runs(read', stack', Start, Root, Here')
  BY <1>2, <1>6, <1>7
<1> QED BY <1>1, <1>8, LineStays DEF TreeInv, LinesInv, SameLine

LEMMA GoesInto ==
  ASSUME LinesInv, at = "parse", NEW p, NEW V, Within(p, V), input' = input, Prefix(read, read'),
         NEW f, NEW l, NEW c, GoOn(f, l, c), NEW g, g = [f EXCEPT !.at = l], Role(g) \in V,
         NEW T, c \in Seq(T), c # <<>>, NEW q \in Nat, FrameAwaits(read', g, p, q), Runs(read', c, q, Needs(g.at), Here')
  PROVE  TreeInv' /\ LinesInv'
<1>1. at' = "parse" /\ SameLine
  BY DEF GoOn, SameLine
<1>2. stack' = Callers \o <<g>> \o c
  BY DEF GoOn
<1>3. p \in Nat /\ Leads(p, V)
  BY DEF Within
<1>4. Runs(read', <<g>> \o c, p, V, Here')
  BY <1>3, RunsPush
<1>5. <<g>> \o c \in Seq(T \cup {g}) /\ <<g>> \o c # <<>>
  OBVIOUS
<1>6. Runs(read', Callers \o (<<g>> \o c), Start, Root, Here')
  BY <1>3, <1>4, <1>5, Zenon DEF Leads
<1>7. Callers \o <<g>> \o c = Callers \o (<<g>> \o c)
  OBVIOUS
<1>8. Runs(read', stack', Start, Root, Here')
  BY <1>2, <1>6, <1>7
<1> QED BY <1>1, <1>8, LineStays DEF TreeInv, LinesInv, SameLine

LEMMA GoesOver ==
  ASSUME LinesInv, at = "parse", NEW p, NEW V, Within(p, V), input' = input, Prefix(read, read'),
         NEW T, NEW c \in Seq(T), c # <<>>, TailCall(c), Runs(read', c, p, V, Here')
  PROVE  TreeInv' /\ LinesInv'
<1>1. at' = "parse" /\ SameLine /\ stack' = Callers \o c
  BY DEF TailCall, SameLine
<1>2. Runs(read', stack', Start, Root, Here')
  BY <1>1, Zenon DEF Within, Leads
<1> QED BY <1>1, <1>2, LineStays DEF TreeInv, LinesInv, SameLine

LEMMA DoneIs ==
  ASSUME NEW T, lines \in Seq(LineOf(T)), Start \in Nat, read' \in Seq(Kind), Here' \in Nat,
         putback' \in {0, Len(read')}, AtEnd' => putback' # 0, NEW tree, lines' = Done(tree)
  PROVE  /\ lines' \in Seq(LineOf(T \cup {tree})) /\ lines' # <<>> /\ Start' = Here'
         /\ LastLine'.tree = tree /\ LastLine'.from = Start
<1> DEFINE to == Len(read') - (IF putback' = 0 THEN 0 ELSE 1)
           line == [tree |-> tree, from |-> Start, to |-> to]
<1>1. to + 1 = Here' /\ to \in Nat
  <2>1. Len(read') \in Nat
    OBVIOUS
  <2>2. Here' = IF putback' # 0 THEN Len(read') ELSE Len(read') + 1
    BY DEF Here
  <2>3. PICK l \in Nat : l = Len(read')
    BY <2>1
  <2>4. CASE putback' = 0
    BY <2>2, <2>3, <2>4
  <2>5. CASE putback' # 0
    <3>1. l # 0
      BY <2>3, <2>5
    <3>2. to = l - 1 /\ Here' = l
      BY <2>2, <2>3, <2>5
    <3> QED BY <3>1, <3>2
  <2> QED BY <2>4, <2>5
<1> HIDE DEF to
<1>2. line \in LineOf(T \cup {tree}) /\ line.tree = tree /\ line.from = Start /\ line.to = to
  BY <1>1 DEF LineOf
<1>3. lines' = Append(lines, line)
  BY DEF Done, Start, to
<1> HIDE DEF line
<1>4. lines \in Seq(LineOf(T \cup {tree}))
  <2>1. LineOf(T) \subseteq LineOf(T \cup {tree})
    BY DEF LineOf
  <2>2. PICK A, B : A = LineOf(T) /\ B = LineOf(T \cup {tree})
    OBVIOUS
  <2>3. A \subseteq B => Seq(A) \subseteq Seq(B)
    OBVIOUS
  <2> QED BY <2>1, <2>2, <2>3
<1>5. lines' \in Seq(LineOf(T \cup {tree})) /\ lines' # <<>> /\ lines'[Len(lines')] = line
  BY <1>2, <1>3, <1>4
<1> QED BY <1>1, <1>2, <1>5 DEF Start, LastLine

LEMMA ReturnsWith ==
  ASSUME ParserInv, LinesInv, at = "parse", NEW p, NEW V, Within(p, V), input' = input, Prefix(read, read'),
         Here' \in Nat, putback' \in {0, Len(read')}, AtEnd' => putback' # 0,
         NEW tree, Return(tree), NEW fam \in V, Gives(read', fam, tree, p, Here')
  PROVE  TreeInv' /\ LinesInv'
<1>1. p \in Nat /\ Hands(p, V)
  BY DEF Within
<1>2. PICK T : lines \in Seq(LineOf(T))
  BY DEF LinesInv
<1>3. CASE Len(stack) = 1
  <2>1. p = Start /\ V = Root
    BY <1>1, <1>3 DEF Hands
  <2>2. at' = "parsed" /\ lines' = Done(tree)
    BY <1>3 DEF Return
  <2>3. Start \in Nat /\ read' \in Seq(Kind)
    BY <1>1, <2>1 DEF Prefix
  <2>4. /\ lines' \in Seq(LineOf(T \cup {tree})) /\ lines' # <<>> /\ Start' = Here'
        /\ LastLine'.tree = tree /\ LastLine'.from = Start
    BY <1>2, <2>2, <2>3, DoneIs
  <2>5. Root' = Root
    BY DEF Root
  <2>6. TreeInv'
    BY <2>1, <2>2, <2>4, <2>5 DEF TreeInv
  <2>7. LinesInv'
    BY <2>4 DEF LinesInv
  <2> QED BY <2>6, <2>7
<1>4. CASE Len(stack) # 1
  <2>1. at' = "parse" /\ SameLine /\ stack' = Returned(tree)
    BY <1>4 DEF Return, Returned, SameLine
  <2>2. Runs(read', stack', Start, Root, Here')
    BY <1>1, <1>4, <2>1 DEF Hands
  <2>3. TreeInv'
    BY <2>1, <2>2, LineStays DEF TreeInv
  <2>4. LinesInv'
    BY <1>2, <2>1 DEF LinesInv, SameLine
  <2> QED BY <2>3, <2>4
<1> QED BY <1>3, <1>4

-----------------------------------------------------------------------------
(***************************************************************************)
(* What has just been called.                                              *)
(***************************************************************************)
LEMMA FrameFields ==
  ASSUME NEW l, NEW y
  PROVE  /\ Frame(l).at = l /\ Frame(l).kids = <<>> /\ Frame(l).words = <<>> /\ Frame(l).redirs = <<>>
         /\ Frame(l).assigns = <<>> /\ Frame(l).multi = TRUE
         /\ Typed(l, y).at = l /\ Typed(l, y).kids = <<>> /\ Typed(l, y).words = <<>> /\ Typed(l, y).redirs = <<>>
         /\ Typed(l, y).assigns = <<>> /\ Typed(l, y).type = y
  BY DEF Frame, Typed

LEMMA PipelineRuns ==
  ASSUME NEW s \in Seq(Kind), NEW q \in Nat, NEW W, "pipeline" \in W
  PROVE  Runs(s, Pipeline, q, W, q)
<1>1. PICK f : f = Frame("bang")
  OBVIOUS
<1>2. f.at = "bang" /\ f.kids = <<>>
  BY <1>1, FrameFields
<1>3. Role(f) = "pipeline"
  BY <1>2 DEF Role
<1>4. HasRead(s, f, q, q)
  BY <1>2 DEF HasRead, Lone
<1>5. Runs(s, <<f>>, q, W, q)
  BY <1>3, <1>4, RunsOne DEF Ran
<1> QED BY <1>1, <1>5 DEF Pipeline

LEMMA SimplePipelineRuns ==
  ASSUME NEW s \in Seq(Kind), NEW q \in Nat, q <= Len(s) + 1, NEW W, "stage" \in W
  PROVE  Runs(s, SimplePipeline, q, W, q)
<1>1. PICK f, g : f = Frame("stage") /\ g = Frame("command")
  OBVIOUS
<1>2. f.at = "stage" /\ f.kids = <<>> /\ g.at = "command" /\ g.kids = <<>>
  BY <1>1, FrameFields
<1>3. Role(f) = "stage" /\ Role(g) = "command" /\ "command" \in Needs(f.at)
  BY <1>2 DEF Role, Needs
<1>4. Nls(s, q, q)
  BY NlsNone
<1>5. Ran(s, g, q, q)
  BY <1>2, <1>4 DEF Ran, HasRead, Lone
<1>6. Runs(s, <<g>>, q, Needs(f.at), q)
  BY <1>3, <1>5, RunsOne
<1>7. FrameAwaits(s, f, q, q)
  BY <1>2 DEF FrameAwaits, Awaits, StageAwaits
<1>8. <<g>> \in Seq({g}) /\ <<g>> # <<>>
  OBVIOUS
<1>9. Runs(s, <<f>> \o <<g>>, q, W, q)
  BY <1>3, <1>6, <1>7, <1>8, RunsPush
<1>10. <<f>> \o <<g>> = <<f, g>>
  <2>1. f \in {f, g} /\ g \in {f, g}
    OBVIOUS
  <2> QED BY <2>1, TwoFrames
<1> QED BY <1>1, <1>9, <1>10 DEF SimplePipeline

LEMMA LogicListRuns ==
  ASSUME NEW s \in Seq(Kind), NEW q \in Nat, NEW W, "logic" \in W
  PROVE  Runs(s, LogicList, q, W, q)
<1>1. PICK f : f = Frame("logic")
  OBVIOUS
<1>2. f.at = "logic" /\ f.kids = <<>>
  BY <1>1, FrameFields
<1>3. Role(f) = "logic" /\ "pipeline" \in Needs(f.at)
  BY <1>2 DEF Role, Needs
<1>4. Runs(s, Pipeline, q, Needs(f.at), q)
  BY <1>3, PipelineRuns
<1>5. FrameAwaits(s, f, q, q)
  BY <1>2 DEF FrameAwaits, Awaits, LogicAwaits
<1>6. Pipeline \in Seq({Frame("bang")}) /\ Pipeline # <<>>
  BY DEF Pipeline
<1>7. Runs(s, <<f>> \o Pipeline, q, W, q)
  BY <1>3, <1>4, <1>5, <1>6, RunsPush
<1> QED BY <1>1, <1>7 DEF LogicList

LEMMA ListRuns ==
  ASSUME NEW s \in Seq(Kind), NEW q \in Nat, q <= Len(s) + 1, NEW W, NEW multi \in BOOLEAN, NEW until,
         IF multi THEN "list" \in W ELSE "line" \in W
  PROVE  Runs(s, List(multi, until), q, W, q)
<1>1. PICK f : f = [Frame("list") EXCEPT !.multi = multi, !.until = until]
  OBVIOUS
<1>2. f.at = "list" /\ f.kids = <<>> /\ f.multi = multi
  BY <1>1 DEF Frame
<1>3. Role(f) \in W /\ "logic" \in Needs(f.at)
  BY <1>2 DEF Role, Needs
<1>4. Runs(s, LogicList, q, Needs(f.at), q)
  BY <1>3, LogicListRuns
<1>5. Nls(s, q, q)
  BY NlsNone
<1>6. FrameAwaits(s, f, q, q)
  BY <1>2, <1>5 DEF FrameAwaits, Awaits, ListAwaits
<1>7. \E T : LogicList \in Seq(T) /\ LogicList # <<>>
  BY LogicListCalled DEF StackOf
<1>8. Runs(s, <<f>> \o LogicList, q, W, q)
  BY <1>3, <1>4, <1>6, <1>7, RunsPush
<1> QED BY <1>1, <1>8 DEF List

LEMMA BlockRuns ==
  ASSUME NEW s \in Seq(Kind), NEW q \in Nat, q <= Len(s) + 1, NEW W, "list" \in W, NEW until
  PROVE  Runs(s, Block(until), q, W, q)
  BY ListRuns DEF Block

-----------------------------------------------------------------------------
(***************************************************************************)
(* What a step starts from.                                                *)
(***************************************************************************)
Between == Here \in Nat /\ Here' \in Nat /\ read' \in Seq(Kind) /\ Prefix(read, read')
           /\ input' = input /\ putback' \in {0, Len(read')} /\ (AtEnd' => putback' # 0)
TookAt(k) == Between /\ Tok(read', Here, {k}) /\ Here' = Here + 1 /\ Here + 1 <= Len(read') + 1
PeekedAt(k) == Between /\ Tok(read', Here, {k}) /\ Here' = Here /\ Here <= Len(read')

LEMMA Taking ==
  ASSUME LineInv, at \in {"line", "parse"}, NEW k \in Kind, k # "eof", Take(k)
  PROVE  TookAt(k)
<1>1. TokenInv /\ EndInv
  BY DEF LineInv, ParserInv
<1>2. putback' \in {0, Len(read')} /\ input' = input
  BY DEF Take, Prompt
<1>3. /\ Here \in Nat /\ read' \in Seq(Kind) /\ Prefix(read, read') /\ Tok(read', Here, {k})
      /\ Here' = Here + 1 /\ ~AtEnd' /\ putback' = 0 /\ Here + 1 <= Len(read') + 1
  BY <1>1, Took
<1>4. Here' \in Nat
  BY <1>3
<1> QED BY <1>2, <1>3, <1>4 DEF TookAt, Between

LEMMA Peeking ==
  ASSUME LineInv, at \in {"line", "parse"}, NEW k \in Kind, Peek(k)
  PROVE  PeekedAt(k)
<1>1. TokenInv /\ EndInv
  BY DEF LineInv, ParserInv
<1>2. putback' \in {0, Len(read')} /\ input' = input
  <2>1. TokenInv'
    BY <1>1, TokenRead
  <2> QED BY <2>1 DEF TokenInv, Peek, Prompt
<1>3. /\ Here \in Nat /\ read' \in Seq(Kind) /\ Prefix(read, read') /\ Tok(read', Here, {k})
      /\ Here' = Here /\ putback' # 0 /\ Here <= Len(read')
  BY <1>1, Peeked
<1> QED BY <1>2, <1>3 DEF PeekedAt, Between

Turning(S, p, V) ==
  /\ StackOf(stack, S) /\ Top \in FrameOf(S) /\ Running(Top) /\ Within(p, V) /\ p \in Nat
  /\ Role(Top) \in V /\ Ran(read, Top, p, Here)
LEMMA Turn ==
  ASSUME LineInv, at = "parse"
  PROVE  \E S, V : \E p \in Nat : Turning(S, p, V)
<1>1. PICK S : StackOf(stack, S) /\ Top \in FrameOf(S) /\ Running(Top)
  BY Parses DEF LineInv
<1>2. PICK p \in Nat : \E V : Within(p, V)
  BY Standing DEF LineInv
<1>3. PICK V : Within(p, V)
  BY <1>2
<1> QED BY <1>1, <1>3 DEF Turning, Within

\* by a token taken or given back, what has been read is what was read
LEMMA Read ==
  ASSUME NEW S, NEW V, NEW p \in Nat, Turning(S, p, V), Between
  PROVE  Ran(read', Top, p, Here)
  BY RanGrows DEF Turning, Between

\* the step of the function f, which runs since p and has read what is in front of h, with s behind it
Acts(S, V, p, s, f, h) ==
  /\ s = read' /\ s \in Seq(Kind) /\ f = Top /\ f \in FrameOf(S) /\ h = Here /\ Ran(s, f, p, h)
  /\ Role(f) \in V /\ Within(p, V) /\ StackOf(stack, S) /\ Running(f)
  /\ at = "parse" /\ Between /\ LinesInv /\ ParserInv
LEMMA Acting ==
  ASSUME LineInv, at = "parse", Between
  PROVE  \E S, V, s, f : \E p \in Nat : \E h \in Nat : Acts(S, V, p, s, f, h)
<1>1. PICK S, V : \E p \in Nat : Turning(S, p, V)
  BY Turn
<1>2. PICK p \in Nat : Turning(S, p, V)
  BY <1>1
<1>3. Ran(read', Top, p, Here)
  BY <1>2, Read
<1>4. Acts(S, V, p, read', Top, Here)
  BY <1>2, <1>3 DEF Acts, Turning, LineInv, Between
<1>5. Here \in Nat
  BY DEF Between
<1> QED BY <1>4, <1>5, Zenon

LEMMA Turns ==
  ASSUME NEW S, NEW V, NEW p, NEW s, NEW f, NEW h, Acts(S, V, p, s, f, h),
         NEW e, NEW l, GoOn(e, l, <<>>), NEW g, g = [e EXCEPT !.at = l], Role(g) \in V,
         NEW j, j = Here', Ran(s, g, p, j)
  PROVE  TreeInv' /\ LinesInv'
<1>1. /\ LinesInv /\ at = "parse" /\ Within(p, V) /\ input' = input /\ Prefix(read, read')
      /\ Ran(read', g, p, Here')
  BY DEF Acts, Between
<1> QED BY <1>1, GoesOn

Calls(s, g, p, c, j) ==
  \E T : c \in Seq(T) /\ c # <<>> /\ \E q \in Nat : FrameAwaits(s, g, p, q) /\ Runs(s, c, q, Needs(g.at), j)
GoesAs(e, l, c, g) == GoOn(e, l, c) /\ g = [e EXCEPT !.at = l]
Now(j) == j = Here'
LEMMA TurnsTo ==
  ASSUME NEW S, NEW V, NEW p, NEW s, NEW f, NEW h, Acts(S, V, p, s, f, h),
         NEW e, NEW l, NEW c, NEW g, GoesAs(e, l, c, g), Role(g) \in V, NEW j, Now(j), Calls(s, g, p, c, j)
  PROVE  TreeInv' /\ LinesInv'
<1>1. PICK T : c \in Seq(T) /\ c # <<>> /\ \E q \in Nat : FrameAwaits(s, g, p, q) /\ Runs(s, c, q, Needs(g.at), j)
  BY Zenon DEF Calls
<1>2. PICK q \in Nat : FrameAwaits(s, g, p, q) /\ Runs(s, c, q, Needs(g.at), j)
  BY <1>1
<1>3. LinesInv /\ at = "parse" /\ Within(p, V) /\ input' = input /\ Prefix(read, read') /\ s = read' /\ j = Here'
  BY DEF Acts, Between, Now
<1>4. FrameAwaits(read', g, p, q) /\ Runs(read', c, q, Needs(g.at), Here')
  BY <1>2, <1>3
<1>5. GoOn(e, l, c) /\ g = [e EXCEPT !.at = l]
  BY DEF GoesAs
<1> QED BY <1>1, <1>3, <1>4, <1>5, GoesInto

LEMMA TurnsOver ==
  ASSUME NEW S, NEW V, NEW p, NEW s, NEW f, NEW h, Acts(S, V, p, s, f, h),
         NEW T, NEW c \in Seq(T), c # <<>>, TailCall(c), NEW j, j = Here', Runs(s, c, p, V, j)
  PROVE  TreeInv' /\ LinesInv'
<1>1. /\ LinesInv /\ at = "parse" /\ Within(p, V) /\ input' = input /\ Prefix(read, read')
      /\ Runs(read', c, p, V, Here')
  BY DEF Acts, Between
<1> QED BY <1>1, GoesOver

LEMMA TurnsBack ==
  ASSUME NEW S, NEW V, NEW p, NEW s, NEW f, NEW h, Acts(S, V, p, s, f, h),
         NEW tree, Return(tree), NEW j, j = Here', Gives(s, Role(f), tree, p, j)
  PROVE  TreeInv' /\ LinesInv'
<1>1. /\ LinesInv /\ ParserInv /\ at = "parse" /\ Within(p, V) /\ input' = input /\ Prefix(read, read')
      /\ Here' \in Nat /\ putback' \in {0, Len(read')} /\ (AtEnd' => putback' # 0)
      /\ Gives(read', Role(f), tree, p, Here') /\ Role(f) \in V
  BY DEF Acts, Between
<1> QED BY <1>1, ReturnsWith

LEMMA ResumedIs ==
  ASSUME NEW s, NEW f, NEW p, NEW h, Ran(s, f, p, h), f.at \notin Lone
  PROVE  Resumed(s, f, p, h)
  BY Zenon DEF Ran, HasRead

-----------------------------------------------------------------------------
(***************************************************************************)
(* Lists.                                                                  *)
(***************************************************************************)
NodeOfList(k) == IF Len(k) = 2 THEN Node("sep", k) ELSE k[1]
NodeOfLogic(y, k) == IF Len(k) = 2 THEN Node(y, k) ELSE k[1]

LEMMA NotBare == \A y \in {"sep", "bg", "and", "or", "negate", "pipe", "func", "cmd"} : y \notin BareType
  BY DEF BareType

LEMMA AfterBare ==
  ASSUME NEW s, NEW n, n.type \notin BareType, NEW p, NEW i \in Nat, Nls(s, p, i), NEW j, Bare(s, n, i, j)
  PROVE  After(s, n, p, j)
  BY Zenon DEF After, Stand

LEMMA LogicTypes ==
  /\ LogicType \subseteq ListType /\ PipelineType \subseteq LogicType /\ StageType \subseteq PipelineType
  /\ CommandType \subseteq StageType /\ BareType \subseteq CommandType
  /\ "sep" \in ListType /\ "bg" \in ListType /\ "sep" \notin LogicType /\ "bg" \notin LogicType
  /\ "and" \in LogicType /\ "or" \in LogicType /\ "negate" \in PipelineType /\ "pipe" \in StageType
  /\ "func" \in CommandType /\ "cmd" \in CommandType
  BY DEF ListType, LogicType, PipelineType, StageType, CommandType, BareType

LEMMA LogicInFront ==
  ASSUME NEW n, n.type \in LogicType
  PROVE  ~EndsInBackground(n)
  BY LogicTypes DEF EndsInBackground

LEMMA Appended ==
  ASSUME NEW T, NEW k \in Seq(T), NEW n
  PROVE  /\ k = <<>> => Append(k, n) = <<n>>
         /\ \A a : k = <<a>> => Append(k, n) = <<a, n>>
<1>1. k = <<>> => Append(k, n) = <<n>>
  OBVIOUS
<1>2. ASSUME NEW a, k = <<a>> PROVE Append(k, n) = <<a, n>>
  <2>1. PICK U : U = {a, n}
    OBVIOUS
  <2>2. <<a>> \in Seq(U) /\ <<a, n>> \in Seq(U) /\ n \in U
    BY <2>1
  <2>3. PICK c \in Seq(U) : c = <<a>>
    BY <2>2
  <2>4. Len(c) = 1 /\ c[1] = a
    BY <2>3
  <2>5. Append(c, n) \in Seq(U) /\ Len(Append(c, n)) = 2 /\ Append(c, n)[1] = a /\ Append(c, n)[2] = n
    <3>1. Append(c, n) \in Seq(U) /\ Len(Append(c, n)) = Len(c) + 1
      BY <2>2
    <3>2. Append(c, n)[Len(c) + 1] = n /\ \A i \in 1..Len(c) : Append(c, n)[i] = c[i]
      BY <2>2
    <3> QED BY <3>1, <3>2, <2>4
  <2>6. PICK x \in Seq(U) : x = Append(c, n)
    BY <2>5
  <2>7. PICK y \in Seq(U) : y = <<a, n>>
    BY <2>2
  <2>8. Len(x) = 2 /\ x[1] = a /\ x[2] = n /\ Len(y) = 2 /\ y[1] = a /\ y[2] = n
    BY <2>5, <2>6, <2>7
  <2>9. \A i \in 1..2 : i = 1 \/ i = 2
    OBVIOUS
  <2>10. x = y
    BY <2>8, <2>9, SeqEqual
  <2> QED BY <1>2, <2>3, <2>6, <2>7, <2>10
<1> QED BY <1>1, <1>2

LEMMA BackgroundOf ==
  ASSUME NEW a, NEW b
  PROVE  Background(Node("sep", <<a, b>>)) = Node("sep", <<a, Node("bg", <<b>>)>>)
  BY DEF Background, Node

LEMMA ListNodeStands ==
  ASSUME NEW s \in Seq(Kind), NEW f, f.at = "list", NEW p \in Nat, NEW h \in Nat, Ran(s, f, p, h)
  PROVE  LET n == NodeOfList(f.kids)
         IN  /\ n.type \in ListType /\ After(s, n, p, h) /\ ~EndsInBackground(n)
             /\ Background(n).type \in ListType /\ EndsInBackground(Background(n))
             /\ Tok(s, h, {"&"}) => After(s, Background(n), p, h + 1)
<1>1. Resumed(s, f, p, h)
  BY ResumedIs DEF Lone
<1>2. PICK T, b : \E k \in Seq(T) : \E q \in Nat : \E fam \in Needs(f.at) :
        /\ Awaits(s, f.at, f.type, f.words, f.redirs, k, p, q)
        /\ f.kids = Append(k, b) /\ Gives(s, fam, b, q, h)
  BY <1>1, Zenon DEF Resumed
<1>3. PICK k \in Seq(T), q \in Nat, fam \in Needs(f.at) :
        /\ Awaits(s, f.at, f.type, f.words, f.redirs, k, p, q)
        /\ f.kids = Append(k, b) /\ Gives(s, fam, b, q, h)
  BY <1>2
<1>4. ListAwaits(s, k, p, q)
  BY <1>3, Zenon DEF Awaits
<1>5. b.type \in LogicType /\ After(s, b, q, h)
  BY <1>3 DEF Gives, Needs, TypesOf
<1>6. ~EndsInBackground(b) /\ b.type \in ListType
  BY <1>5, LogicInFront, LogicTypes
<1>7. CASE k = <<>> /\ Nls(s, p, q)
  <2>1. f.kids = <<b>>
    BY <1>3, <1>7, Appended
  <2>2. NodeOfList(f.kids) = b
    BY <2>1 DEF NodeOfList
  <2>3. After(s, b, p, h)
    BY <1>5, <1>7, AfterNls
  <2>4. PICK g : g = Node("bg", <<b>>)
    OBVIOUS
  <2>5. Background(b) = g
    BY <2>4, <1>5, LogicTypes DEF Background
  <2>6. g.type = "bg"
    BY <2>4, MadeOfOne
  <2>7. ASSUME Tok(s, h, {"&"}) PROVE After(s, g, p, h + 1)
    <3>1. PICK i \in Nat : Nls(s, p, i) /\ Stand(s, b, i, h)
      BY <2>3, Zenon DEF After
    <3>2. Bare(s, g, i, h + 1)
      BY <3>1, <2>4, <2>7, <1>5, BackgroundStands
    <3> QED BY <3>1, <3>2, <2>6, NotBare, AfterBare
  <2> QED BY <2>2, <2>3, <2>5, <2>6, <2>7, <1>5, <1>6, LogicTypes DEF EndsInBackground
<1>8. CASE EndedTo(s, k, p, q)
  <2>1. PICK a : k = <<a>> /\ \E m \in Nat : SepTo(s, a, p, m) /\ Nls(s, m, q)
    BY <1>8, Zenon DEF EndedTo
  <2>2. PICK m \in Nat : SepTo(s, a, p, m) /\ Nls(s, m, q)
    BY <2>1
  <2>3. a.type \in ListType /\ \E x \in Nat : After(s, a, p, x) /\ IF EndsInBackground(a) THEN m = x ELSE Tok(s, x, LineEnd) /\ m = x + 1
    BY <2>2, Zenon DEF SepTo
  <2>4. PICK x \in Nat : After(s, a, p, x) /\ IF EndsInBackground(a) THEN m = x ELSE Tok(s, x, LineEnd) /\ m = x + 1
    BY <2>3
  <2>5. PICK i \in Nat : Nls(s, p, i) /\ Stand(s, a, i, x)
    BY <2>4, Zenon DEF After
  <2>6. After(s, b, m, h)
    BY <1>5, <2>2, AfterNls
  <2>7. Bare(s, Node("sep", <<a, b>>), i, h)
    BY <2>3, <2>4, <2>5, <2>6, <1>5, SepStands
  <2>8. f.kids = <<a, b>>
    BY <1>3, <2>1, Appended
  <2>9. PICK n : n = Node("sep", <<a, b>>)
    OBVIOUS
  <2>10. NodeOfList(f.kids) = n
    BY <2>8, <2>9 DEF NodeOfList
  <2>11. n.type = "sep" /\ n.kids = <<a, b>>
    BY <2>9, MadeOfTwo
  <2>12. After(s, n, p, h)
    BY <2>5, <2>7, <2>9, <2>11, NotBare, AfterBare
  <2>13. ~EndsInBackground(n)
    BY <2>11, <1>5, LogicTypes DEF EndsInBackground
  <2>14. PICK c : c = Node("bg", <<b>>)
    OBVIOUS
  <2>15. PICK g : g = Node("sep", <<a, c>>)
    OBVIOUS
  <2>16. Background(n) = g
    BY <2>9, <2>14, <2>15, BackgroundOf
  <2>17. c.type = "bg" /\ g.type = "sep" /\ g.kids = <<a, c>>
    <3>1. c.type = "bg"
      BY <2>14, MadeOfOne
    <3>2. g.type = "sep" /\ g.kids = <<a, c>>
      BY <2>15, MadeOfTwo
    <3> QED BY <3>1, <3>2
  <2>18. EndsInBackground(g)
    BY <2>17 DEF EndsInBackground
  <2>19. ASSUME Tok(s, h, {"&"}) PROVE After(s, g, p, h + 1)
    <3>1. PICK y \in Nat : Nls(s, m, y) /\ Stand(s, b, y, h)
      BY <2>6, Zenon DEF After
    <3>2. Bare(s, c, y, h + 1)
      BY <3>1, <2>14, <2>19, <1>5, BackgroundStands
    <3>3. After(s, c, m, h + 1)
      BY <3>1, <3>2, <2>17, NotBare, AfterBare
    <3>4. c.type \in LogicType \cup {"bg"} /\ h + 1 \in Nat
      BY <2>17
    <3>5. Bare(s, g, i, h + 1)
      BY <2>3, <2>4, <2>5, <2>15, <3>3, <3>4, SepStands
    <3> QED BY <2>5, <3>5, <2>17, NotBare, AfterBare
  <2> QED BY <2>10, <2>11, <2>12, <2>13, <2>16, <2>17, <2>18, <2>19, LogicTypes
<1> QED BY <1>4, <1>7, <1>8, Zenon DEF ListAwaits

-----------------------------------------------------------------------------
\* the functions that are called, by the label of the one that calls them
LEMMA CallsLogicList ==
  ASSUME NEW s \in Seq(Kind), NEW g, NEW p, NEW q \in Nat, FrameAwaits(s, g, p, q), g.at = "list"
  PROVE  Calls(s, g, p, LogicList, q)
<1>1. "logic" \in Needs(g.at)
  BY DEF Needs
<1>2. Runs(s, LogicList, q, Needs(g.at), q)
  BY <1>1, LogicListRuns
<1>3. \E T : LogicList \in Seq(T) /\ LogicList # <<>>
  BY LogicListCalled DEF StackOf
<1> QED BY <1>2, <1>3, Zenon DEF Calls

LEMMA CallsPipeline ==
  ASSUME NEW s \in Seq(Kind), NEW g, NEW p, NEW q \in Nat, FrameAwaits(s, g, p, q), g.at = "logic"
  PROVE  Calls(s, g, p, Pipeline, q)
<1>1. "pipeline" \in Needs(g.at)
  BY DEF Needs
<1>2. Runs(s, Pipeline, q, Needs(g.at), q)
  BY <1>1, PipelineRuns
<1>3. \E T : Pipeline \in Seq(T) /\ Pipeline # <<>>
  BY PipelineCalled DEF StackOf
<1> QED BY <1>2, <1>3, Zenon DEF Calls

LEMMA CallsSimplePipeline ==
  ASSUME NEW s \in Seq(Kind), NEW g, NEW p, NEW q \in Nat, q <= Len(s) + 1, FrameAwaits(s, g, p, q),
         g.at \in {"negate", "pipe"}
  PROVE  Calls(s, g, p, SimplePipeline, q)
<1>1. "stage" \in Needs(g.at)
  BY DEF Needs
<1>2. Runs(s, SimplePipeline, q, Needs(g.at), q)
  BY <1>1, SimplePipelineRuns
<1>3. \E T : SimplePipeline \in Seq(T) /\ SimplePipeline # <<>>
  BY SimplePipelineCalled DEF StackOf
<1> QED BY <1>2, <1>3, Zenon DEF Calls

LEMMA CallsBody ==
  ASSUME NEW s \in Seq(Kind), NEW g, NEW p, NEW q \in Nat, q <= Len(s) + 1, FrameAwaits(s, g, p, q),
         g.at \in {"then", "elif", "fi", "do", "done", "item_end", "paren", "brace"}, NEW until \in SUBSET Kind
  PROVE  Calls(s, g, p, Block(until), q)
<1>1. "list" \in Needs(g.at)
  BY DEF Needs
<1>2. Runs(s, Block(until), q, Needs(g.at), q)
  BY <1>1, BlockRuns
<1>3. \E T : Block(until) \in Seq(T) /\ Block(until) # <<>>
  BY BlockCalled DEF StackOf
<1> QED BY <1>2, <1>3, Zenon DEF Calls

LEMMA SepKinds == \A k \in Separator : k \in Kind /\ k # "eof" /\ (k # "&" => {k} \subseteq LineEnd)
  BY Zenon DEF Separator, LineEnd, Kind

LEMMA TokWider ==
  ASSUME NEW s, NEW i, NEW K, NEW L, K \subseteq L, Tok(s, i, K)
  PROVE  Tok(s, i, L)
  BY DEF Tok

\* what parse_list has when it has read a separator
LEMMA EndedStands ==
  ASSUME NEW s \in Seq(Kind), NEW f, f.at = "list", NEW p \in Nat, NEW h \in Nat, Ran(s, f, p, h),
         NEW k \in Separator, Tok(s, h, {k})
  PROVE  LET n == NodeOfList(f.kids)
             e == IF k = "&" THEN Background(n) ELSE n
         IN  SepTo(s, e, p, h + 1) /\ LineTo(s, e, p, h + 1) /\ e.type \in ListType
<1>1. PICK n : n = NodeOfList(f.kids)
  OBVIOUS
<1>2. /\ n.type \in ListType /\ After(s, n, p, h) /\ ~EndsInBackground(n)
      /\ Background(n).type \in ListType /\ EndsInBackground(Background(n))
      /\ Tok(s, h, {"&"}) => After(s, Background(n), p, h + 1)
  BY <1>1, ListNodeStands
<1>3. h + 1 \in Nat
  OBVIOUS
<1>4. CASE k = "&"
  <2>1. PICK g : g = Background(n)
    OBVIOUS
  <2>2. g.type \in ListType /\ EndsInBackground(g) /\ After(s, g, p, h + 1)
    BY <1>2, <1>4, <2>1
  <2>3. SepTo(s, g, p, h + 1) /\ LineTo(s, g, p, h + 1)
    BY <1>3, <2>2, Zenon DEF SepTo, LineTo
  <2> QED BY <1>1, <1>4, <2>1, <2>2, <2>3
<1>5. CASE k # "&"
  <2>1. Tok(s, h, LineEnd)
    BY <1>5, SepKinds, TokWider
  <2>2. SepTo(s, n, p, h + 1) /\ LineTo(s, n, p, h + 1)
    BY <1>2, <2>1, Zenon DEF SepTo, LineTo
  <2> QED BY <1>1, <1>2, <1>5, <2>2
<1> QED BY <1>4, <1>5

LEMMA ListSeparatorTree ==
  ASSUME LineInv, ListSeparator
  PROVE  TreeInv' /\ LinesInv'
<1>1. at = "parse" /\ Top.at = "list"
  BY DEF ListSeparator, Parsing
<1>2. PICK k \in Separator :
        /\ Take(k)
        /\ IF Top.multi
            THEN IF Top.until = {}
                   THEN GoOn([Top EXCEPT !.kids = <<Ended(k)>>], "list", LogicList)
                   ELSE GoOn([Top EXCEPT !.kids = <<Ended(k)>>], "terminator", <<>>)
            ELSE Return(Ended(k))
  BY DEF ListSeparator
<1>3. TookAt(k) /\ Between
  BY <1>1, <1>2, SepKinds, Taking DEF TookAt
<1>4. PICK S, V, s, f : \E p \in Nat : \E h \in Nat : Acts(S, V, p, s, f, h)
  BY <1>1, <1>3, Acting
<1>5. PICK p \in Nat, h \in Nat : Acts(S, V, p, s, f, h)
  BY <1>4
<1>6. s \in Seq(Kind) /\ f = Top /\ f \in FrameOf(S) /\ Ran(s, f, p, h) /\ Role(f) \in V
  BY <1>5 DEF Acts
<1>7. PICK j \in Nat : j = h + 1
  OBVIOUS
<1>8. j = Here' /\ j <= Len(s) + 1 /\ Tok(s, h, {k})
  BY <1>3, <1>5, <1>7 DEF TookAt, Acts
<1>9. PICK e : e = Ended(k)
  OBVIOUS
<1>10. SepTo(s, e, p, j) /\ LineTo(s, e, p, j) /\ e.type \in ListType
  BY <1>1, <1>6, <1>7, <1>8, <1>9, EndedStands DEF Ended, ListNode, NodeOfList
<1>11. Nls(s, j, j)
  BY <1>6, <1>8, NlsNone
<1>12. EndedTo(s, <<e>>, p, j)
  BY <1>10, <1>11, Zenon DEF EndedTo
<1>13. ASSUME NEW l \in {"list", "terminator"}
       PROVE  LET g == [[f EXCEPT !.kids = <<e>>] EXCEPT !.at = l]
              IN  /\ g.at = l /\ g.kids = <<e>> /\ g.multi = f.multi /\ Role(g) = Role(f)
  <2>1. f.at = "list"
    BY <1>1, <1>6
  <2> QED BY <1>6, <2>1 DEF FrameOf, Role
<1>14. CASE f.multi /\ GoOn([f EXCEPT !.kids = <<e>>], "list", LogicList)
  <2>1. PICK g : g = [[f EXCEPT !.kids = <<e>>] EXCEPT !.at = "list"]
    OBVIOUS
  <2>2. g.at = "list" /\ g.kids = <<e>> /\ Role(g) \in V
    BY <1>6, <1>13, <2>1
  <2>3. FrameAwaits(s, g, p, j)
    BY <1>12, <2>2 DEF FrameAwaits, Awaits, ListAwaits
  <2>4. Calls(s, g, p, LogicList, j)
    BY <1>6, <2>2, <2>3, CallsLogicList
  <2>5. GoesAs([f EXCEPT !.kids = <<e>>], "list", LogicList, g) /\ Now(j)
    BY <1>8, <1>14, <2>1 DEF GoesAs, Now
  <2> QED BY <1>5, <2>2, <2>4, <2>5, TurnsTo
<1>15. CASE f.multi /\ GoOn([f EXCEPT !.kids = <<e>>], "terminator", <<>>)
  <2>1. PICK g : g = [[f EXCEPT !.kids = <<e>>] EXCEPT !.at = "terminator"]
    OBVIOUS
  <2>2. g.at = "terminator" /\ g.kids = <<e>> /\ g.multi /\ Role(g) \in V
    BY <1>6, <1>13, <1>15, <2>1
  <2>3. Ran(s, g, p, j)
    BY <1>12, <2>2 DEF Ran, HasRead, Lone
  <2> QED BY <1>5, <1>8, <1>15, <2>1, <2>2, <2>3, Turns
<1>16. CASE ~f.multi /\ Return(e)
  <2>1. Role(f) = "line"
    BY <1>1, <1>6, <1>16 DEF Role
  <2>2. Gives(s, Role(f), e, p, j)
    BY <1>10, <2>1, Zenon DEF Gives, TypesOf
  <2> QED BY <1>5, <1>8, <1>16, <2>2, TurnsBack
<1> QED BY <1>2, <1>6, <1>9, <1>14, <1>15, <1>16

LEMMA ListEndsTree ==
  ASSUME LineInv, ListEnds
  PROVE  TreeInv' /\ LinesInv'
<1>1. at = "parse" /\ Top.at = "list"
  BY DEF ListEnds, Parsing
<1>2. PICK k \in Kind : Peek(k)
  BY DEF ListEnds
<1>3. PeekedAt(k) /\ Between
  BY <1>1, <1>2, Peeking DEF PeekedAt
<1>4. PICK S, V, s, f : \E p \in Nat : \E h \in Nat : Acts(S, V, p, s, f, h)
  BY <1>1, <1>3, Acting
<1>5. PICK p \in Nat, h \in Nat : Acts(S, V, p, s, f, h)
  BY <1>4
<1>6. s \in Seq(Kind) /\ f = Top /\ Ran(s, f, p, h) /\ h = Here' /\ h <= Len(s)
  BY <1>3, <1>5 DEF Acts, PeekedAt
<1>9. PICK n : n = ListNode
  OBVIOUS
<1>10. n.type \in ListType /\ After(s, n, p, h)
  BY <1>1, <1>6, <1>9, ListNodeStands DEF ListNode, NodeOfList
<1>12. Nls(s, h, h)
  BY <1>6, NlsNone
<1>13. Listed(s, n, p, h) /\ LineTo(s, n, p, h)
  BY <1>10, <1>12, Zenon DEF Listed, LineTo
<1>14. Gives(s, Role(f), n, p, h)
  <2>1. Role(f) = "list" \/ Role(f) = "line"
    BY <1>1, <1>6 DEF Role
  <2>2. Gives(s, "list", n, p, h) /\ Gives(s, "line", n, p, h)
    BY <1>10, <1>13, Zenon DEF Gives, TypesOf
  <2> QED BY <2>1, <2>2
<1>15. Return(n)
  BY <1>9 DEF ListEnds
<1> QED BY <1>5, <1>6, <1>14, <1>15, TurnsBack

LEMMA TerminatorStands ==
  ASSUME NEW s \in Seq(Kind), NEW f, f.at = "terminator", NEW p \in Nat, NEW h \in Nat, Ran(s, f, p, h)
  PROVE  /\ f.multi /\ EndedTo(s, f.kids, p, h)
         /\ f.kids[1].type \in ListType /\ Listed(s, f.kids[1], p, h)
<1>1. f.multi /\ EndedTo(s, f.kids, p, h)
  <2>1. ~Resumed(s, f, p, h)
    BY Zenon DEF Resumed, Needs
  <2> QED BY <2>1 DEF Ran, HasRead
<1>2. PICK n : f.kids = <<n>> /\ \E m \in Nat : SepTo(s, n, p, m) /\ Nls(s, m, h)
  BY <1>1, Zenon DEF EndedTo
<1>3. PICK m \in Nat : SepTo(s, n, p, m) /\ Nls(s, m, h)
  BY <1>2
<1>4. n.type \in ListType
  BY <1>3, Zenon DEF SepTo
<1>5. PICK x \in Nat : After(s, n, p, x) /\ IF EndsInBackground(n) THEN m = x ELSE Tok(s, x, LineEnd) /\ m = x + 1
  BY <1>3, Zenon DEF SepTo
<1>6. CASE EndsInBackground(n)
  <2>1. m = x
    BY <1>5, <1>6
  <2>2. Listed(s, n, p, h)
    BY <1>3, <1>5, <2>1, Zenon DEF Listed
  <2> QED BY <1>1, <1>2, <1>4, <2>2
<1>7. CASE ~EndsInBackground(n)
  <2>1. Tok(s, x, LineEnd) /\ m = x + 1
    BY <1>5, <1>7
  <2>2. Tok(s, x, Semicolon) \/ Tok(s, x, {"nl"})
    BY <2>1, Zenon DEF Tok, LineEnd, Semicolon
  <2>3. CASE Tok(s, x, Semicolon)
    <3>1. Listed(s, n, p, h)
      BY <1>3, <1>5, <1>7, <2>1, <2>3, Zenon DEF Listed
    <3> QED BY <1>1, <1>2, <1>4, <3>1
  <2>4. CASE Tok(s, x, {"nl"})
    <3>1. x \in 1..Len(s)
      BY <2>4, TokIs
    <3>2. Nls(s, x, x)
      BY <3>1, NlsNone
    <3>3. Nls(s, x, m)
      BY <2>1, <2>4, <3>2, NlsMore
    <3>4. Nls(s, x, h)
      BY <1>3, <3>3, NlsJoin
    <3>5. Listed(s, n, p, h)
      BY <1>5, <3>4, Zenon DEF Listed
    <3> QED BY <1>1, <1>2, <1>4, <3>5
  <2> QED BY <2>2, <2>3, <2>4
<1> QED BY <1>6, <1>7

LEMMA ListTerminatorTree ==
  ASSUME LineInv, ListTerminator
  PROVE  TreeInv' /\ LinesInv'
<1>1. at = "parse" /\ Top.at = "terminator"
  BY DEF ListTerminator, Parsing
<1>2. PICK k \in Kind \ {"nl"} :
        Peek(k) /\ IF k \in Top.until THEN Return(Top.kids[1]) ELSE GoOn(Top, "list", LogicList)
  BY DEF ListTerminator
<1>3. PeekedAt(k) /\ Between
  BY <1>1, <1>2, Peeking DEF PeekedAt
<1>4. PICK S, V, s, f : \E p \in Nat : \E h \in Nat : Acts(S, V, p, s, f, h)
  BY <1>1, <1>3, Acting
<1>5. PICK p \in Nat, h \in Nat : Acts(S, V, p, s, f, h)
  BY <1>4
<1>6. /\ s \in Seq(Kind) /\ f = Top /\ f \in FrameOf(S) /\ Ran(s, f, p, h) /\ h = Here' /\ h <= Len(s)
      /\ Role(f) \in V
  BY <1>3, <1>5 DEF Acts, PeekedAt
<1>10. f.multi /\ EndedTo(s, f.kids, p, h) /\ f.kids[1].type \in ListType /\ Listed(s, f.kids[1], p, h)
  BY <1>1, <1>6, TerminatorStands
<1>12. CASE Return(f.kids[1])
  <2>1. Role(f) = "list"
    BY <1>1, <1>6, <1>10 DEF Role
  <2>2. PICK n : n = f.kids[1]
    OBVIOUS
  <2>3. Gives(s, Role(f), n, p, h)
    BY <1>10, <2>1, <2>2, Zenon DEF Gives, TypesOf
  <2> QED BY <1>5, <1>6, <1>12, <2>2, <2>3, TurnsBack
<1>13. CASE GoOn(f, "list", LogicList)
  <2>1. PICK g : g = [f EXCEPT !.at = "list"]
    OBVIOUS
  <2>2. g.at = "list" /\ g.kids = f.kids /\ Role(g) = Role(f)
    BY <2>1, <1>1, <1>6 DEF FrameOf, Role
  <2>3. FrameAwaits(s, g, p, h)
    BY <1>10, <2>2 DEF FrameAwaits, Awaits, ListAwaits
  <2>4. Calls(s, g, p, LogicList, h)
    BY <1>6, <2>2, <2>3, CallsLogicList
  <2>5. GoesAs(f, "list", LogicList, g) /\ Now(h) /\ Role(g) \in V
    BY <1>6, <1>13, <2>1, <2>2 DEF GoesAs, Now
  <2> QED BY <1>5, <2>4, <2>5, TurnsTo
<1> QED BY <1>2, <1>6, <1>12, <1>13

-----------------------------------------------------------------------------
Takes(S, V, p, s, f, h, j, k) ==
  /\ Acts(S, V, p, s, f, h) /\ Now(j) /\ j = h + 1 /\ j <= Len(s) + 1 /\ Tok(s, h, {k})
  /\ s \in Seq(Kind) /\ f = Top /\ f \in FrameOf(S) /\ Ran(s, f, p, h) /\ Role(f) \in V
Peeks(S, V, p, s, f, h, k) ==
  /\ Acts(S, V, p, s, f, h) /\ Now(h) /\ h <= Len(s) /\ Tok(s, h, {k})
  /\ s \in Seq(Kind) /\ f = Top /\ f \in FrameOf(S) /\ Ran(s, f, p, h) /\ Role(f) \in V
LEMMA TakesOne ==
  ASSUME LineInv, at = "parse", NEW k \in Kind, k # "eof", Take(k)
  PROVE  \E S, V, s, f : \E p \in Nat : \E h \in Nat : \E j \in Nat : Takes(S, V, p, s, f, h, j, k)
<1>1. TookAt(k) /\ Between
  BY Taking DEF TookAt
<1>2. PICK S, V, s, f : \E p \in Nat : \E h \in Nat : Acts(S, V, p, s, f, h)
  BY <1>1, Acting
<1>3. PICK p \in Nat, h \in Nat : Acts(S, V, p, s, f, h)
  BY <1>2
<1>4. PICK j \in Nat : j = h + 1
  OBVIOUS
<1>5. Takes(S, V, p, s, f, h, j, k)
  BY <1>1, <1>3, <1>4 DEF Takes, Acts, TookAt, Now
<1> QED BY <1>5, Zenon

LEMMA PeeksOne ==
  ASSUME LineInv, at = "parse", NEW k \in Kind, Peek(k)
  PROVE  \E S, V, s, f : \E p \in Nat : \E h \in Nat : Peeks(S, V, p, s, f, h, k)
<1>1. PeekedAt(k) /\ Between
  BY Peeking DEF PeekedAt
<1>2. PICK S, V, s, f : \E p \in Nat : \E h \in Nat : Acts(S, V, p, s, f, h)
  BY <1>1, Acting
<1>3. PICK p \in Nat, h \in Nat : Acts(S, V, p, s, f, h)
  BY <1>2
<1>5. Peeks(S, V, p, s, f, h, k)
  BY <1>1, <1>3 DEF Peeks, Acts, PeekedAt, Now
<1> QED BY <1>3, <1>5, Zenon

LEMMA TurnsOn ==
  ASSUME NEW S, NEW V, NEW p, NEW s, NEW f, NEW h, Acts(S, V, p, s, f, h),
         NEW e, NEW l, NEW g, GoesAs(e, l, <<>>, g), Role(g) \in V, NEW j, Now(j), Ran(s, g, p, j)
  PROVE  TreeInv' /\ LinesInv'
<1>1. GoOn(e, l, <<>>) /\ g = [e EXCEPT !.at = l] /\ j = Here'
  BY DEF GoesAs, Now
<1> QED BY <1>1, Turns

LEMMA TurnsUp ==
  ASSUME NEW S, NEW V, NEW p, NEW s, NEW f, NEW h, Acts(S, V, p, s, f, h),
         NEW tree, Return(tree), NEW j, Now(j), Gives(s, Role(f), tree, p, j)
  PROVE  TreeInv' /\ LinesInv'
<1>1. j = Here'
  BY DEF Now
<1> QED BY <1>1, TurnsBack

\* the words of the grammar
LEMMA Tokens ==
  /\ \A k \in {"nl", "!", "|", "(", ")", "then", "elif", "else", "fi", "do", "done", "in", "esac", "&&", "||"} :
       k \in Kind /\ k # "eof"
  /\ \A k \in Words \cup PlainWord \cup Redirect \cup CompoundStart : k \in Kind /\ k # "eof"
  BY Zenon DEF Kind, Words, PlainWord, Redirect, CompoundStart, Keyword, Bad

LEMMA WordsAre == Words = WordKind /\ Redirect = RedirKind
<1>1. \A k : k \in Words <=> k \in WordKind
  BY Zenon DEF Words, WordKind, PlainWord, Keyword
<1> QED BY <1>1 DEF Redirect, RedirKind

LEMMA TokOf ==
  ASSUME NEW s, NEW i, NEW k, Tok(s, i, {k}), NEW L, k \in L
  PROVE  Tok(s, i, L)
  BY DEF Tok

-----------------------------------------------------------------------------
LEMMA LogicNodeStands ==
  ASSUME NEW s \in Seq(Kind), NEW f, f.at = "logic", NEW p \in Nat, NEW h \in Nat, Ran(s, f, p, h)
  PROVE  LET n == NodeOfLogic(f.type, f.kids)
         IN  n.type \in LogicType /\ After(s, n, p, h)
<1>1. Resumed(s, f, p, h)
  BY ResumedIs DEF Lone
<1>2. PICK T, b : \E k \in Seq(T) : \E q \in Nat : \E fam \in Needs(f.at) :
        /\ Awaits(s, f.at, f.type, f.words, f.redirs, k, p, q)
        /\ f.kids = Append(k, b) /\ Gives(s, fam, b, q, h)
  BY <1>1, Zenon DEF Resumed
<1>3. PICK k \in Seq(T), q \in Nat, fam \in Needs(f.at) :
        /\ Awaits(s, f.at, f.type, f.words, f.redirs, k, p, q)
        /\ f.kids = Append(k, b) /\ Gives(s, fam, b, q, h)
  BY <1>2
<1>4. PICK y : y = f.type
  OBVIOUS
<1>5. LogicAwaits(s, y, k, p, q)
  BY <1>3, <1>4, Zenon DEF Awaits
<1>6. b.type \in PipelineType /\ After(s, b, q, h)
  <2>1. fam \in {"pipeline", "stage"}
    BY <1>3 DEF Needs
  <2> QED BY <1>3, <2>1, LogicTypes DEF Gives, TypesOf
<1>7. CASE k = <<>> /\ q = p
  <2>1. f.kids = <<b>>
    BY <1>3, <1>7, Appended
  <2>2. NodeOfLogic(f.type, f.kids) = b
    BY <2>1 DEF NodeOfLogic
  <2> QED BY <2>2, <1>6, <1>7, LogicTypes
<1>8. CASE \E a : k = <<a>> /\ a.type \in LogicType /\ \E m \in Nat : After(s, a, p, m) /\ Operator(s, y, m) /\ q = m + 1
  <2>1. PICK a : k = <<a>> /\ a.type \in LogicType /\ \E m \in Nat : After(s, a, p, m) /\ Operator(s, y, m) /\ q = m + 1
    BY <1>8
  <2>2. PICK m \in Nat : After(s, a, p, m) /\ Operator(s, y, m) /\ q = m + 1
    BY <2>1
  <2>3. PICK i \in Nat : Nls(s, p, i) /\ Stand(s, a, i, m)
    BY <2>2, Zenon DEF After
  <2>4. PICK n : n = Node(y, <<a, b>>)
    OBVIOUS
  <2>5. After(s, b, m + 1, h)
    BY <1>6, <2>2
  <2>6. Bare(s, n, i, h)
    BY <2>1, <2>2, <2>3, <2>4, <2>5, <1>6, JoinedStand DEF Operator
  <2>7. n.type = y /\ y \in {"and", "or"}
    BY <2>2, <2>4, MadeOfTwo DEF Operator
  <2>8. f.kids = <<a, b>>
    BY <1>3, <2>1, Appended
  <2>9. NodeOfLogic(f.type, f.kids) = n
    BY <2>4, <2>8, <1>4 DEF NodeOfLogic
  <2>10. After(s, n, p, h)
    BY <2>3, <2>6, <2>7, NotBare, AfterBare
  <2> QED BY <2>7, <2>9, <2>10, LogicTypes
<1> QED BY <1>5, <1>7, <1>8, Zenon DEF LogicAwaits

LEMMA LogicOperatorTree ==
  ASSUME LineInv, LogicOperator
  PROVE  TreeInv' /\ LinesInv'
<1>1. at = "parse" /\ Top.at = "logic"
  BY DEF LogicOperator, Parsing
<1>2. PICK k \in {"&&", "||"} :
        Take(k) /\ GoOn([Top EXCEPT !.kids = <<LogicNode>>, !.type = IF k = "&&" THEN "and" ELSE "or"], "logic", Pipeline)
  BY DEF LogicOperator
<1>3. PICK S, V, s, f : \E p \in Nat : \E h \in Nat : \E j \in Nat : Takes(S, V, p, s, f, h, j, k)
  BY <1>1, <1>2, Tokens, TakesOne
<1>4. PICK p \in Nat, h \in Nat, j \in Nat : Takes(S, V, p, s, f, h, j, k)
  BY <1>3
<1>5. /\ Acts(S, V, p, s, f, h) /\ Now(j) /\ j = h + 1 /\ j <= Len(s) + 1 /\ Tok(s, h, {k})
      /\ s \in Seq(Kind) /\ f = Top /\ f \in FrameOf(S) /\ Ran(s, f, p, h) /\ Role(f) \in V
  BY <1>4 DEF Takes
<1>6. PICK n : n = LogicNode
  OBVIOUS
<1>7. n.type \in LogicType /\ After(s, n, p, h)
  BY <1>1, <1>5, <1>6, LogicNodeStands DEF LogicNode, NodeOfLogic
<1>8. PICK y : y = IF k = "&&" THEN "and" ELSE "or"
  OBVIOUS
<1>9. PICK e : e = [f EXCEPT !.kids = <<n>>, !.type = y]
  OBVIOUS
<1>10. PICK g : g = [e EXCEPT !.at = "logic"]
  OBVIOUS
<1>11. g.at = "logic" /\ g.kids = <<n>> /\ g.type = y /\ Role(g) \in V
  BY <1>1, <1>5, <1>9, <1>10 DEF FrameOf, Role
<1>12. Operator(s, y, h)
  BY <1>2, <1>5, <1>8 DEF Operator
<1>13. LogicAwaits(s, y, <<n>>, p, j)
  BY <1>5, <1>7, <1>12, Zenon DEF LogicAwaits
<1>14. FrameAwaits(s, g, p, j)
  BY <1>11, <1>13 DEF FrameAwaits, Awaits
<1>15. Calls(s, g, p, Pipeline, j)
  BY <1>5, <1>11, <1>14, CallsPipeline
<1>16. GoesAs(e, "logic", Pipeline, g)
  BY <1>2, <1>5, <1>6, <1>8, <1>9, <1>10 DEF GoesAs
<1> QED BY <1>5, <1>11, <1>15, <1>16, TurnsTo

LEMMA LogicEndsTree ==
  ASSUME LineInv, LogicEnds
  PROVE  TreeInv' /\ LinesInv'
<1>1. at = "parse" /\ Top.at = "logic"
  BY DEF LogicEnds, Parsing
<1>2. PICK k \in Kind : Peek(k)
  BY DEF LogicEnds
<1>3. PICK S, V, s, f : \E p \in Nat : \E h \in Nat : Peeks(S, V, p, s, f, h, k)
  BY <1>1, <1>2, PeeksOne
<1>4. PICK p \in Nat, h \in Nat : Peeks(S, V, p, s, f, h, k)
  BY <1>3
<1>5. Acts(S, V, p, s, f, h) /\ Now(h) /\ s \in Seq(Kind) /\ f = Top /\ Ran(s, f, p, h)
  BY <1>4 DEF Peeks
<1>6. PICK n : n = LogicNode
  OBVIOUS
<1>7. n.type \in LogicType /\ After(s, n, p, h)
  BY <1>1, <1>5, <1>6, LogicNodeStands DEF LogicNode, NodeOfLogic
<1>8. Role(f) = "logic"
  BY <1>1, <1>5 DEF Role
<1>9. Gives(s, Role(f), n, p, h)
  BY <1>7, <1>8 DEF Gives, TypesOf
<1>10. Return(n)
  BY <1>6 DEF LogicEnds
<1> QED BY <1>5, <1>9, <1>10, TurnsUp

-----------------------------------------------------------------------------
\* a step that takes no token
Keeps(S, V, p, s, f, h) ==
  /\ Acts(S, V, p, s, f, h) /\ Now(h)
  /\ s \in Seq(Kind) /\ f = Top /\ f \in FrameOf(S) /\ Ran(s, f, p, h) /\ Role(f) \in V
LEMMA KeepsOne ==
  ASSUME LineInv, at = "parse", UNCHANGED <<input, read, putback, prompt>>
  PROVE  \E S, V, s, f : \E p \in Nat : \E h \in Nat : Keeps(S, V, p, s, f, h)
<1>1. TokenInv /\ EndInv
  BY DEF LineInv, ParserInv
<1>2. read \in Seq(Kind) /\ Len(read) \in Nat /\ putback \in {0, Len(read)}
  BY <1>1 DEF TokenInv
<1>3. Here \in Nat /\ Here' = Here
  BY <1>2 DEF Here, AtEnd
<1>4. AtEnd' => putback' # 0
  BY <1>1 DEF EndInv, AtEnd
<1>5. Between
  BY <1>2, <1>3, <1>4, PrefixSelf DEF Between
<1>6. PICK S, V, s, f : \E p \in Nat : \E h \in Nat : Acts(S, V, p, s, f, h)
  BY <1>5, Acting
<1>7. PICK p \in Nat, h \in Nat : Acts(S, V, p, s, f, h)
  BY <1>6
<1>8. Keeps(S, V, p, s, f, h)
  BY <1>3, <1>7 DEF Keeps, Acts, Now
<1> QED BY <1>7, <1>8, Zenon

LEMMA TurnsAside ==
  ASSUME NEW S, NEW V, NEW p \in Nat, NEW s, NEW f, NEW h, Acts(S, V, p, s, f, h),
         UNCHANGED <<at, stack, lines>>, NEW j, Now(j), Ran(s, f, p, j)
  PROVE  TreeInv' /\ LinesInv'
<1>1. /\ LinesInv /\ at = "parse" /\ Leads(p, V) /\ input' = input /\ Prefix(read, read')
      /\ s = read' /\ f = Top /\ Role(f) \in V /\ j = Here' /\ StackOf(stack, S)
  BY DEF Acts, Between, Now, Within
<1>2. Runs(s, <<f>>, p, V, j)
  BY <1>1, RunsOne
<1>3. <<f>> \in Seq({f}) /\ <<f>> # <<>>
  OBVIOUS
<1>4. Runs(s, Callers \o <<f>>, Start, Root, j)
  BY <1>1, <1>2, <1>3, Zenon DEF Leads
<1>5. Callers \o <<f>> = stack
  <2>1. stack \in Seq(FrameOf(S)) /\ stack # <<>>
    BY <1>1 DEF StackOf
  <2>2. SubSeq(stack, 1, Len(stack) - 1) \o <<stack[Len(stack)]>> = stack
    BY <2>1
  <2> QED BY <1>1, <2>2 DEF Callers, Top
<1>6. SameLine
  BY <1>1 DEF SameLine
<1>7. Runs(read', stack', Start', Root', Here')
  BY <1>1, <1>4, <1>5, <1>6, LineStays
<1> QED BY <1>1, <1>6, <1>7 DEF TreeInv, LinesInv, SameLine

LEMMA AloneIs ==
  ASSUME NEW s, NEW f, NEW p, NEW h, Ran(s, f, p, h), Needs(f.at) = {}
  PROVE  HasRead(s, f, p, h)
  BY Zenon DEF Ran, Resumed

LEMMA NeedsNone ==
  \A l \in {"terminator", "bang", "command", "compound", "word", "func_open", "func_close", "args", "target",
            "for_name", "for_in", "for_words", "case_word", "in", "item", "pattern", "bar", "case_paren",
            "item_body", "esac"} : Needs(l) = {} /\ l \in Lone
  BY DEF Needs, Lone

LEMMA Relabelled ==
  ASSUME NEW S, NEW e \in FrameOf(S), NEW l, NEW g, g = [e EXCEPT !.at = l]
  PROVE  /\ g.at = l /\ g.kids = e.kids /\ g.words = e.words /\ g.redirs = e.redirs /\ g.assigns = e.assigns
         /\ g.type = e.type /\ g.multi = e.multi
  BY DEF FrameOf

LEMMA ReadsAs ==
  ASSUME NEW s, NEW f, NEW p, NEW h, NEW j, HasRead(s, f, p, h),
         f.at \in SkipsNewlines,
         f.at = "terminator" => EndedTo(s, f.kids, p, j),
         f.at \in {"command", "compound"} => Nls(s, p, j),
         f.at = "item" => CaseTo(s, f.words, f.kids, p, j),
         f.at = "item_body" => BodyTo(s, f.words, f.redirs, f.kids, p, j)
  PROVE  HasRead(s, f, p, j)
<1>1. f.at \in {"terminator", "command", "compound", "item", "item_body"}
  BY DEF SkipsNewlines, HasRead, Lone
<1> QED BY <1>1 DEF HasRead, Lone

LEMMA NewlineRead ==
  ASSUME NEW s \in Seq(Kind), NEW f, f.at \in SkipsNewlines, NEW p \in Nat, NEW h \in Nat, Ran(s, f, p, h),
         Tok(s, h, {"nl"}), NEW j \in Nat, j = h + 1
  PROVE  Ran(s, f, p, j)
<1>1. \A i \in Nat : Nls(s, i, h) => Nls(s, i, j)
  BY NlsMore
<1>2. h \in Nat /\ h <= Len(s) /\ Len(s) \in Nat
  BY TokIs
<1>3. Nls(s, h, j)
  <2>1. Nls(s, h, h)
    BY <1>2, NlsNone
  <2> QED BY <1>1, <2>1
<1>4. ASSUME HasRead(s, f, p, h) PROVE HasRead(s, f, p, j)
  <2>1. f.at = "terminator" => EndedTo(s, f.kids, p, j)
    <3>1. EndedTo(s, f.kids, p, h) => EndedTo(s, f.kids, p, j)
      BY <1>1, Zenon DEF EndedTo
    <3>2. f.at = "terminator" => EndedTo(s, f.kids, p, h)
      BY <1>4 DEF HasRead
    <3> QED BY <3>1, <3>2
  <2>2. f.at \in {"command", "compound"} => Nls(s, p, j)
    <3>1. f.at \in {"command", "compound"} => Nls(s, p, h)
      BY <1>4 DEF HasRead
    <3> QED BY <1>1, <3>1
  <2>3. f.at = "item" => CaseTo(s, f.words, f.kids, p, j)
    <3>1. f.at = "item" => CaseTo(s, f.words, f.kids, p, h)
      BY <1>4 DEF HasRead
    <3>2. ASSUME CaseTo(s, f.words, f.kids, p, h) PROVE CaseTo(s, f.words, f.kids, p, j)
      <4>a. PICK k : k = f.kids
        OBVIOUS
      <4>b. PICK x \in Nat : x = p + 3
        OBVIOUS
      <4>1. k = f.kids /\ x = p + 3
        BY <4>a, <4>b
      <4>2. CaseHead(s, f.words, k, p) /\ p <= h /\ Follows(s, k, Len(k) + 1, x, h)
        BY <3>2, <4>1 DEF CaseTo
      <4>3. \A a : Past(s, a, h) => Past(s, a, j)
        <5>1. \A m \in Nat : m + 1 \in Nat
          OBVIOUS
        <5> QED BY <1>1, <5>1, Zenon DEF Past
      <4>4. Follows(s, k, Len(k) + 1, x, j)
        BY <1>1, <4>2, <4>3, Zenon DEF Follows
      <4>5. p <= j
        BY <4>2
      <4> QED BY <4>1, <4>2, <4>4, <4>5 DEF CaseTo
    <3> QED BY <3>1, <3>2
  <2>4. f.at = "item_body" => BodyTo(s, f.words, f.redirs, f.kids, p, j)
    <3>1. f.at = "item_body" => BodyTo(s, f.words, f.redirs, f.kids, p, h)
      BY <1>4 DEF HasRead
    <3>2. \A m \in Nat : m + 1 \in Nat
      OBVIOUS
    <3> QED BY <1>1, <3>1, <3>2, Zenon DEF BodyTo
  <2> QED BY <1>4, <2>1, <2>2, <2>3, <2>4, ReadsAs
<1>5. ASSUME Resumed(s, f, p, h) PROVE Resumed(s, f, p, j)
  <2>1. f.at = "paren"
    <3>1. Needs(f.at) # {}
      BY <1>5, Zenon DEF Resumed
    <3> QED BY <3>1, NeedsNone DEF SkipsNewlines
  <2>2. \A fam \in Needs(f.at) : fam = "list"
    BY <2>1 DEF Needs
  <2>3. ASSUME NEW n, NEW q \in Nat, Gives(s, "list", n, q, h) PROVE Gives(s, "list", n, q, j)
    <3>1. Listed(s, n, q, h) => Listed(s, n, q, j)
      BY <1>3, ListedMore
    <3> QED BY <2>3, <3>1 DEF Gives
  <2> QED BY <1>5, <2>2, <2>3, Zenon DEF Resumed
<1> QED BY <1>4, <1>5, Zenon DEF Ran

LEMMA SkipNewlineTree ==
  ASSUME LineInv, SkipNewline
  PROVE  TreeInv' /\ LinesInv'
<1>1. at = "parse" /\ Top.at \in SkipsNewlines /\ Take("nl") /\ UNCHANGED <<at, stack, lines>>
  BY DEF SkipNewline
<1>3. PICK S, V, s, f : \E p \in Nat : \E h \in Nat : \E j \in Nat : Takes(S, V, p, s, f, h, j, "nl")
  BY <1>1, Tokens, TakesOne
<1>4. PICK p \in Nat, h \in Nat, j \in Nat : Takes(S, V, p, s, f, h, j, "nl")
  BY <1>3
<1>5. /\ Acts(S, V, p, s, f, h) /\ Now(j) /\ j = h + 1 /\ Tok(s, h, {"nl"})
      /\ s \in Seq(Kind) /\ f = Top /\ Ran(s, f, p, h)
  BY <1>4 DEF Takes
<1>6. Ran(s, f, p, j)
  BY <1>1, <1>5, NewlineRead
<1> QED BY <1>1, <1>5, <1>6, TurnsAside

-----------------------------------------------------------------------------
LEMMA PipelineBangTree ==
  ASSUME LineInv, PipelineBang
  PROVE  TreeInv' /\ LinesInv'
<1>1. at = "parse" /\ Top.at = "bang"
  BY DEF PipelineBang, Parsing
<1>a. ASSUME NEW s, NEW f, NEW p, NEW h, f = Top, Ran(s, f, p, h)
      PROVE  f.at = "bang" /\ f.kids = <<>> /\ p = h /\ Role(f) = "pipeline"
  <2>1. HasRead(s, f, p, h)
    BY <1>1, <1>a, NeedsNone, AloneIs
  <2> QED BY <1>1, <1>a, <2>1 DEF HasRead, Role
<1>2. CASE Take("!") /\ GoOn(Top, "negate", SimplePipeline)
  <2>3. PICK S, V, s, f : \E p \in Nat : \E h \in Nat : \E j \in Nat : Takes(S, V, p, s, f, h, j, "!")
    BY <1>1, <1>2, Tokens, TakesOne
  <2>4. PICK p \in Nat, h \in Nat, j \in Nat : Takes(S, V, p, s, f, h, j, "!")
    BY <2>3
  <2>5. /\ Acts(S, V, p, s, f, h) /\ Now(j) /\ j = h + 1 /\ j <= Len(s) + 1 /\ Tok(s, h, {"!"})
        /\ s \in Seq(Kind) /\ f = Top /\ f \in FrameOf(S) /\ Ran(s, f, p, h) /\ Role(f) \in V
    BY <2>4 DEF Takes
  <2>6. f.at = "bang" /\ f.kids = <<>> /\ p = h /\ Role(f) = "pipeline"
    BY <1>a, <2>5
  <2>7. PICK g : g = [f EXCEPT !.at = "negate"]
    OBVIOUS
  <2>8. g.at = "negate" /\ g.kids = <<>>
    BY <2>5, <2>6, <2>7, Relabelled
  <2>9. Role(g) \in V
    BY <2>5, <2>6, <2>8 DEF Role
  <2>10. FrameAwaits(s, g, p, j)
    BY <2>5, <2>6, <2>8 DEF FrameAwaits, Awaits, NegateAwaits
  <2>11. Calls(s, g, p, SimplePipeline, j)
    BY <2>5, <2>8, <2>10, CallsSimplePipeline
  <2>12. GoesAs(f, "negate", SimplePipeline, g)
    BY <1>2, <2>5, <2>7 DEF GoesAs
  <2> QED BY <2>5, <2>9, <2>11, <2>12, TurnsTo
<1>3. CASE (\E k \in Kind \ {"!"} : Peek(k)) /\ TailCall(SimplePipeline)
  <2>2. PICK k \in Kind : Peek(k)
    BY <1>3
  <2>3. PICK S, V, s, f : \E p \in Nat : \E h \in Nat : Peeks(S, V, p, s, f, h, k)
    BY <1>1, <2>2, PeeksOne
  <2>4. PICK p \in Nat, h \in Nat : Peeks(S, V, p, s, f, h, k)
    BY <2>3
  <2>5. /\ Acts(S, V, p, s, f, h) /\ Now(h) /\ s \in Seq(Kind) /\ f = Top /\ Ran(s, f, p, h)
        /\ h <= Len(s) /\ Role(f) \in V
    BY <2>4 DEF Peeks
  <2>6. p = h /\ Role(f) = "pipeline"
    BY <1>a, <2>5
  <2>7. "stage" \in V
    BY <2>5, <2>6 DEF Acts, Within
  <2>8. h <= Len(s) + 1
    BY <2>5
  <2>9. Runs(s, SimplePipeline, h, V, h)
    BY <2>5, <2>7, <2>8, SimplePipelineRuns
  <2>10. PICK T : SimplePipeline \in Seq(T) /\ SimplePipeline # <<>>
    BY SimplePipelineCalled DEF StackOf
  <2>11. h = Here'
    BY <2>5 DEF Now
  <2> QED BY <1>3, <2>5, <2>6, <2>9, <2>10, <2>11, TurnsOver
<1> QED BY <1>2, <1>3 DEF PipelineBang

LEMMA StageStands ==
  ASSUME NEW s \in Seq(Kind), NEW f, f.at = "stage", NEW p \in Nat, NEW h \in Nat, Ran(s, f, p, h)
  PROVE  \E n : f.kids = <<n>> /\ f.kids[1] = n /\ n.type \in CommandType /\ After(s, n, p, h)
<1>1. Resumed(s, f, p, h)
  BY ResumedIs DEF Lone
<1>2. PICK T, n : \E k \in Seq(T) : \E q \in Nat : \E fam \in Needs(f.at) :
        /\ Awaits(s, f.at, f.type, f.words, f.redirs, k, p, q)
        /\ f.kids = Append(k, n) /\ Gives(s, fam, n, q, h)
  BY <1>1, Zenon DEF Resumed
<1>3. PICK k \in Seq(T), q \in Nat, fam \in Needs(f.at) :
        /\ Awaits(s, f.at, f.type, f.words, f.redirs, k, p, q)
        /\ f.kids = Append(k, n) /\ Gives(s, fam, n, q, h)
  BY <1>2
<1>4. k = <<>> /\ q = p
  BY <1>3, Zenon DEF Awaits, StageAwaits
<1>5. fam \in {"command", "compound"}
  BY <1>3 DEF Needs
<1>6. n.type \in CommandType /\ After(s, n, p, h)
  BY <1>3, <1>4, <1>5, LogicTypes DEF Gives, TypesOf
<1>7. f.kids = <<n>>
  BY <1>3, <1>4, Appended
<1> QED BY <1>6, <1>7

LEMMA PipelineBarTree ==
  ASSUME LineInv, PipelineBar
  PROVE  TreeInv' /\ LinesInv'
<1>1. at = "parse" /\ Top.at = "stage"
  BY DEF PipelineBar, Parsing
<1>2. CASE Take("|") /\ GoOn(Top, "pipe", SimplePipeline)
  <2>3. PICK S, V, s, f : \E p \in Nat : \E h \in Nat : \E j \in Nat : Takes(S, V, p, s, f, h, j, "|")
    BY <1>1, <1>2, Tokens, TakesOne
  <2>4. PICK p \in Nat, h \in Nat, j \in Nat : Takes(S, V, p, s, f, h, j, "|")
    BY <2>3
  <2>5. /\ Acts(S, V, p, s, f, h) /\ Now(j) /\ j = h + 1 /\ j <= Len(s) + 1 /\ Tok(s, h, {"|"})
        /\ s \in Seq(Kind) /\ f = Top /\ f \in FrameOf(S) /\ Ran(s, f, p, h) /\ Role(f) \in V
    BY <2>4 DEF Takes
  <2>6. PICK n : f.kids = <<n>> /\ f.kids[1] = n /\ n.type \in CommandType /\ After(s, n, p, h)
    BY <1>1, <2>5, StageStands
  <2>7. PICK g : g = [f EXCEPT !.at = "pipe"]
    OBVIOUS
  <2>8. g.at = "pipe" /\ g.kids = <<n>>
    BY <2>5, <2>6, <2>7, Relabelled
  <2>9. Role(g) \in V
    BY <1>1, <2>5, <2>8 DEF Role
  <2>a. PipeAwaits(s, <<n>>, p, j)
    BY <2>5, <2>6, Zenon DEF PipeAwaits
  <2>10. FrameAwaits(s, g, p, j)
    BY <2>a, <2>8 DEF FrameAwaits, Awaits
  <2>11. Calls(s, g, p, SimplePipeline, j)
    BY <2>5, <2>8, <2>10, CallsSimplePipeline
  <2>12. GoesAs(f, "pipe", SimplePipeline, g)
    BY <1>2, <2>5, <2>7 DEF GoesAs
  <2> QED BY <2>5, <2>9, <2>11, <2>12, TurnsTo
<1>3. CASE (\E k \in Kind \ {"|"} : Peek(k)) /\ Return(Top.kids[1])
  <2>2. PICK k \in Kind : Peek(k)
    BY <1>3
  <2>3. PICK S, V, s, f : \E p \in Nat : \E h \in Nat : Peeks(S, V, p, s, f, h, k)
    BY <1>1, <2>2, PeeksOne
  <2>4. PICK p \in Nat, h \in Nat : Peeks(S, V, p, s, f, h, k)
    BY <2>3
  <2>5. Acts(S, V, p, s, f, h) /\ Now(h) /\ s \in Seq(Kind) /\ f = Top /\ Ran(s, f, p, h)
    BY <2>4 DEF Peeks
  <2>6. PICK n : f.kids = <<n>> /\ f.kids[1] = n /\ n.type \in CommandType /\ After(s, n, p, h)
    BY <1>1, <2>5, StageStands
  <2>7. Role(f) = "stage"
    BY <1>1, <2>5 DEF Role
  <2>8. Gives(s, Role(f), n, p, h)
    BY <2>6, <2>7, LogicTypes DEF Gives, TypesOf
  <2>9. Return(n)
    BY <1>3, <2>5, <2>6
  <2> QED BY <2>5, <2>8, <2>9, TurnsUp
<1> QED BY <1>2, <1>3 DEF PipelineBar

LEMMA NegateNode ==
  ASSUME NEW s \in Seq(Kind), NEW f, f.at = "negate", NEW p \in Nat, NEW h \in Nat, Ran(s, f, p, h)
  PROVE  Node("negate", f.kids).type = "negate" /\ After(s, Node("negate", f.kids), p, h)
<1>1. Resumed(s, f, p, h)
  BY ResumedIs DEF Lone
<1>2. PICK T, n : \E k \in Seq(T) : \E q \in Nat : \E fam \in Needs(f.at) :
        /\ Awaits(s, f.at, f.type, f.words, f.redirs, k, p, q)
        /\ f.kids = Append(k, n) /\ Gives(s, fam, n, q, h)
  BY <1>1, Zenon DEF Resumed
<1>3. PICK k \in Seq(T), q \in Nat, fam \in Needs(f.at) :
        /\ Awaits(s, f.at, f.type, f.words, f.redirs, k, p, q)
        /\ f.kids = Append(k, n) /\ Gives(s, fam, n, q, h)
  BY <1>2
<1>4. k = <<>> /\ Tok(s, p, {"!"}) /\ q = p + 1
  BY <1>3, Zenon DEF Awaits, NegateAwaits
<1>5. fam = "stage"
  BY <1>3 DEF Needs
<1>6. n.type \in StageType /\ After(s, n, p + 1, h)
  BY <1>3, <1>4, <1>5 DEF Gives, TypesOf
<1>7. f.kids = <<n>>
  BY <1>3, <1>4, Appended
<1>8. PICK a : a = Node("negate", <<n>>)
  OBVIOUS
<1>9. Bare(s, a, p, h)
  BY <1>4, <1>6, <1>8, NegateStands
<1>10. a.type = "negate"
  BY <1>8, MadeOfOne
<1>11. Nls(s, p, p)
  <2>1. p <= Len(s) /\ Len(s) \in Nat
    BY <1>4, TokIs
  <2> QED BY <2>1, NlsNone
<1> QED BY <1>7, <1>8, <1>9, <1>10, <1>11, NotBare, AfterBare

LEMMA PipeNode ==
  ASSUME NEW s \in Seq(Kind), NEW f, f.at = "pipe", NEW p \in Nat, NEW h \in Nat, Ran(s, f, p, h)
  PROVE  Node("pipe", f.kids).type = "pipe" /\ After(s, Node("pipe", f.kids), p, h)
<1>1. Resumed(s, f, p, h)
  BY ResumedIs DEF Lone
<1>2. PICK T, n : \E k \in Seq(T) : \E q \in Nat : \E fam \in Needs(f.at) :
        /\ Awaits(s, f.at, f.type, f.words, f.redirs, k, p, q)
        /\ f.kids = Append(k, n) /\ Gives(s, fam, n, q, h)
  BY <1>1, Zenon DEF Resumed
<1>3. PICK k \in Seq(T), q \in Nat, fam \in Needs(f.at) :
        /\ Awaits(s, f.at, f.type, f.words, f.redirs, k, p, q)
        /\ f.kids = Append(k, n) /\ Gives(s, fam, n, q, h)
  BY <1>2
<1>a. PipeAwaits(s, k, p, q)
  BY <1>3, Zenon DEF Awaits
<1>b. PICK c : k = <<c>> /\ c.type \in CommandType /\ \E m \in Nat : After(s, c, p, m) /\ Tok(s, m, {"|"}) /\ q = m + 1
  BY <1>a, Zenon DEF PipeAwaits
<1>c. PICK m \in Nat : After(s, c, p, m) /\ Tok(s, m, {"|"}) /\ q = m + 1
  BY <1>b
<1>5. fam = "stage"
  BY <1>3 DEF Needs
<1>6. n.type \in StageType /\ After(s, n, m + 1, h)
  BY <1>3, <1>c, <1>5 DEF Gives, TypesOf
<1>7. f.kids = <<c, n>>
  BY <1>3, <1>b, Appended
<1>8. PICK a : a = Node("pipe", <<c, n>>)
  OBVIOUS
<1>d. PICK i \in Nat : Nls(s, p, i) /\ Stand(s, c, i, m)
  BY <1>c, Zenon DEF After
<1>9. Bare(s, a, i, h)
  BY <1>b, <1>c, <1>d, <1>6, <1>8, JoinedStand
<1>10. a.type = "pipe"
  BY <1>8, MadeOfTwo
<1> QED BY <1>7, <1>8, <1>9, <1>10, <1>d, NotBare, AfterBare

LEMMA PipelineEndsTree ==
  ASSUME LineInv, PipelineEnds
  PROVE  TreeInv' /\ LinesInv'
<1>1. at = "parse" /\ Top.at \in {"negate", "pipe"} /\ UNCHANGED <<input, read, putback, prompt>>
  BY DEF PipelineEnds
<1>3. PICK S, V, s, f : \E p \in Nat : \E h \in Nat : Keeps(S, V, p, s, f, h)
  BY <1>1, KeepsOne
<1>4. PICK p \in Nat, h \in Nat : Keeps(S, V, p, s, f, h)
  BY <1>3
<1>5. Acts(S, V, p, s, f, h) /\ Now(h) /\ s \in Seq(Kind) /\ f = Top /\ Ran(s, f, p, h)
  BY <1>4 DEF Keeps
<1>6. PICK n : n = Node(f.at, f.kids)
  OBVIOUS
<1>7. Gives(s, Role(f), n, p, h)
  <2>1. CASE f.at = "negate"
    <3>1. Role(f) = "pipeline"
      BY <2>1 DEF Role
    <3>2. n.type = "negate" /\ After(s, n, p, h)
      BY <2>1, <1>5, <1>6, NegateNode
    <3> QED BY <3>1, <3>2, LogicTypes DEF Gives, TypesOf
  <2>2. CASE f.at = "pipe"
    <3>1. Role(f) = "stage"
      BY <2>2 DEF Role
    <3>2. n.type = "pipe" /\ After(s, n, p, h)
      BY <2>2, <1>5, <1>6, PipeNode
    <3> QED BY <3>1, <3>2, LogicTypes DEF Gives, TypesOf
  <2> QED BY <2>1, <2>2, <1>1, <1>5
<1>8. Return(n)
  BY <1>5, <1>6 DEF PipelineEnds
<1> QED BY <1>5, <1>7, <1>8, TurnsUp

-----------------------------------------------------------------------------
(***************************************************************************)
(* Simple commands.                                                        *)
(***************************************************************************)
LEMMA SizeIs ==
  ASSUME NEW n, Numbered(n)
  PROVE  /\ Size(n) \in Nat /\ Len(n.words) \in Nat /\ Len(n.assigns) \in Nat /\ Len(n.redirs) \in Nat
         /\ Size(n) = Len(n.words) + Len(n.assigns) + 2 * Len(n.redirs)
<1>1. PICK a \in Nat, b \in Nat, c \in Nat : Len(n.words) = a /\ Len(n.assigns) = b /\ Len(n.redirs) = c
  BY DEF Numbered
<1>2. Size(n) = a + b + 2 * c
  BY <1>1, Zenon DEF Size
<1> QED BY <1>1, <1>2

Elements(q) == {q[i] : i \in DOMAIN q}
LEMMA MoreOf ==
  ASSUME NEW q \in Seq(Nat), NEW x \in Nat
  PROVE  LET r == Append(q, x) IN
         /\ r \in Seq(Nat) /\ Len(r) = Len(q) + 1 /\ Len(q) \in Nat /\ r # <<>>
         /\ Elements(r) = Elements(q) \cup {x}
         /\ \A i \in DOMAIN r : (i \in DOMAIN q /\ r[i] = q[i]) \/ (i = Len(q) + 1 /\ r[i] = x)
         /\ InOrder(q) /\ (\A i \in DOMAIN q : q[i] < x) => InOrder(r)
<1>a. PICK r : r = Append(q, x)
  OBVIOUS
<1>1. PICK l \in Nat : l = Len(q)
  OBVIOUS
<1>2. r \in Seq(Nat) /\ Len(r) = l + 1 /\ r[l + 1] = x /\ \A i \in 1..l : r[i] = q[i]
  BY <1>1, <1>a
<1>3. DOMAIN r = 1..(l + 1) /\ DOMAIN q = 1..l
  BY <1>1, <1>2
<1>4. \A i \in 1..(l + 1) : i \in 1..l \/ i = l + 1
  OBVIOUS
<1>5. \A i \in DOMAIN r : (i \in DOMAIN q /\ r[i] = q[i]) \/ (i = l + 1 /\ r[i] = x)
  BY <1>2, <1>3, <1>4
<1>6. l + 1 \in DOMAIN r /\ DOMAIN q \subseteq DOMAIN r
  BY <1>3
<1>7. Elements(r) = Elements(q) \cup {x}
  <2>1. \A i \in DOMAIN q : r[i] = q[i]
    BY <1>2, <1>3
  <2> QED BY <1>2, <1>5, <1>6, <2>1 DEF Elements
<1>8. ASSUME InOrder(q), \A i \in DOMAIN q : q[i] < x PROVE InOrder(r)
  <2> SUFFICES ASSUME NEW i \in 1..(l + 1), NEW j \in 1..(l + 1), i < j PROVE r[i] < r[j]
    BY <1>3 DEF InOrder
  <2>1. i \in 1..l
    OBVIOUS
  <2>2. r[i] = q[i]
    BY <1>2, <2>1
  <2>3. CASE j \in 1..l
    <3>1. r[j] = q[j]
      BY <1>2, <2>3
    <3> QED BY <1>3, <1>8, <2>1, <2>2, <2>3, <3>1 DEF InOrder
  <2>4. CASE j = l + 1
    BY <1>2, <1>3, <1>8, <2>1, <2>2, <2>4
  <2> QED BY <2>3, <2>4, <1>4
<1> QED BY <1>a, <1>1, <1>2, <1>5, <1>7, <1>8

LEMMA CoveredIs ==
  ASSUME NEW n
  PROVE  Covered(n) = Elements(n.words) \cup Elements(n.assigns) \cup Elements(n.redirs) \cup {x + 1 : x \in Elements(n.redirs)}
<1>1. {x + 1 : x \in Elements(n.redirs)} = {n.redirs[i] + 1 : i \in DOMAIN n.redirs}
  BY DEF Elements
<1> QED BY <1>1, Zenon DEF Covered, Elements

LEMMA LengthZero == ASSUME NEW q \in Seq(Nat), Len(q) = 0 PROVE q = <<>>
  OBVIOUS

LEMMA SameParts ==
  ASSUME NEW n, NEW m, m.words = n.words, m.assigns = n.assigns, m.redirs = n.redirs
  PROVE  /\ Size(m) = Size(n) /\ Covered(m) = Covered(n)
         /\ \A s, i, open : Assembled(s, n, i, open) => Assembled(s, m, i, open)
<1>1. Size(m) = Size(n) /\ Covered(m) = Covered(n)
  BY Zenon DEF Size, Covered
<1>2. ASSUME NEW s, NEW i, NEW open, Assembled(s, n, i, open) PROVE Assembled(s, m, i, open)
  BY <1>1, <1>2, Zenon DEF Assembled
<1> QED BY <1>1, <1>2

\* what stands in a command that is read up to h
Before(n, i, h) ==
  /\ \A x \in DOMAIN n.words : n.words[x] < h
  /\ \A x \in DOMAIN n.assigns : n.assigns[x] < h
  /\ \A x \in DOMAIN n.redirs : n.redirs[x] < h
LEMMA AllBefore ==
  ASSUME NEW s, NEW n, Numbered(n), NEW i \in Nat, NEW open, Assembled(s, n, i, open), NEW h \in Nat, h = i + Size(n)
  PROVE  Before(n, i, h)
<1>1. Covered(n) = i..(i + Size(n) - 1) /\ Size(n) \in Nat
  BY SizeIs DEF Assembled
<1>2. \A x \in Covered(n) : x < h
  BY <1>1
<1>3. /\ \A x \in DOMAIN n.words : n.words[x] \in Covered(n)
      /\ \A x \in DOMAIN n.assigns : n.assigns[x] \in Covered(n)
      /\ \A x \in DOMAIN n.redirs : n.redirs[x] \in Covered(n)
  BY Zenon DEF Covered
<1> QED BY <1>2, <1>3, Zenon DEF Before

LEMMA AssembledParts ==
  ASSUME NEW s, NEW n, NEW i, NEW open, Assembled(s, n, i, open)
  PROVE  /\ Size(n) > 0 /\ Covered(n) = i..(i + Size(n) - 1)
         /\ InOrder(n.words) /\ InOrder(n.assigns) /\ InOrder(n.redirs)
         /\ \A m \in DOMAIN n.redirs : /\ Tok(s, n.redirs[m], RedirKind)
                                       /\ Tok(s, n.redirs[m] + 1, WordKind) \/ (open /\ n.redirs[m] + 1 = i + Size(n) - 1)
         /\ \A m \in DOMAIN n.assigns : Tok(s, n.assigns[m], {"assign"}) /\ n.assigns[m] = i + m - 1
         /\ \A m \in DOMAIN n.words : Tok(s, n.words[m], WordKind)
         /\ i + Len(n.assigns) \in Elements(n.words) => Tok(s, i + Len(n.assigns), WordKind \ {"assign"})
         /\ Tok(s, i, Kind \ Reserved)
  BY Zenon DEF Assembled, Elements

\* one more word
\* n is read from i up to h; m has one more word, assignment or redirection, at h
Upto(s, n, i, h) == Numbered(n) /\ h = i + Size(n) /\ Assembled(s, n, i, FALSE)
UptoOpen(s, n, i, h) == Numbered(n) /\ h = i + Size(n) - 1 /\ Assembled(s, n, i, TRUE)
Beyond(h, j) == j = h + 1
WordAt(n, m, h) == m.words = Append(n.words, h) /\ m.assigns = n.assigns /\ m.redirs = n.redirs
AssignAt(n, m, h) == m.words = n.words /\ m.assigns = Append(n.assigns, h) /\ m.redirs = n.redirs
RedirAt(n, m, h) == m.words = n.words /\ m.assigns = n.assigns /\ m.redirs = Append(n.redirs, h)
LEMMA WordMore ==
  ASSUME NEW s \in Seq(Kind), NEW n, NEW i \in Nat, NEW h \in Nat, Upto(s, n, i, h), NEW j, Beyond(h, j),
         NEW m, WordAt(n, m, h),
         NEW k, Tok(s, h, {k}), k \in WordKind, ~(k = "assign" /\ n.words = <<>> /\ n.redirs = <<>>)
  PROVE  Upto(s, m, i, j)
<1> USE DEF Upto, UptoOpen, Beyond, WordAt
<1>1. PICK w \in Seq(Nat) : w = n.words
  BY DEF Numbered
<1>2. PICK v : v = Append(w, h)
  OBVIOUS
<1>3. PICK a \in Seq(Nat), r \in Seq(Nat) : a = n.assigns /\ r = n.redirs
  BY DEF Numbered
<1>4. m.words = v /\ m.assigns = a /\ m.redirs = r /\ n.words = w
  BY <1>1, <1>2, <1>3
<1>5. /\ v \in Seq(Nat) /\ Len(v) = Len(w) + 1 /\ Len(w) \in Nat
      /\ Elements(v) = Elements(w) \cup {h}
      /\ \A x \in DOMAIN v : (x \in DOMAIN w /\ v[x] = w[x]) \/ (x = Len(w) + 1 /\ v[x] = h)
      /\ InOrder(w) /\ (\A x \in DOMAIN w : w[x] < h) => InOrder(v)
  BY <1>2, MoreOf, Zenon
<1>6. Numbered(m)
  BY <1>4, <1>5 DEF Numbered
<1>7. Size(m) = Size(n) + 1 /\ Size(n) \in Nat
  <2>1. PICK x \in Nat, y \in Nat, z \in Nat : x = Len(w) /\ y = Len(a) /\ z = Len(r)
    BY <1>5
  <2>2. Size(n) = x + y + 2 * z
    BY <1>3, <1>4, <2>1, Zenon DEF Size
  <2>3. Size(m) = (x + 1) + y + 2 * z
    BY <1>4, <1>5, <2>1, Zenon DEF Size
  <2>4. PICK b, c : b = Size(n) /\ c = Size(m)
    OBVIOUS
  <2>5. b = x + y + 2 * z /\ c = (x + 1) + y + 2 * z
    BY <2>2, <2>3, <2>4, Zenon
  <2>6. c = b + 1 /\ b \in Nat
    BY <2>5
  <2> QED BY <2>4, <2>6, Zenon
<1>p. /\ Size(n) > 0 /\ Covered(n) = i..(i + Size(n) - 1)
      /\ InOrder(n.words) /\ InOrder(n.assigns) /\ InOrder(n.redirs)
      /\ \A x \in DOMAIN n.redirs : /\ Tok(s, n.redirs[x], RedirKind)
                                    /\ Tok(s, n.redirs[x] + 1, WordKind) \/ (FALSE /\ n.redirs[x] + 1 = i + Size(n) - 1)
      /\ \A x \in DOMAIN n.assigns : Tok(s, n.assigns[x], {"assign"}) /\ n.assigns[x] = i + x - 1
      /\ \A x \in DOMAIN n.words : Tok(s, n.words[x], WordKind)
      /\ i + Len(n.assigns) \in Elements(n.words) => Tok(s, i + Len(n.assigns), WordKind \ {"assign"})
      /\ Tok(s, i, Kind \ Reserved)
  BY AssembledParts, Zenon
<1>8. /\ Size(n) > 0 /\ Covered(n) = i..(i + Size(n) - 1)
      /\ InOrder(w) /\ InOrder(a) /\ InOrder(r)
      /\ \A x \in DOMAIN r : Tok(s, r[x], RedirKind) /\ Tok(s, r[x] + 1, WordKind)
      /\ \A x \in DOMAIN a : Tok(s, a[x], {"assign"}) /\ a[x] = i + x - 1
      /\ \A x \in DOMAIN w : Tok(s, w[x], WordKind)
      /\ i + Len(a) \in Elements(w) => Tok(s, i + Len(a), WordKind \ {"assign"})
      /\ Tok(s, i, Kind \ Reserved)
  BY <1>p, <1>1, <1>3
<1>9. Covered(m) = i..(i + Size(m) - 1)
  <2>1. Covered(m) = Covered(n) \cup {h}
    <3>1. Covered(m) = Elements(v) \cup Elements(a) \cup Elements(r) \cup {x + 1 : x \in Elements(r)}
      BY <1>4, CoveredIs
    <3>2. Covered(n) = Elements(w) \cup Elements(a) \cup Elements(r) \cup {x + 1 : x \in Elements(r)}
      BY <1>1, <1>3, CoveredIs
    <3>3. PICK X : X = {x + 1 : x \in Elements(r)}
      OBVIOUS
    <3> QED BY <3>1, <3>2, <3>3, <1>5
  <2>2. PICK z \in Nat : z = Size(n)
    BY <1>7
  <2>3. i..(i + (z + 1) - 1) = i..(i + z - 1) \cup {h}
    <3>1. h = i + z
      BY <2>2
    <3>2. \A x \in Int : x \in i..(i + (z + 1) - 1) <=> x \in i..(i + z - 1) \/ x = i + z
      OBVIOUS
    <3>3. h \in Int
      OBVIOUS
    <3> QED BY <3>1, <3>2, <3>3
  <2> QED BY <2>1, <2>2, <2>3, <1>7, <1>8
<1>10. InOrder(v)
  <2>1. Before(n, i, h)
    BY AllBefore
  <2> QED BY <2>1, <1>1, <1>5, <1>8 DEF Before
<1>11. \A x \in DOMAIN v : Tok(s, v[x], WordKind)
  <2>1. Tok(s, h, WordKind)
    BY TokOf
  <2> QED BY <1>5, <1>8, <2>1
<1>12. ASSUME i + Len(a) \in Elements(v) PROVE Tok(s, i + Len(a), WordKind \ {"assign"})
  <2>1. CASE i + Len(a) \in Elements(w)
    BY <1>8, <2>1
  <2>2. CASE i + Len(a) = h
    <3>1. PICK x \in Nat, y \in Nat, z \in Nat : x = Len(w) /\ y = Len(a) /\ z = Len(r)
      BY <1>5
    <3>2. Size(n) = x + y + 2 * z
      BY <1>3, <1>4, <3>1, Zenon DEF Size
    <3>3. x = 0 /\ z = 0
      BY <2>2, <3>1, <3>2
    <3>a. Len(w) = 0 /\ Len(r) = 0
      BY <3>1, <3>3
    <3>4. w = <<>> /\ r = <<>>
      BY <3>a, LengthZero
    <3>5. k # "assign"
      BY <1>3, <1>4, <3>4
    <3> QED BY <2>2, <3>5 DEF Tok
  <2> QED BY <2>1, <2>2, <1>5, <1>12
<1>13. Size(m) > 0 /\ h + 1 = i + Size(m)
  <2>1. PICK z \in Nat : z = Size(n)
    BY <1>7
  <2>2. Size(m) = z + 1 /\ h = i + z
    BY <1>7, <2>1
  <2> QED BY <2>2
<1>q. Assembled(s, m, i, FALSE) /\ h + 1 = i + Size(m)
  BY <1>4, <1>8, <1>9, <1>10, <1>11, <1>12, <1>13, Zenon DEF Assembled, Elements
<1>n. Numbered(m)
  BY MoreOf DEF Numbered
<1> QED BY <1>q, <1>n

\* one more assignment
LEMMA AssignMore ==
  ASSUME NEW s \in Seq(Kind), NEW n, NEW i \in Nat, NEW h \in Nat, Upto(s, n, i, h), NEW j, Beyond(h, j),
         NEW m, AssignAt(n, m, h),
         Tok(s, h, {"assign"}), n.words = <<>>, n.redirs = <<>>
  PROVE  Upto(s, m, i, j)
<1> USE DEF Upto, UptoOpen, Beyond, AssignAt
<1>1. PICK a \in Seq(Nat) : a = n.assigns
  BY DEF Numbered
<1>2. PICK v : v = Append(a, h)
  OBVIOUS
<1>3. PICK e \in Seq(Nat) : e = <<>>
  BY DEF Numbered
<1>4. m.words = e /\ m.assigns = v /\ m.redirs = e /\ n.words = e /\ n.redirs = e
  BY <1>1, <1>2, <1>3
<1>5. /\ v \in Seq(Nat) /\ Len(v) = Len(a) + 1 /\ Len(a) \in Nat
      /\ Elements(v) = Elements(a) \cup {h}
      /\ \A x \in DOMAIN v : (x \in DOMAIN a /\ v[x] = a[x]) \/ (x = Len(a) + 1 /\ v[x] = h)
      /\ InOrder(a) /\ (\A x \in DOMAIN a : a[x] < h) => InOrder(v)
  BY <1>2, MoreOf, Zenon
<1>e. Len(e) = 0 /\ DOMAIN e = {} /\ Elements(e) = {} /\ InOrder(e)
  <2>1. Len(e) = 0 /\ DOMAIN e = {}
    BY <1>3
  <2> QED BY <2>1 DEF Elements, InOrder
<1>7. Size(m) = Size(n) + 1 /\ Size(n) = Len(a)
  <2>1. PICK x \in Nat : x = Len(a)
    BY <1>5
  <2>2. Size(n) = 0 + x + 2 * 0
    BY <1>1, <1>4, <1>e, <2>1, Zenon DEF Size
  <2>3. Size(m) = 0 + (x + 1) + 2 * 0
    BY <1>4, <1>5, <1>e, <2>1, Zenon DEF Size
  <2> QED BY <2>1, <2>2, <2>3
<1>p. /\ Size(n) > 0 /\ Covered(n) = i..(i + Size(n) - 1)
      /\ InOrder(n.words) /\ InOrder(n.assigns) /\ InOrder(n.redirs)
      /\ \A x \in DOMAIN n.redirs : /\ Tok(s, n.redirs[x], RedirKind)
                                    /\ Tok(s, n.redirs[x] + 1, WordKind) \/ (FALSE /\ n.redirs[x] + 1 = i + Size(n) - 1)
      /\ \A x \in DOMAIN n.assigns : Tok(s, n.assigns[x], {"assign"}) /\ n.assigns[x] = i + x - 1
      /\ \A x \in DOMAIN n.words : Tok(s, n.words[x], WordKind)
      /\ i + Len(n.assigns) \in Elements(n.words) => Tok(s, i + Len(n.assigns), WordKind \ {"assign"})
      /\ Tok(s, i, Kind \ Reserved)
  BY AssembledParts, Zenon
<1>8. /\ Size(n) > 0 /\ Covered(n) = i..(i + Size(n) - 1) /\ InOrder(a)
      /\ \A x \in DOMAIN a : Tok(s, a[x], {"assign"}) /\ a[x] = i + x - 1
      /\ Tok(s, i, Kind \ Reserved)
  BY <1>p, <1>1
<1>9. Covered(m) = i..(i + Size(m) - 1)
  <2>1. Covered(m) = Covered(n) \cup {h}
    <3>1. Covered(m) = Elements(e) \cup Elements(v) \cup Elements(e) \cup {x + 1 : x \in Elements(e)}
      BY <1>4, CoveredIs
    <3>2. Covered(n) = Elements(e) \cup Elements(a) \cup Elements(e) \cup {x + 1 : x \in Elements(e)}
      BY <1>1, <1>4, CoveredIs
    <3>3. PICK X : X = {x + 1 : x \in Elements(e)}
      OBVIOUS
    <3> QED BY <3>1, <3>2, <3>3, <1>5
  <2>2. PICK z \in Nat : z = Size(n)
    BY <1>5, <1>7
  <2>3. i..(i + (z + 1) - 1) = i..(i + z - 1) \cup {h}
    <3>1. h = i + z
      BY <2>2
    <3>2. \A x \in Int : x \in i..(i + (z + 1) - 1) <=> x \in i..(i + z - 1) \/ x = i + z
      OBVIOUS
    <3>3. h \in Int
      OBVIOUS
    <3> QED BY <3>1, <3>2, <3>3
  <2> QED BY <2>1, <2>2, <2>3, <1>7, <1>8
<1>10. InOrder(v)
  <2>1. Before(n, i, h)
    BY AllBefore
  <2> QED BY <2>1, <1>1, <1>5, <1>8 DEF Before
<1>11. \A x \in DOMAIN v : Tok(s, v[x], {"assign"}) /\ v[x] = i + x - 1
  <2>1. h = i + (Len(a) + 1) - 1
    BY <1>5, <1>7
  <2> QED BY <1>5, <1>8, <2>1
<1>13. Size(m) > 0 /\ h + 1 = i + Size(m)
  BY <1>5, <1>7
<1>q. Assembled(s, m, i, FALSE) /\ h + 1 = i + Size(m)
  BY <1>4, <1>e, <1>8, <1>9, <1>10, <1>11, <1>13, Zenon DEF Assembled, Elements
<1>n. Numbered(m)
  BY MoreOf DEF Numbered
<1> QED BY <1>q, <1>n

LEMMA TwoMore ==
  ASSUME NEW i \in Nat, NEW z \in Nat
  PROVE  i..(i + (z + 2) - 1) = i..(i + z - 1) \cup {i + z, i + z + 1}
<1>1. \A x \in Int : x \in i..(i + (z + 2) - 1) <=> x \in i..(i + z - 1) \/ x = i + z \/ x = i + z + 1
  OBVIOUS
<1> QED BY <1>1

\* one more redirection, whose target is missing
LEMMA RedirMore ==
  ASSUME NEW s \in Seq(Kind), NEW n, NEW i \in Nat, NEW h \in Nat, Upto(s, n, i, h), NEW j, Beyond(h, j),
         NEW m, RedirAt(n, m, h),
         Tok(s, h, RedirKind)
  PROVE  UptoOpen(s, m, i, j)
<1> USE DEF Upto, UptoOpen, Beyond, RedirAt
<1>1. PICK w \in Seq(Nat), a \in Seq(Nat), r \in Seq(Nat) : w = n.words /\ a = n.assigns /\ r = n.redirs
  BY DEF Numbered
<1>2. PICK v : v = Append(r, h)
  OBVIOUS
<1>4. m.words = w /\ m.assigns = a /\ m.redirs = v
  BY <1>1, <1>2
<1>5. /\ v \in Seq(Nat) /\ Len(v) = Len(r) + 1 /\ Len(r) \in Nat
      /\ Elements(v) = Elements(r) \cup {h}
      /\ \A x \in DOMAIN v : (x \in DOMAIN r /\ v[x] = r[x]) \/ (x = Len(r) + 1 /\ v[x] = h)
      /\ InOrder(r) /\ (\A x \in DOMAIN r : r[x] < h) => InOrder(v)
  BY <1>2, MoreOf, Zenon
<1>7. Size(m) = Size(n) + 2 /\ Size(n) \in Nat
  <2>1. PICK x \in Nat, y \in Nat, z \in Nat : x = Len(w) /\ y = Len(a) /\ z = Len(r)
    BY <1>5
  <2>2. Size(n) = x + y + 2 * z
    BY <1>1, <2>1, Zenon DEF Size
  <2>3. Size(m) = x + y + 2 * (z + 1)
    BY <1>4, <1>5, <2>1, Zenon DEF Size
  <2> QED BY <2>2, <2>3
<1>p. /\ Size(n) > 0 /\ Covered(n) = i..(i + Size(n) - 1)
      /\ InOrder(n.words) /\ InOrder(n.assigns) /\ InOrder(n.redirs)
      /\ \A x \in DOMAIN n.redirs : /\ Tok(s, n.redirs[x], RedirKind)
                                    /\ Tok(s, n.redirs[x] + 1, WordKind) \/ (FALSE /\ n.redirs[x] + 1 = i + Size(n) - 1)
      /\ \A x \in DOMAIN n.assigns : Tok(s, n.assigns[x], {"assign"}) /\ n.assigns[x] = i + x - 1
      /\ \A x \in DOMAIN n.words : Tok(s, n.words[x], WordKind)
      /\ i + Len(n.assigns) \in Elements(n.words) => Tok(s, i + Len(n.assigns), WordKind \ {"assign"})
      /\ Tok(s, i, Kind \ Reserved)
  BY AssembledParts, Zenon
<1>8. /\ Size(n) > 0 /\ Covered(n) = i..(i + Size(n) - 1)
      /\ InOrder(w) /\ InOrder(a) /\ InOrder(r)
      /\ \A x \in DOMAIN r : Tok(s, r[x], RedirKind) /\ Tok(s, r[x] + 1, WordKind)
      /\ \A x \in DOMAIN a : Tok(s, a[x], {"assign"}) /\ a[x] = i + x - 1
      /\ \A x \in DOMAIN w : Tok(s, w[x], WordKind)
      /\ i + Len(a) \in Elements(w) => Tok(s, i + Len(a), WordKind \ {"assign"})
      /\ Tok(s, i, Kind \ Reserved)
  BY <1>p, <1>1
<1>9. Covered(m) = i..(i + Size(m) - 1)
  <2>1. Covered(m) = Covered(n) \cup {h, h + 1}
    <3>1. Covered(m) = Elements(w) \cup Elements(a) \cup Elements(v) \cup {x + 1 : x \in Elements(v)}
      BY <1>4, CoveredIs
    <3>2. Covered(n) = Elements(w) \cup Elements(a) \cup Elements(r) \cup {x + 1 : x \in Elements(r)}
      BY <1>1, CoveredIs
    <3>3. PICK X, Y : X = Elements(r) /\ Y = Elements(v)
      OBVIOUS
    <3>4. Y = X \cup {h}
      BY <1>5, <3>3
    <3>5. {x + 1 : x \in Y} = {x + 1 : x \in X} \cup {h + 1}
      BY <3>4
    <3> QED BY <3>1, <3>2, <3>3, <3>4, <3>5
  <2>2. PICK z \in Nat : z = Size(n)
    BY <1>7
  <2>a. h = i + z
    BY <2>2
  <2>3. i..(i + (z + 2) - 1) = i..(i + z - 1) \cup {h, h + 1}
    BY <2>a, TwoMore
  <2> QED BY <2>1, <2>2, <2>3, <1>7, <1>8
<1>10. InOrder(v)
  <2>1. Before(n, i, h)
    BY AllBefore
  <2> QED BY <2>1, <1>1, <1>5, <1>8 DEF Before
<1>13. Size(m) > 0 /\ h + 1 = i + Size(m) - 1
  <2>1. PICK b \in Nat : b = Size(n)
    BY <1>7
  <2>2. Size(m) = b + 2 /\ h = i + b
    BY <1>7, <2>1
  <2>3. PICK c : c = Size(m)
    OBVIOUS
  <2>5. c = b + 2 /\ h = i + b
    BY <2>2, <2>3, Zenon
  <2>6. c > 0 /\ i + b + 1 = i + c - 1
    BY <2>5
  <2>4. c > 0 /\ h + 1 = i + c - 1
    BY <2>5, <2>6
  <2> QED BY <2>3, <2>4, Zenon
<1>11. \A x \in DOMAIN v : /\ Tok(s, v[x], RedirKind)
                           /\ Tok(s, v[x] + 1, WordKind) \/ (TRUE /\ v[x] + 1 = i + Size(m) - 1)
  BY <1>5, <1>8, <1>13
<1>q. Assembled(s, m, i, TRUE) /\ h + 1 = i + Size(m) - 1
  BY <1>4, <1>8, <1>9, <1>10, <1>11, <1>13, Zenon DEF Assembled, Elements
<1>n. Numbered(m)
  BY MoreOf DEF Numbered
<1> QED BY <1>q, <1>n

\* the target
LEMMA TargetRead ==
  ASSUME NEW s, NEW n, NEW i, NEW h, h = i + Size(n) - 1, Assembled(s, n, i, TRUE), Tok(s, h, WordKind)
  PROVE  Assembled(s, n, i, FALSE)
  BY Zenon DEF Assembled

-----------------------------------------------------------------------------
(***************************************************************************)
(* A step that neither calls a function nor ends one, of a function that   *)
(* has not called one before.                                              *)
(***************************************************************************)
Further(k, f, g, x) ==
  \A s \in Seq(Kind) : \A p \in Nat : \A h \in Nat : \A j \in Nat :
    h = x /\ j = h + 1 /\ Tok(s, h, {k}) /\ HasRead(s, f, p, h) => HasRead(s, g, p, j)
Likewise(k, f, g, x) ==
  \A s \in Seq(Kind) : \A p \in Nat : \A h \in Nat :
    h = x /\ h <= Len(s) /\ Tok(s, h, {k}) /\ HasRead(s, f, p, h) => HasRead(s, g, p, h)
Single(f) == Needs(f.at) = {}
Going(f, e, l, g) ==
  /\ f = Top /\ GoesAs(e, l, <<>>, g) /\ Single(f)
  /\ Role(g) = Role(f) \/ (Role(f) = "command" /\ Role(g) = "compound")

LEMMA TopTyped ==
  ASSUME LineInv, at = "parse", Between
  PROVE  \E S : Top \in FrameOf(S)
<1>1. PICK S, V, s, f : \E p \in Nat : \E h \in Nat : Acts(S, V, p, s, f, h)
  BY Acting
<1> QED BY <1>1 DEF Acts

LEMMA StepsOn ==
  ASSUME LineInv, at = "parse", NEW k \in Kind, k # "eof", Take(k),
         NEW f, NEW e, NEW l, NEW g, Going(f, e, l, g), NEW x, x = Here, Further(k, f, g, x)
  PROVE  TreeInv' /\ LinesInv'
<1>1. PICK S, V, s, y : \E p \in Nat : \E h \in Nat : \E j \in Nat : Takes(S, V, p, s, y, h, j, k)
  BY TakesOne
<1>2. PICK p \in Nat, h \in Nat, j \in Nat : Takes(S, V, p, s, y, h, j, k)
  BY <1>1
<1>3. /\ Acts(S, V, p, s, y, h) /\ Now(j) /\ j = h + 1 /\ Tok(s, h, {k}) /\ h = Here
      /\ s \in Seq(Kind) /\ y = f /\ Ran(s, y, p, h) /\ Role(y) \in V
  BY <1>2 DEF Takes, Going, Acts
<1>4. HasRead(s, f, p, h)
  BY <1>3, AloneIs DEF Going, Single
<1>5. HasRead(s, g, p, j)
  BY <1>3, <1>4 DEF Further
<1>6. Ran(s, g, p, j)
  BY <1>5 DEF Ran
<1>8. "command" \in V => "compound" \in V
  BY <1>3 DEF Acts, Within
<1>7. GoesAs(e, l, <<>>, g) /\ Role(g) \in V
  BY <1>3, <1>8 DEF Going
<1> QED BY <1>3, <1>6, <1>7, TurnsOn

LEMMA LooksOn ==
  ASSUME LineInv, at = "parse", NEW k \in Kind, Peek(k),
         NEW f, NEW e, NEW l, NEW g, Going(f, e, l, g), NEW x, x = Here, Likewise(k, f, g, x)
  PROVE  TreeInv' /\ LinesInv'
<1>1. PICK S, V, s, y : \E p \in Nat : \E h \in Nat : Peeks(S, V, p, s, y, h, k)
  BY PeeksOne
<1>2. PICK p \in Nat, h \in Nat : Peeks(S, V, p, s, y, h, k)
  BY <1>1
<1>3. /\ Acts(S, V, p, s, y, h) /\ Now(h) /\ h <= Len(s) /\ Tok(s, h, {k}) /\ h = Here
      /\ s \in Seq(Kind) /\ y = f /\ Ran(s, y, p, h) /\ Role(y) \in V
  BY <1>2 DEF Peeks, Going, Acts
<1>4. HasRead(s, f, p, h)
  BY <1>3, AloneIs DEF Going, Single
<1>5. HasRead(s, g, p, h)
  BY <1>3, <1>4 DEF Likewise
<1>6. Ran(s, g, p, h)
  BY <1>5 DEF Ran
<1>8. "command" \in V => "compound" \in V
  BY <1>3 DEF Acts, Within
<1>7. GoesAs(e, l, <<>>, g) /\ Role(g) \in V
  BY <1>3, <1>8 DEF Going
<1> QED BY <1>3, <1>6, <1>7, TurnsOn

LEMMA TakenType ==
  ASSUME LineInv, at = "parse", NEW k \in Kind, k # "eof", Take(k)
  PROVE  /\ \E S : Top \in FrameOf(S)
         /\ Here \in Nat
<1>1. Between
  BY Taking DEF TookAt
<1> QED BY <1>1, TopTyped DEF Between

LEMMA PeekedType ==
  ASSUME LineInv, at = "parse", NEW k \in Kind, Peek(k)
  PROVE  /\ \E S : Top \in FrameOf(S)
         /\ Here \in Nat
<1>1. Between
  BY Peeking DEF PeekedAt
<1> QED BY <1>1, TopTyped DEF Between

-----------------------------------------------------------------------------
\* what is read when a command starts
LEMMA CommandRead ==
  ASSUME NEW s \in Seq(Kind), NEW f, f.at = "command", NEW p \in Nat, NEW h \in Nat, HasRead(s, f, p, h)
  PROVE  f.kids = <<>> /\ Nls(s, p, h)
  BY DEF HasRead

LEMMA CompoundStarts ==
  ASSUME NEW f, f.at = "command", NEW g, g.at = "compound", g.kids = f.kids, NEW k, NEW x
  PROVE  Likewise(k, f, g, x)
<1>1. SUFFICES ASSUME NEW s \in Seq(Kind), NEW p \in Nat, NEW h \in Nat, HasRead(s, f, p, h) PROVE HasRead(s, g, p, h)
  BY DEF Likewise
<1>2. f.kids = <<>> /\ Nls(s, p, h)
  BY <1>1, CommandRead
<1> QED BY <1>2 DEF HasRead, Lone

LEMMA WordStarts ==
  ASSUME NEW f, f.at = "command", NEW x, NEW g, g.at = "word", g.kids = f.kids, g.words = <<x>>,
         NEW k \in PlainWord
  PROVE  Further(k, f, g, x)
<1>1. SUFFICES ASSUME NEW s \in Seq(Kind), NEW p \in Nat, NEW h \in Nat, NEW j \in Nat, h = x, j = h + 1,
                      Tok(s, h, {k}), HasRead(s, f, p, h)
               PROVE  HasRead(s, g, p, j)
  BY DEF Further
<1>2. f.kids = <<>> /\ Nls(s, p, h)
  BY <1>1, CommandRead
<1>3. k \in WordKind
  BY WordsAre DEF Words
<1>4. Tok(s, h, WordKind) /\ Tok(s, h, PlainWord)
  BY <1>1, <1>3, TokOf
<1>5. FuncTo(s, <<h>>, p, h)
  BY <1>2, <1>4 DEF FuncTo
<1>6. g.kids = <<>> /\ FuncTo(s, g.words, p, h) /\ j = h + 1
  BY <1>1, <1>2, <1>5
<1> QED BY <1>4, <1>6 DEF HasRead, Lone

-----------------------------------------------------------------------------
LEMMA RedirIsNew ==
  ASSUME NEW s \in Seq(Kind), NEW h \in Nat, Tok(s, h, RedirKind),
         NEW g, g.words = <<>>, g.assigns = <<>>, g.redirs = <<h>>
  PROVE  Assembled(s, g, h, TRUE) /\ h + 1 = h + Size(g) - 1
<1>1. Size(g) = 2
  BY DEF Size
<1>2. /\ Elements(g.words) = {} /\ Elements(g.assigns) = {} /\ Elements(g.redirs) = {h}
      /\ DOMAIN g.words = {} /\ DOMAIN g.assigns = {} /\ DOMAIN g.redirs = {1} /\ g.redirs[1] = h
  BY DEF Elements
<1>3. Covered(g) = {h, h + 1}
  <2>1. Covered(g) = {} \cup {} \cup {h} \cup {x + 1 : x \in {h}}
    BY <1>2, CoveredIs
  <2> QED BY <2>1
<1>4. {h, h + 1} = h..(h + 2 - 1)
  OBVIOUS
<1>5. InOrder(g.words) /\ InOrder(g.assigns) /\ InOrder(g.redirs)
  BY <1>2 DEF InOrder
<1>6. Tok(s, h, Kind \ Reserved)
  <2>1. s[h] \in Kind
    BY DEF Tok
  <2>2. \A k \in RedirKind : k \notin Reserved
    BY Zenon DEF RedirKind, Reserved, WordKind
  <2> QED BY <2>1, <2>2 DEF Tok
<1>7. \A m \in DOMAIN g.redirs : Tok(s, g.redirs[m], RedirKind) /\ g.redirs[m] + 1 = h + Size(g) - 1
  BY <1>1, <1>2
<1>8. Covered(g) = h..(h + Size(g) - 1) /\ Size(g) > 0
  BY <1>1, <1>3, <1>4
<1>9. {g.words[m] : m \in DOMAIN g.words} = {}
  BY <1>2 DEF Elements
<1>10. Assembled(s, g, h, TRUE)
  BY <1>2, <1>5, <1>6, <1>7, <1>8, <1>9 DEF Assembled
<1>11. h + 1 = h + Size(g) - 1
  BY <1>1
<1> QED BY <1>10, <1>11, Zenon

LEMMA RedirStarts ==
  ASSUME NEW f, f.at = "command", NEW x, NEW g, g.at = "target", g.type = "cmd", g.words = <<>>, g.assigns = <<>>,
         g.redirs = <<x>>, NEW k \in Redirect
  PROVE  Further(k, f, g, x)
<1>1. SUFFICES ASSUME NEW s \in Seq(Kind), NEW p \in Nat, NEW h \in Nat, NEW j \in Nat, h = x, j = h + 1,
                      Tok(s, h, {k}), HasRead(s, f, p, h)
               PROVE  HasRead(s, g, p, j)
  BY DEF Further
<1>2. Nls(s, p, h)
  BY <1>1, CommandRead
<1>3. Tok(s, h, RedirKind)
  BY <1>1, WordsAre, TokOf
<1>4. Assembled(s, g, h, TRUE) /\ h + 1 = h + Size(g) - 1
  BY <1>1, <1>3, RedirIsNew
<1>5. TargetTo(s, g, p, j)
  BY <1>1, <1>2, <1>4 DEF TargetTo
<1> QED BY <1>5 DEF HasRead, Lone

LEMMA CommandTree ==
  ASSUME LineInv, Command
  PROVE  TreeInv' /\ LinesInv'
<1>1. at = "parse" /\ Top.at = "command"
  BY DEF Command, Parsing
<1>r. Single(Top)
  BY <1>1, NeedsNone DEF Single
<1>2. ASSUME NEW k \in CompoundStart, Peek(k), GoOn(Top, "compound", <<>>)
      PROVE  TreeInv' /\ LinesInv'
  <2>1. k \in Kind
    BY Tokens
  <2>2. PICK S : Top \in FrameOf(S)
    BY <1>1, <1>2, <2>1, PeekedType
  <2>3. PICK g : g = [Top EXCEPT !.at = "compound"]
    OBVIOUS
  <2>4. g.at = "compound" /\ g.kids = Top.kids
    BY <2>2, <2>3, Relabelled
  <2>5. Likewise(k, Top, g, Here)
    BY <1>1, <2>4, CompoundStarts
  <2>6. Role(Top) = "command" /\ Role(g) = "compound"
    BY <1>1, <2>4 DEF Role
  <2>7. Going(Top, Top, "compound", g)
    BY <1>2, <1>r, <2>3, <2>6 DEF Going, GoesAs
  <2> QED BY <1>1, <1>2, <2>1, <2>5, <2>7, LooksOn
<1>3. ASSUME NEW k \in PlainWord, Take(k), GoOn([Top EXCEPT !.words = <<Here>>], "word", <<>>)
      PROVE  TreeInv' /\ LinesInv'
  <2>1. k \in Kind /\ k # "eof"
    BY Tokens
  <2>2. PICK S : Top \in FrameOf(S) /\ Here \in Nat
    BY <1>1, <1>3, <2>1, TakenType
  <2>e. PICK e : e = [Top EXCEPT !.words = <<Here>>]
    OBVIOUS
  <2>3. PICK g : g = [e EXCEPT !.at = "word"]
    OBVIOUS
  <2>4. g.at = "word" /\ g.kids = Top.kids /\ g.words = <<Here>>
    BY <2>2, <2>e, <2>3 DEF FrameOf
  <2>5. Further(k, Top, g, Here)
    BY <1>1, <2>4, WordStarts
  <2>6. Role(Top) = "command" /\ Role(g) = "command"
    BY <1>1, <2>4 DEF Role
  <2>7. Going(Top, e, "word", g)
    BY <1>3, <1>r, <2>e, <2>3, <2>6 DEF Going, GoesAs
  <2> QED BY <1>1, <1>3, <2>1, <2>5, <2>7, StepsOn
<1>4. ASSUME NEW k \in Redirect, Take(k), GoOn([Typed("command", "cmd") EXCEPT !.redirs = <<Here>>], "target", <<>>)
      PROVE  TreeInv' /\ LinesInv'
  <2>1. k \in Kind /\ k # "eof"
    BY Tokens
  <2>e. PICK e : e = [Typed("command", "cmd") EXCEPT !.redirs = <<Here>>]
    OBVIOUS
  <2>3. PICK g : g = [e EXCEPT !.at = "target"]
    OBVIOUS
  <2>4. g.at = "target" /\ g.type = "cmd" /\ g.words = <<>> /\ g.assigns = <<>> /\ g.redirs = <<Here>>
    BY <2>e, <2>3 DEF Typed, Frame
  <2>5. Further(k, Top, g, Here)
    BY <1>1, <2>4, RedirStarts
  <2>6. Role(Top) = "command" /\ Role(g) = "command"
    BY <1>1, <2>4 DEF Role
  <2>7. Going(Top, e, "target", g)
    BY <1>4, <1>r, <2>e, <2>3, <2>6 DEF Going, GoesAs
  <2> QED BY <1>1, <1>4, <2>1, <2>5, <2>7, StepsOn
<1> QED BY <1>2, <1>3, <1>4 DEF Command

-----------------------------------------------------------------------------
LEMMA PlainIs ==
  ASSUME NEW s \in Seq(Kind), NEW m, Tok(s, m, PlainWord)
  PROVE  /\ Tok(s, m, WordKind) /\ Tok(s, m, Kind \ Reserved) /\ m \in Nat
         /\ s[m] = "assign" => Tok(s, m, {"assign"})
         /\ s[m] # "assign" => Tok(s, m, WordKind \ {"assign"})
<1>1. \A k \in PlainWord : k \in WordKind /\ k \notin Reserved
  BY Zenon DEF PlainWord, WordKind, Reserved
<1>2. m \in DOMAIN s /\ s[m] \in PlainWord /\ s[m] \in Kind /\ m \in Nat
  BY DEF Tok
<1> QED BY <1>1, <1>2 DEF Tok

LEMMA OneWordAlone ==
  ASSUME NEW s \in Seq(Kind), NEW m \in Nat, Tok(s, m, PlainWord), NEW g, g.redirs = <<>>,
         IF s[m] = "assign" THEN g.assigns = <<m>> /\ g.words = <<>> ELSE g.words = <<m>> /\ g.assigns = <<>>
  PROVE  Assembled(s, g, m, FALSE) /\ Size(g) = 1
<1>1. /\ Tok(s, m, WordKind) /\ Tok(s, m, Kind \ Reserved)
      /\ s[m] = "assign" => Tok(s, m, {"assign"})
      /\ s[m] # "assign" => Tok(s, m, WordKind \ {"assign"})
  BY PlainIs
<1>2. Size(g) = 1
  <2>1. Len(<<m>>) = 1 /\ Len(<<>>) = 0
    OBVIOUS
  <2>2. Len(g.redirs) = 0
    BY <2>1, Zenon
  <2>3. (Len(g.words) = 1 /\ Len(g.assigns) = 0) \/ (Len(g.words) = 0 /\ Len(g.assigns) = 1)
    BY <2>1, Zenon
  <2>4. Size(g) = Len(g.words) + Len(g.assigns) + 2 * Len(g.redirs)
    BY Zenon DEF Size
  <2>5. PICK a, b, c : a = Len(g.words) /\ b = Len(g.assigns) /\ c = Len(g.redirs)
    OBVIOUS
  <2>6. Size(g) = a + b + 2 * c /\ c = 0 /\ ((a = 1 /\ b = 0) \/ (a = 0 /\ b = 1))
    BY <2>2, <2>3, <2>4, <2>5, Zenon
  <2> QED BY <2>6
<1>3. Covered(g) = {m}
  <2>1. /\ Elements(g.redirs) = {} /\ {x + 1 : x \in Elements(g.redirs)} = {}
        /\ Elements(g.words) \cup Elements(g.assigns) = {m}
    BY DEF Elements
  <2> QED BY <2>1, CoveredIs
<1>4. {m} = m..(m + 1 - 1)
  OBVIOUS
<1>5. InOrder(g.words) /\ InOrder(g.assigns) /\ InOrder(g.redirs) /\ DOMAIN g.redirs = {}
  BY DEF InOrder
<1>6. Covered(g) = m..(m + Size(g) - 1) /\ Size(g) > 0
  BY <1>2, <1>3, <1>4
<1>7. CASE s[m] = "assign"
  <2>1. /\ DOMAIN g.assigns = {1} /\ g.assigns[1] = m /\ DOMAIN g.words = {} /\ m = m + 1 - 1
    BY <1>7
  <2>2. \A x \in DOMAIN g.assigns : Tok(s, g.assigns[x], {"assign"}) /\ g.assigns[x] = m + x - 1
    BY <1>1, <1>7, <2>1
  <2>3. {g.words[x] : x \in DOMAIN g.words} = {}
    BY <2>1
  <2> QED BY <1>1, <1>2, <1>5, <1>6, <2>1, <2>2, <2>3 DEF Assembled
<1>8. CASE s[m] # "assign"
  <2>1. /\ DOMAIN g.words = {1} /\ g.words[1] = m /\ DOMAIN g.assigns = {} /\ m + Len(g.assigns) = m
    BY <1>8
  <2> QED BY <1>1, <1>2, <1>5, <1>6, <1>8, <2>1 DEF Assembled
<1> QED BY <1>7, <1>8

LEMMA WordRead ==
  ASSUME NEW s \in Seq(Kind), NEW f, f.at \in {"word", "func_open"}, NEW p \in Nat, NEW h \in Nat, HasRead(s, f, p, h)
  PROVE  /\ f.kids = <<>>
         /\ \E m \in Nat : FuncTo(s, f.words, p, m) /\ Tok(s, m, PlainWord) /\ h = m + 1
  BY DEF HasRead

LEMMA NameOpens ==
  ASSUME NEW f, f.at = "word", NEW g, g.at = "func_open", g.kids = f.kids, g.words = f.words, NEW k, NEW x
  PROVE  Likewise(k, f, g, x)
<1>1. SUFFICES ASSUME NEW s \in Seq(Kind), NEW p \in Nat, NEW h \in Nat, HasRead(s, f, p, h) PROVE HasRead(s, g, p, h)
  BY DEF Likewise
<1>2. f.kids = <<>> /\ \E m \in Nat : FuncTo(s, f.words, p, m) /\ Tok(s, m, PlainWord) /\ h = m + 1
  BY <1>1, WordRead
<1> QED BY <1>2 DEF HasRead, Lone

LEMMA IsFunctionTree ==
  ASSUME LineInv, IsFunction
  PROVE  TreeInv' /\ LinesInv'
<1>1. at = "parse" /\ Top.at = "word"
  BY DEF IsFunction, Parsing
<1>r. Single(Top)
  BY <1>1, NeedsNone DEF Single
<1>2. ASSUME Peek("("), GoOn(Top, "func_open", <<>>)
      PROVE  TreeInv' /\ LinesInv'
  <2>1. "(" \in Kind
    BY Tokens
  <2>2. PICK S : Top \in FrameOf(S)
    BY <1>1, <1>2, <2>1, PeekedType
  <2>3. PICK g : g = [Top EXCEPT !.at = "func_open"]
    OBVIOUS
  <2>4. g.at = "func_open" /\ g.kids = Top.kids /\ g.words = Top.words
    BY <2>2, <2>3, Relabelled
  <2>5. Likewise("(", Top, g, Here)
    BY <1>1, <2>4, NameOpens
  <2>6. Role(Top) = "command" /\ Role(g) = "command"
    BY <1>1, <2>4 DEF Role
  <2>7. Going(Top, Top, "func_open", g)
    BY <1>2, <1>r, <2>3, <2>6 DEF Going, GoesAs
  <2> QED BY <1>1, <1>2, <2>1, <2>5, <2>7, LooksOn
<1>3. ASSUME NEW k \in Kind, Peek(k),
             GoOn(IF read[Top.words[1]] = "assign"
                    THEN [Typed("args", "cmd") EXCEPT !.assigns = Top.words]
                    ELSE [Typed("args", "cmd") EXCEPT !.words = Top.words], "args", <<>>)
      PROVE  TreeInv' /\ LinesInv'
  <2>1. PICK S, V, s, f : \E p \in Nat : \E h \in Nat : Peeks(S, V, p, s, f, h, k)
    BY <1>1, <1>3, PeeksOne
  <2>2. PICK p \in Nat, h \in Nat : Peeks(S, V, p, s, f, h, k)
    BY <2>1
  <2>3. /\ Acts(S, V, p, s, f, h) /\ Now(h) /\ s \in Seq(Kind) /\ f = Top /\ Ran(s, f, p, h) /\ Role(f) \in V
        /\ h = Here /\ Prefix(read, s) /\ ParserInv
    BY <2>2 DEF Peeks, Acts, Between
  <2>4. HasRead(s, f, p, h)
    BY <1>r, <2>3, AloneIs DEF Single
  <2>5. PICK m \in Nat : FuncTo(s, f.words, p, m) /\ Tok(s, m, PlainWord) /\ h = m + 1
    BY <1>1, <2>3, <2>4, WordRead
  <2>6. f.words = <<m>> /\ f.words[1] = m /\ Nls(s, p, m)
    BY <2>5 DEF FuncTo
  <2>7. s[m] = read[m]
    <3>1. read \in Seq(Kind) /\ Len(read) \in Nat
      BY <2>3 DEF ParserInv, TokenInv
    <3>2. h <= Len(read) + 1
      BY <2>3, <3>1 DEF Here
    <3>3. m \in Nat /\ 1 <= m
      BY <2>5, TokIs, <2>3
    <3>4. m \in DOMAIN read
      BY <3>1, <3>2, <3>3, <2>5
    <3> QED BY <2>3, <3>4 DEF Prefix
  <2>8. PICK e : e = IF s[m] = "assign" THEN [Typed("args", "cmd") EXCEPT !.assigns = <<m>>]
                     ELSE [Typed("args", "cmd") EXCEPT !.words = <<m>>]
    OBVIOUS
  <2>9. GoOn(e, "args", <<>>)
    BY <1>3, <2>3, <2>6, <2>7, <2>8
  <2>10. PICK g : g = [e EXCEPT !.at = "args"]
    OBVIOUS
  <2>11. /\ g.at = "args" /\ g.redirs = <<>>
         /\ IF s[m] = "assign" THEN g.assigns = <<m>> /\ g.words = <<>> ELSE g.words = <<m>> /\ g.assigns = <<>>
    BY <2>8, <2>10 DEF Typed, Frame
  <2>12. Assembled(s, g, m, FALSE) /\ Size(g) = 1
    BY <2>3, <2>5, <2>11, OneWordAlone
  <2>13. ArgsTo(s, g, p, h)
    BY <2>5, <2>6, <2>12 DEF ArgsTo
  <2>14. Ran(s, g, p, h)
    BY <2>11, <2>13 DEF Ran, HasRead, Lone
  <2>15. Role(g) \in V
    BY <1>1, <2>3, <2>11 DEF Role
  <2>16. GoesAs(e, "args", <<>>, g)
    BY <2>9, <2>10 DEF GoesAs
  <2> QED BY <2>3, <2>14, <2>15, <2>16, TurnsOn
<1> QED BY <1>2, <1>3 DEF IsFunction

-----------------------------------------------------------------------------
LEMMA FrameNumbers ==
  ASSUME NEW S, NEW f \in FrameOf(S)
  PROVE  Numbered(f)
  BY DEF FrameOf, Numbered

LEMMA ArgsRead ==
  ASSUME NEW s, NEW f, f.at = "args", NEW p, NEW h, HasRead(s, f, p, h)
  PROVE  ArgsTo(s, f, p, h)
  BY DEF HasRead

LEMMA ArgsMore ==
  ASSUME NEW f, f.at = "args", Numbered(f), NEW x \in Nat, NEW k \in Words, NEW g, g.at = "args", g.redirs = f.redirs,
         IF k = "assign" /\ f.words = <<>> /\ f.redirs = <<>>
           THEN g.assigns = Append(f.assigns, x) /\ g.words = f.words
           ELSE g.words = Append(f.words, x) /\ g.assigns = f.assigns
  PROVE  Further(k, f, g, x)
<1>1. SUFFICES ASSUME NEW s \in Seq(Kind), NEW p \in Nat, NEW h \in Nat, NEW j \in Nat, h = x, j = h + 1,
                      Tok(s, h, {k}), HasRead(s, f, p, h)
               PROVE  HasRead(s, g, p, j)
  BY DEF Further
<1>a. ArgsTo(s, f, p, h)
  BY <1>1, ArgsRead
<1>2. PICK i \in Nat : Nls(s, p, i) /\ Assembled(s, f, i, FALSE) /\ h = i + Size(f)
  BY <1>a DEF ArgsTo
<1>b. Upto(s, f, i, h)
  BY <1>2 DEF Upto
<1>c. Beyond(h, j)
  BY <1>1 DEF Beyond
<1>3. Upto(s, g, i, j)
  <2>1. CASE k = "assign" /\ f.words = <<>> /\ f.redirs = <<>>
    <3>1. g.assigns = Append(f.assigns, h) /\ g.words = f.words /\ Tok(s, h, {"assign"})
      BY <1>1, <2>1
    <3>2. AssignAt(f, g, h) /\ f.words = <<>> /\ f.redirs = <<>>
      BY <2>1, <3>1 DEF AssignAt
    <3> QED BY <1>b, <1>c, <3>1, <3>2, AssignMore
  <2>2. CASE ~(k = "assign" /\ f.words = <<>> /\ f.redirs = <<>>)
    <3>1. g.words = Append(f.words, h) /\ g.assigns = f.assigns /\ k \in WordKind
      BY <1>1, <2>2, WordsAre
    <3>2. WordAt(f, g, h)
      BY <3>1 DEF WordAt
    <3> QED BY <1>1, <1>b, <1>c, <2>2, <3>1, <3>2, WordMore
  <2> QED BY <2>1, <2>2
<1>4. ArgsTo(s, g, p, j)
  BY <1>2, <1>3 DEF ArgsTo, Upto
<1> QED BY <1>4 DEF HasRead, Lone

LEMMA ArgsRedirected ==
  ASSUME NEW f, f.at = "args", Numbered(f), NEW x \in Nat, NEW k \in Redirect, NEW g, g.at = "target", g.type = "cmd",
         g.words = f.words, g.assigns = f.assigns, g.redirs = Append(f.redirs, x)
  PROVE  Further(k, f, g, x)
<1>1. SUFFICES ASSUME NEW s \in Seq(Kind), NEW p \in Nat, NEW h \in Nat, NEW j \in Nat, h = x, j = h + 1,
                      Tok(s, h, {k}), HasRead(s, f, p, h)
               PROVE  HasRead(s, g, p, j)
  BY DEF Further
<1>a. ArgsTo(s, f, p, h)
  BY <1>1, ArgsRead
<1>2. PICK i \in Nat : Nls(s, p, i) /\ Assembled(s, f, i, FALSE) /\ h = i + Size(f)
  BY <1>a DEF ArgsTo
<1>b. Upto(s, f, i, h)
  BY <1>2 DEF Upto
<1>3. Tok(s, h, RedirKind) /\ g.redirs = Append(f.redirs, h)
  BY <1>1, WordsAre, TokOf
<1>c. Beyond(h, j)
  BY <1>1 DEF Beyond
<1>4. UptoOpen(s, g, i, j)
  <2>1. RedirAt(f, g, h)
    BY <1>3 DEF RedirAt
  <2> QED BY <1>b, <1>c, <1>3, <2>1, RedirMore
<1>5. TargetTo(s, g, p, j)
  BY <1>2, <1>4 DEF TargetTo, UptoOpen
<1> QED BY <1>5 DEF HasRead, Lone

LEMMA SimpleIs ==
  ASSUME NEW s \in Seq(Kind), NEW n, IsTree(n), n.type = "cmd", n.kids = <<>>, Numbered(n),
         NEW i \in Nat, NEW h \in Nat, h = i + Size(n), Assembled(s, n, i, FALSE)
  PROVE  Bare(s, n, i, h)
<1>1. Size(n) \in Nat /\ Size(n) > 0
  BY SizeIs, AssembledParts
<1>2. i \in DOMAIN s /\ s[i] \notin Reserved
  BY AssembledParts DEF Tok
<1>3. h - 1 \in DOMAIN s
  <2>1. h - 1 \in Covered(n)
    <3>1. Covered(n) = i..(i + Size(n) - 1)
      BY AssembledParts
    <3> QED BY <1>1, <3>1
  <2>2. \/ h - 1 \in Elements(n.words) \/ h - 1 \in Elements(n.assigns) \/ h - 1 \in Elements(n.redirs)
        \/ h - 1 \in {x + 1 : x \in Elements(n.redirs)}
    BY <2>1, CoveredIs
  <2>3. \A m \in DOMAIN n.words : n.words[m] \in DOMAIN s
    BY AssembledParts DEF Tok
  <2>4. \A m \in DOMAIN n.assigns : n.assigns[m] \in DOMAIN s
    BY AssembledParts DEF Tok
  <2>5. \A m \in DOMAIN n.redirs : n.redirs[m] \in DOMAIN s /\ n.redirs[m] + 1 \in DOMAIN s
    BY AssembledParts DEF Tok
  <2>6. \A x \in Elements(n.words) \cup Elements(n.assigns) : x \in DOMAIN s
    BY <2>3, <2>4 DEF Elements
  <2>7. \A x \in Elements(n.redirs) : x \in DOMAIN s /\ x + 1 \in DOMAIN s
    BY <2>5 DEF Elements
  <2> QED BY <2>2, <2>6, <2>7
<1>4. IsSimple(s, n, i)
  <2>1. /\ Size(n) > 0 /\ Covered(n) = i..(i + Size(n) - 1)
        /\ InOrder(n.words) /\ InOrder(n.assigns) /\ InOrder(n.redirs)
    BY AssembledParts
  <2>2. \A m \in DOMAIN n.redirs : s[n.redirs[m]] \in RedirKind /\ s[n.redirs[m] + 1] \in WordKind
    BY AssembledParts DEF Tok
  <2>a. \A m \in DOMAIN n.assigns : Tok(s, n.assigns[m], {"assign"}) /\ n.assigns[m] = i + m - 1
    BY AssembledParts, Zenon
  <2>3. \A m \in DOMAIN n.assigns : s[n.assigns[m]] = "assign" /\ n.assigns[m] = i + m - 1
    BY <2>a DEF Tok
  <2>4. \A m \in DOMAIN n.words : s[n.words[m]] \in WordKind
    BY AssembledParts DEF Tok
  <2>5. i + Len(n.assigns) \in {n.words[m] : m \in DOMAIN n.words} => s[i + Len(n.assigns)] # "assign"
    <3>1. i + Len(n.assigns) \in Elements(n.words) => Tok(s, i + Len(n.assigns), WordKind \ {"assign"})
      BY AssembledParts, Zenon
    <3> QED BY <3>1 DEF Tok, Elements
  <2> QED BY <1>2, <2>1, <2>2, <2>3, <2>4, <2>5 DEF IsSimple
<1> QED BY <1>2, <1>3, <1>4, SimpleStands

LEMMA SimpleGives ==
  ASSUME NEW s \in Seq(Kind), NEW f, f.at = "args", Numbered(f), NEW p \in Nat, NEW h \in Nat, HasRead(s, f, p, h)
  PROVE  Gives(s, "command", SimpleNode(f.assigns, f.words, f.redirs), p, h)
<1>a. ArgsTo(s, f, p, h)
  BY ArgsRead
<1>1. PICK i \in Nat : Nls(s, p, i) /\ Assembled(s, f, i, FALSE) /\ h = i + Size(f)
  BY <1>a DEF ArgsTo
<1>2. PICK n : n = SimpleNode(f.assigns, f.words, f.redirs)
  OBVIOUS
<1>3. IsTree(n) /\ n.type = "cmd" /\ n.assigns = f.assigns /\ n.words = f.words /\ n.redirs = f.redirs /\ n.kids = <<>>
  BY <1>2, SimpleNodeIs DEF Numbered
<1>4. Size(n) = Size(f) /\ Assembled(s, n, i, FALSE) /\ Numbered(n)
  BY <1>1, <1>3, SameParts DEF Numbered
<1>5. Bare(s, n, i, h)
  BY <1>1, <1>3, <1>4, SimpleIs
<1>6. After(s, n, p, h)
  BY <1>1, <1>3, <1>5, NotBare, AfterBare
<1> QED BY <1>2, <1>3, <1>6, LogicTypes DEF Gives, TypesOf

LEMMA SimpleCommandTree ==
  ASSUME LineInv, SimpleCommand
  PROVE  TreeInv' /\ LinesInv'
<1>1. at = "parse" /\ Top.at = "args"
  BY DEF SimpleCommand, Parsing
<1>r. Single(Top)
  BY <1>1, NeedsNone DEF Single
<1>2. ASSUME NEW k \in Words, Take(k),
             GoOn(IF k = "assign" /\ Top.words = <<>> /\ Top.redirs = <<>>
                    THEN [Top EXCEPT !.assigns = Append(@, Here)]
                    ELSE [Top EXCEPT !.words = Append(@, Here)],
                  "args", <<>>)
      PROVE  TreeInv' /\ LinesInv'
  <2>1. k \in Kind /\ k # "eof"
    BY Tokens
  <2>2. PICK S : Top \in FrameOf(S) /\ Here \in Nat
    BY <1>1, <1>2, <2>1, TakenType
  <2>e. PICK e : e = IF k = "assign" /\ Top.words = <<>> /\ Top.redirs = <<>>
                       THEN [Top EXCEPT !.assigns = Append(@, Here)]
                       ELSE [Top EXCEPT !.words = Append(@, Here)]
    OBVIOUS
  <2>3. PICK g : g = [e EXCEPT !.at = "args"]
    OBVIOUS
  <2>4. /\ g.at = "args" /\ g.redirs = Top.redirs
        /\ IF k = "assign" /\ Top.words = <<>> /\ Top.redirs = <<>>
             THEN g.assigns = Append(Top.assigns, Here) /\ g.words = Top.words
             ELSE g.words = Append(Top.words, Here) /\ g.assigns = Top.assigns
    BY <2>2, <2>e, <2>3 DEF FrameOf
  <2>5. Further(k, Top, g, Here)
    BY <1>1, <2>2, <2>4, FrameNumbers, ArgsMore
  <2>6. Role(Top) = "command" /\ Role(g) = "command"
    BY <1>1, <2>4 DEF Role
  <2>7. Going(Top, e, "args", g)
    BY <1>2, <1>r, <2>e, <2>3, <2>6 DEF Going, GoesAs
  <2> QED BY <1>1, <1>2, <2>1, <2>5, <2>7, StepsOn
<1>3. ASSUME NEW k \in Redirect, Take(k), GoOn([Top EXCEPT !.redirs = Append(@, Here)], "target", <<>>)
      PROVE  TreeInv' /\ LinesInv'
  <2>1. k \in Kind /\ k # "eof"
    BY Tokens
  <2>2. PICK S : Top \in FrameOf(S) /\ Here \in Nat
    BY <1>1, <1>3, <2>1, TakenType
  <2>e. PICK e : e = [Top EXCEPT !.redirs = Append(@, Here)]
    OBVIOUS
  <2>3. PICK g : g = [e EXCEPT !.at = "target"]
    OBVIOUS
  <2>t. Top.type = "cmd"
    <3>1. Between
      BY <1>1, <1>3, <2>1, Taking DEF TookAt
    <3>2. PICK T, V, s, f : \E p \in Nat : \E h \in Nat : Acts(T, V, p, s, f, h)
      BY <1>1, <3>1, Acting
    <3>3. Running(f) /\ f = Top
      BY <3>2 DEF Acts
    <3> QED BY <1>1, <3>3 DEF Running, Simply
  <2>4. /\ g.at = "target" /\ g.type = "cmd" /\ g.words = Top.words /\ g.assigns = Top.assigns
        /\ g.redirs = Append(Top.redirs, Here)
    BY <2>2, <2>e, <2>3, <2>t DEF FrameOf
  <2>5. Further(k, Top, g, Here)
    BY <1>1, <2>2, <2>4, FrameNumbers, ArgsRedirected
  <2>6. Role(Top) = "command" /\ Role(g) = "command"
    BY <1>1, <2>4 DEF Role
  <2>7. Going(Top, e, "target", g)
    BY <1>3, <1>r, <2>e, <2>3, <2>6 DEF Going, GoesAs
  <2> QED BY <1>1, <1>3, <2>1, <2>5, <2>7, StepsOn
<1>4. ASSUME NEW k \in Kind, Peek(k), Return(SimpleNode(Top.assigns, Top.words, Top.redirs))
      PROVE  TreeInv' /\ LinesInv'
  <2>1. PICK S, V, s, f : \E p \in Nat : \E h \in Nat : Peeks(S, V, p, s, f, h, k)
    BY <1>1, <1>4, PeeksOne
  <2>2. PICK p \in Nat, h \in Nat : Peeks(S, V, p, s, f, h, k)
    BY <2>1
  <2>3. /\ Acts(S, V, p, s, f, h) /\ Now(h) /\ s \in Seq(Kind) /\ f = Top /\ f \in FrameOf(S) /\ Ran(s, f, p, h)
    BY <2>2 DEF Peeks
  <2>4. HasRead(s, f, p, h) /\ Numbered(f)
    BY <1>r, <2>3, AloneIs, FrameNumbers DEF Single
  <2>5. PICK n : n = SimpleNode(f.assigns, f.words, f.redirs)
    OBVIOUS
  <2>6. Gives(s, "command", n, p, h) /\ Role(f) = "command"
    BY <1>1, <2>3, <2>4, <2>5, SimpleGives DEF Role
  <2>7. Return(n)
    BY <1>4, <2>3, <2>5
  <2> QED BY <2>3, <2>6, <2>7, TurnsUp
<1> QED BY <1>2, <1>3, <1>4 DEF SimpleCommand, SimpleNode

-----------------------------------------------------------------------------
(***************************************************************************)
(* A step that takes a token and calls a function, or returns.             *)
(***************************************************************************)
Awaited(k, f, g, c, x) ==
  \A s \in Seq(Kind) : \A p \in Nat : \A h \in Nat : \A j \in Nat :
    h = x /\ j = h + 1 /\ j <= Len(s) + 1 /\ Tok(s, h, {k}) /\ Ran(s, f, p, h) => Calls(s, g, p, c, j)
Handed(k, f, tree, x) ==
  \A s \in Seq(Kind) : \A p \in Nat : \A h \in Nat : \A j \in Nat :
    h = x /\ j = h + 1 /\ Tok(s, h, {k}) /\ Ran(s, f, p, h) => Gives(s, Role(f), tree, p, j)
Calling(f, e, l, c, g) == f = Top /\ GoesAs(e, l, c, g) /\ Role(g) = Role(f)

LEMMA StepsInto ==
  ASSUME LineInv, at = "parse", NEW k \in Kind, k # "eof", Take(k),
         NEW f, NEW e, NEW l, NEW c, NEW g, Calling(f, e, l, c, g), NEW x, x = Here, Awaited(k, f, g, c, x)
  PROVE  TreeInv' /\ LinesInv'
<1>1. PICK S, V, s, y : \E p \in Nat : \E h \in Nat : \E j \in Nat : Takes(S, V, p, s, y, h, j, k)
  BY TakesOne
<1>2. PICK p \in Nat, h \in Nat, j \in Nat : Takes(S, V, p, s, y, h, j, k)
  BY <1>1
<1>3. /\ Acts(S, V, p, s, y, h) /\ Now(j) /\ j = h + 1 /\ j <= Len(s) + 1 /\ Tok(s, h, {k}) /\ h = Here
      /\ s \in Seq(Kind) /\ y = f /\ Ran(s, y, p, h) /\ Role(y) \in V
  BY <1>2 DEF Takes, Calling, Acts
<1>4. Calls(s, g, p, c, j)
  BY <1>3 DEF Awaited
<1>5. GoesAs(e, l, c, g) /\ Role(g) \in V
  BY <1>3 DEF Calling
<1> QED BY <1>3, <1>4, <1>5, TurnsTo

LEMMA StepsUp ==
  ASSUME LineInv, at = "parse", NEW k \in Kind, k # "eof", Take(k),
         NEW f, f = Top, NEW tree, Return(tree), NEW x, x = Here, Handed(k, f, tree, x)
  PROVE  TreeInv' /\ LinesInv'
<1>1. PICK S, V, s, y : \E p \in Nat : \E h \in Nat : \E j \in Nat : Takes(S, V, p, s, y, h, j, k)
  BY TakesOne
<1>2. PICK p \in Nat, h \in Nat, j \in Nat : Takes(S, V, p, s, y, h, j, k)
  BY <1>1
<1>3. /\ Acts(S, V, p, s, y, h) /\ Now(j) /\ j = h + 1 /\ Tok(s, h, {k}) /\ h = Here
      /\ s \in Seq(Kind) /\ y = f /\ Ran(s, y, p, h)
  BY <1>2 DEF Takes, Acts
<1>4. Gives(s, Role(y), tree, p, j)
  BY <1>3 DEF Handed
<1> QED BY <1>3, <1>4, TurnsUp

-----------------------------------------------------------------------------
LEMMA StartIs ==
  ASSUME LinesInv
  PROVE  Start \in Nat
<1>1. PICK T : lines \in Seq(LineOf(T))
  BY DEF LinesInv
<1>2. CASE lines # <<>>
  <2>1. Len(lines) \in DOMAIN lines
    BY <1>1, <1>2
  <2>2. LastLine \in LineOf(T)
    BY <1>1, <2>1 DEF LastLine
  <2> QED BY <1>2, <2>2 DEF Start, LastLine, LineOf
<1> QED BY <1>2 DEF Start

LEMMA FailsTree ==
  ASSUME LineInv, at = "parse", TokenInv', Fail
  PROVE  TreeInv' /\ LinesInv'
<1>1. at' \in {"discard", "end"} /\ lines' = Done(SyntaxError)
  BY DEF Fail
<1>2. PICK T : lines \in Seq(LineOf(T))
  BY DEF LineInv, LinesInv
<1> DEFINE to == Len(read') - (IF putback' = 0 THEN 0 ELSE 1)
           line == [tree |-> SyntaxError, from |-> Start, to |-> to]
<1>3. to \in Nat
  <2>1. Len(read') \in Nat /\ putback' \in {0, Len(read')}
    BY DEF TokenInv
  <2> QED BY <2>1
<1> HIDE DEF to
<1>4. line \in LineOf(T \cup {SyntaxError})
  <2>1. Start \in Nat
    BY StartIs DEF LineInv
  <2> QED BY <1>3, <2>1 DEF LineOf
<1>5. lines' = Append(lines, line)
  BY <1>1 DEF Done, Start, to
<1> HIDE DEF line
<1>6. lines \in Seq(LineOf(T \cup {SyntaxError}))
  <2>1. LineOf(T) \subseteq LineOf(T \cup {SyntaxError})
    BY DEF LineOf
  <2>2. PICK A, B : A = LineOf(T) /\ B = LineOf(T \cup {SyntaxError})
    OBVIOUS
  <2>3. A \subseteq B => Seq(A) \subseteq Seq(B)
    OBVIOUS
  <2> QED BY <1>2, <2>1, <2>2, <2>3
<1>7. lines' \in Seq(LineOf(T \cup {SyntaxError})) /\ lines' # <<>>
  BY <1>4, <1>5, <1>6
<1>8. LinesInv'
  BY <1>7 DEF LinesInv
<1> QED BY <1>1, <1>8 DEF TreeInv

LEMMA TokenKept ==
  ASSUME LineInv, NEW k \in Kind, Take(k) \/ Peek(k)
  PROVE  TokenInv'
  BY TokenRead DEF LineInv, ParserInv

LEMMA LexerFailsTree ==
  ASSUME LineInv, LexerFails
  PROVE  TreeInv' /\ LinesInv'
<1>1. at = "parse" /\ Take(Bad) /\ Fail /\ Bad \in Kind
  BY Kinds DEF LexerFails
<1> QED BY <1>1, TokenKept, FailsTree

LEMMA UnexpectedTree ==
  ASSUME LineInv, Unexpected
  PROVE  TreeInv' /\ LinesInv'
<1>1. PICK k \in Kind : at = "parse" /\ Take(k) /\ Fail
  BY DEF Unexpected
<1> QED BY <1>1, TokenKept, FailsTree

-----------------------------------------------------------------------------
\* the target of a redirection
LEMMA TargetGiven ==
  ASSUME NEW f, f.at = "target", f.type = "cmd", Numbered(f), NEW k \in Words, NEW x, NEW g, g.at = "args", g.words = f.words,
         g.assigns = f.assigns, g.redirs = f.redirs
  PROVE  Further(k, f, g, x)
<1>1. SUFFICES ASSUME NEW s \in Seq(Kind), NEW p \in Nat, NEW h \in Nat, NEW j \in Nat, h = x, j = h + 1,
                      Tok(s, h, {k}), HasRead(s, f, p, h)
               PROVE  HasRead(s, g, p, j)
  BY DEF Further
<1>2. TargetTo(s, f, p, h)
  BY <1>1 DEF HasRead
<1>3. PICK i \in Nat : Nls(s, p, i) /\ Assembled(s, f, i, TRUE) /\ h = i + Size(f) - 1
  BY <1>2 DEF TargetTo
<1>4. Tok(s, h, WordKind)
  BY <1>1, WordsAre, TokOf
<1>5. Assembled(s, f, i, FALSE)
  BY <1>3, <1>4, TargetRead
<1>6. Assembled(s, g, i, FALSE) /\ Size(g) = Size(f)
  BY <1>5, SameParts
<1>7. j = i + Size(g)
  <2>1. Size(f) \in Nat
    BY SizeIs
  <2> QED BY <1>1, <1>3, <1>6, <2>1
<1>8. ArgsTo(s, g, p, j)
  BY <1>3, <1>6, <1>7 DEF ArgsTo
<1> QED BY <1>8 DEF HasRead, Lone

LEMMA RedirectedMore ==
  ASSUME NEW s, NEW q \in Seq(Nat), NEW m \in Nat, NEW x \in Nat, Redirected(s, q, m, x),
         Tok(s, x, RedirKind), NEW j \in Nat, j = x + 1, Tok(s, j, WordKind)
  PROVE  Redirected(s, Append(q, x), m, j + 1)
<1>1. PICK r : r = Append(q, x)
  OBVIOUS
<1>2. /\ Len(r) = Len(q) + 1 /\ Len(q) \in Nat
      /\ \A i \in DOMAIN r : (i \in DOMAIN q /\ r[i] = q[i]) \/ (i = Len(q) + 1 /\ r[i] = x)
  BY <1>1, MoreOf, Zenon
<1>3. PICK z \in Nat : z = Len(q)
  BY <1>2
<1>4. x = m + 2 * z
  BY <1>3 DEF Redirected
<1>5. j + 1 = m + 2 * Len(r)
  BY <1>2, <1>3, <1>4
<1>6. \A i \in DOMAIN q : q[i] = m + 2 * (i - 1) /\ Tok(s, q[i], RedirKind) /\ Tok(s, q[i] + 1, WordKind)
  BY DEF Redirected
<1>7. \A i \in DOMAIN r : r[i] = m + 2 * (i - 1) /\ Tok(s, r[i], RedirKind) /\ Tok(s, r[i] + 1, WordKind)
  <2>1. SUFFICES ASSUME NEW i \in DOMAIN r
                 PROVE  r[i] = m + 2 * (i - 1) /\ Tok(s, r[i], RedirKind) /\ Tok(s, r[i] + 1, WordKind)
    OBVIOUS
  <2>2. CASE i \in DOMAIN q /\ r[i] = q[i]
    BY <1>6, <2>2
  <2>3. CASE i = Len(q) + 1 /\ r[i] = x
    BY <1>3, <1>4, <2>3
  <2> QED BY <1>2, <2>2, <2>3
<1> QED BY <1>1, <1>5, <1>7 DEF Redirected

LEMMA TargetBehind ==
  ASSUME NEW f, f.at = "target", f.type # "cmd", NEW k \in Words, NEW x, NEW g, g.at = "redirs", g.type = f.type,
         g.kids = f.kids, g.redirs = f.redirs
  PROVE  Further(k, f, g, x)
<1>1. SUFFICES ASSUME NEW s \in Seq(Kind), NEW p \in Nat, NEW h \in Nat, NEW j \in Nat, h = x, j = h + 1,
                      Tok(s, h, {k}), HasRead(s, f, p, h)
               PROVE  HasRead(s, g, p, j)
  BY DEF Further
<1>2. OpenTo(s, f.redirs, f.kids, p, h)
  BY <1>1 DEF HasRead
<1>3. PICK y \in Nat : \E q : q \in Seq(Nat) /\ f.redirs = Append(q, y) /\ BehindTo(s, q, f.kids, p, y)
                              /\ Tok(s, y, RedirKind) /\ h = y + 1
  BY <1>2 DEF OpenTo
<1>4. PICK q : /\ q \in Seq(Nat) /\ f.redirs = Append(q, y) /\ BehindTo(s, q, f.kids, p, y)
               /\ Tok(s, y, RedirKind) /\ h = y + 1
  BY <1>3
<1>5. PICK n : /\ f.kids = <<n>> /\ n.type \in BareType
               /\ \E i \in Nat : \E m \in Nat : Nls(s, p, i) /\ Core(s, n, i, m) /\ Redirected(s, q, m, y)
  BY <1>4, Zenon DEF BehindTo
<1>6. PICK i \in Nat, m \in Nat : Nls(s, p, i) /\ Core(s, n, i, m) /\ Redirected(s, q, m, y)
  BY <1>5
<1>7. Tok(s, h, WordKind)
  BY <1>1, WordsAre, TokOf
<1>8. Redirected(s, Append(q, y), m, h + 1)
  BY <1>4, <1>6, <1>7, RedirectedMore
<1>9. Redirected(s, g.redirs, m, j)
  BY <1>1, <1>4, <1>8
<1>10. g.kids = <<n>>
  BY <1>5
<1>11. BehindTo(s, g.redirs, g.kids, p, j)
  BY <1>5, <1>6, <1>9, <1>10, Zenon DEF BehindTo
<1> QED BY <1>11 DEF HasRead, Lone

LEMMA RedirTargetTree ==
  ASSUME LineInv, RedirTarget
  PROVE  TreeInv' /\ LinesInv'
<1>1. at = "parse" /\ Top.at = "target"
  BY DEF RedirTarget, Parsing
<1>r. Single(Top)
  BY <1>1, NeedsNone DEF Single
<1>2. PICK k \in Words : Take(k)
  BY DEF RedirTarget
<1>3. k \in Kind /\ k # "eof"
  BY Tokens
<1>4. PICK S : Top \in FrameOf(S) /\ Here \in Nat
  BY <1>1, <1>2, <1>3, TakenType
<1>5. PICK l : l = IF Top.type = "cmd" THEN "args" ELSE "redirs"
  OBVIOUS
<1>6. GoOn(Top, l, <<>>)
  BY <1>5 DEF RedirTarget
<1>7. PICK g : g = [Top EXCEPT !.at = l]
  OBVIOUS
<1>8. /\ g.at = l /\ g.kids = Top.kids /\ g.words = Top.words /\ g.redirs = Top.redirs
      /\ g.assigns = Top.assigns /\ g.type = Top.type
  BY <1>4, <1>7, Relabelled
<1>9. Further(k, Top, g, Here)
  <2>1. CASE Top.type = "cmd"
    BY <1>1, <1>4, <1>5, <1>8, <2>1, FrameNumbers, TargetGiven
  <2>2. CASE Top.type # "cmd"
    BY <1>1, <1>5, <1>8, <2>2, TargetBehind
  <2> QED BY <2>1, <2>2
<1>10. Role(g) = Role(Top)
  BY <1>1, <1>5, <1>8 DEF Role
<1>11. Going(Top, Top, l, g)
  BY <1>r, <1>6, <1>7, <1>10 DEF Going, GoesAs
<1> QED BY <1>1, <1>2, <1>3, <1>9, <1>11, StepsOn

-----------------------------------------------------------------------------
LEMMA FuncCloses ==
  ASSUME NEW f, f.at = "func_open", NEW x, NEW g, g.at = "func_close", g.kids = f.kids, g.words = f.words
  PROVE  Further("(", f, g, x)
<1>1. SUFFICES ASSUME NEW s \in Seq(Kind), NEW p \in Nat, NEW h \in Nat, NEW j \in Nat, h = x, j = h + 1,
                      Tok(s, h, {"("}), HasRead(s, f, p, h)
               PROVE  HasRead(s, g, p, j)
  BY DEF Further
<1>2. f.kids = <<>> /\ \E m \in Nat : FuncTo(s, f.words, p, m) /\ Tok(s, m, PlainWord) /\ h = m + 1
  BY <1>1, WordRead
<1>3. PICK m \in Nat : FuncTo(s, f.words, p, m) /\ h = m + 1
  BY <1>2
<1>4. FuncTo(s, g.words, p, m) /\ Tok(s, m + 1, {"("}) /\ j = m + 2
  BY <1>1, <1>3
<1> QED BY <1>2, <1>4 DEF HasRead, Lone

LEMMA FuncCloseTree ==
  ASSUME LineInv, Parsing("func_open"), Take("("), GoOn(Top, "func_close", <<>>)
  PROVE  TreeInv' /\ LinesInv'
<1>1. at = "parse" /\ Top.at = "func_open"
  BY DEF Parsing
<1>2. PICK S : Top \in FrameOf(S)
  BY <1>1, Tokens, TakenType
<1>3. PICK g : g = [Top EXCEPT !.at = "func_close"]
  OBVIOUS
<1>4. g.at = "func_close" /\ g.kids = Top.kids /\ g.words = Top.words
  BY <1>2, <1>3, Relabelled
<1>5. Further("(", Top, g, Here)
  BY <1>1, <1>4, FuncCloses
<1>6. Role(Top) = "command" /\ Role(g) = "command"
  BY <1>1, <1>4 DEF Role
<1>7. Going(Top, Top, "func_close", g)
  BY <1>1, <1>3, <1>6, NeedsNone DEF Going, GoesAs, Single
<1> QED BY <1>1, <1>5, <1>7, Tokens, StepsOn

LEMMA CompoundRuns ==
  ASSUME NEW s \in Seq(Kind), NEW q \in Nat, q <= Len(s) + 1, NEW W, "compound" \in W
  PROVE  Runs(s, <<Frame("compound")>>, q, W, q)
<1>1. PICK f : f = Frame("compound")
  OBVIOUS
<1>2. f.at = "compound" /\ f.kids = <<>>
  BY <1>1, FrameFields
<1>3. Role(f) = "compound"
  BY <1>2 DEF Role
<1>4. Nls(s, q, q)
  BY NlsNone
<1>5. HasRead(s, f, q, q)
  BY <1>2, <1>4 DEF HasRead, Lone
<1>6. Runs(s, <<f>>, q, W, q)
  BY <1>3, <1>5, RunsOne DEF Ran
<1> QED BY <1>1, <1>6

LEMMA FuncCalls ==
  ASSUME NEW f, f.at = "func_close", NEW x, NEW g, g.at = "func_body", g.kids = f.kids, g.words = f.words
  PROVE  Awaited(")", f, g, <<Frame("compound")>>, x)
<1>1. SUFFICES ASSUME NEW s \in Seq(Kind), NEW p \in Nat, NEW h \in Nat, NEW j \in Nat, h = x, j = h + 1,
                      j <= Len(s) + 1, Tok(s, h, {")"}), Ran(s, f, p, h)
               PROVE  Calls(s, g, p, <<Frame("compound")>>, j)
  BY DEF Awaited
<1>2. HasRead(s, f, p, h)
  BY <1>1, AloneIs, NeedsNone
<1>3. f.kids = <<>> /\ \E m \in Nat : FuncTo(s, f.words, p, m) /\ Tok(s, m + 1, {"("}) /\ h = m + 2
  BY <1>2 DEF HasRead
<1>4. PICK m \in Nat : FuncTo(s, f.words, p, m) /\ Tok(s, m + 1, {"("}) /\ h = m + 2
  BY <1>3
<1>5. FuncTo(s, g.words, p, m) /\ Tok(s, m + 1, {"("}) /\ Tok(s, m + 2, {")"}) /\ j = m + 3
  BY <1>1, <1>4
<1>6. FuncAwaits(s, g.words, g.kids, p, j)
  BY <1>3, <1>5 DEF FuncAwaits
<1>7. FrameAwaits(s, g, p, j)
  BY <1>6 DEF FrameAwaits, Awaits
<1>8. Runs(s, <<Frame("compound")>>, j, Needs(g.at), j)
  BY <1>1, CompoundRuns DEF Needs
<1>9. PICK c : c = <<Frame("compound")>>
  OBVIOUS
<1>10. c \in Seq({Frame("compound")}) /\ c # <<>>
  BY <1>9
<1> QED BY <1>7, <1>8, <1>9, <1>10, Zenon DEF Calls

LEMMA FuncBodyTree ==
  ASSUME LineInv, Parsing("func_close"), Take(")"), GoOn(Top, "func_body", <<Frame("compound")>>)
  PROVE  TreeInv' /\ LinesInv'
<1>1. at = "parse" /\ Top.at = "func_close"
  BY DEF Parsing
<1>2. PICK S : Top \in FrameOf(S)
  BY <1>1, Tokens, TakenType
<1>3. PICK g : g = [Top EXCEPT !.at = "func_body"]
  OBVIOUS
<1>4. g.at = "func_body" /\ g.kids = Top.kids /\ g.words = Top.words
  BY <1>2, <1>3, Relabelled
<1>5. Awaited(")", Top, g, <<Frame("compound")>>, Here)
  BY <1>1, <1>4, FuncCalls
<1>6. Role(Top) = "command" /\ Role(g) = "command"
  BY <1>1, <1>4 DEF Role
<1>7. Calling(Top, Top, "func_body", <<Frame("compound")>>, g)
  BY <1>3, <1>6 DEF Calling, GoesAs
<1> QED BY <1>1, <1>5, <1>7, Tokens, StepsInto

LEMMA FuncParenthesesTree ==
  ASSUME LineInv, FuncParentheses
  PROVE  TreeInv' /\ LinesInv'
  BY FuncCloseTree, FuncBodyTree DEF FuncParentheses

LEMMA FunctionNode ==
  ASSUME NEW s \in Seq(Kind), NEW f, f.at = "func_body", NEW p \in Nat, NEW h \in Nat, Ran(s, f, p, h)
  PROVE  Gives(s, "command", Worded("func", f.kids, f.words), p, h)
<1>1. Resumed(s, f, p, h)
  BY ResumedIs DEF Lone
<1>2. PICK T, n : \E k \in Seq(T) : \E q \in Nat : \E fam \in Needs(f.at) :
        /\ Awaits(s, f.at, f.type, f.words, f.redirs, k, p, q)
        /\ f.kids = Append(k, n) /\ Gives(s, fam, n, q, h)
  BY <1>1, Zenon DEF Resumed
<1>3. PICK k \in Seq(T), q \in Nat, fam \in Needs(f.at) :
        /\ Awaits(s, f.at, f.type, f.words, f.redirs, k, p, q)
        /\ f.kids = Append(k, n) /\ Gives(s, fam, n, q, h)
  BY <1>2
<1>4. FuncAwaits(s, f.words, k, p, q)
  BY <1>3 DEF Awaits
<1>5. k = <<>> /\ \E m \in Nat : FuncTo(s, f.words, p, m) /\ Tok(s, m + 1, {"("}) /\ Tok(s, m + 2, {")"}) /\ q = m + 3
  BY <1>4 DEF FuncAwaits
<1>6. PICK m \in Nat : FuncTo(s, f.words, p, m) /\ Tok(s, m + 1, {"("}) /\ Tok(s, m + 2, {")"}) /\ q = m + 3
  BY <1>5
<1>7. f.words = <<m>> /\ Nls(s, p, m) /\ Tok(s, m, WordKind)
  BY <1>6 DEF FuncTo
<1>8. fam = "compound"
  BY <1>3 DEF Needs
<1>9. n.type \in BareType /\ After(s, n, m + 3, h)
  BY <1>3, <1>6, <1>8 DEF Gives, TypesOf
<1>10. f.kids = <<n>>
  BY <1>3, <1>5, Appended
<1>11. PICK a : a = Worded("func", <<n>>, <<m>>)
  OBVIOUS
<1>12. Bare(s, a, m, h)
  BY <1>6, <1>7, <1>9, <1>11, FunctionStands
<1>13. a.type = "func"
  BY <1>11 DEF Worded, Node
<1>14. After(s, a, p, h)
  BY <1>7, <1>12, <1>13, NotBare, AfterBare
<1>15. Gives(s, "command", a, p, h)
  BY <1>13, <1>14, LogicTypes DEF Gives, TypesOf
<1> QED BY <1>7, <1>10, <1>11, <1>15

LEMMA FuncEndsTree ==
  ASSUME LineInv, FuncEnds
  PROVE  TreeInv' /\ LinesInv'
<1>1. at = "parse" /\ Top.at = "func_body" /\ UNCHANGED <<input, read, putback, prompt>>
  BY DEF FuncEnds, Parsing
<1>2. CASE Return([Node("func", Top.kids) EXCEPT !.words = Top.words])
  <2>1. PICK S, V, s, f : \E p \in Nat : \E h \in Nat : Keeps(S, V, p, s, f, h)
    BY <1>1, KeepsOne
  <2>2. PICK p \in Nat, h \in Nat : Keeps(S, V, p, s, f, h)
    BY <2>1
  <2>3. Acts(S, V, p, s, f, h) /\ Now(h) /\ s \in Seq(Kind) /\ f = Top /\ Ran(s, f, p, h)
    BY <2>2 DEF Keeps
  <2>4. PICK n : n = Worded("func", f.kids, f.words)
    OBVIOUS
  <2>5. Gives(s, Role(f), n, p, h)
    BY <1>1, <2>3, <2>4, FunctionNode DEF Role
  <2>6. Return(n)
    BY <1>2, <2>3, <2>4 DEF Worded
  <2> QED BY <2>3, <2>5, <2>6, TurnsUp
<1>3. CASE Fail
  <2>1. TokenInv'
    BY <1>1 DEF LineInv, ParserInv, TokenInv
  <2> QED BY <1>1, <1>3, <2>1, FailsTree
<1> QED BY <1>2, <1>3 DEF FuncEnds

-----------------------------------------------------------------------------
(***************************************************************************)
(* The functions that a compound command starts with, behind its token k.  *)
(***************************************************************************)
Constructs(k, c) ==
  /\ \E T : c \in Seq(T) /\ c # <<>>
  /\ \A s \in Seq(Kind) : \A h \in Nat : \A j \in Nat :
       j = h + 1 /\ j <= Len(s) + 1 /\ Tok(s, h, {k}) => Runs(s, c, h, {"construct"}, j)

AwaitsAt(k, f) ==
  \A s \in Seq(Kind) : \A h \in Nat : \A j \in Nat :
     j = h + 1 /\ j <= Len(s) + 1 /\ Tok(s, h, {k}) => FrameAwaits(s, f, h, j)
ReadsAt(k, f) ==
  \A s \in Seq(Kind) : \A h \in Nat : \A j \in Nat : j = h + 1 /\ Tok(s, h, {k}) => HasRead(s, f, h, j)

LEMMA BlockConstructs ==
  ASSUME NEW k, NEW f, f.at \in {"then", "do", "paren", "brace"}, NEW u \in SUBSET Kind, AwaitsAt(k, f)
  PROVE  Constructs(k, <<f>> \o Block(u))
<1>1. PICK T : Block(u) \in Seq(T) /\ Block(u) # <<>>
  BY BlockCalled DEF StackOf
<1>2. PICK d : d = Block(u)
  OBVIOUS
<1>3. \E U : <<f>> \o d \in Seq(U) /\ <<f>> \o d # <<>>
  <2>1. PICK U : U = T \cup {f}
    OBVIOUS
  <2>2. T \subseteq U /\ f \in U
    BY <2>1
  <2>3. d \in Seq(U) /\ <<f>> \in Seq(U) /\ Len(<<f>>) = 1 /\ Len(d) \in Nat
    BY <1>1, <1>2, <2>2
  <2>4. <<f>> \o d \in Seq(U) /\ Len(<<f>> \o d) = Len(<<f>>) + Len(d)
    BY <2>3, ConcatProperties
  <2>5. Len(<<f>> \o d) # 0
    BY <2>3, <2>4
  <2>6. <<f>> \o d # <<>>
    BY <2>5
  <2> QED BY <2>4, <2>6, Zenon
<1>4. Role(f) = "construct" /\ "list" \in Needs(f.at)
  BY DEF Role, Needs
<1>5. ASSUME NEW s \in Seq(Kind), NEW h \in Nat, NEW j \in Nat, j = h + 1, j <= Len(s) + 1, Tok(s, h, {k})
      PROVE  Runs(s, <<f>> \o d, h, {"construct"}, j)
  <2>1. FrameAwaits(s, f, h, j)
    BY <1>5 DEF AwaitsAt
  <2>2. Runs(s, Block(u), j, Needs(f.at), j)
    BY <1>4, <1>5, BlockRuns
  <2>3. Role(f) \in {"construct"}
    BY <1>4
  <2> QED BY <1>1, <1>2, <2>1, <2>2, <2>3, RunsPush
<1> QED BY <1>2, <1>3, <1>5 DEF Constructs

LEMMA IfConstructs ==
  ASSUME NEW u \in SUBSET Kind
  PROVE  Constructs("if", <<Typed("then", "if")>> \o Block(u))
<1>1. PICK f : f = Typed("then", "if")
  OBVIOUS
<1>2. f.at = "then" /\ f.kids = <<>> /\ f.type = "if"
  BY <1>1 DEF Typed, Frame
<1>3. ASSUME NEW s \in Seq(Kind), NEW h \in Nat, NEW j \in Nat, j = h + 1, j <= Len(s) + 1, Tok(s, h, {"if"})
      PROVE  FrameAwaits(s, f, h, j)
  <2>1. PICK k : k = f.kids
    OBVIOUS
  <2>2. Len(k) = 2 * 0
    BY <1>2, <2>1
  <2>3. PICK y : y = [i \in 0..0 |-> h]
    OBVIOUS
  <2>4. y \in [0..0 -> Nat] /\ y[0] = h
    BY <2>3
  <2>5. Clauses(s, k, 0, y, h)
    BY <2>4 DEF Clauses
  <2>6. Tok(s, y[0], Opening(0 + 1)) /\ j = y[0] + 1
    BY <1>3, <2>4 DEF Opening
  <2>7. ThenAwaits(s, k, h, j)
    BY <2>2, <2>5, <2>6 DEF ThenAwaits
  <2> QED BY <1>2, <2>1, <2>7 DEF FrameAwaits, Awaits
<1>5. AwaitsAt("if", f)
  BY <1>3 DEF AwaitsAt
<1>4. Constructs("if", <<f>> \o Block(u))
  BY <1>2, <1>5, BlockConstructs
<1> QED BY <1>1, <1>4

LEMMA LoopConstructs ==
  ASSUME NEW u \in SUBSET Kind, NEW k \in {"while", "until"}
  PROVE  Constructs(k, <<Typed("do", k)>> \o Block(u))
<1>1. PICK f : f = Typed("do", k)
  OBVIOUS
<1>2. f.at = "do" /\ f.kids = <<>> /\ f.type = k /\ f.words = <<>>
  BY <1>1 DEF Typed, Frame
<1>3. ASSUME NEW s \in Seq(Kind), NEW h \in Nat, NEW j \in Nat, j = h + 1, j <= Len(s) + 1, Tok(s, h, {k})
      PROVE  FrameAwaits(s, f, h, j)
  <2>1. DoAwaits(s, k, <<>>, <<>>, h, j)
    BY <1>3 DEF DoAwaits, Loop
  <2> QED BY <1>2, <2>1 DEF FrameAwaits, Awaits
<1>5. AwaitsAt(k, f)
  BY <1>3 DEF AwaitsAt
<1>4. Constructs(k, <<f>> \o Block(u))
  BY <1>2, <1>5, BlockConstructs
<1> QED BY <1>1, <1>4

LEMMA ParenConstructs ==
  ASSUME NEW u \in SUBSET Kind
  PROVE  Constructs("(", <<Typed("paren", "subshell")>> \o Block(u))
<1>1. PICK f : f = Typed("paren", "subshell")
  OBVIOUS
<1>2. f.at = "paren" /\ f.kids = <<>>
  BY <1>1 DEF Typed, Frame
<1>3. ASSUME NEW s \in Seq(Kind), NEW h \in Nat, NEW j \in Nat, j = h + 1, j <= Len(s) + 1, Tok(s, h, {"("})
      PROVE  FrameAwaits(s, f, h, j)
  <2>1. EnclosedAwaits(s, {"("}, f.kids, h, j)
    BY <1>2, <1>3 DEF EnclosedAwaits
  <2> QED BY <1>2, <2>1 DEF FrameAwaits, Awaits
<1>5. AwaitsAt("(", f)
  BY <1>3 DEF AwaitsAt
<1>4. Constructs("(", <<f>> \o Block(u))
  BY <1>2, <1>5, BlockConstructs
<1> QED BY <1>1, <1>4

LEMMA BraceConstructs ==
  ASSUME NEW u \in SUBSET Kind, NEW k, {k} = OpenBrace
  PROVE  Constructs(k, <<Typed("brace", "group")>> \o Block(u))
<1>1. PICK f : f = Typed("brace", "group")
  OBVIOUS
<1>2. f.at = "brace" /\ f.kids = <<>>
  BY <1>1 DEF Typed, Frame
<1>3. ASSUME NEW s \in Seq(Kind), NEW h \in Nat, NEW j \in Nat, j = h + 1, j <= Len(s) + 1, Tok(s, h, {k})
      PROVE  FrameAwaits(s, f, h, j)
  <2>1. EnclosedAwaits(s, OpenBrace, f.kids, h, j)
    BY <1>2, <1>3 DEF EnclosedAwaits
  <2> QED BY <1>2, <2>1 DEF FrameAwaits, Awaits
<1>5. AwaitsAt(k, f)
  BY <1>3 DEF AwaitsAt
<1>4. Constructs(k, <<f>> \o Block(u))
  BY <1>2, <1>5, BlockConstructs
<1> QED BY <1>1, <1>4

LEMMA OneConstructs ==
  ASSUME NEW k, NEW f, Role(f) = "construct", ReadsAt(k, f)
  PROVE  Constructs(k, <<f>>)
<1>1. <<f>> \in Seq({f}) /\ <<f>> # <<>>
  OBVIOUS
<1>2. ASSUME NEW s \in Seq(Kind), NEW h \in Nat, NEW j \in Nat, j = h + 1, Tok(s, h, {k})
      PROVE  Runs(s, <<f>>, h, {"construct"}, j)
  <2>1. Ran(s, f, h, j)
    BY <1>2 DEF Ran, ReadsAt
  <2>2. Role(f) \in {"construct"}
    OBVIOUS
  <2> QED BY <2>1, <2>2, RunsOne
<1> QED BY <1>1, <1>2, Zenon DEF Constructs

LEMMA ForConstructs == Constructs("for", <<Typed("for_name", "for")>>)
<1>1. PICK f : f = Typed("for_name", "for")
  OBVIOUS
<1>2. f.at = "for_name" /\ f.kids = <<>> /\ f.type = "for"
  BY <1>1 DEF Typed, Frame
<1>3. ASSUME NEW s \in Seq(Kind), NEW h \in Nat, NEW j \in Nat, j = h + 1, Tok(s, h, {"for"})
      PROVE  HasRead(s, f, h, j)
  BY <1>2, <1>3 DEF HasRead, Lone
<1>4. Role(f) = "construct"
  BY <1>2 DEF Role
<1>5. ReadsAt("for", f)
  BY <1>3 DEF ReadsAt
<1> QED BY <1>1, <1>4, <1>5, OneConstructs

LEMMA CaseConstructs == Constructs("case", <<Typed("case_word", "case")>>)
<1>1. PICK f : f = Typed("case_word", "case")
  OBVIOUS
<1>2. f.at = "case_word" /\ f.kids = <<>> /\ f.redirs = <<>>
  BY <1>1 DEF Typed, Frame
<1>3. ASSUME NEW s \in Seq(Kind), NEW h \in Nat, NEW j \in Nat, j = h + 1, Tok(s, h, {"case"})
      PROVE  HasRead(s, f, h, j)
  BY <1>2, <1>3 DEF HasRead, Lone
<1>4. Role(f) = "construct"
  BY <1>2 DEF Role
<1>5. ReadsAt("case", f)
  BY <1>3 DEF ReadsAt
<1> QED BY <1>1, <1>4, <1>5, OneConstructs

LEMMA ConstructCalls ==
  ASSUME NEW f, f.at = "compound", NEW g, g.at = "redirs", g.kids = <<>>, g.redirs = <<>>, g.type # "cmd",
         NEW k, NEW c, Constructs(k, c), NEW x
  PROVE  Awaited(k, f, g, c, x)
<1>1. SUFFICES ASSUME NEW s \in Seq(Kind), NEW p \in Nat, NEW h \in Nat, NEW j \in Nat, h = x, j = h + 1,
                      j <= Len(s) + 1, Tok(s, h, {k}), Ran(s, f, p, h)
               PROVE  Calls(s, g, p, c, j)
  BY DEF Awaited
<1>2. HasRead(s, f, p, h)
  BY <1>1, AloneIs, NeedsNone
<1>3. Nls(s, p, h)
  BY <1>2 DEF HasRead
<1>4. FrameAwaits(s, g, p, h)
  BY <1>3 DEF FrameAwaits, Awaits, RedirsAwaits
<1>5. Runs(s, c, h, {"construct"}, j)
  BY <1>1 DEF Constructs
<1>6. Needs(g.at) = {"construct"}
  BY DEF Needs
<1>7. \E T : c \in Seq(T) /\ c # <<>>
  BY DEF Constructs
<1> QED BY <1>4, <1>5, <1>6, <1>7, Zenon DEF Calls

LEMMA CompoundConstructs ==
  ASSUME Compound
  PROVE  \E k \in CompoundStart : \E c : Take(k) /\ GoOn(Frame("redirs"), "redirs", c) /\ Constructs(k, c)
<1>1. PICK k \in CompoundStart : Take(k) /\
        GoOn(Frame("redirs"), "redirs",
             CASE k = "if" -> <<Typed("then", "if")>> \o Block({"then"})
               [] k \in {"while", "until"} -> <<Typed("do", k)>> \o Block({"do"})
               [] k = "for" -> <<Typed("for_name", "for")>>
               [] k = "case" -> <<Typed("case_word", "case")>>
               [] k = "(" -> <<Typed("paren", "subshell")>> \o Block({")"})
               [] k = "{" -> <<Typed("brace", "group")>> \o Block({"}"}))
  BY DEF Compound
<1> DEFINE Goes(c) == GoOn(Frame("redirs"), "redirs", c)
<1>2. /\ k = "if" => Goes(<<Typed("then", "if")>> \o Block({"then"}))
      /\ k \in {"while", "until"} => Goes(<<Typed("do", k)>> \o Block({"do"}))
      /\ k = "for" => Goes(<<Typed("for_name", "for")>>)
      /\ k = "case" => Goes(<<Typed("case_word", "case")>>)
      /\ k = "(" => Goes(<<Typed("paren", "subshell")>> \o Block({")"}))
      /\ k = "{" => Goes(<<Typed("brace", "group")>> \o Block({"}"}))
  BY <1>1
<1> HIDE DEF Goes
<1>3. {"then"} \in SUBSET Kind /\ {"do"} \in SUBSET Kind /\ {")"} \in SUBSET Kind /\ {"}"} \in SUBSET Kind
  BY DEF Kind, Keyword
<1>4. \/ k = "if" \/ k = "while" \/ k = "until" \/ k = "for" \/ k = "case" \/ k = "(" \/ k = "{"
  BY <1>1 DEF CompoundStart
<1>5. k = "{" => {k} = OpenBrace
  BY Zenon DEF OpenBrace
<1>6. \E c : Goes(c) /\ Constructs(k, c)
  <2>1. CASE k = "if"
    BY <1>2, <1>3, <2>1, IfConstructs, Zenon
  <2>2. CASE k \in {"while", "until"}
    BY <1>2, <1>3, <2>2, LoopConstructs, Zenon
  <2>3. CASE k = "for"
    BY <1>2, <2>3, ForConstructs, Zenon
  <2>4. CASE k = "case"
    BY <1>2, <2>4, CaseConstructs, Zenon
  <2>5. CASE k = "("
    BY <1>2, <1>3, <2>5, ParenConstructs, Zenon
  <2>6. CASE k = "{"
    BY <1>2, <1>3, <1>5, <2>6, BraceConstructs, Zenon
  <2> QED BY <1>4, <2>1, <2>2, <2>3, <2>4, <2>5, <2>6
<1> QED BY <1>1, <1>6, Zenon DEF Goes

LEMMA CompoundTree ==
  ASSUME LineInv, Compound
  PROVE  TreeInv' /\ LinesInv'
<1>1. at = "parse" /\ Top.at = "compound"
  BY DEF Compound, Parsing
<1>2. PICK k \in CompoundStart : \E c : Take(k) /\ GoOn(Frame("redirs"), "redirs", c) /\ Constructs(k, c)
  BY CompoundConstructs
<1>3. PICK c : Take(k) /\ GoOn(Frame("redirs"), "redirs", c) /\ Constructs(k, c)
  BY <1>2
<1>4. PICK e : e = Frame("redirs")
  OBVIOUS
<1>5. PICK g : g = [e EXCEPT !.at = "redirs"]
  OBVIOUS
<1>6. g.at = "redirs" /\ g.kids = <<>> /\ g.redirs = <<>> /\ g.type = ""
  BY <1>4, <1>5 DEF Frame
<1>7. Awaited(k, Top, g, c, Here)
  BY <1>1, <1>3, <1>6, ConstructCalls
<1>8. Role(Top) = "compound" /\ Role(g) = "compound"
  BY <1>1, <1>6 DEF Role
<1>9. Calling(Top, e, "redirs", c, g)
  BY <1>3, <1>4, <1>5, <1>8 DEF Calling, GoesAs
<1>10. k \in Kind /\ k # "eof"
  BY Tokens
<1> QED BY <1>1, <1>3, <1>7, <1>9, <1>10, StepsInto

-----------------------------------------------------------------------------
\* trees that only differ in their redirections
Alike(m, n) == m.type = n.type /\ m.kids = n.kids /\ m.words = n.words
IfEndsOf(D, s, k, I) ==
  LET body == Body(D, s, k[2], Token(s, {"then"}, Body(D, s, k[1], Token(s, {"if", "elif"}, I))))
  IN  IF Len(k) = 2 THEN body
      ELSE Body(D, s, k[3], Token(s, {"else"}, body))
             \cup IF k[3].type # "if" THEN {}
                  ELSE UNION {D[k[3]][i] : i \in {j \in body \cap DOMAIN s : s[j] = "elif"}}
NameOf(s, w, I) == Token(s, WordKind, {i \in Token(s, {"for"}, I) : w[1] = i})
HeadOf(s, n, name) ==
  IF n.words[Len(n.words)] = 0 THEN name \cup Token(s, LineEnd, name)
  ELSE Token(s, LineEnd, WordEnds(s, n, 2, Token(s, {"in"}, name)))
ItemsOf(D, s, k, x) ==
  LET item(m) == k[m]
      starts(m) == {item(m).words[1] - 1, item(m).words[1]} \cap DOMAIN s
      ends(m) == UNION {D[item(m)][i] : i \in starts(m)}
      next(m) == Breaks(s, Token(s, ItemEnd, ends(m)))
      last == Len(k)
  IN  IF last = 0 THEN x
      ELSE IF /\ \A m \in 1..last : item(m).type = "item" /\ item(m).words # <<>>
              /\ starts(1) \cap x # {}
              /\ \A m \in 1..(last - 1) : starts(m + 1) \cap next(m) # {}
        THEN next(last) \cup ends(last)
        ELSE {}
LEMMA IfByParts ==
  ASSUME NEW D, NEW s, NEW n, NEW I, n.type = "if"
  PROVE  BareEnds(D, s, n, I) = IfEndsOf(D, s, n.kids, I)
<1>1. BareCases(D, s, n, I)
  BY BareOf
<1> QED BY <1>1, Zenon DEF BareCases, IfEndsOf

LEMMA ForByParts ==
  ASSUME NEW D, NEW s, NEW n, NEW I, n.type = "for"
  PROVE  BareEnds(D, s, n, I) =
           Token(s, {"done"}, Body(D, s, n.kids[1], Token(s, {"do"}, Breaks(s, HeadOf(s, n, NameOf(s, n.words, I))))))
<1>1. BareCases(D, s, n, I)
  BY BareOf
<1> QED BY <1>1, Zenon DEF BareCases, HeadOf, NameOf, LineEnd

CaseHeads(s, n, I) == Token(s, {"in"}, WordEnds(s, n, 1, Token(s, {"case"}, I)))
LEMMA CaseByParts ==
  ASSUME NEW D, NEW s, NEW n, NEW I, n.type = "case"
  PROVE  BareEnds(D, s, n, I) = Token(s, {"esac"}, ItemsOf(D, s, n.kids, Breaks(s, CaseHeads(s, n, I))))
<1>1. BareCases(D, s, n, I)
  BY BareOf
<1>2. BareEnds(D, s, n, I) = Token(s, {"esac"}, Items(D, s, n, CaseHeads(s, n, I)))
  BY <1>1, Zenon DEF BareCases, CaseHeads
<1>3. \A J : Items(D, s, n, J) = ItemsOf(D, s, n.kids, Breaks(s, J))
  BY Zenon DEF Items, ItemsOf, ItemEnd
<1> QED BY <1>2, <1>3, Zenon

LEMMA AlikeBare ==
  ASSUME NEW m, NEW n, Alike(m, n), n.type \in BareType, NEW D, NEW s, NEW I
  PROVE  BareEnds(D, s, m, I) = BareEnds(D, s, n, I)
<1>1. m.type = n.type /\ m.kids = n.kids /\ m.words = n.words
  BY DEF Alike
<1>2. \A a, J : WordEnds(s, m, a, J) = WordEnds(s, n, a, J)
  BY <1>1 DEF WordEnds
<1>3. BareCases(D, s, m, I) /\ BareCases(D, s, n, I)
  BY BareOf
<1>4. CASE n.type = "group"
  BY <1>1, <1>3, <1>4, Zenon DEF BareCases
<1>5. CASE n.type = "subshell"
  BY <1>1, <1>3, <1>5, Zenon DEF BareCases
<1>6. CASE n.type \in {"while", "until"}
  BY <1>1, <1>3, <1>6, Zenon DEF BareCases
<1>7. CASE n.type = "if"
  <2>1. BareEnds(D, s, m, I) = IfEndsOf(D, s, m.kids, I)
    BY <1>1, <1>7, IfByParts, Zenon
  <2>2. BareEnds(D, s, n, I) = IfEndsOf(D, s, n.kids, I)
    BY <1>7, IfByParts, Zenon
  <2> QED BY <1>1, <2>1, <2>2, Zenon
<1>8. CASE n.type = "for"
  <2>1. BareEnds(D, s, m, I) =
          Token(s, {"done"}, Body(D, s, m.kids[1], Token(s, {"do"}, Breaks(s, HeadOf(s, m, NameOf(s, m.words, I))))))
    BY <1>1, <1>8, ForByParts, Zenon
  <2>2. BareEnds(D, s, n, I) =
          Token(s, {"done"}, Body(D, s, n.kids[1], Token(s, {"do"}, Breaks(s, HeadOf(s, n, NameOf(s, n.words, I))))))
    BY <1>8, ForByParts, Zenon
  <2>3. \A x : HeadOf(s, m, x) = HeadOf(s, n, x)
    BY <1>1, <1>2, Zenon DEF HeadOf
  <2>4. HeadOf(s, m, NameOf(s, m.words, I)) = HeadOf(s, n, NameOf(s, n.words, I))
    BY <1>1, <2>3, Zenon
  <2> QED BY <1>1, <2>1, <2>2, <2>4, Zenon
<1>9. CASE n.type = "case"
  <2>1. BareEnds(D, s, m, I) = Token(s, {"esac"}, ItemsOf(D, s, m.kids, Breaks(s, CaseHeads(s, m, I))))
    BY <1>1, <1>9, CaseByParts, Zenon
  <2>2. BareEnds(D, s, n, I) = Token(s, {"esac"}, ItemsOf(D, s, n.kids, Breaks(s, CaseHeads(s, n, I))))
    BY <1>9, CaseByParts, Zenon
  <2>3. CaseHeads(s, m, I) = CaseHeads(s, n, I)
    BY <1>2, Zenon DEF CaseHeads
  <2> QED BY <1>1, <2>1, <2>2, <2>3, Zenon
<1> QED BY <1>4, <1>5, <1>6, <1>7, <1>8, <1>9 DEF BareType

LEMMA BareTo ==
  ASSUME NEW s \in Seq(Kind), NEW n, NEW i, NEW j, Bare(s, n, i, j)
  PROVE  j \in BareEnds(KnownKids(s, n), s, n, {i})
<1>1. PICK P : Grown(P, s) /\ <<n, i, j>> \in P
  BY DEF Bare
<1>2. Placed(P, s, n, i, j)
  BY <1>1 DEF Grown
<1>3. IsTree(n) /\ Shaped(n) /\ j \in BareEnds(Under(P, n), s, n, {i})
  BY <1>2 DEF Placed
<1>4. Numbered(n) /\ n.kids \in Seq(KidsOf(n))
  BY <1>3 DEF IsTree
<1>5. Grows(Under(P, n), KnownKids(s, n), KidsOf(n))
  <2>1. SUFFICES ASSUME NEW k \in KidsOf(n), NEW a \in Nat, NEW b \in Under(P, n)[k][a]
                 PROVE  b \in KnownKids(s, n)[k][a]
    BY DEF Grows
  <2>2. b \in Nat /\ <<k, a, b>> \in P
    BY <2>1 DEF Under
  <2>3. Bare(s, k, a, b)
    BY <1>1, <2>2 DEF Bare
  <2> QED BY <2>2, <2>3 DEF KnownKids
<1>6. Prefix(s, s)
  BY PrefixSelf
<1> QED BY <1>3, <1>4, <1>5, <1>6, BareEndsGrow

LEMMA BareRedirected ==
  ASSUME NEW s \in Seq(Kind), NEW n, n.type \in BareType, NEW r \in Seq(Nat), NEW i, NEW j, Bare(s, n, i, j)
  PROVE  LET m == [n EXCEPT !.redirs = r]
         IN  Bare(s, m, i, j) /\ m.type = n.type /\ m.redirs = r
<1>1. IsTree(n) /\ Shaped(n) /\ i \in Nat /\ j \in Nat /\ i <= j /\ j <= Len(s) + 1
  BY BareIs
<1>2. PICK m : m = [n EXCEPT !.redirs = r]
  OBVIOUS
<1>3. /\ n = [type |-> n.type, assigns |-> n.assigns, words |-> n.words, redirs |-> n.redirs, kids |-> n.kids]
      /\ Numbered(n) /\ n.kids \in Seq(KidsOf(n))
  BY <1>1 DEF IsTree
<1>4. /\ m = [type |-> n.type, assigns |-> n.assigns, words |-> n.words, redirs |-> r, kids |-> n.kids]
      /\ m.type = n.type /\ m.assigns = n.assigns /\ m.words = n.words /\ m.redirs = r /\ m.kids = n.kids
  BY <1>2, <1>3
<1>5. KidsOf(m) = KidsOf(n) /\ Numbered(m)
  BY <1>3, <1>4 DEF KidsOf, Numbered
<1>6. IsTree(m)
  BY <1>3, <1>4, <1>5 DEF IsTree
<1>7. Shaped(m)
  BY <1>1, <1>4, Zenon DEF Shaped
<1>8. KnownKids(s, m) = KnownKids(s, n)
  BY <1>5 DEF KnownKids
<1>9. Alike(m, n)
  BY <1>4 DEF Alike
<1>10. j \in BareEnds(KnownKids(s, n), s, n, {i})
  BY BareTo
<1>11. j \in BareEnds(KnownKids(s, m), s, m, {i})
  <2>1. PICK D, I : D = KnownKids(s, n) /\ I = {i}
    OBVIOUS
  <2>2. BareEnds(D, s, m, I) = BareEnds(D, s, n, I)
    BY <1>9, AlikeBare
  <2> QED BY <1>8, <1>10, <2>1, <2>2, Zenon
<1>12. Bare(s, m, i, j)
  BY <1>1, <1>6, <1>7, <1>11, BareFrom
<1> QED BY <1>2, <1>4, <1>12

LEMMA CoreRedirected ==
  ASSUME NEW s \in Seq(Kind), NEW n, n.type \in BareType, NEW r \in Seq(Nat), NEW i, NEW m \in Nat, Core(s, n, i, m),
         NEW j \in Nat, Redirected(s, r, m, j)
  PROVE  LET t == [n EXCEPT !.redirs = r]
         IN  t.type = n.type /\ Stand(s, t, i, j)
<1>1. PICK t : t = [n EXCEPT !.redirs = r]
  OBVIOUS
<1>2. \A a, b : Bare(s, n, a, b) => Bare(s, t, a, b) /\ t.type = n.type /\ t.redirs = r
  BY <1>1, BareRedirected
<1>3. t.type = n.type /\ t.redirs = r /\ Core(s, t, i, m)
  <2>1. CASE n.type = "if"
    <3>1. PICK x \in Nat : Tok(s, i, {"if"}) /\ Bare(s, n, i, x) /\ Tok(s, x, {"fi"}) /\ m = x + 1
      BY <2>1 DEF Core
    <3> QED BY <1>2, <2>1, <3>1 DEF Core
  <2>2. CASE n.type # "if"
    BY <1>2, <2>2 DEF Core
  <2> QED BY <2>1, <2>2
<1> QED BY <1>1, <1>3 DEF Stand

-----------------------------------------------------------------------------
LEMMA RedirsRead ==
  ASSUME NEW s \in Seq(Kind), NEW f, f.at = "redirs", NEW p \in Nat, NEW h \in Nat, Ran(s, f, p, h)
  PROVE  f.type # "cmd" /\ BehindTo(s, f.redirs, f.kids, p, h)
<1>1. CASE HasRead(s, f, p, h)
  BY <1>1 DEF HasRead
<1>2. CASE Resumed(s, f, p, h)
  <2>1. PICK T, n : \E k \in Seq(T) : \E q \in Nat : \E fam \in Needs(f.at) :
          /\ Awaits(s, f.at, f.type, f.words, f.redirs, k, p, q)
          /\ f.kids = Append(k, n) /\ Gives(s, fam, n, q, h)
    BY <1>2, Zenon DEF Resumed
  <2>2. PICK k \in Seq(T), q \in Nat, fam \in Needs(f.at) :
          /\ Awaits(s, f.at, f.type, f.words, f.redirs, k, p, q)
          /\ f.kids = Append(k, n) /\ Gives(s, fam, n, q, h)
    BY <2>1
  <2>3. f.type # "cmd" /\ RedirsAwaits(s, f.redirs, k, p, q)
    BY <2>2 DEF Awaits
  <2>4. k = <<>> /\ f.redirs = <<>> /\ Nls(s, p, q)
    BY <2>3 DEF RedirsAwaits
  <2>5. fam = "construct"
    BY <2>2 DEF Needs
  <2>6. n.type \in BareType /\ Core(s, n, q, h)
    BY <2>2, <2>5 DEF Gives, TypesOf
  <2>7. f.kids = <<n>>
    BY <2>2, <2>4, Appended
  <2>8. Redirected(s, f.redirs, h, h)
    BY <2>4 DEF Redirected
  <2> QED BY <2>3, <2>4, <2>6, <2>7, <2>8 DEF BehindTo
<1> QED BY <1>1, <1>2 DEF Ran

LEMMA BehindGives ==
  ASSUME NEW s \in Seq(Kind), NEW r \in Seq(Nat), NEW k, NEW p \in Nat, NEW h \in Nat, BehindTo(s, r, k, p, h)
  PROVE  Gives(s, "compound", [k[1] EXCEPT !.redirs = r], p, h)
<1>1. PICK n : /\ k = <<n>> /\ n.type \in BareType
               /\ \E i \in Nat : \E m \in Nat : Nls(s, p, i) /\ Core(s, n, i, m) /\ Redirected(s, r, m, h)
  BY DEF BehindTo
<1>2. PICK i \in Nat, m \in Nat : Nls(s, p, i) /\ Core(s, n, i, m) /\ Redirected(s, r, m, h)
  BY <1>1
<1>3. PICK t : t = [n EXCEPT !.redirs = r]
  OBVIOUS
<1>4. t.type = n.type /\ Stand(s, t, i, h)
  BY <1>1, <1>2, <1>3, CoreRedirected
<1>5. After(s, t, p, h)
  BY <1>2, <1>4 DEF After
<1>6. Gives(s, "compound", t, p, h)
  BY <1>1, <1>4, <1>5 DEF Gives, TypesOf
<1> QED BY <1>1, <1>3, <1>6

LEMMA RedirsOpen ==
  ASSUME NEW s \in Seq(Kind), NEW f, f.at = "redirs", f.redirs \in Seq(Nat), NEW p \in Nat, NEW h \in Nat, Ran(s, f, p, h),
         NEW k \in Redirect, Tok(s, h, {k}), NEW j \in Nat, Beyond(h, j),
         NEW g, g.at = "target", g.type = f.type, g.kids = f.kids, g.redirs = Append(f.redirs, h)
  PROVE  Ran(s, g, p, j)
<1>1. f.type # "cmd" /\ BehindTo(s, f.redirs, f.kids, p, h)
  BY RedirsRead
<1>2. Tok(s, h, RedirKind)
  BY WordsAre, TokOf
<1>3. j = h + 1
  BY DEF Beyond
<1>4. OpenTo(s, g.redirs, g.kids, p, j)
  BY <1>1, <1>2, <1>3 DEF OpenTo
<1>5. HasRead(s, g, p, j)
  BY <1>1, <1>4 DEF HasRead, Lone
<1> QED BY <1>5 DEF Ran

LEMMA CompoundRedirsTree ==
  ASSUME LineInv, CompoundRedirs
  PROVE  TreeInv' /\ LinesInv'
<1>1. at = "parse" /\ Top.at = "redirs"
  BY DEF CompoundRedirs, Parsing
<1>2. ASSUME NEW k \in Redirect, Take(k), GoOn([Top EXCEPT !.redirs = Append(@, Here)], "target", <<>>)
      PROVE  TreeInv' /\ LinesInv'
  <2>1. k \in Kind /\ k # "eof"
    BY Tokens
  <2>2. PICK S, V, s, f : \E p \in Nat : \E h \in Nat : \E j \in Nat : Takes(S, V, p, s, f, h, j, k)
    BY <1>1, <1>2, <2>1, TakesOne
  <2>3. PICK p \in Nat, h \in Nat, j \in Nat : Takes(S, V, p, s, f, h, j, k)
    BY <2>2
  <2>4. /\ Acts(S, V, p, s, f, h) /\ Now(j) /\ j = h + 1 /\ Tok(s, h, {k})
        /\ s \in Seq(Kind) /\ f = Top /\ f \in FrameOf(S) /\ Ran(s, f, p, h) /\ Role(f) \in V /\ h = Here
    BY <2>3 DEF Takes, Acts
  <2>e. PICK e : e = [f EXCEPT !.redirs = Append(@, h)]
    OBVIOUS
  <2>5. PICK g : g = [e EXCEPT !.at = "target"]
    OBVIOUS
  <2>6. /\ g.at = "target" /\ g.type = f.type /\ g.kids = f.kids /\ g.redirs = Append(f.redirs, h) /\ f.redirs \in Seq(Nat)
    BY <2>4, <2>e, <2>5 DEF FrameOf
  <2>7. Beyond(h, j)
    BY <2>4 DEF Beyond
  <2>8. f.at = "redirs"
    BY <1>1, <2>4
  <2>9. Ran(s, g, p, j)
    BY <2>4, <2>6, <2>7, <2>8, RedirsOpen
  <2>10. f.type # "cmd"
    BY <2>4, <2>8, RedirsRead
  <2>11. Role(g) = Role(f)
    BY <2>6, <2>8, <2>10 DEF Role
  <2>12. GoesAs(e, "target", <<>>, g)
    BY <1>2, <2>4, <2>e, <2>5 DEF GoesAs
  <2> QED BY <2>4, <2>9, <2>11, <2>12, TurnsOn
<1>3. ASSUME NEW k \in Kind, Peek(k), Return([Top.kids[1] EXCEPT !.redirs = Top.redirs])
      PROVE  TreeInv' /\ LinesInv'
  <2>1. PICK S, V, s, f : \E p \in Nat : \E h \in Nat : Peeks(S, V, p, s, f, h, k)
    BY <1>1, <1>3, PeeksOne
  <2>2. PICK p \in Nat, h \in Nat : Peeks(S, V, p, s, f, h, k)
    BY <2>1
  <2>3. /\ Acts(S, V, p, s, f, h) /\ Now(h) /\ s \in Seq(Kind) /\ f = Top /\ f \in FrameOf(S) /\ Ran(s, f, p, h)
    BY <2>2 DEF Peeks
  <2>4. f.redirs \in Seq(Nat) /\ f.at = "redirs"
    BY <1>1, <2>3 DEF FrameOf
  <2>5. BehindTo(s, f.redirs, f.kids, p, h)
    BY <2>3, <2>4, RedirsRead
  <2>6. PICK n : n = [f.kids[1] EXCEPT !.redirs = f.redirs]
    OBVIOUS
  <2>r. Role(f) = "compound"
    BY <2>4 DEF Role
  <2>7. Gives(s, "compound", n, p, h)
    BY <2>3, <2>4, <2>5, <2>6, BehindGives
  <2>8. Return(n)
    BY <1>3, <2>3, <2>6
  <2> QED BY <2>3, <2>r, <2>7, <2>8, TurnsUp
<1> QED BY <1>2, <1>3 DEF CompoundRedirs

-----------------------------------------------------------------------------
Bodied(l) == l \in {"then", "elif", "fi", "do", "done", "item_end", "paren", "brace"}
BodyOf(s, f, p, h) ==
  \E T, n : \E k \in Seq(T) : \E q \in Nat :
    /\ Awaits(s, f.at, f.type, f.words, f.redirs, k, p, q)
    /\ f.kids = Append(k, n) /\ n.type \in ListType /\ Listed(s, n, q, h)
LEMMA BodyRead ==
  ASSUME NEW s, NEW f, Bodied(f.at), NEW p, NEW h, Resumed(s, f, p, h)
  PROVE  BodyOf(s, f, p, h)
<1>1. PICK T, n : \E k \in Seq(T) : \E q \in Nat : \E fam \in Needs(f.at) :
        /\ Awaits(s, f.at, f.type, f.words, f.redirs, k, p, q)
        /\ f.kids = Append(k, n) /\ Gives(s, fam, n, q, h)
  BY Zenon DEF Resumed
<1>2. PICK k \in Seq(T), q \in Nat, fam \in Needs(f.at) :
        /\ Awaits(s, f.at, f.type, f.words, f.redirs, k, p, q)
        /\ f.kids = Append(k, n) /\ Gives(s, fam, n, q, h)
  BY <1>1
<1>3. fam = "list"
  BY <1>2 DEF Needs, Bodied
<1>4. n.type \in ListType /\ Listed(s, n, q, h)
  BY <1>2, <1>3 DEF Gives, TypesOf
<1> QED BY <1>2, <1>4, Zenon DEF BodyOf

LEMMA ConstructGives ==
  ASSUME NEW s, NEW n, n.type \in BareType \ {"if"}, NEW p, NEW h, Bare(s, n, p, h)
  PROVE  Gives(s, "construct", n, p, h)
  BY DEF Gives, TypesOf, Core

LEMMA BareTypes == \A y \in {"group", "subshell", "while", "until", "for", "case"} : y \in BareType \ {"if"}
  BY DEF BareType

LEMMA EnclosedGiven ==
  ASSUME NEW K, NEW k, NEW y, NEW l,
         \/ y = "group" /\ K = OpenBrace /\ {k} = CloseBrace /\ l = "brace"
         \/ y = "subshell" /\ K = {"("} /\ k = ")" /\ l = "paren",
         NEW f, f.at = l, NEW x
  PROVE  Handed(k, f, Node(y, f.kids), x)
<1>1. SUFFICES ASSUME NEW s \in Seq(Kind), NEW p \in Nat, NEW h \in Nat, NEW j \in Nat, h = x, j = h + 1,
                      Tok(s, h, {k}), Ran(s, f, p, h)
               PROVE  Gives(s, Role(f), Node(y, f.kids), p, j)
  BY DEF Handed
<1>2. l \in {"brace", "paren"} /\ y \in {"group", "subshell"}
  OBVIOUS
<1>3. Resumed(s, f, p, h)
  BY <1>1, <1>2, ResumedIs DEF Lone
<1>b. BodyOf(s, f, p, h)
  BY <1>2, <1>3, BodyRead DEF Bodied
<1>4. PICK T, n : \E m \in Seq(T) : \E q \in Nat :
           /\ Awaits(s, f.at, f.type, f.words, f.redirs, m, p, q)
           /\ f.kids = Append(m, n) /\ n.type \in ListType /\ Listed(s, n, q, h)
  BY <1>b, Zenon DEF BodyOf
<1>5. PICK m \in Seq(T), q \in Nat :
           /\ Awaits(s, f.at, f.type, f.words, f.redirs, m, p, q)
           /\ f.kids = Append(m, n) /\ n.type \in ListType /\ Listed(s, n, q, h)
  BY <1>4
<1>6. EnclosedAwaits(s, K, m, p, q)
  BY <1>5 DEF Awaits
<1>7. m = <<>> /\ Tok(s, p, K) /\ q = p + 1
  BY <1>6 DEF EnclosedAwaits
<1>8. f.kids = <<n>>
  BY <1>5, <1>7, Appended
<1>9. PICK L : L = {k}
  OBVIOUS
<1>10. Bare(s, Node(y, <<n>>), p, h + 1)
  <2>1. \/ y = "group" /\ K = OpenBrace /\ L = CloseBrace
        \/ y = "subshell" /\ K = {"("} /\ L = {")"}
    BY <1>9
  <2>2. Listed(s, n, p + 1, h) /\ Tok(s, h, L)
    BY <1>1, <1>5, <1>7, <1>9
  <2> QED BY <1>5, <1>7, <2>1, <2>2, EnclosedStands
<1>11. PICK t : t = Node(y, <<n>>)
  OBVIOUS
<1>12. t.type = y /\ y \in BareType \ {"if"}
  BY <1>2, <1>11, BareTypes DEF Node
<1>13. Bare(s, t, p, j)
  BY <1>1, <1>10, <1>11
<1>14. Gives(s, "construct", t, p, j)
  BY <1>12, <1>13, ConstructGives
<1>15. Role(f) = "construct"
  BY <1>2 DEF Role
<1> QED BY <1>8, <1>11, <1>14, <1>15

LEMMA SubshellEndsTree ==
  ASSUME LineInv, SubshellEnds
  PROVE  TreeInv' /\ LinesInv'
<1>1. at = "parse" /\ Top.at = "paren" /\ Take(")") /\ Return(Node("subshell", Top.kids))
  BY DEF SubshellEnds, Parsing
<1>2. PICK K : K = {"("}
  OBVIOUS
<1>3. Handed(")", Top, Node("subshell", Top.kids), Here)
  BY <1>1, <1>2, EnclosedGiven
<1> QED BY <1>1, <1>3, Tokens, StepsUp

LEMMA GroupEndsTree ==
  ASSUME LineInv, GroupEnds
  PROVE  TreeInv' /\ LinesInv'
<1>1. PICK k \in Words : {k} = CloseBrace /\ Take(k) /\ at = "parse" /\ Top.at = "brace" /\ Return(Node("group", Top.kids))
  <2>1. "}" \in Words
    BY DEF Words, Keyword
  <2> QED BY <2>1, Zenon DEF GroupEnds, Parsing, CloseBrace
<1>2. PICK K, L : K = OpenBrace /\ L = CloseBrace
  OBVIOUS
<1>3. Handed(k, Top, Node("group", Top.kids), Here)
  BY <1>1, <1>2, EnclosedGiven
<1> QED BY <1>1, <1>3, Tokens, StepsUp

-----------------------------------------------------------------------------
\* g goes on at l with what f has
SameParted(f, g, l) == g.at = l /\ g.type = f.type /\ g.words = f.words /\ g.redirs = f.redirs /\ g.kids = f.kids

LEMMA LoopRead ==
  ASSUME NEW s \in Seq(Kind), NEW f, f.at = "do", NEW p \in Nat, NEW h \in Nat, Ran(s, f, p, h)
  PROVE  LoopTo(s, f.type, f.words, f.kids, p, h) \/ (f.type = "for" /\ f.kids = <<>> /\ ForTo(s, f.words, p, h))
<1>1. CASE HasRead(s, f, p, h)
  BY <1>1 DEF HasRead
<1>2. CASE Resumed(s, f, p, h)
  <2>b. BodyOf(s, f, p, h)
    BY <1>2, BodyRead DEF Bodied
  <2>1. PICK T, n : \E m \in Seq(T) : \E q \in Nat :
             /\ Awaits(s, f.at, f.type, f.words, f.redirs, m, p, q)
             /\ f.kids = Append(m, n) /\ n.type \in ListType /\ Listed(s, n, q, h)
    BY <2>b, Zenon DEF BodyOf
  <2>2. PICK m \in Seq(T), q \in Nat :
             /\ Awaits(s, f.at, f.type, f.words, f.redirs, m, p, q)
             /\ f.kids = Append(m, n) /\ n.type \in ListType /\ Listed(s, n, q, h)
    BY <2>1
  <2>3. DoAwaits(s, f.type, f.words, m, p, q)
    BY <2>2 DEF Awaits
  <2>4. f.type \in Loop /\ f.words = <<>> /\ m = <<>> /\ Tok(s, p, {f.type}) /\ q = p + 1
    BY <2>3 DEF DoAwaits
  <2>5. f.kids = <<n>>
    BY <2>2, <2>4, Appended
  <2>6. Listed(s, n, p + 1, h)
    BY <2>2, <2>4
  <2> QED BY <2>2, <2>4, <2>5, <2>6 DEF LoopTo
<1> QED BY <1>1, <1>2 DEF Ran

LEMMA LoopCalls ==
  ASSUME NEW f, f.at = "do", NEW g, SameParted(f, g, "done"), NEW u \in SUBSET Kind, NEW x
  PROVE  Awaited("do", f, g, Block(u), x)
<1>1. SUFFICES ASSUME NEW s \in Seq(Kind), NEW p \in Nat, NEW h \in Nat, NEW j \in Nat, h = x, j = h + 1,
                      j <= Len(s) + 1, Tok(s, h, {"do"}), Ran(s, f, p, h)
               PROVE  Calls(s, g, p, Block(u), j)
  BY DEF Awaited
<1>2. LoopTo(s, f.type, f.words, f.kids, p, h) \/ (f.type = "for" /\ f.kids = <<>> /\ ForTo(s, f.words, p, h))
  BY <1>1, LoopRead
<1>3. DoneAwaits(s, f.type, f.words, f.kids, p, j)
  BY <1>1, <1>2 DEF DoneAwaits
<1>4. g.at = "done" /\ g.type = f.type /\ g.words = f.words /\ g.kids = f.kids
  BY DEF SameParted
<1>5. FrameAwaits(s, g, p, j)
  BY <1>3, <1>4 DEF FrameAwaits, Awaits
<1> QED BY <1>1, <1>4, <1>5, CallsBody

LEMMA SamePartedIs ==
  ASSUME NEW S, NEW f \in FrameOf(S), NEW l, NEW g, g = [f EXCEPT !.at = l]
  PROVE  SameParted(f, g, l)
  BY Relabelled DEF SameParted

LEMMA LoopDoTree ==
  ASSUME LineInv, LoopDo
  PROVE  TreeInv' /\ LinesInv'
<1>1. at = "parse" /\ Top.at = "do" /\ Take("do") /\ GoOn(Top, "done", Block({"done"}))
  BY DEF LoopDo, Parsing
<1>2. PICK S : Top \in FrameOf(S)
  BY <1>1, Tokens, TakenType
<1>3. PICK g : g = [Top EXCEPT !.at = "done"]
  OBVIOUS
<1>4. SameParted(Top, g, "done")
  BY <1>2, <1>3, SamePartedIs
<1>5. {"done"} \in SUBSET Kind
  BY Tokens
<1>6. Awaited("do", Top, g, Block({"done"}), Here)
  BY <1>1, <1>4, <1>5, LoopCalls
<1>7. Role(Top) = "construct" /\ Role(g) = "construct"
  BY <1>1, <1>4 DEF Role, SameParted
<1>8. Calling(Top, Top, "done", Block({"done"}), g)
  BY <1>1, <1>3, <1>7 DEF Calling, GoesAs
<1> QED BY <1>1, <1>6, <1>8, Tokens, StepsInto

LEMMA PlainWorded ==
  ASSUME NEW y, NEW k
  PROVE  Worded(y, k, <<>>) = Node(y, k)
  BY DEF Worded, Node

LEMMA LoopGiven ==
  ASSUME NEW f, f.at = "done", NEW x
  PROVE  Handed("done", f, Worded(f.type, f.kids, f.words), x)
<1>1. SUFFICES ASSUME NEW s \in Seq(Kind), NEW p \in Nat, NEW h \in Nat, NEW j \in Nat, h = x, j = h + 1,
                      Tok(s, h, {"done"}), Ran(s, f, p, h)
               PROVE  Gives(s, Role(f), Worded(f.type, f.kids, f.words), p, j)
  BY DEF Handed
<1>2. Resumed(s, f, p, h)
  BY <1>1, ResumedIs DEF Lone
<1>b. BodyOf(s, f, p, h)
  BY <1>2, BodyRead DEF Bodied
<1>3. PICK T, n : \E m \in Seq(T) : \E q \in Nat :
           /\ Awaits(s, f.at, f.type, f.words, f.redirs, m, p, q)
           /\ f.kids = Append(m, n) /\ n.type \in ListType /\ Listed(s, n, q, h)
  BY <1>b, Zenon DEF BodyOf
<1>4. PICK k \in Seq(T), q \in Nat :
           /\ Awaits(s, f.at, f.type, f.words, f.redirs, k, p, q)
           /\ f.kids = Append(k, n) /\ n.type \in ListType /\ Listed(s, n, q, h)
  BY <1>3
<1>5. DoneAwaits(s, f.type, f.words, k, p, q)
  BY <1>4 DEF Awaits
<1>6. PICK m \in Nat : /\ Tok(s, m, {"do"}) /\ q = m + 1
                       /\ LoopTo(s, f.type, f.words, k, p, m) \/ (f.type = "for" /\ k = <<>> /\ ForTo(s, f.words, p, m))
  BY <1>5 DEF DoneAwaits
<1>7. Listed(s, n, m + 1, h)
  BY <1>4, <1>6
<1>8. PICK t : t = Worded(f.type, f.kids, f.words)
  OBVIOUS
<1>9. t.type = f.type
  BY <1>8 DEF Worded, Node
<1>10. Bare(s, t, p, h + 1) /\ t.type \in BareType \ {"if"}
  <2>1. CASE LoopTo(s, f.type, f.words, k, p, m)
    <3>1. f.type \in {"while", "until"} /\ f.words = <<>>
      BY <2>1 DEF LoopTo, Loop
    <3>2. PICK a : k = <<a>> /\ a.type \in ListType /\ Tok(s, p, {f.type}) /\ Listed(s, a, p + 1, m)
      BY <2>1 DEF LoopTo
    <3>3. f.kids = <<a, n>>
      BY <1>4, <3>2, Appended
    <3>4. Bare(s, Node(f.type, <<a, n>>), p, h + 1)
      BY <1>1, <1>4, <1>6, <1>7, <3>1, <3>2, LoopStands
    <3>5. t = Node(f.type, <<a, n>>)
      BY <1>8, <3>1, <3>3, PlainWorded
    <3> QED BY <1>9, <3>1, <3>4, <3>5, BareTypes
  <2>2. CASE f.type = "for" /\ k = <<>> /\ ForTo(s, f.words, p, m)
    <3>1. f.kids = <<n>>
      BY <1>4, <2>2, Appended
    <3>2. /\ f.words \in Seq(Nat) /\ f.words # <<>> /\ Tok(s, p, {"for"}) /\ f.words[1] = p + 1
          /\ Tok(s, p + 1, WordKind) /\ ForHead(s, f.words, p, m)
      BY <2>2 DEF ForTo
    <3>3. Bare(s, Worded("for", <<n>>, f.words), p, h + 1)
      BY <1>1, <1>4, <1>6, <1>7, <3>2, ForStands
    <3> QED BY <1>8, <1>9, <2>2, <3>1, <3>3, BareTypes
  <2> QED BY <1>6, <2>1, <2>2
<1>11. Bare(s, t, p, j)
  BY <1>1, <1>10
<1>12. Gives(s, "construct", t, p, j)
  BY <1>10, <1>11, ConstructGives
<1>13. Role(f) = "construct"
  BY DEF Role
<1> QED BY <1>8, <1>12, <1>13

LEMMA LoopEndsTree ==
  ASSUME LineInv, LoopEnds
  PROVE  TreeInv' /\ LinesInv'
<1>1. at = "parse" /\ Top.at = "done" /\ Take("done") /\ Return(Worded(Top.type, Top.kids, Top.words))
  BY DEF LoopEnds, Parsing, Worded
<1>3. Handed("done", Top, Worded(Top.type, Top.kids, Top.words), Here)
  BY <1>1, LoopGiven
<1> QED BY <1>1, <1>3, Tokens, StepsUp

-----------------------------------------------------------------------------
NameIs(f, g, l, x) == g.at = l /\ g.type = f.type /\ g.kids = f.kids /\ g.redirs = f.redirs /\ g.words = <<x>>

LEMMA ForNamed ==
  ASSUME NEW f, f.at = "for_name", NEW x, NEW g, NameIs(f, g, "for_in", x), NEW k \in Words
  PROVE  Further(k, f, g, x)
<1>1. SUFFICES ASSUME NEW s \in Seq(Kind), NEW p \in Nat, NEW h \in Nat, NEW j \in Nat, h = x, j = h + 1,
                      Tok(s, h, {k}), HasRead(s, f, p, h)
               PROVE  HasRead(s, g, p, j)
  BY DEF Further
<1>2. f.type = "for" /\ f.kids = <<>> /\ Tok(s, p, {"for"}) /\ h = p + 1
  BY <1>1 DEF HasRead
<1>3. Tok(s, h, WordKind)
  BY <1>1, WordsAre, TokOf
<1>4. g.at = "for_in" /\ g.type = "for" /\ g.kids = <<>> /\ g.words = <<p + 1>>
  BY <1>1, <1>2 DEF NameIs
<1> QED BY <1>1, <1>2, <1>3, <1>4 DEF HasRead, Lone

LEMMA ForNameTree ==
  ASSUME LineInv, ForName
  PROVE  TreeInv' /\ LinesInv'
<1>1. at = "parse" /\ Top.at = "for_name"
  BY DEF ForName, Parsing
<1>2. PICK k \in Words : Take(k) /\ GoOn([Top EXCEPT !.words = <<Here>>], "for_in", <<>>)
  BY DEF ForName
<1>3. k \in Kind /\ k # "eof"
  BY Tokens
<1>4. PICK S : Top \in FrameOf(S) /\ Here \in Nat
  BY <1>1, <1>2, <1>3, TakenType
<1>e. PICK e : e = [Top EXCEPT !.words = <<Here>>]
  OBVIOUS
<1>5. PICK g : g = [e EXCEPT !.at = "for_in"]
  OBVIOUS
<1>6. NameIs(Top, g, "for_in", Here)
  BY <1>4, <1>e, <1>5 DEF FrameOf, NameIs
<1>7. Further(k, Top, g, Here)
  BY <1>1, <1>6, ForNamed
<1>8. Role(Top) = "construct" /\ Role(g) = "construct"
  BY <1>1, <1>6 DEF Role, NameIs
<1>9. Going(Top, e, "for_in", g)
  BY <1>1, <1>2, <1>e, <1>5, <1>8, NeedsNone DEF Going, GoesAs, Single
<1> QED BY <1>1, <1>2, <1>3, <1>7, <1>9, StepsOn

LEMMA ForInRead ==
  ASSUME NEW s, NEW f, f.at = "for_in", NEW p \in Nat, NEW h \in Nat, HasRead(s, f, p, h)
  PROVE  /\ f.type = "for" /\ f.kids = <<>> /\ f.words = <<p + 1>>
         /\ Tok(s, p, {"for"}) /\ Tok(s, p + 1, WordKind) /\ h = p + 2
  BY DEF HasRead

LEMMA ForListed ==
  ASSUME NEW f, f.at = "for_in", NEW x, NEW g, SameParted(f, g, "for_words")
  PROVE  Further("in", f, g, x)
<1>1. SUFFICES ASSUME NEW s \in Seq(Kind), NEW p \in Nat, NEW h \in Nat, NEW j \in Nat, h = x, j = h + 1,
                      Tok(s, h, {"in"}), HasRead(s, f, p, h)
               PROVE  HasRead(s, g, p, j)
  BY DEF Further
<1>2. /\ f.type = "for" /\ f.kids = <<>> /\ f.words = <<p + 1>>
      /\ Tok(s, p, {"for"}) /\ Tok(s, p + 1, WordKind) /\ h = p + 2
  BY <1>1, ForInRead
<1>3. g.at = "for_words" /\ g.type = "for" /\ g.kids = <<>> /\ g.words = <<p + 1>>
  BY <1>2 DEF SameParted
<1>4. ForWordsTo(s, g.words, p, j)
  <2>1. PICK w : w = g.words
    OBVIOUS
  <2>2. w \in Seq(Nat) /\ w # <<>> /\ w[1] = p + 1 /\ Len(w) = 1
    BY <1>3, <2>1
  <2>3. \A a \in 2..Len(w) : FALSE
    BY <2>2
  <2>4. j = p + Len(w) + 2 /\ Tok(s, p + 2, {"in"})
    BY <1>1, <1>2, <2>2
  <2>5. ForWordsTo(s, w, p, j)
    BY <1>2, <2>2, <2>3, <2>4, Zenon DEF ForWordsTo
  <2> QED BY <2>1, <2>5
<1> QED BY <1>3, <1>4 DEF HasRead, Lone

\* behind the name there is no in: the words are the arguments
AllOf(f, g) == g.at = "do" /\ g.type = f.type /\ g.kids = f.kids /\ g.words = Append(f.words, AllArguments)

LEMMA ForAll ==
  ASSUME NEW s \in Seq(Kind), NEW f, f.at = "for_in", NEW g, AllOf(f, g), NEW p \in Nat, NEW h \in Nat, HasRead(s, f, p, h),
         NEW j \in Nat, j = h \/ (Tok(s, h, LineEnd) /\ j = h + 1)
  PROVE  HasRead(s, g, p, j)
<1>2. /\ f.type = "for" /\ f.kids = <<>> /\ f.words = <<p + 1>>
      /\ Tok(s, p, {"for"}) /\ Tok(s, p + 1, WordKind) /\ h = p + 2
  BY ForInRead
<1>3. g.at = "do" /\ g.type = "for" /\ g.kids = <<>> /\ g.words = Append(<<p + 1>>, 0)
  BY <1>2 DEF AllOf, AllArguments
<1>4. ForTo(s, g.words, p, j)
  <2>1. PICK w : w = g.words
    OBVIOUS
  <2>2. w \in Seq(Nat) /\ w # <<>> /\ w[1] = p + 1 /\ Len(w) = 2 /\ w[2] = 0
    BY <1>3, <2>1
  <2>3. w[Len(w)] = 0
    BY <2>2
  <2>4. j = p + 2 \/ (Tok(s, p + 2, LineEnd) /\ j = p + 3)
    BY <1>2
  <2>5. ForHead(s, w, p, j)
    BY <2>3, <2>4 DEF ForHead
  <2>6. ForTo(s, w, p, j)
    BY <1>2, <2>2, <2>5, Zenon DEF ForTo
  <2> QED BY <2>1, <2>6
<1> QED BY <1>3, <1>4 DEF HasRead, Lone

LEMMA LineEnds == \A k \in LineEnd : k \in Kind /\ k # "eof"
  BY DEF LineEnd, Kind

LEMMA ForAllTaken ==
  ASSUME NEW f, f.at = "for_in", NEW g, AllOf(f, g), NEW k \in LineEnd, NEW x
  PROVE  Further(k, f, g, x)
<1>1. SUFFICES ASSUME NEW s \in Seq(Kind), NEW p \in Nat, NEW h \in Nat, NEW j \in Nat, h = x, j = h + 1,
                      Tok(s, h, {k}), HasRead(s, f, p, h)
               PROVE  HasRead(s, g, p, j)
  BY DEF Further
<1>2. Tok(s, h, LineEnd)
  BY <1>1, TokOf
<1> QED BY <1>1, <1>2, ForAll

LEMMA ForAllPeeked ==
  ASSUME NEW f, f.at = "for_in", NEW g, AllOf(f, g), NEW k, NEW x
  PROVE  Likewise(k, f, g, x)
  BY ForAll DEF Likewise

LEMMA ForInTree ==
  ASSUME LineInv, ForIn
  PROVE  TreeInv' /\ LinesInv'
<1>1. at = "parse" /\ Top.at = "for_in"
  BY DEF ForIn, Parsing
<1>r. Single(Top) /\ Role(Top) = "construct"
  BY <1>1, NeedsNone DEF Single, Role
<1>2. \/ Take("in") /\ GoOn(Top, "for_words", <<>>)
      \/ /\ \/ \E k \in LineEnd : Take(k)
            \/ \E k \in Kind : Peek(k)
         /\ GoOn([Top EXCEPT !.words = Append(@, AllArguments)], "do", <<>>)
  BY Zenon DEF ForIn, LineEnd
<1>3. CASE Take("in") /\ GoOn(Top, "for_words", <<>>)
  <2>2. PICK S : Top \in FrameOf(S)
    BY <1>1, <1>3, Tokens, TakenType
  <2>3. PICK g : g = [Top EXCEPT !.at = "for_words"]
    OBVIOUS
  <2>4. SameParted(Top, g, "for_words")
    BY <2>2, <2>3, SamePartedIs
  <2>5. Further("in", Top, g, Here)
    BY <1>1, <2>4, ForListed
  <2>6. Role(g) = "construct"
    BY <2>4 DEF Role, SameParted
  <2>7. Going(Top, Top, "for_words", g)
    BY <1>3, <1>r, <2>3, <2>6 DEF Going, GoesAs
  <2> QED BY <1>1, <1>3, <2>5, <2>7, Tokens, StepsOn
<1>4. ASSUME NEW k \in Kind, (k \in LineEnd /\ Take(k)) \/ Peek(k),
             GoOn([Top EXCEPT !.words = Append(@, AllArguments)], "do", <<>>)
      PROVE  TreeInv' /\ LinesInv'
  <2>2. PICK S : Top \in FrameOf(S)
    BY <1>1, <1>4, LineEnds, TakenType, PeekedType
  <2>e. PICK e : e = [Top EXCEPT !.words = Append(@, AllArguments)]
    OBVIOUS
  <2>3. PICK g : g = [e EXCEPT !.at = "do"]
    OBVIOUS
  <2>4. AllOf(Top, g)
    BY <2>2, <2>e, <2>3 DEF FrameOf, AllOf
  <2>5. Role(g) = "construct"
    BY <2>4 DEF Role, AllOf
  <2>6. Going(Top, e, "do", g)
    BY <1>4, <1>r, <2>e, <2>3, <2>5 DEF Going, GoesAs
  <2>7. CASE k \in LineEnd /\ Take(k)
    <3>1. Further(k, Top, g, Here)
      BY <1>1, <2>4, <2>7, ForAllTaken
    <3> QED BY <1>1, <2>6, <2>7, <3>1, LineEnds, StepsOn
  <2>8. CASE Peek(k)
    <3>1. Likewise(k, Top, g, Here)
      BY <1>1, <2>4, ForAllPeeked
    <3> QED BY <1>1, <2>6, <2>8, <3>1, LooksOn
  <2> QED BY <1>4, <2>7, <2>8
<1> QED BY <1>2, <1>3, <1>4, LineEnds

LEMMA ForWordsRead ==
  ASSUME NEW s, NEW f, f.at = "for_words", NEW p \in Nat, NEW h \in Nat, HasRead(s, f, p, h)
  PROVE  f.type = "for" /\ f.kids = <<>> /\ ForWordsTo(s, f.words, p, h)
  BY DEF HasRead

OneMore(f, g, x) == g.at = "for_words" /\ g.type = f.type /\ g.kids = f.kids /\ g.words = Append(f.words, x)

LEMMA ForMore ==
  ASSUME NEW f, f.at = "for_words", NEW x \in Nat, NEW g, OneMore(f, g, x), NEW k \in Words
  PROVE  Further(k, f, g, x)
<1>1. SUFFICES ASSUME NEW s \in Seq(Kind), NEW p \in Nat, NEW h \in Nat, NEW j \in Nat, h = x, j = h + 1,
                      Tok(s, h, {k}), HasRead(s, f, p, h)
               PROVE  HasRead(s, g, p, j)
  BY DEF Further
<1>2. f.type = "for" /\ f.kids = <<>> /\ ForWordsTo(s, f.words, p, h)
  BY <1>1, ForWordsRead
<1>3. PICK w : w = f.words
  OBVIOUS
<1>4. /\ w \in Seq(Nat) /\ w # <<>> /\ Tok(s, p, {"for"}) /\ w[1] = p + 1 /\ Tok(s, p + 1, WordKind) /\ Tok(s, p + 2, {"in"})
      /\ \A a \in 2..Len(w) : w[a] = p + a + 1 /\ Tok(s, w[a], WordKind)
      /\ h = p + Len(w) + 2
  BY <1>2, <1>3 DEF ForWordsTo
<1>5. Tok(s, h, WordKind)
  BY <1>1, WordsAre, TokOf
<1>6. PICK v : v = Append(w, h)
  OBVIOUS
<1>7. /\ v \in Seq(Nat) /\ v # <<>> /\ Len(v) = Len(w) + 1 /\ Len(w) \in Nat /\ Len(w) # 0
      /\ v[Len(w) + 1] = h /\ \A a \in 1..Len(w) : v[a] = w[a]
  BY <1>4, <1>6
<1>8. v[1] = p + 1 /\ j = p + Len(v) + 2
  BY <1>1, <1>4, <1>7
<1>9. \A a \in 2..Len(v) : v[a] = p + a + 1 /\ Tok(s, v[a], WordKind)
  <2>1. SUFFICES ASSUME NEW a \in 2..Len(v) PROVE v[a] = p + a + 1 /\ Tok(s, v[a], WordKind)
    OBVIOUS
  <2>2. CASE a = Len(w) + 1
    <3>1. v[a] = h /\ h = p + a + 1
      BY <1>4, <1>7, <2>2
    <3> QED BY <1>5, <3>1
  <2>3. CASE a # Len(w) + 1
    <3>1. a \in 2..Len(w) /\ a \in 1..Len(w)
      BY <1>7, <2>1, <2>3
    <3>2. v[a] = w[a]
      BY <1>7, <3>1
    <3> QED BY <1>4, <3>1, <3>2
  <2> QED BY <2>2, <2>3
<1>10. ForWordsTo(s, v, p, j)
  BY <1>4, <1>7, <1>8, <1>9, Zenon DEF ForWordsTo
<1>11. g.at = "for_words" /\ g.type = "for" /\ g.kids = <<>> /\ g.words = v
  BY <1>1, <1>2, <1>3, <1>6 DEF OneMore
<1> QED BY <1>10, <1>11 DEF HasRead, Lone

LEMMA ForWordsEnd ==
  ASSUME NEW f, f.at = "for_words", NEW x, NEW g, SameParted(f, g, "do"), NEW k \in LineEnd
  PROVE  Further(k, f, g, x)
<1>1. SUFFICES ASSUME NEW s \in Seq(Kind), NEW p \in Nat, NEW h \in Nat, NEW j \in Nat, h = x, j = h + 1,
                      Tok(s, h, {k}), HasRead(s, f, p, h)
               PROVE  HasRead(s, g, p, j)
  BY DEF Further
<1>2. f.type = "for" /\ f.kids = <<>> /\ ForWordsTo(s, f.words, p, h)
  BY <1>1, ForWordsRead
<1>3. PICK w : w = f.words
  OBVIOUS
<1>4. /\ w \in Seq(Nat) /\ w # <<>> /\ Tok(s, p, {"for"}) /\ w[1] = p + 1 /\ Tok(s, p + 1, WordKind) /\ Tok(s, p + 2, {"in"})
      /\ \A a \in 2..Len(w) : w[a] = p + a + 1 /\ Tok(s, w[a], WordKind)
      /\ h = p + Len(w) + 2
  BY <1>2, <1>3 DEF ForWordsTo
<1>5. Tok(s, h, LineEnd)
  BY <1>1, TokOf
<1>6. Len(w) \in Nat /\ Len(w) # 0
  BY <1>4
<1>7. w[Len(w)] # 0
  <2>1. CASE Len(w) = 1
    BY <1>4, <2>1
  <2>2. CASE Len(w) # 1
    <3>0. \A c \in Nat : c # 0 /\ c # 1 => c \in 2..c
      OBVIOUS
    <3>1. Len(w) \in 2..Len(w)
      BY <1>6, <2>2, <3>0, Zenon
    <3>2. w[Len(w)] = p + Len(w) + 1
      BY <1>4, <3>1
    <3> QED BY <1>6, <3>2
  <2> QED BY <2>1, <2>2
<1>8. Tok(s, p + Len(w) + 2, LineEnd) /\ j = p + Len(w) + 3
  BY <1>1, <1>4, <1>5, <1>6
<1>9. ForHead(s, w, p, j)
  BY <1>4, <1>7, <1>8, Zenon DEF ForHead
<1>10. ForTo(s, w, p, j)
  BY <1>4, <1>9 DEF ForTo
<1>11. g.at = "do" /\ g.type = "for" /\ g.kids = <<>> /\ g.words = w
  BY <1>2, <1>3 DEF SameParted
<1> QED BY <1>10, <1>11 DEF HasRead, Lone

LEMMA ForWordsTree ==
  ASSUME LineInv, ForWords
  PROVE  TreeInv' /\ LinesInv'
<1>1. at = "parse" /\ Top.at = "for_words"
  BY DEF ForWords, Parsing
<1>r. Single(Top) /\ Role(Top) = "construct"
  BY <1>1, NeedsNone DEF Single, Role
<1>2. \/ \E k \in Words : Take(k) /\ GoOn([Top EXCEPT !.words = Append(@, Here)], "for_words", <<>>)
      \/ \E k \in LineEnd : Take(k) /\ GoOn(Top, "do", <<>>)
  BY Zenon DEF ForWords, LineEnd
<1>3. ASSUME NEW k \in Words, Take(k), GoOn([Top EXCEPT !.words = Append(@, Here)], "for_words", <<>>)
      PROVE  TreeInv' /\ LinesInv'
  <2>1. k \in Kind /\ k # "eof"
    BY Tokens
  <2>2. PICK S : Top \in FrameOf(S) /\ Here \in Nat
    BY <1>1, <1>3, <2>1, TakenType
  <2>e. PICK e : e = [Top EXCEPT !.words = Append(@, Here)]
    OBVIOUS
  <2>3. PICK g : g = [e EXCEPT !.at = "for_words"]
    OBVIOUS
  <2>4. OneMore(Top, g, Here)
    BY <2>2, <2>e, <2>3 DEF FrameOf, OneMore
  <2>5. Further(k, Top, g, Here)
    BY <1>1, <2>2, <2>4, ForMore
  <2>6. Role(g) = "construct"
    BY <2>4 DEF Role, OneMore
  <2>7. Going(Top, e, "for_words", g)
    BY <1>3, <1>r, <2>e, <2>3, <2>6 DEF Going, GoesAs
  <2> QED BY <1>1, <1>3, <2>1, <2>5, <2>7, StepsOn
<1>4. ASSUME NEW k \in LineEnd, Take(k), GoOn(Top, "do", <<>>)
      PROVE  TreeInv' /\ LinesInv'
  <2>1. k \in Kind /\ k # "eof"
    BY LineEnds
  <2>2. PICK S : Top \in FrameOf(S)
    BY <1>1, <1>4, <2>1, TakenType
  <2>3. PICK g : g = [Top EXCEPT !.at = "do"]
    OBVIOUS
  <2>4. SameParted(Top, g, "do")
    BY <2>2, <2>3, SamePartedIs
  <2>5. Further(k, Top, g, Here)
    BY <1>1, <2>4, ForWordsEnd
  <2>6. Role(g) = "construct"
    BY <2>4 DEF Role, SameParted
  <2>7. Going(Top, Top, "do", g)
    BY <1>4, <1>r, <2>3, <2>6 DEF Going, GoesAs
  <2> QED BY <1>1, <1>4, <2>1, <2>5, <2>7, StepsOn
<1> QED BY <1>2, <1>3, <1>4

-----------------------------------------------------------------------------
LEMMA ClausesSame ==
  ASSUME NEW T, NEW k \in Seq(T), NEW e \in Nat, 2 * e <= Len(k), NEW n, NEW s, NEW y, NEW p, Clauses(s, k, e, y, p)
  PROVE  Clauses(s, Append(k, n), e, y, p)
<1>1. PICK l : l = Append(k, n)
  OBVIOUS
<1>2. \A j \in 1..Len(k) : l[j] = k[j]
  BY <1>1
<1>3. ASSUME NEW j \in 1..e
      PROVE  l[2 * j - 1] = k[2 * j - 1] /\ l[2 * j] = k[2 * j]
  <2>1. Len(k) \in Nat
    OBVIOUS
  <2>2. 2 * j - 1 \in 1..Len(k) /\ 2 * j \in 1..Len(k)
    BY <2>1
  <2> QED BY <1>2, <2>2
<1>4. /\ y \in [0..e -> Nat] /\ y[0] = p
      /\ \A j \in 1..e : Clause(s, k[2 * j - 1], k[2 * j], Opening(j), y[j - 1], y[j])
  BY DEF Clauses
<1>5. \A j \in 1..e : Clause(s, l[2 * j - 1], l[2 * j], Opening(j), y[j - 1], y[j])
  BY <1>3, <1>4
<1> QED BY <1>1, <1>4, <1>5 DEF Clauses

LEMMA ThenRead ==
  ASSUME NEW s \in Seq(Kind), NEW f, f.at = "then", NEW p \in Nat, NEW h \in Nat, Ran(s, f, p, h),
         Tok(s, h, {"then"}), NEW j \in Nat, j = h + 1
  PROVE  ElifAwaits(s, f.kids, p, j)
<1>2. Resumed(s, f, p, h)
  BY ResumedIs DEF Lone
<1>b. BodyOf(s, f, p, h)
  BY <1>2, BodyRead DEF Bodied
<1>3. PICK T, n : \E m \in Seq(T) : \E q \in Nat :
           /\ Awaits(s, f.at, f.type, f.words, f.redirs, m, p, q)
           /\ f.kids = Append(m, n) /\ n.type \in ListType /\ Listed(s, n, q, h)
  BY <1>b, Zenon DEF BodyOf
<1>4. PICK k \in Seq(T), q \in Nat :
           /\ Awaits(s, f.at, f.type, f.words, f.redirs, k, p, q)
           /\ f.kids = Append(k, n) /\ n.type \in ListType /\ Listed(s, n, q, h)
  BY <1>3
<1>5. ThenAwaits(s, k, p, q)
  BY <1>4 DEF Awaits
<1>6. PICK e \in Nat : Len(k) = 2 * e /\ \E y : Clauses(s, k, e, y, p) /\ Tok(s, y[e], Opening(e + 1)) /\ q = y[e] + 1
  BY <1>5 DEF ThenAwaits
<1>7. PICK y : Clauses(s, k, e, y, p) /\ Tok(s, y[e], Opening(e + 1)) /\ q = y[e] + 1
  BY <1>6
<1>8. PICK l : l = f.kids
  OBVIOUS
<1>9. Len(l) = 2 * e + 1 /\ l[2 * e + 1] = n
  <2>1. Len(l) = Len(k) + 1 /\ l[Len(k) + 1] = n
    BY <1>4, <1>8
  <2> QED BY <1>6, <2>1
<1>10. Clauses(s, l, e, y, p)
  BY <1>4, <1>6, <1>7, <1>8, ClausesSame
<1>11. Listed(s, l[2 * e + 1], y[e] + 1, h) /\ l[2 * e + 1].type \in ListType
  BY <1>4, <1>7, <1>9
<1> QED BY <1>7, <1>8, <1>9, <1>10, <1>11 DEF ElifAwaits

LEMMA IfThenTree ==
  ASSUME LineInv, IfThen
  PROVE  TreeInv' /\ LinesInv'
<1>1. at = "parse" /\ Top.at = "then" /\ Take("then") /\ GoOn(Top, "elif", Block({"elif", "else", "fi"}))
  BY DEF IfThen, Parsing
<1>2. PICK S : Top \in FrameOf(S)
  BY <1>1, Tokens, TakenType
<1>3. PICK g : g = [Top EXCEPT !.at = "elif"]
  OBVIOUS
<1>4. SameParted(Top, g, "elif")
  BY <1>2, <1>3, SamePartedIs
<1>5. PICK u \in SUBSET Kind : u = {"elif", "else", "fi"}
  BY Tokens
<1>6. Awaited("then", Top, g, Block(u), Here)
  <2>1. SUFFICES ASSUME NEW s \in Seq(Kind), NEW p \in Nat, NEW h \in Nat, NEW j \in Nat, j = h + 1,
                        j <= Len(s) + 1, Tok(s, h, {"then"}), Ran(s, Top, p, h)
                 PROVE  Calls(s, g, p, Block(u), j)
    BY DEF Awaited
  <2>2. ElifAwaits(s, Top.kids, p, j)
    BY <1>1, <2>1, ThenRead
  <2>3. g.at = "elif" /\ g.kids = Top.kids
    BY <1>4 DEF SameParted
  <2>4. FrameAwaits(s, g, p, j)
    BY <2>2, <2>3 DEF FrameAwaits, Awaits
  <2> QED BY <2>1, <2>3, <2>4, CallsBody
<1>7. Role(Top) = "construct" /\ Role(g) = "construct"
  BY <1>1, <1>4 DEF Role, SameParted
<1>8. Calling(Top, Top, "elif", Block(u), g)
  BY <1>1, <1>3, <1>5, <1>7 DEF Calling, GoesAs
<1> QED BY <1>1, <1>6, <1>8, Tokens, StepsInto

LEMMA OneMoreClause ==
  ASSUME NEW s \in Seq(Kind), NEW k, NEW e \in Nat, NEW y, NEW p \in Nat, Clauses(s, k, e, y, p), NEW h \in Nat,
         Clause(s, k[2 * e + 1], k[2 * e + 2], Opening(e + 1), y[e], h)
  PROVE  \E z : Clauses(s, k, e + 1, z, p) /\ z[e + 1] = h
<1>1. PICK z : z = [i \in 0..(e + 1) |-> IF i = e + 1 THEN h ELSE y[i]]
  OBVIOUS
<1>2. /\ y \in [0..e -> Nat] /\ y[0] = p
      /\ \A j \in 1..e : Clause(s, k[2 * j - 1], k[2 * j], Opening(j), y[j - 1], y[j])
  BY DEF Clauses
<1>3. \A i \in 0..e : z[i] = y[i]
  BY <1>1
<1>4. z[e + 1] = h
  BY <1>1
<1>5. z \in [0..(e + 1) -> Nat]
  BY <1>1, <1>2
<1>6. z[0] = p
  BY <1>2, <1>3
<1>7. ASSUME NEW j \in 1..(e + 1)
      PROVE  Clause(s, k[2 * j - 1], k[2 * j], Opening(j), z[j - 1], z[j])
  <2>1. CASE j = e + 1
    <3>1. 2 * j - 1 = 2 * e + 1 /\ 2 * j = 2 * e + 2 /\ j - 1 = e /\ e \in 0..e
      BY <2>1
    <3>2. z[j - 1] = y[e] /\ z[j] = h
      BY <1>3, <1>4, <2>1, <3>1
    <3> QED BY <2>1, <3>1, <3>2
  <2>2. CASE j # e + 1
    <3>1. j \in 1..e /\ j - 1 \in 0..e /\ j \in 0..e
      BY <2>2
    <3>2. z[j - 1] = y[j - 1] /\ z[j] = y[j]
      BY <1>3, <3>1
    <3> QED BY <1>2, <3>1, <3>2
  <2> QED BY <2>1, <2>2
<1>8. Clauses(s, k, e + 1, z, p)
  BY <1>5, <1>6, <1>7 DEF Clauses
<1> QED BY <1>4, <1>8

LEMMA ElifRead ==
  ASSUME NEW s \in Seq(Kind), NEW f, f.at = "elif", NEW p \in Nat, NEW h \in Nat, Ran(s, f, p, h)
  PROVE  ClausesTo(s, f.kids, p, h)
<1>2. Resumed(s, f, p, h)
  BY ResumedIs DEF Lone
<1>b. BodyOf(s, f, p, h)
  BY <1>2, BodyRead DEF Bodied
<1>3. PICK T, n : \E m \in Seq(T) : \E q \in Nat :
           /\ Awaits(s, f.at, f.type, f.words, f.redirs, m, p, q)
           /\ f.kids = Append(m, n) /\ n.type \in ListType /\ Listed(s, n, q, h)
  BY <1>b, Zenon DEF BodyOf
<1>4. PICK k \in Seq(T), q \in Nat :
           /\ Awaits(s, f.at, f.type, f.words, f.redirs, k, p, q)
           /\ f.kids = Append(k, n) /\ n.type \in ListType /\ Listed(s, n, q, h)
  BY <1>3
<1>5. ElifAwaits(s, k, p, q)
  BY <1>4 DEF Awaits
<1>6. PICK e \in Nat : Len(k) = 2 * e + 1 /\ \E y : \E m \in Nat :
          /\ Clauses(s, k, e, y, p) /\ Tok(s, y[e], Opening(e + 1))
          /\ k[2 * e + 1].type \in ListType /\ Listed(s, k[2 * e + 1], y[e] + 1, m) /\ Tok(s, m, {"then"}) /\ q = m + 1
  BY <1>5 DEF ElifAwaits
<1>7. PICK y : \E m \in Nat :
          /\ Clauses(s, k, e, y, p) /\ Tok(s, y[e], Opening(e + 1))
          /\ k[2 * e + 1].type \in ListType /\ Listed(s, k[2 * e + 1], y[e] + 1, m) /\ Tok(s, m, {"then"}) /\ q = m + 1
  BY <1>6
<1>8. PICK m \in Nat :
          /\ Clauses(s, k, e, y, p) /\ Tok(s, y[e], Opening(e + 1))
          /\ k[2 * e + 1].type \in ListType /\ Listed(s, k[2 * e + 1], y[e] + 1, m) /\ Tok(s, m, {"then"}) /\ q = m + 1
  BY <1>7
<1>9. PICK l : l = f.kids
  OBVIOUS
<1>10. Len(l) = 2 * e + 2 /\ l[2 * e + 2] = n /\ l[2 * e + 1] = k[2 * e + 1]
  <2>1. Len(l) = Len(k) + 1 /\ l[Len(k) + 1] = n /\ \A i \in 1..Len(k) : l[i] = k[i]
    BY <1>4, <1>9
  <2>2. 2 * e + 1 \in 1..(2 * e + 1) /\ (2 * e + 1) + 1 = 2 * e + 2
    OBVIOUS
  <2> QED BY <1>6, <2>1, <2>2
<1>11. Clauses(s, l, e, y, p)
  <2>1. 2 * e <= Len(k)
    BY <1>6
  <2> QED BY <1>4, <1>8, <1>9, <2>1, ClausesSame
<1>12. Clause(s, l[2 * e + 1], l[2 * e + 2], Opening(e + 1), y[e], h)
  <2>1. Listed(s, n, m + 1, h)
    BY <1>4, <1>8
  <2> QED BY <1>4, <1>8, <1>10, <2>1 DEF Clause
<1>13. PICK z : Clauses(s, l, e + 1, z, p) /\ z[e + 1] = h
  BY <1>11, <1>12, OneMoreClause
<1>14. Len(l) = 2 * (e + 1) /\ e + 1 \in Nat \ {0}
  BY <1>10
<1> QED BY <1>9, <1>13, <1>14 DEF ClausesTo

LEMMA ElifCalls ==
  ASSUME NEW f, f.at = "elif", NEW g, SameParted(f, g, "then"), NEW u \in SUBSET Kind, NEW x
  PROVE  Awaited("elif", f, g, Block(u), x)
<1>1. SUFFICES ASSUME NEW s \in Seq(Kind), NEW p \in Nat, NEW h \in Nat, NEW j \in Nat, h = x, j = h + 1,
                      j <= Len(s) + 1, Tok(s, h, {"elif"}), Ran(s, f, p, h)
               PROVE  Calls(s, g, p, Block(u), j)
  BY DEF Awaited
<1>2. ClausesTo(s, f.kids, p, h)
  BY <1>1, ElifRead
<1>3. PICK e \in Nat \ {0} : Len(f.kids) = 2 * e /\ \E y : Clauses(s, f.kids, e, y, p) /\ y[e] = h
  BY <1>2 DEF ClausesTo
<1>4. PICK y : Clauses(s, f.kids, e, y, p) /\ y[e] = h
  BY <1>3
<1>5. Opening(e + 1) = {"elif"}
  BY DEF Opening
<1>6. ThenAwaits(s, f.kids, p, j)
  BY <1>1, <1>3, <1>4, <1>5 DEF ThenAwaits
<1>7. g.at = "then" /\ g.kids = f.kids
  BY DEF SameParted
<1>8. FrameAwaits(s, g, p, j)
  BY <1>6, <1>7 DEF FrameAwaits, Awaits
<1> QED BY <1>1, <1>7, <1>8, CallsBody

LEMMA ElseCalls ==
  ASSUME NEW f, f.at = "elif", NEW g, SameParted(f, g, "fi"), NEW u \in SUBSET Kind, NEW x
  PROVE  Awaited("else", f, g, Block(u), x)
<1>1. SUFFICES ASSUME NEW s \in Seq(Kind), NEW p \in Nat, NEW h \in Nat, NEW j \in Nat, h = x, j = h + 1,
                      j <= Len(s) + 1, Tok(s, h, {"else"}), Ran(s, f, p, h)
               PROVE  Calls(s, g, p, Block(u), j)
  BY DEF Awaited
<1>2. ClausesTo(s, f.kids, p, h)
  BY <1>1, ElifRead
<1>6. FiAwaits(s, f.kids, p, j)
  BY <1>1, <1>2 DEF FiAwaits
<1>7. g.at = "fi" /\ g.kids = f.kids
  BY DEF SameParted
<1>8. FrameAwaits(s, g, p, j)
  BY <1>6, <1>7 DEF FrameAwaits, Awaits
<1> QED BY <1>1, <1>7, <1>8, CallsBody

LEMMA IfElseTree ==
  ASSUME LineInv, IfElse
  PROVE  TreeInv' /\ LinesInv'
<1>1. at = "parse" /\ Top.at = "elif" /\ Role(Top) = "construct"
  BY DEF IfElse, Parsing, Role
<1>2. \/ Take("elif") /\ GoOn(Top, "then", Block({"then"}))
      \/ Take("else") /\ GoOn(Top, "fi", Block({"fi"}))
      \/ (\E k \in Kind : Peek(k)) /\ GoOn(Top, "fi", <<>>)
  BY DEF IfElse
<1>3. CASE Take("elif") /\ GoOn(Top, "then", Block({"then"}))
  <2>2. PICK S : Top \in FrameOf(S)
    BY <1>1, <1>3, Tokens, TakenType
  <2>3. PICK g : g = [Top EXCEPT !.at = "then"]
    OBVIOUS
  <2>4. SameParted(Top, g, "then")
    BY <2>2, <2>3, SamePartedIs
  <2>5. PICK u \in SUBSET Kind : u = {"then"}
    BY Tokens
  <2>6. Awaited("elif", Top, g, Block(u), Here)
    BY <1>1, <2>4, ElifCalls
  <2>7. Role(g) = "construct"
    BY <2>4 DEF Role, SameParted
  <2>8. Calling(Top, Top, "then", Block(u), g)
    BY <1>1, <1>3, <2>3, <2>5, <2>7 DEF Calling, GoesAs
  <2> QED BY <1>1, <1>3, <2>6, <2>8, Tokens, StepsInto
<1>4. CASE Take("else") /\ GoOn(Top, "fi", Block({"fi"}))
  <2>2. PICK S : Top \in FrameOf(S)
    BY <1>1, <1>4, Tokens, TakenType
  <2>3. PICK g : g = [Top EXCEPT !.at = "fi"]
    OBVIOUS
  <2>4. SameParted(Top, g, "fi")
    BY <2>2, <2>3, SamePartedIs
  <2>5. PICK u \in SUBSET Kind : u = {"fi"}
    BY Tokens
  <2>6. Awaited("else", Top, g, Block(u), Here)
    BY <1>1, <2>4, ElseCalls
  <2>7. Role(g) = "construct"
    BY <2>4 DEF Role, SameParted
  <2>8. Calling(Top, Top, "fi", Block(u), g)
    BY <1>1, <1>4, <2>3, <2>5, <2>7 DEF Calling, GoesAs
  <2> QED BY <1>1, <1>4, <2>6, <2>8, Tokens, StepsInto
<1>5. ASSUME NEW k \in Kind, Peek(k), GoOn(Top, "fi", <<>>)
      PROVE  TreeInv' /\ LinesInv'
  <2>1. PICK S, V, s, f : \E p \in Nat : \E h \in Nat : Peeks(S, V, p, s, f, h, k)
    BY <1>1, <1>5, PeeksOne
  <2>2. PICK p \in Nat, h \in Nat : Peeks(S, V, p, s, f, h, k)
    BY <2>1
  <2>3. Acts(S, V, p, s, f, h) /\ Now(h) /\ s \in Seq(Kind) /\ f = Top /\ f \in FrameOf(S) /\ Ran(s, f, p, h) /\ Role(f) \in V
    BY <2>2 DEF Peeks
  <2>4. PICK g : g = [f EXCEPT !.at = "fi"]
    OBVIOUS
  <2>5. SameParted(f, g, "fi")
    BY <2>3, <2>4, SamePartedIs
  <2>6. ClausesTo(s, f.kids, p, h)
    BY <1>1, <2>3, ElifRead
  <2>7. g.at = "fi" /\ g.kids = f.kids
    BY <2>5 DEF SameParted
  <2>8. HasRead(s, g, p, h)
    BY <2>6, <2>7 DEF HasRead, Lone
  <2>9. Ran(s, g, p, h)
    BY <2>8 DEF Ran
  <2>10. Role(g) \in V
    BY <1>1, <2>3, <2>7 DEF Role
  <2>11. GoesAs(f, "fi", <<>>, g)
    BY <1>5, <2>3, <2>4 DEF GoesAs
  <2> QED BY <2>3, <2>9, <2>10, <2>11, TurnsOn
<1> QED BY <1>2, <1>3, <1>4, <1>5

-----------------------------------------------------------------------------
LEMMA LeastNumber ==
  ASSUME NEW S, S \subseteq Nat, S # {}
  PROVE  \E m \in S : \A k \in S : m <= k
<1> DEFINE R == OpToRel(<, Nat)
<1>1. IsWellFoundedOn(R, Nat)
  BY NatLessThanWellFounded
<1>2. \A i, j \in Nat : <<j, i>> \in R <=> j < i
  BY DEF OpToRel
<1> HIDE DEF R
<1>3. PICK m \in S : \A k \in S : ~ (<<k, m>> \in R)
  BY <1>1, WFMin
<1>4. \A k \in S : ~(k < m) /\ k \in Nat /\ m \in Nat
  BY <1>2, <1>3
<1> QED BY <1>4

\* what holds at the top of 0..n and comes down holds at 0
LEMMA Downward ==
  ASSUME NEW n \in Nat, NEW K, n \in K, \A k \in 1..n : k \in K => k - 1 \in K
  PROVE  0 \in K
<1>1. PICK L : L = K \cap (0..n)
  OBVIOUS
<1>2. L \subseteq Nat /\ L # {}
  BY <1>1
<1>3. PICK m \in L : \A k \in L : m <= k
  BY <1>2, LeastNumber
<1>4. CASE m = 0
  BY <1>1, <1>3, <1>4
<1>5. CASE m # 0
  <2>1. m \in 1..n /\ m - 1 \in 0..n /\ ~(m <= m - 1)
    BY <1>1, <1>3, <1>5
  <2>2. m - 1 \in L
    BY <1>1, <1>3, <2>1
  <2> QED BY <1>3, <2>1, <2>2
<1> QED BY <1>4, <1>5

-----------------------------------------------------------------------------
IfFrom(i, u, parts) ==
  IF i >= Len(parts) THEN SubSeq(parts, i, Len(parts))
  ELSE <<Node("if", <<parts[i], parts[i + 1]>> \o u[i + 2])>>

LEMMA IfNodeIs ==
  ASSUME NEW S, NEW parts \in Seq(S)
  PROVE  \E u : /\ IfNode(parts) = u[1][1]
                /\ \A i \in 1..(Len(parts) + 1) : u[i] = IfFrom(i, u, parts)
<1>1. PICK m \in Nat : m = Len(parts) + 1
  OBVIOUS
<1> DEFINE K == {k \in 0..m : \E f : /\ f = [i \in 1..m |-> f[i]]
                                     /\ \A i \in (k + 1)..m : f[i] = IfFrom(i, f, parts)}
           u == CHOOSE u : u = [i \in 1..m |-> IfFrom(i, u, parts)]
<1>2. m \in K
  <2>1. PICK f : f = [i \in 1..m |-> <<>>]
    OBVIOUS
  <2>2. f = [i \in 1..m |-> f[i]]
    BY <2>1
  <2>3. \A i : ~(i \in (m + 1)..m)
    OBVIOUS
  <2> QED BY <2>2, <2>3
<1>3. ASSUME NEW k \in 1..m, k \in K
      PROVE  k - 1 \in K
  <2>1. PICK f : /\ f = [i \in 1..m |-> f[i]]
                 /\ \A i \in (k + 1)..m : f[i] = IfFrom(i, f, parts)
    BY <1>3
  <2>2. PICK v : v = IfFrom(k, f, parts)
    OBVIOUS
  <2>3. PICK g : g = [i \in 1..m |-> IF i = k THEN v ELSE f[i]]
    OBVIOUS
  <2>4. g[k] = v /\ \A i \in 1..m : i # k => g[i] = f[i]
    BY <2>3
  <2>5. g = [i \in 1..m |-> g[i]]
    BY <2>3
  <2>6. ASSUME NEW i \in k..m
        PROVE  IfFrom(i, g, parts) = IfFrom(i, f, parts)
    <3>1. i >= Len(parts) \/ (i + 2 \in 1..m /\ i + 2 # k)
      BY <1>1
    <3>2. i >= Len(parts) \/ g[i + 2] = f[i + 2]
      BY <2>4, <3>1
    <3> QED BY <3>2 DEF IfFrom
  <2>7. \A i \in k..m : g[i] = IfFrom(i, g, parts)
    <3> TAKE i \in k..m
    <3>1. i = k \/ (i \in (k + 1)..m /\ i \in 1..m /\ i # k)
      OBVIOUS
    <3> QED BY <2>1, <2>2, <2>4, <2>6, <3>1
  <2>8. k - 1 \in 0..m /\ (k - 1) + 1 = k
    OBVIOUS
  <2> QED BY <2>5, <2>7, <2>8
<1>4. 0 \in K
  <2> HIDE DEF K
  <2> QED BY <1>2, <1>3, Downward
<1>5. PICK f : /\ f = [i \in 1..m |-> f[i]]
               /\ \A i \in 1..m : f[i] = IfFrom(i, f, parts)
  BY <1>4
<1>6. f = [i \in 1..m |-> IfFrom(i, f, parts)]
  BY <1>5
<1>7. u = [i \in 1..m |-> IfFrom(i, u, parts)]
  BY <1>6, Zenon
<1>8. \A i \in 1..m : u[i] = IfFrom(i, u, parts)
  <2> HIDE DEF u
  <2> QED BY <1>7
<1>9. IfNode(parts) = u[1][1]
  BY <1>1, Zenon DEF IfNode, IfFrom
<1> HIDE DEF u
<1> QED BY <1>1, <1>8, <1>9

\* what is behind the last clause, which ends at q
IfTail(s, w, q, h) ==
  \/ w = <<>> /\ q = h
  \/ \E n : w = <<n>> /\ n.type \in ListType /\ Tok(s, q, {"else"}) /\ Listed(s, n, q + 1, h)

LEMMA Joined ==
  ASSUME NEW a, NEW b, NEW n
  PROVE  <<a, b>> \o <<n>> = <<a, b, n>>
<1>1. PICK T : a \in T /\ b \in T /\ n \in T
  <2>1. PICK T : T = {a, b, n}
    OBVIOUS
  <2> QED BY <2>1
<1>2. PICK v \in Seq(T), z \in Seq(T) : v = <<a, b>> /\ z = <<n>>
  <2>1. <<a, b>> \in Seq(T) /\ <<n>> \in Seq(T)
    BY <1>1
  <2> QED BY <2>1, Zenon
<1>3. Len(v) = 2 /\ Len(z) = 1 /\ v[1] = a /\ v[2] = b /\ z[1] = n
  BY <1>2
<1>4. PICK c : c = v \o z
  OBVIOUS
<1>5. /\ c \in Seq(T) /\ Len(c) = Len(v) + Len(z)
      /\ \A i \in 1..Len(v) : c[i] = v[i]
      /\ \A i \in (Len(v) + 1)..(Len(v) + Len(z)) : c[i] = z[i - Len(v)]
  BY <1>4
<1>6. Len(c) = 3 /\ c[1] = a /\ c[2] = b /\ c[3] = n
  BY <1>3, <1>5
<1>7. c = <<a, b, n>>
  <2>1. PICK t : t = <<a, b, n>>
    OBVIOUS
  <2>2. t \in Seq(T) /\ Len(t) = 3 /\ t[1] = a /\ t[2] = b /\ t[3] = n
    BY <1>1, <2>1
  <2>3. \A i \in 1..Len(c) : c[i] = t[i]
    <3>1. \A i \in 1..3 : i = 1 \/ i = 2 \/ i = 3
      OBVIOUS
    <3> QED BY <1>6, <2>2, <3>1
  <2>4. Len(c) = Len(t)
    BY <1>6, <2>2
  <2>5. c = t
    BY <1>5, <2>2, <2>3, <2>4, SeqEqual
  <2> QED BY <2>1, <2>5
<1> QED BY <1>2, <1>4, <1>7

LEMMA IfStandsOn ==
  ASSUME NEW s \in Seq(Kind), NEW k, NEW e \in Nat \ {0}, NEW y, NEW p \in Nat, Clauses(s, k, e, y, p), NEW h \in Nat,
         NEW u, 2 * e <= Len(k), Len(k) <= 2 * e + 1, Len(k) \in Nat,
         \A i \in 1..(Len(k) + 1) : u[i] = IfFrom(i, u, k),
         IfTail(s, u[2 * e + 1], y[e], h)
  PROVE  u[1][1].type = "if" /\ Bare(s, u[1][1], p, h)
<1>1. /\ y \in [0..e -> Nat] /\ y[0] = p
      /\ \A j \in 1..e : Clause(s, k[2 * j - 1], k[2 * j], Opening(j), y[j - 1], y[j])
  BY DEF Clauses
<1> DEFINE Made(j, i) == \E t : u[i] = <<t>> /\ t.type = "if" /\ Bare(s, t, y[j], h)
           K == {j \in 0..(e - 1) : Made(j, 2 * j + 1)}
<1>2. ASSUME NEW j \in 0..(e - 1), NEW w, u[2 * j + 3] = w,
             \/ w = <<>> /\ y[j + 1] = h
             \/ \E n : w = <<n>> /\ n.type \in ListType /\ Tok(s, y[j + 1], {"else"}) /\ Listed(s, n, y[j + 1] + 1, h)
             \/ \E n : w = <<n>> /\ n.type = "if" /\ Tok(s, y[j + 1], {"elif"}) /\ Bare(s, n, y[j + 1], h)
      PROVE  Made(j, 2 * j + 1)
  <2>1. PICK i : i = 2 * j + 1
    OBVIOUS
  <2>2. i \in 1..(Len(k) + 1) /\ ~(i >= Len(k)) /\ i + 2 = 2 * j + 3
    BY <2>1
  <2>3. u[i] = <<Node("if", <<k[i], k[i + 1]>> \o w)>>
    BY <1>2, <2>2 DEF IfFrom
  <2>4. j + 1 \in 1..e /\ 2 * (j + 1) - 1 = i /\ 2 * (j + 1) = i + 1 /\ (j + 1) - 1 = j
    BY <2>1
  <2>5. Clause(s, k[i], k[i + 1], Opening(j + 1), y[j], y[j + 1])
    <3>1. PICK l \in 1..e : l = j + 1 /\ 2 * l - 1 = i /\ 2 * l = i + 1 /\ l - 1 = j
      BY <2>4
    <3>2. Clause(s, k[2 * l - 1], k[2 * l], Opening(l), y[l - 1], y[l])
      BY <1>1
    <3> QED BY <3>1, <3>2
  <2>6. PICK a, b, i0, i1 : a = k[i] /\ b = k[i + 1] /\ i0 = y[j] /\ i1 = y[j + 1]
    OBVIOUS
  <2>7. i0 \in Nat /\ i1 \in Nat
    <3>1. j \in 0..e /\ j + 1 \in 0..e
      OBVIOUS
    <3> QED BY <1>1, <2>6, <3>1
  <2>8. PICK m \in Nat : /\ Tok(s, i0, Opening(j + 1)) /\ a.type \in ListType /\ Listed(s, a, i0 + 1, m)
                         /\ Tok(s, m, {"then"}) /\ b.type \in ListType /\ Listed(s, b, m + 1, i1)
    BY <2>5, <2>6 DEF Clause
  <2>9. Tok(s, i0, {"if", "elif"})
    <3>1. Opening(j + 1) \subseteq {"if", "elif"}
      BY DEF Opening
    <3> QED BY <2>8, <3>1, TokWider
  <2>10. CASE w = <<>> /\ i1 = h
    <3>1. u[i] = <<Node("if", <<a, b>>)>>
      <4>1. <<a, b>> \o <<>> = <<a, b>>
        OBVIOUS
      <4> QED BY <2>3, <2>6, <2>10, <4>1
    <3>2. PICK t : t = Node("if", <<a, b>>)
      OBVIOUS
    <3>3. Bare(s, t, i0, h)
      BY <2>7, <2>8, <2>9, <2>10, <3>2, IfStands
    <3>4. t.type = "if"
      BY <3>2 DEF Node
    <3> QED BY <2>1, <2>6, <3>1, <3>2, <3>3, <3>4
  <2>11. ASSUME NEW n, w = <<n>>, n.type \in ListType,
                \/ Tok(s, i1, {"else"}) /\ Listed(s, n, i1 + 1, h)
                \/ Tok(s, i1, {"elif"}) /\ n.type = "if" /\ Bare(s, n, i1, h)
         PROVE  Made(j, 2 * j + 1)
    <3>1. u[i] = <<Node("if", <<a, b, n>>)>>
      <4>1. <<a, b>> \o <<n>> = <<a, b, n>>
        BY Joined
      <4> QED BY <2>3, <2>6, <2>11, <4>1
    <3>2. PICK t : t = Node("if", <<a, b, n>>)
      OBVIOUS
    <3>3. Bare(s, t, i0, h)
      BY <2>7, <2>8, <2>9, <2>11, <3>2, IfElseStands
    <3>4. t.type = "if"
      BY <3>2 DEF Node
    <3> QED BY <2>1, <2>6, <3>1, <3>2, <3>3, <3>4
  <2>12. "if" \in ListType
    BY LogicTypes DEF BareType
  <2> HIDE DEF Made
  <2> QED BY <1>2, <2>6, <2>10, <2>11, <2>12
<1>3. e - 1 \in K
  <2>1. PICK j \in 0..(e - 1) : j = e - 1 /\ 2 * j + 3 = 2 * e + 1 /\ j + 1 = e
    OBVIOUS
  <2>2. Made(j, 2 * j + 1)
    BY <1>2, <2>1 DEF IfTail
  <2> QED BY <2>1, <2>2
<1>4. ASSUME NEW j \in 1..(e - 1), j \in K
      PROVE  j - 1 \in K
  <2>1. PICK t : u[2 * j + 1] = <<t>> /\ t.type = "if" /\ Bare(s, t, y[j], h)
    BY <1>4
  <2>2. PICK i \in 0..(e - 1) : i = j - 1 /\ 2 * i + 3 = 2 * j + 1 /\ i + 1 = j
    OBVIOUS
  <2>3. Tok(s, y[j], {"elif"})
    <3>1. j + 1 \in 1..e /\ (j + 1) - 1 = j
      OBVIOUS
    <3>2. Clause(s, k[2 * (j + 1) - 1], k[2 * (j + 1)], Opening(j + 1), y[j], y[j + 1])
      BY <1>1, <3>1
    <3>3. Tok(s, y[j], Opening(j + 1))
      BY <3>2 DEF Clause
    <3>4. Opening(j + 1) = {"elif"}
      BY DEF Opening
    <3> QED BY <3>3, <3>4
  <2>4. Made(i, 2 * i + 1)
    BY <1>2, <2>1, <2>2, <2>3
  <2> QED BY <2>2, <2>4
<1>5. 0 \in K
  <2> HIDE DEF K
  <2>1. e - 1 \in Nat
    OBVIOUS
  <2> QED BY <1>3, <1>4, <2>1, Downward
<1>6. PICK t : u[1] = <<t>> /\ t.type = "if" /\ Bare(s, t, p, h)
  BY <1>1, <1>5
<1> QED BY <1>6

-----------------------------------------------------------------------------
FiTo(s, k, p, h) ==
  \E e \in Nat \ {0} : \E y : /\ Clauses(s, k, e, y, p) /\ 2 * e <= Len(k) /\ Len(k) <= 2 * e + 1
                              /\ IfTail(s, SubSeq(k, 2 * e + 1, Len(k)), y[e], h)

LEMMA FiRead ==
  ASSUME NEW S, NEW s \in Seq(Kind), NEW f, f.kids \in Seq(S), f.at = "fi", NEW p \in Nat, NEW h \in Nat, Ran(s, f, p, h)
  PROVE  FiTo(s, f.kids, p, h)
<1>0. PICK l \in Seq(S) : l = f.kids
  OBVIOUS
<1>1. CASE HasRead(s, f, p, h)
  <2>1. ClausesTo(s, l, p, h)
    BY <1>0, <1>1 DEF HasRead
  <2>2. PICK e \in Nat \ {0} : Len(l) = 2 * e /\ \E y : Clauses(s, l, e, y, p) /\ y[e] = h
    BY <2>1 DEF ClausesTo
  <2>3. PICK y : Clauses(s, l, e, y, p) /\ y[e] = h
    BY <2>2
  <2>4. PICK w : w = SubSeq(l, 2 * e + 1, Len(l))
    OBVIOUS
  <2>5. w = <<>>
    <3>1. w \in Seq(S) /\ Len(w) = 0
      BY <1>0, <2>2, <2>4, SubSeqProperties
    <3> QED BY <3>1
  <2>6. IfTail(s, w, y[e], h)
    BY <2>3, <2>5 DEF IfTail
  <2>7. 2 * e <= Len(l) /\ Len(l) <= 2 * e + 1
    BY <2>2
  <2> QED BY <1>0, <2>3, <2>4, <2>6, <2>7 DEF FiTo
<1>2. CASE Resumed(s, f, p, h)
  <2>b. BodyOf(s, f, p, h)
    BY <1>2, BodyRead DEF Bodied
  <2>1. PICK T, n : \E m \in Seq(T) : \E q \in Nat :
             /\ Awaits(s, f.at, f.type, f.words, f.redirs, m, p, q)
             /\ f.kids = Append(m, n) /\ n.type \in ListType /\ Listed(s, n, q, h)
    BY <2>b, Zenon DEF BodyOf
  <2>2. PICK k \in Seq(T), q \in Nat :
             /\ Awaits(s, f.at, f.type, f.words, f.redirs, k, p, q)
             /\ f.kids = Append(k, n) /\ n.type \in ListType /\ Listed(s, n, q, h)
    BY <2>1
  <2>3. FiAwaits(s, k, p, q)
    BY <2>2 DEF Awaits
  <2>4. PICK m \in Nat : ClausesTo(s, k, p, m) /\ Tok(s, m, {"else"}) /\ q = m + 1
    BY <2>3 DEF FiAwaits
  <2>5. PICK e \in Nat \ {0} : Len(k) = 2 * e /\ \E y : Clauses(s, k, e, y, p) /\ y[e] = m
    BY <2>4 DEF ClausesTo
  <2>6. PICK y : Clauses(s, k, e, y, p) /\ y[e] = m
    BY <2>5
  <2>7. Len(l) = 2 * e + 1 /\ l[2 * e + 1] = n
    <3>1. Len(l) = Len(k) + 1 /\ l[Len(k) + 1] = n
      BY <1>0, <2>2
    <3> QED BY <2>5, <3>1
  <2>8. Clauses(s, l, e, y, p)
    <3>1. 2 * e <= Len(k)
      BY <2>5
    <3> QED BY <1>0, <2>2, <2>6, <3>1, ClausesSame
  <2>9. PICK w : w = SubSeq(l, 2 * e + 1, Len(l))
    OBVIOUS
  <2>10. w = <<n>>
    <3>1. w \in Seq(S) /\ Len(w) = 1 /\ w[1] = n
      <4>1. PICK c \in 1..Len(l) : c = 2 * e + 1 /\ c = Len(l)
        BY <2>7
      <4>2. w = SubSeq(l, c, c)
        BY <2>9, <4>1
      <4> QED BY <1>0, <2>7, <4>1, <4>2, SubSeqProperties
    <3>2. n \in S
      <4>1. 2 * e + 1 \in 1..Len(l)
        BY <2>7
      <4> QED BY <1>0, <2>7, <4>1
    <3> QED BY <3>1, <3>2, OneOf
  <2>11. IfTail(s, w, y[e], h)
    <3>1. Listed(s, n, m + 1, h)
      BY <2>2, <2>4
    <3> QED BY <2>2, <2>4, <2>6, <2>10, <3>1 DEF IfTail
  <2>12. 2 * e <= Len(l) /\ Len(l) <= 2 * e + 1
    BY <2>7
  <2> QED BY <1>0, <2>8, <2>9, <2>11, <2>12 DEF FiTo
<1> QED BY <1>1, <1>2 DEF Ran

LEMMA IfGiven ==
  ASSUME NEW S, NEW s \in Seq(Kind), NEW k \in Seq(S), NEW p \in Nat, NEW h \in Nat, FiTo(s, k, p, h),
         Tok(s, h, {"fi"}), NEW j, Beyond(h, j)
  PROVE  Gives(s, "construct", IfNode(k), p, j)
<1>1. PICK e \in Nat \ {0} : \E y : /\ Clauses(s, k, e, y, p) /\ 2 * e <= Len(k) /\ Len(k) <= 2 * e + 1
                              /\ IfTail(s, SubSeq(k, 2 * e + 1, Len(k)), y[e], h)
  BY DEF FiTo
<1>2. PICK y : /\ Clauses(s, k, e, y, p) /\ 2 * e <= Len(k) /\ Len(k) <= 2 * e + 1
               /\ IfTail(s, SubSeq(k, 2 * e + 1, Len(k)), y[e], h)
  BY <1>1
<1>3. PICK u : /\ IfNode(k) = u[1][1]
               /\ \A i \in 1..(Len(k) + 1) : u[i] = IfFrom(i, u, k)
  BY IfNodeIs
<1>4. Len(k) \in Nat
  OBVIOUS
<1>5. IfTail(s, u[2 * e + 1], y[e], h)
  <2>1. PICK i \in 1..(Len(k) + 1) : i = 2 * e + 1 /\ i >= Len(k)
    BY <1>2, <1>4
  <2>2. u[i] = SubSeq(k, i, Len(k))
    BY <1>3, <2>1 DEF IfFrom
  <2> QED BY <1>2, <2>1, <2>2
<1>6. u[1][1].type = "if" /\ Bare(s, u[1][1], p, h)
  BY <1>2, <1>3, <1>4, <1>5, IfStandsOn
<1>7. Tok(s, p, {"if"})
  <2>1. 1 \in 1..e /\ y[0] = p
    BY <1>2 DEF Clauses
  <2>2. Clause(s, k[2 * 1 - 1], k[2 * 1], Opening(1), y[1 - 1], y[1])
    BY <1>2, <2>1 DEF Clauses
  <2>3. Tok(s, y[1 - 1], Opening(1))
    BY <2>2 DEF Clause
  <2>4. y[1 - 1] = y[0] /\ Opening(1) = {"if"}
    BY DEF Opening
  <2> QED BY <2>1, <2>3, <2>4
<1>8. PICK t : t = IfNode(k)
  OBVIOUS
<1>9. t.type = "if" /\ Bare(s, t, p, h) /\ j = h + 1
  BY <1>3, <1>6, <1>8 DEF Beyond
<1>10. Core(s, t, p, j)
  BY <1>7, <1>9 DEF Core
<1>11. Gives(s, "construct", t, p, j)
  BY <1>9, <1>10 DEF Gives, TypesOf, BareType
<1> QED BY <1>8, <1>11

LEMMA IfHanded ==
  ASSUME NEW S, NEW f, f.kids \in Seq(S), f.at = "fi", NEW x
  PROVE  Handed("fi", f, IfNode(f.kids), x)
<1>1. SUFFICES ASSUME NEW s \in Seq(Kind), NEW p \in Nat, NEW h \in Nat, NEW j \in Nat, h = x, j = h + 1,
                      Tok(s, h, {"fi"}), Ran(s, f, p, h)
               PROVE  Gives(s, Role(f), IfNode(f.kids), p, j)
  BY DEF Handed
<1>2. FiTo(s, f.kids, p, h)
  BY <1>1, FiRead
<1>3. Beyond(h, j)
  BY <1>1 DEF Beyond
<1>4. Gives(s, "construct", IfNode(f.kids), p, j)
  BY <1>1, <1>2, <1>3, IfGiven
<1>5. Role(f) = "construct"
  BY DEF Role
<1> QED BY <1>4, <1>5

LEMMA IfEndsTree ==
  ASSUME LineInv, IfEnds
  PROVE  TreeInv' /\ LinesInv'
<1>1. at = "parse" /\ Top.at = "fi" /\ Take("fi") /\ Return(IfNode(Top.kids))
  BY DEF IfEnds, Parsing
<1>2. PICK S : Top \in FrameOf(S)
  BY <1>1, Tokens, TakenType
<1>3. Top.kids \in Seq(S)
  BY <1>2 DEF FrameOf
<1>4. Handed("fi", Top, IfNode(Top.kids), Here)
  BY <1>1, <1>3, IfHanded
<1> QED BY <1>1, <1>4, Tokens, StepsUp

-----------------------------------------------------------------------------
LEMMA CaseNamed ==
  ASSUME NEW f, f.at = "case_word", NEW x, NEW g, NameIs(f, g, "in", x), NEW k \in Words
  PROVE  Further(k, f, g, x)
<1>1. SUFFICES ASSUME NEW s \in Seq(Kind), NEW p \in Nat, NEW h \in Nat, NEW j \in Nat, h = x, j = h + 1,
                      Tok(s, h, {k}), HasRead(s, f, p, h)
               PROVE  HasRead(s, g, p, j)
  BY DEF Further
<1>2. f.kids = <<>> /\ f.redirs = <<>> /\ Tok(s, p, {"case"}) /\ h = p + 1
  BY <1>1 DEF HasRead
<1>3. Tok(s, h, WordKind)
  BY <1>1, WordsAre, TokOf
<1>4. g.at = "in" /\ g.kids = <<>> /\ g.redirs = <<>> /\ g.words = <<p + 1>>
  BY <1>1, <1>2 DEF NameIs
<1> QED BY <1>1, <1>2, <1>3, <1>4 DEF HasRead, Lone

LEMMA CaseIn ==
  ASSUME NEW f, f.at = "in", NEW x, NEW g, SameParted(f, g, "item")
  PROVE  Further("in", f, g, x)
<1>1. SUFFICES ASSUME NEW s \in Seq(Kind), NEW p \in Nat, NEW h \in Nat, NEW j \in Nat, h = x, j = h + 1,
                      Tok(s, h, {"in"}), HasRead(s, f, p, h)
               PROVE  HasRead(s, g, p, j)
  BY DEF Further
<1>2. /\ f.kids = <<>> /\ f.redirs = <<>> /\ f.words = <<p + 1>> /\ Tok(s, p, {"case"})
      /\ Tok(s, p + 1, WordKind) /\ h = p + 2
  BY <1>1 DEF HasRead
<1>3. PICK k : k = f.kids
  OBVIOUS
<1>4. k = <<>> /\ Len(k) = 0 /\ DOMAIN k = {}
  BY <1>2, <1>3
<1>5. Linked(s, k, p + 3)
  BY <1>4 DEF Linked
<1>6. CaseHead(s, f.words, k, p)
  BY <1>1, <1>2, <1>5 DEF CaseHead
<1>7. Nls(s, p + 3, j)
  <2>1. h <= Len(s)
    BY <1>1, TokIs
  <2>2. j <= Len(s) + 1 /\ j = p + 3
    BY <1>1, <1>2, <2>1
  <2> QED BY <2>2, NlsNone
<1>8. Follows(s, k, Len(k) + 1, p + 3, j)
  <2>1. Len(k) + 1 = 1
    BY <1>4
  <2> QED BY <1>7, <2>1 DEF Follows
<1>9. p <= j
  BY <1>1, <1>2
<1>10. CaseTo(s, f.words, k, p, j)
  BY <1>6, <1>8, <1>9 DEF CaseTo
<1>11. g.at = "item" /\ g.redirs = <<>> /\ g.words = f.words /\ g.kids = k
  BY <1>2, <1>3 DEF SameParted
<1> QED BY <1>10, <1>11 DEF HasRead, Lone

LEMMA CaseWordTree ==
  ASSUME LineInv, CaseWord
  PROVE  TreeInv' /\ LinesInv'
<1>1. \/ /\ at = "parse" /\ Top.at = "case_word"
         /\ \E k \in Words : Take(k)
         /\ GoOn([Top EXCEPT !.words = <<Here>>], "in", <<>>)
      \/ /\ at = "parse" /\ Top.at = "in"
         /\ Take("in")
         /\ GoOn(Top, "item", <<>>)
  BY DEF CaseWord, Parsing
<1>2. ASSUME at = "parse", Top.at = "case_word", NEW k \in Words, Take(k), GoOn([Top EXCEPT !.words = <<Here>>], "in", <<>>)
      PROVE  TreeInv' /\ LinesInv'
  <2>3. k \in Kind /\ k # "eof"
    BY Tokens
  <2>4. PICK S : Top \in FrameOf(S) /\ Here \in Nat
    BY <1>2, <2>3, TakenType
  <2>e. PICK e : e = [Top EXCEPT !.words = <<Here>>]
    OBVIOUS
  <2>5. PICK g : g = [e EXCEPT !.at = "in"]
    OBVIOUS
  <2>6. NameIs(Top, g, "in", Here)
    BY <2>4, <2>e, <2>5 DEF FrameOf, NameIs
  <2>7. Further(k, Top, g, Here)
    BY <1>2, <2>6, CaseNamed
  <2>8. Role(Top) = "construct" /\ Role(g) = "construct"
    BY <1>2, <2>6 DEF Role, NameIs
  <2>9. Going(Top, e, "in", g)
    BY <1>2, <2>e, <2>5, <2>8, NeedsNone DEF Going, GoesAs, Single
  <2> QED BY <1>2, <2>3, <2>7, <2>9, StepsOn
<1>3. ASSUME at = "parse", Top.at = "in", Take("in"), GoOn(Top, "item", <<>>)
      PROVE  TreeInv' /\ LinesInv'
  <2>2. PICK S : Top \in FrameOf(S)
    BY <1>3, Tokens, TakenType
  <2>3. PICK g : g = [Top EXCEPT !.at = "item"]
    OBVIOUS
  <2>4. SameParted(Top, g, "item")
    BY <2>2, <2>3, SamePartedIs
  <2>5. Further("in", Top, g, Here)
    BY <1>3, <2>4, CaseIn
  <2>6. Role(Top) = "construct" /\ Role(g) = "construct"
    BY <1>3, <2>4 DEF Role, SameParted
  <2>7. Going(Top, Top, "item", g)
    BY <1>3, <2>3, <2>6, NeedsNone DEF Going, GoesAs, Single
  <2> QED BY <1>3, <2>5, <2>7, Tokens, StepsOn
<1> QED BY <1>1, <1>2, <1>3

-----------------------------------------------------------------------------
LEMMA ItemRead ==
  ASSUME NEW s, NEW f, f.at = "item", NEW p, NEW h, HasRead(s, f, p, h)
  PROVE  f.redirs = <<>> /\ CaseTo(s, f.words, f.kids, p, h)
  BY DEF HasRead

LEMMA ItemOpens ==
  ASSUME NEW f, f.at = "item", NEW x, NEW g, SameParted(f, g, "pattern")
  PROVE  Further("(", f, g, x)
<1>1. SUFFICES ASSUME NEW s \in Seq(Kind), NEW p \in Nat, NEW h \in Nat, NEW j \in Nat, h = x, j = h + 1,
                      Tok(s, h, {"("}), HasRead(s, f, p, h)
               PROVE  HasRead(s, g, p, j)
  BY DEF Further
<1>2. f.redirs = <<>> /\ CaseTo(s, f.words, f.kids, p, h)
  BY <1>1, ItemRead
<1>3. PICK r : r = f.redirs
  OBVIOUS
<1>4. Len(r) = 0 /\ DOMAIN r = {}
  BY <1>2, <1>3
<1>5. Barred(s, r, j)
  BY <1>4 DEF Barred
<1>6. ItemFrom(s, h, j)
  BY <1>1 DEF ItemFrom
<1>7. j = j + 2 * Len(r)
  BY <1>4
<1>8. PatternTo(s, f.words, r, f.kids, p, j)
  BY <1>2, <1>5, <1>6, <1>7 DEF PatternTo
<1>9. g.at = "pattern" /\ g.redirs = r /\ g.words = f.words /\ g.kids = f.kids
  BY <1>3 DEF SameParted
<1> QED BY <1>8, <1>9 DEF HasRead, Lone

\* g has r as the patterns so far
PatternsAre(f, g, l, r) == g.at = l /\ g.words = f.words /\ g.kids = f.kids /\ g.redirs = r

LEMMA ItemStarts ==
  ASSUME NEW f, f.at = "item", NEW x, NEW g, PatternsAre(f, g, "bar", <<x>>), NEW k \in Words
  PROVE  Further(k, f, g, x)
<1>1. SUFFICES ASSUME NEW s \in Seq(Kind), NEW p \in Nat, NEW h \in Nat, NEW j \in Nat, h = x, j = h + 1,
                      Tok(s, h, {k}), HasRead(s, f, p, h)
               PROVE  HasRead(s, g, p, j)
  BY DEF Further
<1>2. f.redirs = <<>> /\ CaseTo(s, f.words, f.kids, p, h)
  BY <1>1, ItemRead
<1>3. PICK r : r = <<h>>
  OBVIOUS
<1>4. Len(r) = 1 /\ DOMAIN r = {1} /\ r[1] = h /\ r # <<>>
  BY <1>3
<1>5. Tok(s, h, WordKind)
  BY <1>1, WordsAre, TokOf
<1>6. Patterns(s, r, h)
  BY <1>4, <1>5 DEF Patterns
<1>7. ItemFrom(s, h, h)
  BY DEF ItemFrom
<1>8. j = h + 2 * Len(r) - 1
  BY <1>1, <1>4
<1>9. BarTo(s, f.words, r, f.kids, p, j)
  BY <1>2, <1>4, <1>6, <1>7, <1>8 DEF BarTo
<1>10. g.at = "bar" /\ g.redirs = r /\ g.words = f.words /\ g.kids = f.kids
  BY <1>1, <1>3 DEF PatternsAre
<1> QED BY <1>9, <1>10 DEF HasRead, Lone

LEMMA ItemsEnd ==
  ASSUME NEW f, f.at = "item", NEW g, SameParted(f, g, "esac"), NEW k, NEW x
  PROVE  Likewise(k, f, g, x)
<1>1. SUFFICES ASSUME NEW s \in Seq(Kind), NEW p \in Nat, NEW h \in Nat, HasRead(s, f, p, h)
               PROVE  HasRead(s, g, p, h)
  BY DEF Likewise
<1>2. f.redirs = <<>> /\ CaseTo(s, f.words, f.kids, p, h)
  BY <1>1, ItemRead
<1>3. EsacTo(s, f.words, f.kids, p, h)
  BY <1>2 DEF CaseTo, EsacTo
<1>4. g.at = "esac" /\ g.words = f.words /\ g.kids = f.kids
  BY DEF SameParted
<1> QED BY <1>3, <1>4 DEF HasRead, Lone

LEMMA CaseItemTree ==
  ASSUME LineInv, CaseItem
  PROVE  TreeInv' /\ LinesInv'
<1>1. at = "parse" /\ Top.at = "item"
  BY DEF CaseItem, Parsing
<1>r. Single(Top) /\ Role(Top) = "construct"
  BY <1>1, NeedsNone DEF Single, Role
<1>2. \/ Take("(") /\ GoOn(Top, "pattern", <<>>)
      \/ \E k \in Words : Take(k) /\ GoOn([Top EXCEPT !.redirs = <<Here>>], "bar", <<>>)
      \/ \E k \in Kind : Peek(k) /\ GoOn(Top, "esac", <<>>)
  BY DEF CaseItem
<1>3. CASE Take("(") /\ GoOn(Top, "pattern", <<>>)
  <2>2. PICK S : Top \in FrameOf(S)
    BY <1>1, <1>3, Tokens, TakenType
  <2>3. PICK g : g = [Top EXCEPT !.at = "pattern"]
    OBVIOUS
  <2>4. SameParted(Top, g, "pattern")
    BY <2>2, <2>3, SamePartedIs
  <2>5. Further("(", Top, g, Here)
    BY <1>1, <2>4, ItemOpens
  <2>6. Role(g) = "construct"
    BY <2>4 DEF Role, SameParted
  <2>7. Going(Top, Top, "pattern", g)
    BY <1>3, <1>r, <2>3, <2>6 DEF Going, GoesAs
  <2> QED BY <1>1, <1>3, <2>5, <2>7, Tokens, StepsOn
<1>4. ASSUME NEW k \in Words, Take(k), GoOn([Top EXCEPT !.redirs = <<Here>>], "bar", <<>>)
      PROVE  TreeInv' /\ LinesInv'
  <2>3. k \in Kind /\ k # "eof"
    BY Tokens
  <2>4. PICK S : Top \in FrameOf(S) /\ Here \in Nat
    BY <1>1, <1>4, <2>3, TakenType
  <2>e. PICK e : e = [Top EXCEPT !.redirs = <<Here>>]
    OBVIOUS
  <2>5. PICK g : g = [e EXCEPT !.at = "bar"]
    OBVIOUS
  <2>6. PatternsAre(Top, g, "bar", <<Here>>)
    BY <2>4, <2>e, <2>5 DEF FrameOf, PatternsAre
  <2>7. Further(k, Top, g, Here)
    BY <1>1, <2>6, ItemStarts
  <2>8. Role(g) = "construct"
    BY <2>6 DEF Role, PatternsAre
  <2>9. Going(Top, e, "bar", g)
    BY <1>4, <1>r, <2>e, <2>5, <2>8 DEF Going, GoesAs
  <2> QED BY <1>1, <1>4, <2>3, <2>7, <2>9, StepsOn
<1>5. ASSUME NEW k \in Kind, Peek(k), GoOn(Top, "esac", <<>>)
      PROVE  TreeInv' /\ LinesInv'
  <2>2. PICK S : Top \in FrameOf(S)
    BY <1>1, <1>5, PeekedType
  <2>3. PICK g : g = [Top EXCEPT !.at = "esac"]
    OBVIOUS
  <2>4. SameParted(Top, g, "esac")
    BY <2>2, <2>3, SamePartedIs
  <2>5. Likewise(k, Top, g, Here)
    BY <1>1, <2>4, ItemsEnd
  <2>6. Role(g) = "construct"
    BY <2>4 DEF Role, SameParted
  <2>7. Going(Top, Top, "esac", g)
    BY <1>5, <1>r, <2>3, <2>6 DEF Going, GoesAs
  <2> QED BY <1>1, <1>5, <2>5, <2>7, LooksOn
<1> QED BY <1>2, <1>3, <1>4, <1>5

-----------------------------------------------------------------------------
LEMMA PatternMore ==
  ASSUME NEW f, f.at = "pattern", f.redirs \in Seq(Nat), NEW x,
         NEW g, PatternsAre(f, g, "bar", Append(f.redirs, x)), NEW k \in Words
  PROVE  Further(k, f, g, x)
<1>1. SUFFICES ASSUME NEW s \in Seq(Kind), NEW p \in Nat, NEW h \in Nat, NEW j \in Nat, h = x, j = h + 1,
                      Tok(s, h, {k}), HasRead(s, f, p, h)
               PROVE  HasRead(s, g, p, j)
  BY DEF Further
<1>2. PatternTo(s, f.words, f.redirs, f.kids, p, h)
  BY <1>1 DEF HasRead
<1>3. PICK q \in Seq(Nat) : q = f.redirs
  OBVIOUS
<1>4. PICK i \in Nat, b \in Nat : CaseTo(s, f.words, f.kids, p, i) /\ ItemFrom(s, i, b) /\ Barred(s, q, b) /\ h = b + 2 * Len(q)
  BY <1>2, <1>3 DEF PatternTo
<1>5. PICK r : r = Append(q, h)
  OBVIOUS
<1>6. /\ r # <<>> /\ Len(r) = Len(q) + 1 /\ Len(q) \in Nat /\ DOMAIN r = 1..Len(r) /\ DOMAIN q = 1..Len(q)
      /\ r[Len(q) + 1] = h /\ \A m \in 1..Len(q) : r[m] = q[m]
  BY <1>5
<1>7. Tok(s, h, WordKind)
  BY <1>1, WordsAre, TokOf
<1>8. ASSUME NEW m \in DOMAIN r
      PROVE  /\ r[m] = b + 2 * (m - 1) /\ Tok(s, r[m], WordKind)
             /\ m < Len(r) => Tok(s, r[m] + 1, {"|"})
  <2>1. CASE m = Len(q) + 1
    <3>1. r[m] = h /\ h = b + 2 * (m - 1) /\ ~(m < Len(r))
      BY <1>4, <1>6, <2>1
    <3> QED BY <1>7, <3>1
  <2>2. CASE m # Len(q) + 1
    <3>1. m \in DOMAIN q /\ r[m] = q[m]
      BY <1>6, <2>2
    <3>2. q[m] = b + 2 * (m - 1) /\ Tok(s, q[m], WordKind) /\ Tok(s, q[m] + 1, {"|"})
      BY <1>4, <3>1 DEF Barred
    <3> QED BY <3>1, <3>2
  <2> QED BY <2>1, <2>2
<1>9. Patterns(s, r, b)
  BY <1>8 DEF Patterns
<1>10. j = b + 2 * Len(r) - 1
  BY <1>1, <1>4, <1>6
<1>11. BarTo(s, f.words, r, f.kids, p, j)
  BY <1>4, <1>6, <1>9, <1>10 DEF BarTo
<1>12. g.at = "bar" /\ g.redirs = r /\ g.words = f.words /\ g.kids = f.kids
  BY <1>1, <1>3, <1>5 DEF PatternsAre
<1> QED BY <1>11, <1>12 DEF HasRead, Lone

LEMMA BarRead ==
  ASSUME NEW s, NEW f, f.at \in {"bar", "case_paren"}, NEW p, NEW h, HasRead(s, f, p, h)
  PROVE  BarTo(s, f.words, f.redirs, f.kids, p, h)
  BY DEF HasRead

LEMMA BarMore ==
  ASSUME NEW f, f.at = "bar", f.redirs \in Seq(Nat), NEW x, NEW g, SameParted(f, g, "pattern")
  PROVE  Further("|", f, g, x)
<1>1. SUFFICES ASSUME NEW s \in Seq(Kind), NEW p \in Nat, NEW h \in Nat, NEW j \in Nat, h = x, j = h + 1,
                      Tok(s, h, {"|"}), HasRead(s, f, p, h)
               PROVE  HasRead(s, g, p, j)
  BY DEF Further
<1>2. BarTo(s, f.words, f.redirs, f.kids, p, h)
  BY <1>1, BarRead
<1>3. PICK r \in Seq(Nat) : r = f.redirs
  OBVIOUS
<1>4. PICK i \in Nat, b \in Nat : /\ CaseTo(s, f.words, f.kids, p, i) /\ ItemFrom(s, i, b)
                                  /\ r # <<>> /\ Patterns(s, r, b) /\ h = b + 2 * Len(r) - 1
  BY <1>2, <1>3 DEF BarTo
<1>5. ASSUME NEW m \in DOMAIN r
      PROVE  r[m] = b + 2 * (m - 1) /\ Tok(s, r[m], WordKind) /\ Tok(s, r[m] + 1, {"|"})
  <2>1. r[m] = b + 2 * (m - 1) /\ Tok(s, r[m], WordKind) /\ (m < Len(r) => Tok(s, r[m] + 1, {"|"}))
    BY <1>4, <1>5 DEF Patterns
  <2>2. m < Len(r) \/ m = Len(r)
    OBVIOUS
  <2>3. m = Len(r) => r[m] + 1 = h
    BY <1>4, <2>1
  <2> QED BY <1>1, <2>1, <2>2, <2>3
<1>6. Barred(s, r, b)
  BY <1>5 DEF Barred
<1>7. j = b + 2 * Len(r)
  BY <1>1, <1>4
<1>8. PatternTo(s, f.words, r, f.kids, p, j)
  BY <1>4, <1>6, <1>7 DEF PatternTo
<1>9. g.at = "pattern" /\ g.redirs = r /\ g.words = f.words /\ g.kids = f.kids
  BY <1>3 DEF SameParted
<1> QED BY <1>8, <1>9 DEF HasRead, Lone

LEMMA BarEnds ==
  ASSUME NEW f, f.at = "bar", NEW g, SameParted(f, g, "case_paren"), NEW k, NEW x
  PROVE  Likewise(k, f, g, x)
<1>1. SUFFICES ASSUME NEW s \in Seq(Kind), NEW p \in Nat, NEW h \in Nat, HasRead(s, f, p, h)
               PROVE  HasRead(s, g, p, h)
  BY DEF Likewise
<1>2. BarTo(s, f.words, f.redirs, f.kids, p, h)
  BY <1>1, BarRead
<1>4. g.at = "case_paren" /\ g.words = f.words /\ g.kids = f.kids /\ g.redirs = f.redirs
  BY DEF SameParted
<1> QED BY <1>2, <1>4 DEF HasRead, Lone

LEMMA PatternsEnd ==
  ASSUME NEW f, f.at = "case_paren", NEW g, SameParted(f, g, "item_body"), NEW x
  PROVE  Further(")", f, g, x)
<1>1. SUFFICES ASSUME NEW s \in Seq(Kind), NEW p \in Nat, NEW h \in Nat, NEW j \in Nat, h = x, j = h + 1,
                      Tok(s, h, {")"}), HasRead(s, f, p, h)
               PROVE  HasRead(s, g, p, j)
  BY DEF Further
<1>2. BarTo(s, f.words, f.redirs, f.kids, p, h)
  BY <1>1, BarRead
<1>3. Nls(s, h + 1, j)
  <2>1. j <= Len(s) + 1
    BY <1>1, TokIs
  <2>2. Nls(s, j, j)
    BY <2>1, NlsNone
  <2> QED BY <1>1, <2>2
<1>4. BodyTo(s, f.words, f.redirs, f.kids, p, j)
  BY <1>1, <1>2, <1>3 DEF BodyTo
<1>5. g.at = "item_body" /\ g.words = f.words /\ g.kids = f.kids /\ g.redirs = f.redirs
  BY DEF SameParted
<1> QED BY <1>4, <1>5 DEF HasRead, Lone

LEMMA PatternTree ==
  ASSUME LineInv, at = "parse", Top.at = "pattern",
         NEW k \in Words, Take(k), GoOn([Top EXCEPT !.redirs = Append(@, Here)], "bar", <<>>)
  PROVE  TreeInv' /\ LinesInv'
<2>3. k \in Kind /\ k # "eof"
  BY Tokens
<2>4. PICK S : Top \in FrameOf(S) /\ Here \in Nat
  BY <2>3, TakenType
<2>e. PICK e : e = [Top EXCEPT !.redirs = Append(@, Here)]
  OBVIOUS
<2>5. PICK g : g = [e EXCEPT !.at = "bar"]
  OBVIOUS
<2>6. PatternsAre(Top, g, "bar", Append(Top.redirs, Here)) /\ Top.redirs \in Seq(Nat)
  BY <2>4, <2>e, <2>5 DEF FrameOf, PatternsAre
<2>7. Further(k, Top, g, Here)
  BY <2>6, PatternMore
<2>8. Role(Top) = "construct" /\ Role(g) = "construct"
  BY <2>6 DEF Role, PatternsAre
<2>9. Going(Top, e, "bar", g)
  BY <2>e, <2>5, <2>8, NeedsNone DEF Going, GoesAs, Single
<2> QED BY <2>3, <2>7, <2>9, StepsOn

LEMMA CasePatternsTree ==
  ASSUME LineInv, CasePatterns
  PROVE  TreeInv' /\ LinesInv'
<1>1. \/ /\ at = "parse" /\ Top.at = "pattern"
         /\ \E k \in Words : Take(k)
         /\ GoOn([Top EXCEPT !.redirs = Append(@, Here)], "bar", <<>>)
      \/ at = "parse" /\ Top.at = "bar" /\ Take("|") /\ GoOn(Top, "pattern", <<>>)
      \/ at = "parse" /\ Top.at = "bar" /\ (\E k \in Kind : Peek(k)) /\ GoOn(Top, "case_paren", <<>>)
      \/ at = "parse" /\ Top.at = "case_paren" /\ Take(")") /\ GoOn(Top, "item_body", <<>>)
  BY DEF CasePatterns, Parsing
<1>3. ASSUME at = "parse", Top.at = "bar", Take("|"), GoOn(Top, "pattern", <<>>)
      PROVE  TreeInv' /\ LinesInv'
  <2>2. PICK S : Top \in FrameOf(S)
    BY <1>3, Tokens, TakenType
  <2>3. PICK g : g = [Top EXCEPT !.at = "pattern"]
    OBVIOUS
  <2>4. SameParted(Top, g, "pattern") /\ Top.redirs \in Seq(Nat)
    BY <2>2, <2>3, SamePartedIs DEF FrameOf
  <2>5. Further("|", Top, g, Here)
    BY <1>3, <2>4, BarMore
  <2>6. Role(Top) = "construct" /\ Role(g) = "construct"
    BY <1>3, <2>4 DEF Role, SameParted
  <2>7. Going(Top, Top, "pattern", g)
    BY <1>3, <2>3, <2>6, NeedsNone DEF Going, GoesAs, Single
  <2> QED BY <1>3, <2>5, <2>7, Tokens, StepsOn
<1>4. ASSUME at = "parse", Top.at = "bar", NEW k \in Kind, Peek(k), GoOn(Top, "case_paren", <<>>)
      PROVE  TreeInv' /\ LinesInv'
  <2>2. PICK S : Top \in FrameOf(S)
    BY <1>4, PeekedType
  <2>3. PICK g : g = [Top EXCEPT !.at = "case_paren"]
    OBVIOUS
  <2>4. SameParted(Top, g, "case_paren")
    BY <2>2, <2>3, SamePartedIs
  <2>5. Likewise(k, Top, g, Here)
    BY <1>4, <2>4, BarEnds
  <2>6. Role(Top) = "construct" /\ Role(g) = "construct"
    BY <1>4, <2>4 DEF Role, SameParted
  <2>7. Going(Top, Top, "case_paren", g)
    BY <1>4, <2>3, <2>6, NeedsNone DEF Going, GoesAs, Single
  <2> QED BY <1>4, <2>5, <2>7, LooksOn
<1>5. ASSUME at = "parse", Top.at = "case_paren", Take(")"), GoOn(Top, "item_body", <<>>)
      PROVE  TreeInv' /\ LinesInv'
  <2>2. PICK S : Top \in FrameOf(S)
    BY <1>5, Tokens, TakenType
  <2>3. PICK g : g = [Top EXCEPT !.at = "item_body"]
    OBVIOUS
  <2>4. SameParted(Top, g, "item_body")
    BY <2>2, <2>3, SamePartedIs
  <2>5. Further(")", Top, g, Here)
    BY <1>5, <2>4, PatternsEnd
  <2>6. Role(Top) = "construct" /\ Role(g) = "construct"
    BY <1>5, <2>4 DEF Role, SameParted
  <2>7. Going(Top, Top, "item_body", g)
    BY <1>5, <2>3, <2>6, NeedsNone DEF Going, GoesAs, Single
  <2> QED BY <1>5, <2>5, <2>7, Tokens, StepsOn
<1> QED BY <1>1, <1>3, <1>4, <1>5, PatternTree

-----------------------------------------------------------------------------
LEMMA BodyToRead ==
  ASSUME NEW s, NEW f, f.at \in {"item_body", "item_end"}, NEW p, NEW h, HasRead(s, f, p, h)
  PROVE  BodyTo(s, f.words, f.redirs, f.kids, p, h)
  BY DEF HasRead

LEMMA NoBody ==
  ASSUME NEW f, f.at = "item_body", NEW g, SameParted(f, g, "item_end"), NEW k, NEW x
  PROVE  Likewise(k, f, g, x)
<1>1. SUFFICES ASSUME NEW s \in Seq(Kind), NEW p \in Nat, NEW h \in Nat, HasRead(s, f, p, h)
               PROVE  HasRead(s, g, p, h)
  BY DEF Likewise
<1>2. BodyTo(s, f.words, f.redirs, f.kids, p, h)
  BY <1>1, BodyToRead
<1>4. g.at = "item_end" /\ g.words = f.words /\ g.kids = f.kids /\ g.redirs = f.redirs
  BY DEF SameParted
<1> QED BY <1>2, <1>4 DEF HasRead, Lone

LEMMA CaseBodyTree ==
  ASSUME LineInv, CaseBody
  PROVE  TreeInv' /\ LinesInv'
<1>1. at = "parse" /\ Top.at = "item_body" /\ Role(Top) = "construct" /\ Single(Top)
  BY NeedsNone DEF CaseBody, Parsing, Role, Single
<1>2. \E k \in Kind : Peek(k) /\ \E u \in SUBSET Kind : GoOn(Top, "item_end", <<>>) \/ GoOn(Top, "item_end", Block(u))
  <2>1. {"esac", ";;"} \in SUBSET Kind
    BY DEF Kind, Keyword
  <2> QED BY <2>1, Zenon DEF CaseBody
<1>3. PICK k \in Kind, u \in SUBSET Kind : Peek(k) /\ (GoOn(Top, "item_end", <<>>) \/ GoOn(Top, "item_end", Block(u)))
  BY <1>2
<1>4. PICK S : Top \in FrameOf(S)
  BY <1>1, <1>3, PeekedType
<1>5. PICK g : g = [Top EXCEPT !.at = "item_end"]
  OBVIOUS
<1>6. SameParted(Top, g, "item_end")
  BY <1>4, <1>5, SamePartedIs
<1>7. Role(g) = "construct"
  BY <1>6 DEF Role, SameParted
<1>8. CASE GoOn(Top, "item_end", <<>>)
  <2>5. Likewise(k, Top, g, Here)
    BY <1>1, <1>6, NoBody
  <2>7. Going(Top, Top, "item_end", g)
    BY <1>1, <1>5, <1>7, <1>8 DEF Going, GoesAs
  <2> QED BY <1>1, <1>3, <2>5, <2>7, LooksOn
<1>9. CASE GoOn(Top, "item_end", Block(u))
  <2>1. PICK T, V, s, f : \E p \in Nat : \E h \in Nat : Peeks(T, V, p, s, f, h, k)
    BY <1>1, <1>3, PeeksOne
  <2>2. PICK p \in Nat, h \in Nat : Peeks(T, V, p, s, f, h, k)
    BY <2>1
  <2>3. /\ Acts(T, V, p, s, f, h) /\ Now(h) /\ s \in Seq(Kind) /\ f = Top /\ f \in FrameOf(T) /\ Ran(s, f, p, h) /\ Role(f) \in V
        /\ h <= Len(s)
    BY <2>2 DEF Peeks
  <2>4. HasRead(s, f, p, h)
    BY <1>1, <2>3, AloneIs DEF Single
  <2>5. BodyTo(s, f.words, f.redirs, f.kids, p, h)
    BY <1>1, <2>3, <2>4, BodyToRead
  <2>6. g.at = "item_end" /\ g.words = f.words /\ g.kids = f.kids /\ g.redirs = f.redirs
    BY <1>6, <2>3 DEF SameParted
  <2>7. FrameAwaits(s, g, p, h)
    BY <2>5, <2>6 DEF FrameAwaits, Awaits
  <2>8. h <= Len(s) + 1
    BY <2>3
  <2>9. Calls(s, g, p, Block(u), h)
    BY <2>3, <2>6, <2>7, <2>8, CallsBody
  <2>10. GoesAs(f, "item_end", Block(u), g)
    BY <1>5, <1>9, <2>3 DEF GoesAs
  <2>11. Role(g) \in V
    BY <1>1, <1>7, <2>3
  <2> QED BY <2>3, <2>9, <2>10, <2>11, TurnsTo
<1> QED BY <1>3, <1>8, <1>9

-----------------------------------------------------------------------------
BodyFrom(s, a, q, h) == a.type \in ListType /\ Listed(s, a, q, h)
BodyFits(s, body, q, h) == (body = <<>> /\ h = q) \/ (\E a : body = <<a>> /\ BodyFrom(s, a, q, h))
\* the items of a case, the last of which ends at h
ItemsTo(s, w, l, p, h) == CaseHead(s, w, l, p) /\ p <= h /\ l # <<>> /\ EndOf(s, l[Len(l)], h)

LEMMA ItemOf ==
  ASSUME NEW s \in Seq(Kind), NEW r \in Seq(Nat), NEW S, NEW k \in Seq(S), NEW w, NEW p \in Nat, NEW q \in Nat, NEW h \in Nat,
         BodyTo(s, w, r, k, p, q), NEW body, BodyFits(s, body, q, h), NEW n, n = Worded("item", body, r),
         NEW l, l = Append(k, n)
  PROVE  ItemsTo(s, w, l, p, h)
<1>1. PICK z \in Nat : BarTo(s, w, r, k, p, z) /\ Tok(s, z, {")"}) /\ Nls(s, z + 1, q)
  BY DEF BodyTo
<1>2. PICK i \in Nat, b \in Nat : /\ CaseTo(s, w, k, p, i) /\ ItemFrom(s, i, b)
                                  /\ r # <<>> /\ Patterns(s, r, b) /\ z = b + 2 * Len(r) - 1
  BY <1>1 DEF BarTo
<1>3. CaseHead(s, w, k, p) /\ p <= i /\ Follows(s, k, Len(k) + 1, p + 3, i)
  BY <1>2 DEF CaseTo
<1>4. i = b \/ (i + 1 = b /\ Tok(s, i, {"("}))
  BY <1>2 DEF ItemFrom
<1>5. (body = <<>> /\ h = q) \/ \E a : body = <<a>> /\ a.type \in ListType /\ Listed(s, a, q, h)
  BY DEF BodyFits, BodyFrom
<1>6. Bare(s, n, i, h)
  BY <1>1, <1>2, <1>4, <1>5, ItemStands
<1>7. i <= h
  BY <1>6, BareIs
<1>8. PICK T : body \in Seq(T)
  <2>1. CASE body = <<>>
    <3>1. body \in Seq({})
      BY <2>1
    <3> QED BY <3>1
  <2>2. CASE \E a : body = <<a>>
    <3>1. PICK a : body = <<a>>
      BY <2>2
    <3>2. body \in Seq({a})
      BY <3>1
    <3> QED BY <3>2
  <2> QED BY <1>5, <2>1, <2>2
<1>9. n.type = "item" /\ n.words = r
  BY <1>8, WordedIs
<1>10. i \in StartsOf(s, n)
  <2>1. 1 \in DOMAIN r /\ Len(r) \in Nat
    BY <1>2
  <2>2. r[1] = b + 2 * (1 - 1) /\ Tok(s, r[1], WordKind)
    BY <1>2, <2>1 DEF Patterns
  <2>3. r[1] = b
    BY <2>2
  <2>4. i \in DOMAIN s
    BY <1>4, <2>2, <2>3, TokIs DEF Tok
  <2>5. i = b \/ i = b - 1
    BY <1>4
  <2>6. i \in {b - 1, b}
    BY <2>5
  <2> QED BY <1>9, <2>3, <2>4, <2>6 DEF StartsOf
<1>11. EndOf(s, n, h)
  BY <1>6, <1>10 DEF EndOf
<1>12. /\ Tok(s, p, {"case"}) /\ w = <<p + 1>> /\ Tok(s, p + 1, WordKind) /\ Tok(s, p + 2, {"in"}) /\ Linked(s, k, p + 3)
  BY <1>3 DEF CaseHead
<1>13. PICK x : x = p + 3
  OBVIOUS
<1>14. Linked(s, l, x)
  <2>1. Linked(s, k, x) /\ \E j \in StartsOf(s, n) : Follows(s, k, Len(k) + 1, x, j)
    BY <1>3, <1>10, <1>12, <1>13
  <2>2. n.words # <<>>
    BY <1>2, <1>9
  <2> QED BY <1>9, <2>1, <2>2, LinkedMore
<1>15. CaseHead(s, w, l, p)
  BY <1>12, <1>13, <1>14 DEF CaseHead
<1>16. p <= h
  BY <1>3, <1>7
<1>17. Len(l) = Len(k) + 1 /\ l[Len(k) + 1] = n
  OBVIOUS
<1>18. l # <<>> /\ l[Len(l)] = n
  BY <1>17
<1> QED BY <1>11, <1>15, <1>16, <1>18 DEF ItemsTo

\* WithItem, of any frame
ItemIn(f) ==
  LET n == Len(f.kids)
  IN  IF n > 0 /\ f.kids[n].type # "item"
        THEN [f EXCEPT !.kids[n] = Worded("item", <<@>>, f.redirs), !.redirs = <<>>]
        ELSE [f EXCEPT !.kids = Append(@, Worded("item", <<>>, f.redirs)), !.redirs = <<>>]
ItemPut(f, e, k, body, n, l) ==
  e.kids = l /\ e.redirs = <<>> /\ e.words = f.words /\ e.type = f.type /\ n = Worded("item", body, f.redirs) /\ l = Append(k, n)

LEMMA ItemTypes == "item" \notin ListType
  BY DEF ListType, LogicType, PipelineType, StageType, CommandType, BareType

LEMMA LastReplaced ==
  ASSUME NEW S, NEW k \in Seq(S), NEW a, NEW b, NEW q, q = Append(k, a)
  PROVE  Len(q) = Len(k) + 1 /\ Len(k) \in Nat /\ q[Len(q)] = a /\ [q EXCEPT ![Len(q)] = b] = Append(k, b)
<1>1. PICK T : T = S \cup {a, b}
  OBVIOUS
<1>2. k \in Seq(T) /\ a \in T /\ b \in T
  BY <1>1
<1>3. PICK c \in Nat : c = Len(k)
  OBVIOUS
<1>4. /\ q \in Seq(T) /\ Len(q) = c + 1 /\ q[c + 1] = a /\ \A m \in 1..c : q[m] = k[m]
  BY <1>2, <1>3
<1>5. PICK u : u = [q EXCEPT ![Len(q)] = b]
  OBVIOUS
<1>6. PICK v : v = Append(k, b)
  OBVIOUS
<1>7. /\ v \in Seq(T) /\ Len(v) = c + 1 /\ v[c + 1] = b /\ \A m \in 1..c : v[m] = k[m]
  BY <1>2, <1>3, <1>6
<1>8. c + 1 \in 1..Len(q) /\ u = [q EXCEPT ![c + 1] = b]
  BY <1>4, <1>5
<1>9. u \in Seq(T)
  BY <1>2, <1>4, <1>8, ExceptSeq
<1>10. Len(u) = c + 1 /\ \A m \in 1..(c + 1) : u[m] = v[m]
  <2>1. Len(u) = c + 1 /\ DOMAIN q = 1..(c + 1) /\ DOMAIN u = 1..(c + 1)
    BY <1>2, <1>4, <1>8, <1>9
  <2>2. ASSUME NEW m \in 1..(c + 1) PROVE u[m] = v[m]
    <3>1. CASE m = c + 1
      BY <1>7, <1>8, <2>1, <3>1
    <3>2. CASE m # c + 1
      <4>1. m \in 1..c
        BY <3>2
      <4>2. u[m] = q[m]
        BY <1>8, <2>1, <3>2
      <4> QED BY <1>4, <1>7, <4>1, <4>2
    <3> QED BY <3>1, <3>2
  <2> QED BY <2>1, <2>2
<1>11. u = v
  BY <1>7, <1>9, <1>10, SeqEqual
<1> QED BY <1>3, <1>4, <1>5, <1>6, <1>11

LEMMA ItemInIs ==
  ASSUME NEW f, f.at = "item_end", NEW T, f \in FrameOf(T), NEW s \in Seq(Kind), NEW p \in Nat, NEW h \in Nat, Ran(s, f, p, h)
  PROVE  LET e == ItemIn(f)
         IN  ItemsTo(s, e.words, e.kids, p, h) /\ e.redirs = <<>> /\ e.type = f.type
<1> PICK e : e = ItemIn(f)
  OBVIOUS
<1>0. PICK r \in Seq(Nat), c \in Seq(T) : r = f.redirs /\ c = f.kids
  BY DEF FrameOf
<1>1. CASE HasRead(s, f, p, h)
  <2>1. BodyTo(s, f.words, r, c, p, h)
    BY <1>0, <1>1, BodyToRead
  <2>2. Linked(s, c, p + 3)
    BY <2>1, Zenon DEF BodyTo, BarTo, CaseTo, CaseHead
  <2>3. Len(c) > 0 => Len(c) \in DOMAIN c
    OBVIOUS
  <2>4. Len(c) > 0 => c[Len(c)].type = "item"
    BY <2>2, <2>3 DEF Linked
  <2>5. PICK n : n = Worded("item", <<>>, r)
    OBVIOUS
  <2>6. e = [f EXCEPT !.kids = Append(c, n), !.redirs = <<>>]
    BY <1>0, <2>4, <2>5 DEF ItemIn
  <2>7. e.kids = Append(c, n) /\ e.redirs = <<>> /\ e.words = f.words /\ e.type = f.type
    BY <2>6 DEF FrameOf
  <2>8. BodyFits(s, <<>>, h, h)
    BY DEF BodyFits
  <2>9. PICK body : body = <<>>
    OBVIOUS
  <2>10. ItemsTo(s, f.words, e.kids, p, h)
    BY <2>1, <2>5, <2>7, <2>8, <2>9, ItemOf
  <2> QED BY <2>7, <2>10
<1>2. CASE Resumed(s, f, p, h)
  <2>b. BodyOf(s, f, p, h)
    BY <1>2, BodyRead DEF Bodied
  <2>1. PICK S, a : \E k \in Seq(S) : \E q \in Nat :
          /\ Awaits(s, f.at, f.type, f.words, f.redirs, k, p, q)
          /\ f.kids = Append(k, a) /\ a.type \in ListType /\ Listed(s, a, q, h)
    BY <2>b, Zenon DEF BodyOf
  <2>2. PICK k \in Seq(S), q \in Nat :
          /\ Awaits(s, f.at, f.type, f.words, f.redirs, k, p, q)
          /\ f.kids = Append(k, a) /\ a.type \in ListType /\ Listed(s, a, q, h)
    BY <2>1
  <2>3. BodyTo(s, f.words, r, k, p, q)
    BY <1>0, <2>2 DEF Awaits
  <2>4. a.type # "item"
    BY <2>2, ItemTypes
  <2>5. PICK body : body = <<a>>
    OBVIOUS
  <2>6. PICK n : n = Worded("item", body, r)
    OBVIOUS
  <2>7. c = Append(k, a)
    BY <1>0, <2>2
  <2>8. /\ Len(c) = Len(k) + 1 /\ Len(k) \in Nat /\ c[Len(c)] = a /\ [c EXCEPT ![Len(c)] = n] = Append(k, n)
    BY <2>7, LastReplaced
  <2>9. Len(c) > 0
    BY <2>8
  <2>10. e = [f EXCEPT !.kids[Len(c)] = Worded("item", <<@>>, r), !.redirs = <<>>]
    BY <1>0, <2>4, <2>8, <2>9 DEF ItemIn
  <2>11. e = [f EXCEPT !.kids = [c EXCEPT ![Len(c)] = n], !.redirs = <<>>]
    BY <1>0, <2>5, <2>6, <2>8, <2>10
  <2>12. e.kids = [c EXCEPT ![Len(c)] = n] /\ e.redirs = <<>> /\ e.words = f.words /\ e.type = f.type
    BY <2>11 DEF FrameOf
  <2>13. e.kids = Append(k, n)
    BY <2>8, <2>12
  <2>14. BodyFits(s, body, q, h)
    BY <2>2, <2>5 DEF BodyFits, BodyFrom
  <2>15. ItemsTo(s, f.words, e.kids, p, h)
    BY <2>3, <2>6, <2>13, <2>14, ItemOf
  <2> QED BY <2>12, <2>15
<1> QED BY <1>1, <1>2 DEF Ran

-----------------------------------------------------------------------------
LEMMA ItemEndKinds == \A k \in ItemEnd : k \in Kind /\ k # "eof"
<1> PICK y : y = ";;"
  OBVIOUS
<1>1. y \in Kind /\ y # "eof"
  BY Zenon DEF Kind
<1>2. \A k \in ItemEnd : k = y
  BY Zenon DEF ItemEnd
<1> QED BY <1>1, <1>2

LEMMA WithItemOf ==
  WithItem = ItemIn(Top)
  BY DEF WithItem, ItemIn, Item, Worded

LEMMA ItemsPast ==
  ASSUME NEW s \in Seq(Kind), NEW w, NEW S, NEW l \in Seq(S), NEW p \in Nat, NEW h \in Nat, ItemsTo(s, w, l, p, h),
         Tok(s, h, ItemEnd), NEW j \in Nat, Beyond(h, j)
  PROVE  CaseTo(s, w, l, p, j)
<1>1. CaseHead(s, w, l, p) /\ p <= h /\ EndOf(s, l[Len(l)], h) /\ l # <<>>
  BY DEF ItemsTo
<1>2. j = h + 1
  BY DEF Beyond
<1>3. h <= Len(s)
  BY TokIs
<1>4. Nls(s, j, j)
  BY <1>2, <1>3, NlsNone
<1>5. Past(s, l[Len(l)], j)
  BY <1>1, <1>2, <1>4 DEF Past
<1>6. PICK c \in Nat : c = Len(l)
  OBVIOUS
<1>7. c # 0
  BY <1>1, <1>6
<1>8. c + 1 # 1 /\ (c + 1) - 1 = c
  BY <1>7
<1>9. Past(s, l[(c + 1) - 1], j)
  BY <1>5, <1>6, <1>8
<1>10. Follows(s, l, c + 1, p + 3, j)
  BY <1>8, <1>9 DEF Follows
<1>11. p <= j
  BY <1>1, <1>2
<1> QED BY <1>1, <1>6, <1>10, <1>11 DEF CaseTo

LEMMA CaseItemEndsTree ==
  ASSUME LineInv, CaseItemEnds
  PROVE  TreeInv' /\ LinesInv'
<1>1. at = "parse" /\ Top.at = "item_end"
  BY DEF CaseItemEnds, Parsing
<1>2. \/ \E k \in ItemEnd : Take(k) /\ GoOn(WithItem, "item", <<>>)
      \/ \E k \in Kind : Peek(k) /\ GoOn(WithItem, "esac", <<>>)
  BY Zenon DEF CaseItemEnds, ItemEnd
<1>3. ASSUME NEW k \in ItemEnd, Take(k), GoOn(WithItem, "item", <<>>)
      PROVE  TreeInv' /\ LinesInv'
  <2>1. k \in Kind /\ k # "eof"
    BY ItemEndKinds
  <2>2. PICK S, V, s, f : \E p \in Nat : \E h \in Nat : \E j \in Nat : Takes(S, V, p, s, f, h, j, k)
    BY <1>1, <1>3, <2>1, TakesOne
  <2>3. PICK p \in Nat, h \in Nat, j \in Nat : Takes(S, V, p, s, f, h, j, k)
    BY <2>2
  <2>4. /\ Acts(S, V, p, s, f, h) /\ Now(j) /\ j = h + 1 /\ Tok(s, h, {k})
        /\ s \in Seq(Kind) /\ f = Top /\ f \in FrameOf(S) /\ Ran(s, f, p, h) /\ Role(f) \in V
    BY <2>3 DEF Takes, Acts
  <2>5. f.at = "item_end" /\ Role(f) = "construct"
    BY <1>1, <2>4 DEF Role
  <2>e. PICK e : e = ItemIn(f)
    OBVIOUS
  <2>6. ItemsTo(s, e.words, e.kids, p, h) /\ e.redirs = <<>> /\ e.type = f.type
    BY <2>4, <2>5, <2>e, ItemInIs
  <2>7. PICK g : g = [e EXCEPT !.at = "item"]
    OBVIOUS
  <2>8. PICK T : e \in FrameOf(T)
    <3>1. e = WithItem
      BY <2>4, <2>e, WithItemOf
    <3>2. ParserInv
      BY DEF LineInv
    <3> QED BY <2>4, <3>1, <3>2, WithItemIs
  <2>9. SameParted(e, g, "item")
    BY <2>7, <2>8, SamePartedIs
  <2>10. g.at = "item" /\ g.redirs = <<>> /\ g.words = e.words /\ g.kids = e.kids
    BY <2>6, <2>9 DEF SameParted
  <2>11. PICK l \in Seq(T) : l = e.kids
    BY <2>8 DEF FrameOf
  <2>12. Tok(s, h, ItemEnd)
    BY <2>4, TokOf
  <2>13. CaseTo(s, e.words, l, p, j)
    <3>1. Beyond(h, j)
      BY <2>4 DEF Beyond
    <3>2. ItemsTo(s, e.words, l, p, h)
      BY <2>6, <2>11
    <3> QED BY <2>4, <2>12, <3>1, <3>2, ItemsPast
  <2>14. HasRead(s, g, p, j)
    BY <2>10, <2>11, <2>13 DEF HasRead, Lone
  <2>15. Ran(s, g, p, j)
    BY <2>14 DEF Ran
  <2>16. Role(g) \in V
    BY <2>4, <2>5, <2>10 DEF Role
  <2>17. GoesAs(e, "item", <<>>, g)
    BY <1>3, <2>4, <2>e, <2>7, WithItemOf DEF GoesAs
  <2> QED BY <2>4, <2>15, <2>16, <2>17, TurnsOn
<1>4. ASSUME NEW k \in Kind, Peek(k), GoOn(WithItem, "esac", <<>>)
      PROVE  TreeInv' /\ LinesInv'
  <2>1. PICK S, V, s, f : \E p \in Nat : \E h \in Nat : Peeks(S, V, p, s, f, h, k)
    BY <1>1, <1>4, PeeksOne
  <2>2. PICK p \in Nat, h \in Nat : Peeks(S, V, p, s, f, h, k)
    BY <2>1
  <2>3. /\ Acts(S, V, p, s, f, h) /\ Now(h) /\ s \in Seq(Kind) /\ f = Top /\ f \in FrameOf(S) /\ Ran(s, f, p, h)
        /\ Role(f) \in V
    BY <2>2 DEF Peeks
  <2>5. f.at = "item_end" /\ Role(f) = "construct"
    BY <1>1, <2>3 DEF Role
  <2>e. PICK e : e = ItemIn(f)
    OBVIOUS
  <2>6. ItemsTo(s, e.words, e.kids, p, h) /\ e.redirs = <<>> /\ e.type = f.type
    BY <2>3, <2>5, <2>e, ItemInIs
  <2>7. PICK g : g = [e EXCEPT !.at = "esac"]
    OBVIOUS
  <2>8. PICK T : e \in FrameOf(T)
    <3>1. e = WithItem
      BY <2>3, <2>e, WithItemOf
    <3>2. ParserInv
      BY DEF LineInv
    <3> QED BY <2>3, <3>1, <3>2, WithItemIs
  <2>9. SameParted(e, g, "esac")
    BY <2>7, <2>8, SamePartedIs
  <2>10. g.at = "esac" /\ g.words = e.words /\ g.kids = e.kids
    BY <2>9 DEF SameParted
  <2>13. EsacTo(s, e.words, e.kids, p, h)
    BY <2>6 DEF ItemsTo, EsacTo
  <2>14. HasRead(s, g, p, h)
    BY <2>10, <2>13 DEF HasRead, Lone
  <2>15. Ran(s, g, p, h)
    BY <2>14 DEF Ran
  <2>16. Role(g) \in V
    BY <2>3, <2>5, <2>10 DEF Role
  <2>17. GoesAs(e, "esac", <<>>, g)
    BY <1>4, <2>3, <2>e, <2>7, WithItemOf DEF GoesAs
  <2> QED BY <2>3, <2>15, <2>16, <2>17, TurnsOn
<1> QED BY <1>2, <1>3, <1>4

LEMMA CaseGiven ==
  ASSUME NEW T, NEW f \in FrameOf(T), f.at = "esac", NEW x
  PROVE  Handed("esac", f, Worded("case", f.kids, f.words), x)
<1>1. SUFFICES ASSUME NEW s \in Seq(Kind), NEW p \in Nat, NEW h \in Nat, NEW j \in Nat, h = x, j = h + 1,
                      Tok(s, h, {"esac"}), Ran(s, f, p, h)
               PROVE  Gives(s, Role(f), Worded("case", f.kids, f.words), p, j)
  BY DEF Handed
<1>2. HasRead(s, f, p, h)
  BY <1>1, NeedsNone, AloneIs
<1>3. EsacTo(s, f.words, f.kids, p, h)
  BY <1>2 DEF HasRead
<1>4. PICK k \in Seq(T) : k = f.kids
  BY DEF FrameOf
<1>5. /\ CaseHead(s, f.words, k, p) /\ p <= h
      /\ Follows(s, k, Len(k) + 1, p + 3, h) \/ (k # <<>> /\ EndOf(s, k[Len(k)], h))
  BY <1>3, <1>4 DEF EsacTo
<1>6. /\ Tok(s, p, {"case"}) /\ f.words = <<p + 1>> /\ Tok(s, p + 1, WordKind) /\ Tok(s, p + 2, {"in"})
      /\ Linked(s, k, p + 3)
  BY <1>5 DEF CaseHead
<1>7. PICK n : n = Worded("case", k, <<p + 1>>)
  OBVIOUS
<1>8. Bare(s, n, p, h + 1)
  BY <1>1, <1>5, <1>6, <1>7, CaseStands
<1>9. Bare(s, n, p, j)
  BY <1>1, <1>8
<1>10. <<p + 1>> \in Seq(Nat)
  OBVIOUS
<1>11. n.type = "case"
  <2>0. PICK y : y = "case"
    OBVIOUS
  <2>1. PICK w \in Seq(Nat) : w = <<p + 1>>
    BY <1>10
  <2>2. Worded(y, k, w).type = y
    BY WordedIs
  <2> QED BY <1>7, <2>0, <2>1, <2>2
<1>12. n.type \in BareType \ {"if"}
  BY <1>11, BareTypes
<1>13. Gives(s, "construct", n, p, j)
  BY <1>9, <1>12, ConstructGives
<1>14. Role(f) = "construct"
  BY DEF Role
<1> QED BY <1>4, <1>6, <1>7, <1>13, <1>14

LEMMA CaseEndsTree ==
  ASSUME LineInv, CaseEnds
  PROVE  TreeInv' /\ LinesInv'
<1>1. /\ at = "parse" /\ Top.at = "esac" /\ Take("esac")
      /\ Return([Node("case", Top.kids) EXCEPT !.words = Top.words])
  BY DEF CaseEnds, Parsing
<1>2. Return(Worded("case", Top.kids, Top.words))
  BY <1>1 DEF Worded
<1>3. "esac" \in Kind /\ "esac" # "eof"
  BY Tokens
<1>4. PICK S : Top \in FrameOf(S)
  BY <1>1, <1>3, TakenType
<1>5. Handed("esac", Top, Worded("case", Top.kids, Top.words), Here)
  BY <1>1, <1>4, CaseGiven
<1> QED BY <1>1, <1>2, <1>3, <1>5, StepsUp

-----------------------------------------------------------------------------
(***************************************************************************)
(* Every step.                                                             *)
(***************************************************************************)
LEMMA ListsTree ==
  ASSUME LineInv, Lists
  PROVE  TreeInv' /\ LinesInv'
  BY ListSeparatorTree, ListEndsTree, ListTerminatorTree, LogicOperatorTree, LogicEndsTree, PipelineBangTree,
     PipelineBarTree, PipelineEndsTree, Zenon DEF Lists

LEMMA CommandsTree ==
  ASSUME LineInv, Commands
  PROVE  TreeInv' /\ LinesInv'
  BY CommandTree, IsFunctionTree, SimpleCommandTree, RedirTargetTree, FuncParenthesesTree, FuncEndsTree, Zenon DEF Commands

LEMMA CompoundsTree ==
  ASSUME LineInv, Compounds
  PROVE  TreeInv' /\ LinesInv'
<1>1. CASE Conditionals
  BY <1>1, IfThenTree, IfElseTree, IfEndsTree, CaseWordTree, CaseItemTree, CasePatternsTree, CaseBodyTree,
     CaseItemEndsTree, CaseEndsTree, Zenon DEF Conditionals
<1> QED BY <1>1, CompoundTree, CompoundRedirsTree, LoopDoTree, LoopEndsTree, ForNameTree, ForInTree, ForWordsTree,
     SubshellEndsTree, GroupEndsTree, Zenon DEF Compounds

LEMMA ParseTree ==
  ASSUME LineInv, Parse
  PROVE  TreeInv' /\ LinesInv'
  BY SkipNewlineTree, LexerFailsTree, UnexpectedTree, ListsTree, CommandsTree, CompoundsTree, Zenon DEF Parse

LEMMA ListsGo == Lists => Fail \/ at' \in {at, "parsed"}
  BY DEF Lists, ListSeparator, ListEnds, ListTerminator, LogicOperator, LogicEnds, PipelineBang,
     PipelineBar, PipelineEnds, GoOn, TailCall, Return
LEMMA CommandsGo == Commands => Fail \/ at' \in {at, "parsed"}
  BY DEF Commands, Command, IsFunction, SimpleCommand, RedirTarget, FuncParentheses, FuncEnds, GoOn, TailCall, Return
LEMMA CompoundsGo == Compounds => Fail \/ at' \in {at, "parsed"}
<1>1. Compound \/ CompoundRedirs => at' \in {at, "parsed"}
  BY DEF Compound, CompoundRedirs, GoOn, Return
<1>2. IfThen \/ IfElse \/ IfEnds \/ LoopDo \/ LoopEnds => at' \in {at, "parsed"}
  BY DEF IfThen, IfElse, IfEnds, LoopDo, LoopEnds, GoOn, Return
<1>3. ForName \/ ForIn \/ ForWords => at' \in {at, "parsed"}
  BY DEF ForName, ForIn, ForWords, GoOn, Return
<1>4. CaseWord \/ CaseItem \/ CasePatterns => at' \in {at, "parsed"}
  BY DEF CaseWord, CaseItem, CasePatterns, GoOn, Return
<1>5. CaseBody \/ CaseItemEnds \/ CaseEnds \/ SubshellEnds \/ GroupEnds => at' \in {at, "parsed"}
  BY DEF CaseBody, CaseItemEnds, CaseEnds, SubshellEnds, GroupEnds, GoOn, Return
<1> QED BY <1>1, <1>2, <1>3, <1>4, <1>5 DEF Compounds, Conditionals
LEMMA ParseGoes == Parse => at = "parse" /\ (Fail \/ at' \in {"parse", "parsed"})
<1>1. SkipNewline => at' = at
  BY DEF SkipNewline
<1>2. LexerFails \/ Unexpected => Fail
  BY DEF LexerFails, Unexpected
<1> QED BY <1>1, <1>2, StackOfParse, ListsGo, CommandsGo, CompoundsGo DEF Parse

\* lines are read for who reads lines; a line that ends at the end of the input has put it back
SourceInv ==
  /\ at \in {"line", "discard"} => input.entry \in Source
  /\ at = "parsed" /\ AtEnd => putback # 0

LEMMA ParseSource ==
  ASSUME LineInv, Parse
  PROVE  EndInv' /\ SourceInv'
<1>1. at = "parse" /\ (Fail \/ at' \in {"parse", "parsed"})
  BY ParseGoes
<1>2. OneToken
  BY ParseTokens
<1>3. input' = input
  BY <1>2 DEF OneToken, Take, Peek, Prompt
<1>4. CASE Fail
  <2>1. at' = IF input.entry = "terminal" THEN "discard" ELSE "end"
    BY <1>4 DEF Fail
  <2> QED BY <1>3, <2>1 DEF EndInv, SourceInv, Source
<1>5. CASE ~Fail
  <2>1. at' \in {"parse", "parsed"}
    BY <1>1, <1>5
  <2>2. WholeToken
    <3>1. SkipNewline => WholeToken
      BY Kinds, NoEnds DEF SkipNewline, WholeToken
    <3> QED BY <1>5, <3>1, ListTokens, CommandTokens, CompoundTokens DEF Parse, LexerFails, Unexpected
  <2>3. TokenInv /\ EndInv /\ at \in {"line", "parse"}
    BY <1>1 DEF LineInv, ParserInv
  <2>4. AtEnd' => putback' # 0
    <3>1. ASSUME NEW k \in Kind, k # "eof", Take(k) PROVE ~AtEnd'
      BY <2>3, <3>1, Took
    <3>2. ASSUME NEW k \in Kind, Peek(k) PROVE putback' # 0
      BY <2>3, <3>2, Peeked
    <3>3. CASE UNCHANGED <<input, read, putback, prompt>>
      BY <2>3, <3>3 DEF EndInv, AtEnd
    <3> QED BY <2>2, <3>1, <3>2, <3>3 DEF WholeToken
  <2> QED BY <2>1, <2>4 DEF EndInv, SourceInv
<1> QED BY <1>4, <1>5

-----------------------------------------------------------------------------
LEMMA SameLines ==
  ASSUME LinesInv, lines' = lines, at' \in {"line", "parse", "end", "crashed", "expanded"} \/ at' = at
  PROVE  LinesInv'
  BY DEF LinesInv

LEMMA BlankLineTree ==
  ASSUME LineInv, BlankLine
  PROVE  TreeInv' /\ LinesInv' /\ EndInv' /\ (SourceInv => SourceInv')
<1>1. at = "line" /\ Take("nl") /\ UNCHANGED <<at, stack, lines>>
  BY DEF BlankLine
<1>2. "nl" \in Kind /\ "nl" # "eof"
  BY Tokens
<1>3. TokenInv /\ EndInv /\ LinesInv /\ TreeInv
  BY DEF LineInv, ParserInv
<1>4. /\ Here \in Nat /\ read' \in Seq(Kind) /\ Prefix(read, read') /\ Tok(read', Here, {"nl"})
      /\ Here' = Here + 1 /\ ~AtEnd'
  BY <1>1, <1>2, <1>3, Took
<1>5. Start \in Nat
  BY <1>3, StartIs
<1>6. Nls(read, Start, Here)
  BY <1>1, <1>3 DEF TreeInv
<1>7. Nls(read', Start, Here + 1)
  BY <1>4, <1>5, <1>6, NlsGrow, NlsMore
<1>8. Start' = Start
  BY <1>1 DEF Start
<1>9. TreeInv'
  BY <1>1, <1>4, <1>7, <1>8 DEF TreeInv
<1>10. LinesInv'
  BY <1>1, <1>3, SameLines
<1>11. input' = input
  BY <1>1 DEF Take, Prompt
<1> QED BY <1>1, <1>4, <1>9, <1>10, <1>11 DEF EndInv, SourceInv

LEMMA StartLineTree ==
  ASSUME LineInv, SourceInv, StartLine
  PROVE  TreeInv' /\ LinesInv' /\ EndInv' /\ SourceInv'
<1>1. at = "line" /\ at' = "parse" /\ stack' = List(FALSE, {}) /\ lines' = lines
  BY DEF StartLine
<1>2. PICK k \in Kind : Peek(k)
  BY DEF StartLine
<1>3. TokenInv /\ EndInv /\ LinesInv /\ TreeInv
  BY DEF LineInv, ParserInv
<1>4. /\ Here \in Nat /\ read' \in Seq(Kind) /\ Prefix(read, read') /\ Here' = Here /\ putback' # 0
  BY <1>1, <1>2, <1>3, Peeked
<1>5. Start \in Nat
  BY <1>3, StartIs
<1>6. Nls(read', Start, Here)
  BY <1>1, <1>3, <1>4, <1>5, NlsGrow DEF TreeInv
<1>7. Start' = Start /\ input' = input
  BY <1>1, <1>2 DEF Start, Peek, Prompt
<1>8. "line" \in Root'
  BY <1>1, <1>7 DEF SourceInv, Root
<1>9. PICK g : g = [Frame("list") EXCEPT !.multi = FALSE, !.until = {}]
  OBVIOUS
<1>10. g.at = "list" /\ g.multi = FALSE /\ g.kids = <<>>
  BY <1>9 DEF Frame
<1>11. FrameAwaits(read', g, Start, Here)
  BY <1>6, <1>10 DEF FrameAwaits, Awaits, ListAwaits
<1>12. Role(g) = "line" /\ Needs(g.at) = {"logic"}
  BY <1>10 DEF Role, Needs
<1>13. Runs(read', LogicList, Here, {"logic"}, Here)
  BY <1>4, LogicListRuns
<1>14. PICK T : LogicList \in Seq(T) /\ LogicList # <<>>
  <2>1. StackOf(LogicList, {})
    BY LogicListCalled
  <2> QED BY <2>1 DEF StackOf
<1>15. PICK W : W = Root'
  OBVIOUS
<1>16. Runs(read', <<g>> \o LogicList, Start, W, Here)
  BY <1>4, <1>5, <1>8, <1>11, <1>12, <1>13, <1>14, <1>15, RunsPush
<1>17. stack' = <<g>> \o LogicList
  BY <1>1, <1>9 DEF List
<1>18. TreeInv'
  BY <1>1, <1>4, <1>7, <1>15, <1>16, <1>17 DEF TreeInv
<1>19. LinesInv'
  BY <1>1, <1>3, SameLines
<1> QED BY <1>1, <1>4, <1>18, <1>19 DEF EndInv, SourceInv

LEMMA NextLineTree ==
  ASSUME read' \in Seq(Kind), putback' \in {0, Len(read')}, Start' = Here'
  PROVE  Nls(read', Start', Here')
<1>1. Here' \in Nat /\ Here' <= Len(read') + 1
  BY DEF Here
<1> QED BY <1>1, NlsNone

LEMMA ExecuteTree ==
  ASSUME LineInv, SourceInv, Execute
  PROVE  TreeInv' /\ LinesInv' /\ EndInv' /\ SourceInv'
<1>1. at = "parsed" /\ input.entry \in Source /\ at' \in {"line", "end"} /\ UNCHANGED <<input, stack, read, putback, lines>>
  BY DEF Execute, NextLine
<1>2. TokenInv /\ LinesInv /\ TreeInv
  BY DEF LineInv, ParserInv
<1>3. Start = Here
  BY <1>1, <1>2 DEF TreeInv
<1>4. Start' = Start /\ Here' = Here /\ AtEnd' = AtEnd
  BY <1>1 DEF Start, Here, AtEnd
<1>5. Nls(read', Start', Here')
  BY <1>1, <1>2, <1>3, <1>4, NextLineTree DEF TokenInv
<1>6. TreeInv'
  BY <1>1, <1>5 DEF TreeInv
<1>7. LinesInv'
  BY <1>1, <1>2, SameLines
<1> QED BY <1>1, <1>4, <1>6, <1>7 DEF EndInv, SourceInv

LEMMA DiscardTokenTree ==
  ASSUME LineInv, SourceInv, DiscardToken
  PROVE  TreeInv' /\ LinesInv' /\ EndInv' /\ SourceInv'
<1>1. /\ at = "discard" /\ putback' = 0 /\ at' \in {"line", "discard"} /\ input' = input
      /\ lines' = [lines EXCEPT ![Len(lines)].to = Len(read')]
  BY DEF DiscardToken, NextLine
<1>2. PICK k \in {"nl", "word"} : read' = Append(read, k)
  BY DEF DiscardToken
<1>3. TokenInv /\ LinesInv
  BY DEF LineInv, ParserInv
<1>4. read \in Seq(Kind) /\ k \in Kind /\ k # "eof"
  BY <1>3 DEF TokenInv, Kind, PlainWord
<1>5. read' \in Seq(Kind) /\ Len(read') = Len(read) + 1 /\ read'[Len(read) + 1] = k /\ Len(read) \in Nat
  BY <1>2, <1>4
<1>6. read' # <<>> /\ read'[Len(read')] # "eof"
  BY <1>4, <1>5
<1>7. ~AtEnd'
  BY <1>6 DEF AtEnd
<1>8. PICK n \in Nat : n = Len(read')
  BY <1>5
<1>9. Here' = n + 1
  BY <1>1, <1>7, <1>8 DEF Here
<1>10. PICK T : lines \in Seq(LineOf(T))
  BY <1>3 DEF LinesInv
<1>11. lines # <<>>
  BY <1>1, <1>3 DEF LinesInv
<1>12. PICK c \in Nat : c = Len(lines)
  BY <1>10
<1>13. c \in 1..Len(lines) /\ c # 0
  BY <1>10, <1>11, <1>12
<1>14. PICK x \in LineOf(T) : x = lines[c]
  BY <1>10, <1>13
<1>15. PICK y : y = [x EXCEPT !.to = n]
  OBVIOUS
<1>16. y \in LineOf(T) /\ y.to = n
  BY <1>15 DEF LineOf
<1>17. lines' = [lines EXCEPT ![c] = y]
  BY <1>1, <1>8, <1>12, <1>14, <1>15
<1>18. PICK V : V = LineOf(T)
  OBVIOUS
<1>19. lines' \in Seq(V)
  BY <1>10, <1>13, <1>16, <1>17, <1>18, ExceptSeq
<1>20. Len(lines') = c /\ lines'[c] = y
  BY <1>10, <1>12, <1>13, <1>17
<1>21. lines' # <<>>
  BY <1>13, <1>20
<1>22. Start' = n + 1
  BY <1>16, <1>20, <1>21 DEF Start
<1>23. Nls(read', Start', Here')
  BY <1>1, <1>5, <1>9, <1>22, NextLineTree
<1>24. TreeInv'
  BY <1>1, <1>23 DEF TreeInv
<1>25. LinesInv'
  BY <1>18, <1>19, <1>21 DEF LinesInv
<1> QED BY <1>1, <1>7, <1>24, <1>25 DEF EndInv, SourceInv

LEMMA InterpretTree ==
  ASSUME LineInv, SourceInv, Interpret
  PROVE  TreeInv' /\ LinesInv' /\ EndInv' /\ SourceInv'
<1>1. LinesInv
  BY DEF LineInv
<1>2. CASE EndOfInput \/ NullToken \/ SubstEnds \/ BacktickEnds
  <2>1. at' \in {"end", "crashed", "expanded"} /\ lines' = lines
    BY <1>2 DEF EndOfInput, NullToken, SubstEnds, BacktickEnds
  <2>2. LinesInv'
    BY <1>1, <2>1, SameLines
  <2> QED BY <2>1, <2>2 DEF TreeInv, EndInv, SourceInv
<1>3. CASE DiscardForever
  <2>1. at = "discard" /\ at' = at /\ lines' = lines /\ input' = input
    BY <1>3 DEF DiscardForever
  <2>2. LinesInv'
    BY <1>1, <2>1, SameLines
  <2> QED BY <2>1, <2>2 DEF TreeInv, EndInv, SourceInv
<1> QED BY <1>2, <1>3, BlankLineTree, StartLineTree, ExecuteTree, DiscardTokenTree DEF Interpret

-----------------------------------------------------------------------------
\* the inductive invariant
TokensInv == LineInv /\ SourceInv

LEMMA LineInit == Init => TokensInv
<1> SUFFICES ASSUME Init PROVE TokensInv
  OBVIOUS
<1>1. ParserInv
  BY ParserInit
<1>2. read = <<>> /\ putback = 0 /\ lines = <<>> /\ read \in Seq(Kind)
  BY DEF Init
<1>3. ~AtEnd
  BY <1>2 DEF AtEnd
<1>4. Here = 1 /\ Start = 1 /\ Len(read) = 0
  BY <1>2, <1>3 DEF Here, Start
<1>5. lines \in Seq(LineOf({}))
  BY <1>2
<1>6. at \in {"line", "parse"} /\ (at = "line" => input.entry \in Source)
  BY DEF Init
<1>7. LinesInv
  BY <1>5, <1>6 DEF LinesInv
<1>q. PICK q \in Nat : q = 1
  OBVIOUS
<1>r. q <= Len(read) + 1
  BY <1>4, <1>q
<1>8. Nls(read, 1, 1)
  <2>1. Nls(read, q, q)
    BY <1>2, <1>r, NlsNone
  <2> QED BY <1>q, <2>1
<1>9. ASSUME at = "parse" PROVE Runs(read, stack, 1, Root, 1)
  <2>1. input.entry \notin Source
    BY <1>9 DEF Init
  <2>2. Root = {"list"}
    BY <2>1 DEF Root
  <2>3. input.entry \in Entry
    BY InputAssumption DEF Init
  <2>4. \E u : stack = Block(u)
    <3>1. CASE input.entry = "subst"
      BY <3>1, Zenon DEF Init
    <3>2. CASE input.entry = "backtick"
      BY <3>2 DEF Init
    <3> QED BY <2>1, <2>3, <3>1, <3>2 DEF Entry
  <2>5. PICK u : stack = Block(u)
    BY <2>4
  <2>6. PICK W : W = {"list"} /\ "list" \in W
    OBVIOUS
  <2>7. Runs(read, Block(u), q, W, q)
    BY <1>2, <1>r, <2>6, BlockRuns
  <2> QED BY <1>q, <2>2, <2>5, <2>6, <2>7
<1>10. TreeInv
  BY <1>4, <1>6, <1>8, <1>9 DEF TreeInv
<1> QED BY <1>1, <1>3, <1>6, <1>7, <1>10 DEF TokensInv, LineInv, EndInv, SourceInv

LEMMA LineStep == TokensInv /\ [Next]_vars => TokensInv'
<1>1. ASSUME TokensInv, Next PROVE TokensInv'
  <2>1. LineInv /\ SourceInv /\ ParserInv
    BY <1>1 DEF TokensInv, LineInv
  <2>2. ParserInv'
    BY <1>1, <2>1, ParserStep
  <2>3. TreeInv' /\ LinesInv' /\ EndInv' /\ SourceInv'
    BY <1>1, <2>1, ParseTree, ParseSource, InterpretTree DEF Next
  <2> QED BY <2>2, <2>3 DEF TokensInv, LineInv
<1>2. ASSUME TokensInv, UNCHANGED vars PROVE TokensInv'
  <2>1. LineInv /\ SourceInv /\ ParserInv
    BY <1>2 DEF TokensInv, LineInv
  <2>2. ParserInv'
    BY <1>2, <2>1, ParserStep
  <2>3. /\ at' = at /\ input' = input /\ stack' = stack /\ read' = read /\ putback' = putback /\ lines' = lines
    BY <1>2 DEF vars
  <2>4. Start' = Start /\ Here' = Here /\ Root' = Root /\ AtEnd' = AtEnd /\ LastLine' = LastLine
    BY <2>3 DEF Start, Here, AtEnd, Root, LastLine
  <2>5. TreeInv' /\ LinesInv' /\ EndInv' /\ SourceInv'
    BY <2>1, <2>3, <2>4 DEF LineInv, TreeInv, LinesInv, EndInv, SourceInv
  <2> QED BY <2>2, <2>5 DEF TokensInv, LineInv
<1> QED BY <1>1, <1>2

LEMMA TokensInvHolds == Spec => []TokensInv
  BY LineInit, LineStep, PTL DEF Spec

-----------------------------------------------------------------------------
LEMMA Upward ==
  ASSUME NEW n \in Nat, NEW K, 0 \in K, \A k \in 1..n : k - 1 \in K => k \in K
  PROVE  n \in K
<1>1. PICK L : L = {k \in 0..n : n - k \in K}
  OBVIOUS
<1>2. n \in L
  <2>1. n - n = 0
    OBVIOUS
  <2> QED BY <1>1, <2>1
<1>3. ASSUME NEW k \in 1..n, k \in L PROVE k - 1 \in L
  <2>1. n - k \in K /\ k \in 0..n
    BY <1>1, <1>3
  <2>2. PICK c \in 1..n : c = n - (k - 1)
    OBVIOUS
  <2>3. c - 1 = n - k
    BY <2>2
  <2>4. c \in K
    BY <2>1, <2>3
  <2>5. k - 1 \in 0..n
    OBVIOUS
  <2> QED BY <1>1, <2>2, <2>4, <2>5
<1>4. 0 \in L
  BY <1>2, <1>3, Downward
<1>5. n - 0 = n
  OBVIOUS
<1> QED BY <1>1, <1>4, <1>5

\* one level of Parts, and of Derived
PartsAt(depth, f, root) ==
  IF depth = 0 THEN {root} ELSE UNION {{n.kids[m] : m \in DOMAIN n.kids} : n \in f[depth - 1]}

LEMMA PartsAre ==
  ASSUME NEW root, NEW d \in Nat
  PROVE  \A i \in 0..d : Parts(root, d)[i] = PartsAt(i, Parts(root, d), root)
<1> DEFINE K == {k \in 0..d : \E f : /\ f = [i \in 0..d |-> f[i]]
                                     /\ \A i \in 0..k : f[i] = PartsAt(i, f, root)}
           u == CHOOSE u : u = [i \in 0..d |-> PartsAt(i, u, root)]
<1>1. 0 \in K
  <2>1. PICK f : f = [i \in 0..d |-> {root}]
    OBVIOUS
  <2>2. f = [i \in 0..d |-> f[i]]
    BY <2>1
  <2>3. \A i \in 0..0 : f[i] = PartsAt(i, f, root)
    <3>1. f[0] = {root} /\ \A i \in 0..0 : i = 0
      BY <2>1
    <3> QED BY <3>1 DEF PartsAt
  <2>4. 0 \in 0..d
    OBVIOUS
  <2> QED BY <2>2, <2>3, <2>4
<1>2. ASSUME NEW k \in 1..d, k - 1 \in K
      PROVE  k \in K
  <2>1. PICK f : /\ f = [i \in 0..d |-> f[i]]
                 /\ \A i \in 0..(k - 1) : f[i] = PartsAt(i, f, root)
    BY <1>2
  <2>2. PICK v : v = PartsAt(k, f, root)
    OBVIOUS
  <2>3. PICK g : g = [i \in 0..d |-> IF i = k THEN v ELSE f[i]]
    OBVIOUS
  <2>4. g[k] = v /\ \A i \in 0..d : i # k => g[i] = f[i]
    BY <2>3
  <2>5. g = [i \in 0..d |-> g[i]]
    BY <2>3
  <2>6. ASSUME NEW i \in 0..k
        PROVE  PartsAt(i, g, root) = PartsAt(i, f, root)
    <3>1. i = 0 \/ (i - 1 \in 0..d /\ i - 1 # k)
      OBVIOUS
    <3>2. i = 0 \/ g[i - 1] = f[i - 1]
      BY <2>4, <3>1
    <3> QED BY <3>2 DEF PartsAt
  <2>7. \A i \in 0..k : g[i] = PartsAt(i, g, root)
    <3> TAKE i \in 0..k
    <3>1. i = k \/ (i \in 0..(k - 1) /\ i \in 0..d /\ i # k)
      OBVIOUS
    <3> QED BY <2>1, <2>2, <2>4, <2>6, <3>1
  <2>8. k \in 0..d
    OBVIOUS
  <2> QED BY <2>5, <2>7, <2>8
<1>3. d \in K
  <2> HIDE DEF K
  <2> QED BY <1>1, <1>2, Upward
<1>4. PICK f : /\ f = [i \in 0..d |-> f[i]]
               /\ \A i \in 0..d : f[i] = PartsAt(i, f, root)
  BY <1>3
<1>5. f = [i \in 0..d |-> PartsAt(i, f, root)]
  BY <1>4
<1>6. u = [i \in 0..d |-> PartsAt(i, u, root)]
  BY <1>5, Zenon
<1>7. \A i \in 0..d : u[i] = PartsAt(i, u, root)
  <2> HIDE DEF u
  <2> QED BY <1>6
<1>8. Parts(root, d) = u
  BY Zenon DEF Parts, PartsAt
<1> HIDE DEF u
<1> QED BY <1>7, <1>8

EndsAt(depth, f, s, parts) ==
  [n \in parts[depth] |-> [i \in Nat |->
     IF depth = Len(s) + 1 THEN i..(Len(s) + 1)
     ELSE IF Shaped(n) THEN {j \in BareEnds(f[depth + 1], s, n, {i}) : i <= j /\ j <= Len(s) + 1}
     ELSE {}]]

LEMMA DerivedIs ==
  ASSUME NEW s \in Seq(Kind), NEW root
  PROVE  \E u : /\ Derived(s, root) = u[0]
                /\ \A i \in 0..(Len(s) + 1) : u[i] = EndsAt(i, u, s, Parts(root, Len(s) + 1))
<1>1. PICK m \in Nat : m = Len(s) + 1
  OBVIOUS
<1> DEFINE parts == Parts(root, Len(s) + 1)
<1>p. PICK P : P = parts
  OBVIOUS
<1> DEFINE K == {k \in 0..m : \E f : /\ f = [i \in 0..m |-> f[i]]
                                     /\ \A i \in k..m : f[i] = EndsAt(i, f, s, P)}
           u == CHOOSE u : u = [i \in 0..m |-> EndsAt(i, u, s, P)]
<1>2. m \in K
  <2>1. PICK v : v = EndsAt(m, <<>>, s, P)
    OBVIOUS
  <2>2. PICK f : f = [i \in 0..m |-> v]
    OBVIOUS
  <2>3. f = [i \in 0..m |-> f[i]]
    BY <2>2
  <2>4. EndsAt(m, f, s, P) = v
    BY <1>1, <2>1 DEF EndsAt
  <2>5. f[m] = v /\ \A i \in m..m : i = m
    BY <2>2
  <2> QED BY <2>3, <2>4, <2>5
<1>3. ASSUME NEW k \in 1..m, k \in K
      PROVE  k - 1 \in K
  <2>1. PICK f : /\ f = [i \in 0..m |-> f[i]]
                 /\ \A i \in k..m : f[i] = EndsAt(i, f, s, P)
    BY <1>3
  <2>c. PICK c \in 0..m : c = k - 1
    OBVIOUS
  <2>2. PICK v : v = EndsAt(c, f, s, P)
    OBVIOUS
  <2>3. PICK g : g = [i \in 0..m |-> IF i = c THEN v ELSE f[i]]
    OBVIOUS
  <2>4. g[c] = v /\ \A i \in 0..m : i # c => g[i] = f[i]
    BY <2>3
  <2>5. g = [i \in 0..m |-> g[i]]
    BY <2>3
  <2>6. ASSUME NEW i \in c..m
        PROVE  EndsAt(i, g, s, P) = EndsAt(i, f, s, P)
    <3>1. i = m \/ (i + 1 \in 0..m /\ i + 1 # c)
      BY <2>c
    <3>2. i = m \/ g[i + 1] = f[i + 1]
      BY <2>4, <3>1
    <3> QED BY <1>1, <3>2 DEF EndsAt
  <2>7. \A i \in c..m : g[i] = EndsAt(i, g, s, P)
    <3> TAKE i \in c..m
    <3>1. i = c \/ (i \in k..m /\ i \in 0..m /\ i # c)
      BY <2>c
    <3> QED BY <2>1, <2>2, <2>4, <2>6, <3>1
  <2> QED BY <2>c, <2>5, <2>7
<1>4. 0 \in K
  <2> HIDE DEF K
  <2> QED BY <1>2, <1>3, Downward
<1>5. PICK f : /\ f = [i \in 0..m |-> f[i]]
               /\ \A i \in 0..m : f[i] = EndsAt(i, f, s, P)
  BY <1>4
<1>6. f = [i \in 0..m |-> EndsAt(i, f, s, P)]
  BY <1>5
<1>7. u = [i \in 0..m |-> EndsAt(i, u, s, P)]
  BY <1>6, Zenon
<1>8. \A i \in 0..m : u[i] = EndsAt(i, u, s, P)
  <2> HIDE DEF u
  <2> QED BY <1>7
<1>9. Derived(s, root) = u[0]
  BY <1>1, <1>p, Zenon DEF Derived, EndsAt
<1> HIDE DEF u
<1> QED BY <1>1, <1>p, <1>8, <1>9

-----------------------------------------------------------------------------
(***************************************************************************)
(* The grammar's own account of where a tree ends knows of everything the  *)
(* trees stand for.                                                        *)
(***************************************************************************)
\* what is known at a depth is known one further up
LEMMA KnowsAbove ==
  ASSUME NEW s \in Seq(Kind), NEW P, NEW u, NEW d \in Nat, d < Len(s) + 1,
         u[d] = EndsAt(d, u, s, P), \A k \in P[d + 1] : Knows(u[d + 1], s, k),
         NEW n \in P[d], KidsOf(n) \subseteq P[d + 1]
  PROVE  Knows(u[d], s, n)
<1> SUFFICES ASSUME NEW a \in Nat, NEW b \in Nat, Bare(s, n, a, b)
             PROVE  b \in u[d][n][a]
  BY DEF Knows
<1>1. IsTree(n) /\ Shaped(n) /\ a <= b /\ b <= Len(s) + 1
  BY BareIs
<1>2. PICK D : D = KnownKids(s, n)
  OBVIOUS
<1>3. PICK I : I = {a}
  OBVIOUS
<1>4. PICK E : E = u[d + 1]
  OBVIOUS
<1>5. b \in BareEnds(D, s, n, I)
  BY <1>2, <1>3, BareTo
<1>6. Grows(D, E, KidsOf(n))
  <2> SUFFICES ASSUME NEW k \in KidsOf(n), NEW i \in Nat, NEW j \in D[k][i]
               PROVE  j \in E[k][i]
    BY DEF Grows
  <2>1. j \in Nat /\ Bare(s, k, i, j)
    BY <1>2 DEF KnownKids
  <2>2. Knows(E, s, k)
    BY <1>4
  <2> QED BY <2>1, <2>2 DEF Knows
<1>7. Numbered(n) /\ n.kids \in Seq(KidsOf(n))
  BY <1>1 DEF IsTree
<1>8. I \subseteq I /\ Prefix(s, s)
  BY PrefixSelf
<1>9. BareEnds(D, s, n, I) \subseteq BareEnds(E, s, n, I)
  BY <1>1, <1>6, <1>7, <1>8, BareEndsGrow
<1>10. b \in BareEnds(u[d + 1], s, n, {a})
  BY <1>3, <1>4, <1>5, <1>9
<1>11. d # Len(s) + 1
  OBVIOUS
<1>12. u[d][n][a] = {j \in BareEnds(u[d + 1], s, n, {a}) : a <= j /\ j <= Len(s) + 1}
  BY <1>1, <1>11 DEF EndsAt
<1> QED BY <1>1, <1>10, <1>12

LEMMA DerivedKnows ==
  ASSUME NEW s \in Seq(Kind), NEW root
  PROVE  Knows(Derived(s, root), s, root)
<1>1. PICK m \in Nat : m = Len(s) + 1
  OBVIOUS
<1>2. PICK P : P = Parts(root, Len(s) + 1)
  OBVIOUS
<1>3. \A i \in 0..m : P[i] = PartsAt(i, P, root)
  BY <1>1, <1>2, PartsAre
<1>4. PICK u : /\ Derived(s, root) = u[0]
               /\ \A i \in 0..m : u[i] = EndsAt(i, u, s, P)
  BY <1>1, <1>2, DerivedIs
<1> DEFINE K == {d \in 0..m : \A n \in P[d] : Knows(u[d], s, n)}
<1>5. m \in K
  <2> SUFFICES ASSUME NEW n \in P[m], NEW a \in Nat, NEW b \in Nat, Bare(s, n, a, b)
               PROVE  b \in u[m][n][a]
    BY DEF Knows
  <2>1. a <= b /\ b <= Len(s) + 1
    BY BareIs
  <2>2. u[m] = EndsAt(m, u, s, P)
    BY <1>4
  <2>3. u[m][n][a] = a..(Len(s) + 1)
    BY <1>1, <2>2 DEF EndsAt
  <2> QED BY <2>1, <2>3
<1>6. ASSUME NEW k \in 1..m, k \in K
      PROVE  k - 1 \in K
  <2>1. PICK d \in Nat : d = k - 1
    OBVIOUS
  <2>2. d + 1 = k /\ d < Len(s) + 1 /\ d \in 0..m
    BY <1>1, <2>1
  <2>3. \A n \in P[d + 1] : Knows(u[d + 1], s, n)
    BY <1>6, <2>2
  <2>4. u[d] = EndsAt(d, u, s, P)
    BY <1>4, <2>2
  <2>5. ASSUME NEW n \in P[d] PROVE KidsOf(n) \subseteq P[d + 1]
    <3>1. P[k] = PartsAt(k, P, root) /\ k # 0
      BY <1>3
    <3>2. P[k] = UNION {{x.kids[i] : i \in DOMAIN x.kids} : x \in P[d]}
      BY <2>1, <3>1 DEF PartsAt
    <3> QED BY <2>2, <3>2 DEF KidsOf
  <2>6. \A n \in P[d] : Knows(u[d], s, n)
    BY <2>2, <2>3, <2>4, <2>5, KnowsAbove
  <2> QED BY <2>1, <2>2, <2>6
<1>7. 0 \in K
  <2> HIDE DEF K
  <2> QED BY <1>5, <1>6, Downward
<1>8. root \in P[0]
  <2>1. P[0] = PartsAt(0, P, root)
    BY <1>3
  <2> QED BY <2>1 DEF PartsAt
<1> QED BY <1>4, <1>7, <1>8

-----------------------------------------------------------------------------
LEMMA TokensOfTheTree ==
  ASSUME TokensInv
  PROVE  TreeOfItsTokens
<1> SUFFICES ASSUME at = "parsed"
             PROVE  LET parts == Derived(read, LastLine.tree)
                        ends == Ends(parts, read, LastLine.tree, Breaks(read, {LastLine.from}))
                    IN  LastLine.to + 1 \in IF input.entry \in Source
                                              THEN ends \cup Token(read, {";", "nl"}, ends)
                                              ELSE Body(parts, read, LastLine.tree, {LastLine.from})
  BY Zenon DEF TreeOfItsTokens, LastLine
<1>1. ParserInv /\ LinesInv /\ TreeInv
  BY DEF TokensInv, LineInv
<1>2. read \in Seq(Kind)
  BY <1>1 DEF ParserInv, TokenInv
<1>3. lines # <<>> /\ Start = LastLine.to + 1 /\ LastLine.from \in Nat /\ LastLine.to \in Nat
  <2>1. PICK T : lines \in Seq(LineOf(T))
    BY <1>1 DEF LinesInv
  <2>2. lines # <<>>
    BY <1>1 DEF LinesInv
  <2>3. LastLine \in LineOf(T)
    BY <2>1, <2>2 DEF LastLine
  <2> QED BY <2>2, <2>3 DEF LineOf, Start, LastLine
<1>4. PICK fam \in Root : Gives(read, fam, LastLine.tree, LastLine.from, LastLine.to + 1)
  BY <1>1, <1>3 DEF TreeInv
<1>n. PICK n : n = LastLine.tree
  OBVIOUS
<1>d. PICK D : D = Derived(read, n)
  OBVIOUS
<1>p. PICK p \in Nat : p = LastLine.from
  BY <1>3
<1>h. PICK h \in Nat : h = LastLine.to + 1
  BY <1>3
<1>5. n = LastLine.tree /\ D = Derived(read, n) /\ p = LastLine.from /\ h = LastLine.to + 1
  BY <1>n, <1>d, <1>p, <1>h, Zenon
<1>6. PICK I : I = {p}
  OBVIOUS
<1>7. Knows(D, read, n)
  BY <1>2, <1>5, DerivedKnows
<1>8. CASE input.entry \in Source
  <2>1. fam = "line"
    BY <1>8 DEF Root
  <2>2. LineTo(read, n, p, h)
    BY <1>4, <1>5, <2>1, Zenon DEF Gives
  <2>3. PICK m \in Nat : After(read, n, p, m) /\ (h = m \/ (Tok(read, m, LineEnd) /\ h = m + 1))
    BY <2>2, Zenon DEF LineTo
  <2>4. PICK X : X = Ends(D, read, n, Breaks(read, I))
    OBVIOUS
  <2>5. m \in X
    BY <1>2, <1>6, <1>7, <2>3, <2>4, AfterIn
  <2>6. h \in X \cup Token(read, LineEnd, X)
    BY <2>3, <2>5 DEF Token, Tok
  <2> QED BY <1>5, <1>6, <1>8, <2>4, <2>6, Zenon DEF LineEnd
<1>9. CASE input.entry \notin Source
  <2>1. fam = "list"
    BY <1>9 DEF Root
  <2>2. Listed(read, n, p, h)
    BY <1>4, <1>5, <2>1, Zenon DEF Gives
  <2>3. h \in Body(D, read, n, I)
    BY <1>2, <1>6, <1>7, <2>2, ListedIn
  <2> QED BY <1>5, <1>6, <1>9, <2>3, Zenon
<1> QED BY <1>8, <1>9

\* What the parser makes of a line is the tree the grammar gives to just those
\* tokens, for any input, however it goes on and however deep its lists are.
THEOREM TreeOfTokens == Spec => []TreeOfItsTokens
  BY TokensInvHolds, TokensOfTheTree, PTL
=============================================================================
