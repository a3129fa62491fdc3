--------------------------- MODULE ShellExpansion ---------------------------
(***************************************************************************)
(* What the words of a script expand to: the rules of the shell language   *)
(* on words as ShellWords has them.  A character of the result is quoted   *)
(* or not; blanks that are not quoted separate fields, and wildcards that  *)
(* are not quoted select files.                                            *)
(*                                                                         *)
(* The verdict "open" is given where tash is known to do something else or *)
(* nothing defined; the README lists these cases.                          *)
(***************************************************************************)
EXTENDS ShellWords

CONSTANTS Dot, Esc, Output, Tree, Home
LOCAL Pattern == INSTANCE Patterns

Cell(c, quoted) == [char |-> c, quoted |-> quoted]
Cells(s, quoted) == [i \in DOMAIN s |-> Cell(s[i], quoted)]
\* a pair of quotes makes a field, even an empty one
Quotes == Cell("", TRUE)
Chars(cells) == LET some == SelectSeq(cells, LAMBDA c : c # Quotes) IN [i \in DOMAIN some |-> some[i].char]

\* a state of the expansion: what there is, the variables, and whether it is all right
With(s, cells) == [s EXCEPT !.cells = @ \o cells]
Ends(s, verdict) == [s EXCEPT !.verdict = verdict]
Sets(s, x, value) == [s EXCEPT !.vars = [n \in DOMAIN @ \cup {<<x>>} |-> IF n = <<x>> THEN <<value>> ELSE @[n]]]

Positions == <<"1", "2">>
Number(n) == <<(<<"0", "1", "2", "3", "4", "5", "6">>)[n + 1]>>
ValueOf(x, s, o) ==
  IF x = "#" THEN <<Number(Len(o.params))>>
  ELSE IF \E i \in DOMAIN Positions : x = Positions[i]
  THEN LET i == CHOOSE i \in DOMAIN Positions : x = Positions[i] IN
       IF i <= Len(o.params) THEN <<o.params[i]>> ELSE <<>>
  ELSE IF <<x>> \in DOMAIN s.vars THEN s.vars[<<x>>] ELSE <<>>

\* $@ has a field for every parameter, and so has "$@"
RECURSIVE Joined2(_, _, _)
Joined2(params, quoted, between) ==
  IF params = <<>> THEN <<>>
  ELSE Cells(Head(params), quoted)
         \o (IF Len(params) > 1 THEN <<between>> ELSE <<>>) \o Joined2(Tail(params), quoted, between)

TrimmedLines(s) ==
  LET n == CHOOSE n \in 0..Len(s) : (n = 0 \/ s[n] # "nl") /\ \A i \in (n + 1)..Len(s) : s[i] = "nl"
  IN  SubSeq(s, 1, n)

\* a pattern from cells: a quoted character has its mark
RECURSIVE Spelled(_)
Spelled(cells) ==
  IF cells = <<>> THEN <<>>
  ELSE LET c == Head(cells) IN
       (IF c = Quotes THEN <<>> ELSE IF c.quoted THEN <<Esc, c.char>> ELSE <<c.char>>) \o Spelled(Tail(cells))

\* an expansion with this value, if it has one
Gives(s, value, quoted, o) ==
  IF value # <<>> THEN With(s, Cells(value[1], quoted))
  ELSE IF o.nounset THEN Ends(s, "fails") ELSE s

RECURSIVE Assigns(_, _)
\* something in the word sets x
Assigns(ps, x) ==
  \E i \in DOMAIN ps :
    \/ ps[i].kind = "braces" /\ ps[i].text[1] = x /\ ps[i].text[Len(ps[i].text)] = "="
    \/ Assigns(ps[i].parts, x)

RECURSIVE Expand(_, _, _, _)
\* ${x op word}, behind the expansion of the word: w has its cells
Applied(p, quoted, s, w, o) ==
  LET x == p.text[1]
      op == SubSeq(p.text, 2, Len(p.text))
      value == ValueOf(x, s, o)
      unset == value = <<>> \/ (op[1] = ":" /\ value = <<<<>>>>)
      is == op[Len(op)]
      next == [s EXCEPT !.vars = w.vars]
      \* the value that was fetched first has been freed
      outdated == value # <<>> /\ Assigns(p.parts, x)
  IN  IF w.verdict # "right" THEN Ends(next, w.verdict)
      ELSE CASE is \in {"#", "%"} /\ (value = <<>> \/ outdated) -> Ends(next, "open")
             [] is = "#" /\ value # <<>> /\ ~outdated ->
                  With(next, Cells(Pattern!WithoutPrefix(Spelled(w.cells), value[1], Len(op) = 2), quoted))
             [] is = "%" /\ value # <<>> /\ ~outdated ->
                  With(next, Cells(Pattern!WithoutSuffix(Spelled(w.cells), value[1], Len(op) = 2), quoted))
             [] is = "-" /\ unset -> With(next, w.cells)
             [] is = "+" /\ ~unset -> With(next, w.cells)
             [] is = "+" /\ unset ->
                  IF (value = <<>> /\ o.nounset) \/ outdated THEN Ends(next, "open") ELSE next
             [] is = "?" /\ unset -> Ends(next, "fails")
             [] is = "=" /\ unset ->
                  IF x \in {"1", "2"} THEN Ends(next, "open")
                  ELSE With(Sets(next, x, Chars(w.cells)), Cells(Chars(w.cells), quoted))
             [] OTHER -> IF outdated THEN Ends(next, "open") ELSE Gives(next, value, quoted, o)

One(p, quoted, s, o) ==
  LET fresh == [s EXCEPT !.cells = <<>>] IN
  CASE p.kind = "char" -> With(s, Cells(p.text, quoted))
    [] p.kind = "malformed" -> Ends(s, IF ":" \in {p.text[i] : i \in DOMAIN p.text} THEN "open" ELSE "fails")
    [] p.kind = "tilde" -> With(s, Cells(Home, TRUE))
    [] p.kind = "escaped" /\ quoted ->
         With(s, Cells(SelectSeq(EscapedInQuotes(p.text[1]), LAMBDA c : c # "ESC"), TRUE))
    [] p.kind = "escaped" /\ ~quoted -> IF p.text = <<"nl">> THEN s ELSE With(s, Cells(p.text, TRUE))
    [] p.kind = "single" -> With(s, <<Quotes>> \o Cells(p.text, TRUE))
    [] p.kind = "double" -> Expand(p.parts, TRUE, With(s, <<Quotes>>), o)
    [] p.kind = "var" /\ p.text = <<>> -> With(s, Cells(<<"$">>, quoted))
    [] p.kind = "var" /\ p.text = <<"@">> ->
         IF quoted /\ (o.params = <<>> \/ \E i \in DOMAIN o.params : o.params[i] = <<>>) THEN Ends(s, "open")
         ELSE With(s, Joined2(o.params, quoted, Cell(" ", FALSE)))
    [] p.kind = "var" /\ p.text = <<"*">> -> With(s, Joined2(o.params, quoted, Cell(" ", quoted)))
    [] p.kind = "var" /\ p.text \notin {<<>>, <<"@">>, <<"*">>} -> Gives(s, ValueOf(p.text[1], s, o), quoted, o)
    [] p.kind = "length" ->
         LET value == IF p.text[1] = "@" THEN <<o.params>> ELSE ValueOf(p.text[1], s, o) IN
         IF value = <<>> THEN Ends(s, "open") ELSE With(s, Cells(Number(Len(value[1])), quoted))
    \* between double quotes only a word that is quoted itself is left whole
    [] p.kind = "braces" ->
         IF quoted /\ \E i \in DOMAIN p.parts : p.parts[i].kind # "double" THEN Ends(s, "open")
         ELSE Applied(p, quoted, s, Expand(p.parts, FALSE, fresh, o), o)
    [] OTHER ->
         LET t == Raw(Joined(p.parts)) IN
         IF Output[t] = <<>> THEN Ends(s, "fails") ELSE With(s, Cells(TrimmedLines(Output[t][1]), quoted))

Expand(ps, quoted, s, o) ==
  IF ps = <<>> \/ s.verdict # "right" THEN s
  ELSE Expand(Tail(ps), quoted, One(Head(ps), quoted, s, o), o)

Blanks == {" ", "tab", "nl"}
Separates(c) == ~c.quoted /\ c.char \in Blanks
Wild(cells) == \E i \in DOMAIN cells : ~cells[i].quoted /\ cells[i].char \in {"*", "?"}
RECURSIVE Runs(_, _)
Runs(cells, run) ==
  LET ended == IF run = <<>> THEN <<>> ELSE <<run>> IN
  IF cells = <<>> THEN ended
  ELSE IF Separates(Head(cells)) THEN ended \o Runs(Tail(cells), <<>>)
  ELSE Runs(Tail(cells), Append(run, Head(cells)))

\* the strings that stand for a field
Strings(run, o) ==
  LET files == {path[1] : path \in {f \in Tree : Len(f) = 1 /\ Pattern!Selects(Spelled(run), f[1])}}
  IN  IF Wild(run) /\ ~o.noglob /\ files # {} THEN files ELSE {Chars(run)}
FieldsOf(cells, o) ==
  IF ~o.split THEN <<{Chars(cells)}>>
  ELSE LET runs == Runs(cells, <<>>) IN [i \in DOMAIN runs |-> Strings(runs[i], o)]

\* the fields and the variables after the expansion of some words
RECURSIVE Meant(_, _, _)
Meant(words, vars, o) ==
  IF words = <<>> THEN [fields |-> <<>>, vars |-> vars, verdict |-> "right"]
  ELSE LET s == Expand(Head(words), FALSE, [cells |-> <<>>, vars |-> vars, verdict |-> "right"], o)
           rest == Meant(Tail(words), s.vars, o)
       IN  IF s.verdict # "right" THEN [fields |-> <<>>, vars |-> s.vars, verdict |-> s.verdict]
           ELSE IF ~o.split /\ ~o.noglob /\ Wild(s.cells)
           THEN [fields |-> <<>>, vars |-> s.vars, verdict |-> "open"]
           ELSE [rest EXCEPT !.fields = <<FieldsOf(s.cells, o)>> \o @]
=============================================================================
