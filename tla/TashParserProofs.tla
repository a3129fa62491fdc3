-------------------------- MODULE TashParserProofs ---------------------------
(***************************************************************************)
(* Proofs about the parser, for any input: the frames of its functions,    *)
(* with as many trees as each goes on to use, and the prompt; then what    *)
(* the grammar says of trees and tokens, which TashParserTreeProofs        *)
(* measures the parser against.                                            *)
(***************************************************************************)
EXTENDS TashParser, SequenceTheorems, TLAPS
-----------------------------------------------------------------------------
(***************************************************************************)
(* The stack.  What a node is does not matter here, so that kids are of    *)
(* any type S.                                                             *)
(***************************************************************************)
Types == {"", "cmd", "and", "or", "if", "while", "until", "for", "case", "subshell", "group"}
FrameOf(S) ==
  [at : Label, type : Types, assigns : Seq(Nat), words : Seq(Nat), redirs : Seq(Nat),
   kids : Seq(S), multi : BOOLEAN, until : SUBSET Kind]

\* how many trees a frame has when it goes on
Wants(f) ==
  CASE f.at \in {"list", "logic"} -> 1..2
    [] f.at = "terminator" -> {1}
    [] f.at \in {"stage", "negate", "func_body", "redirs", "then", "done", "paren", "brace"} ->
         Nat \ {0}
    [] f.at = "target" -> IF f.type = "cmd" THEN Nat ELSE Nat \ {0}
    [] OTHER -> Nat
Simply(f) == f.at = "args" => f.type = "cmd"

Running(f) == Len(f.kids) \in Wants(f) /\ Simply(f)
\* a frame that will have what it wants when the function it has called returns
Waiting(f) == Len(f.kids) + 1 \in Wants(f) /\ Simply(f)

TopOf(s) == s[Len(s)]
BelowOf(s, S) == s \in Seq(FrameOf(S)) /\ \A i \in DOMAIN s : Waiting(s[i])
StackOf(s, S) ==
  /\ s \in Seq(FrameOf(S)) /\ s # <<>>
  /\ \A i \in DOMAIN s : i < Len(s) => Waiting(s[i])
  /\ Running(s[Len(s)])

\* labels at which a frame has no need of a tree
Free == Label \ {"list", "logic", "terminator", "stage", "negate", "func_body", "redirs", "then",
                 "done", "paren", "brace", "target", "args"}

LEMMA WantsOf ==
  ASSUME NEW f
  PROVE  /\ f.at \in {"list", "logic"} => Wants(f) = 1..2
         /\ f.at = "terminator" => Wants(f) = {1}
         /\ f.at \in {"stage", "negate", "func_body", "redirs", "then", "done", "paren", "brace"} =>
              Wants(f) = Nat \ {0}
         /\ f.at = "target" => Wants(f) = IF f.type = "cmd" THEN Nat ELSE Nat \ {0}
         /\ f.at \in Free \cup {"args"} => Wants(f) = Nat
  BY DEF Wants, Free, Label

LEMMA FreeFits ==
  ASSUME NEW S, NEW f \in FrameOf(S), f.at \in Free
  PROVE  Running(f) /\ Waiting(f)
<1>1. Len(f.kids) \in Nat /\ Wants(f) = Nat /\ f.at # "args"
  BY WantsOf DEF FrameOf, Free
<1> QED
  BY <1>1 DEF Running, Waiting, Simply

LEMMA TwoFrames ==
  ASSUME NEW S, NEW a \in S, NEW b \in S
  PROVE  <<a>> \o <<b>> = <<a, b>>
<1> DEFINE p == <<a>>
           q == <<b>>
           r == <<a, b>>
<1>1. /\ p \in Seq(S) /\ q \in Seq(S) /\ r \in Seq(S) /\ Len(p) = 1 /\ Len(q) = 1 /\ Len(r) = 2
      /\ p[1] = a /\ q[1] = b /\ r[1] = a /\ r[2] = b
  OBVIOUS
<1> HIDE DEF p, q, r
<1>2. /\ p \o q \in Seq(S) /\ Len(p \o q) = Len(p) + Len(q)
      /\ \A i \in 1..(Len(p) + Len(q)) : (p \o q)[i] = IF i <= Len(p) THEN p[i] ELSE q[i - Len(p)]
  BY <1>1, ConcatProperties
<1>3. Len(p \o q) = Len(r) /\ \A i \in 1..Len(p \o q) : (p \o q)[i] = r[i]
  BY <1>1, <1>2
<1>4. p \o q = r
  BY <1>1, <1>2, <1>3, SeqEqual
<1> QED
  BY <1>4 DEF p, q, r

LEMMA OneFrame ==
  ASSUME NEW S, NEW f \in FrameOf(S)
  PROVE  /\ Waiting(f) => BelowOf(<<f>>, S)
         /\ Running(f) => StackOf(<<f>>, S)
<1>1. <<f>> \in Seq(FrameOf(S)) /\ Len(<<f>>) = 1 /\ <<f>>[1] = f /\ DOMAIN <<f>> = {1} /\ <<f>> # <<>>
  OBVIOUS
<1>2. Waiting(f) => BelowOf(<<f>>, S)
  BY <1>1, Zenon DEF BelowOf
<1>3. \A i \in DOMAIN <<f>> : ~(i < Len(<<f>>))
  BY <1>1
<1> QED
  BY <1>1, <1>2, <1>3, Zenon DEF StackOf

LEMMA Above ==
  ASSUME NEW S, NEW s, NEW t, BelowOf(s, S), StackOf(t, S)
  PROVE  StackOf(s \o t, S) /\ TopOf(s \o t) = TopOf(t)
<1> DEFINE u == s \o t
<1>1. /\ s \in Seq(FrameOf(S)) /\ t \in Seq(FrameOf(S)) /\ Len(s) \in Nat /\ Len(t) \in Nat \ {0}
      /\ DOMAIN s = 1..Len(s) /\ DOMAIN t = 1..Len(t)
  BY DEF BelowOf, StackOf
<1>2. /\ u \in Seq(FrameOf(S)) /\ Len(u) = Len(s) + Len(t)
      /\ \A i \in 1..(Len(s) + Len(t)) : u[i] = IF i <= Len(s) THEN s[i] ELSE t[i - Len(s)]
  BY <1>1, ConcatProperties
<1> HIDE DEF u
<1>3. u[Len(u)] = TopOf(t)
  BY <1>1, <1>2 DEF TopOf
<1>4. ASSUME NEW i \in DOMAIN u, i < Len(u) PROVE Waiting(u[i])
  <2>1. i \in 1..(Len(s) + Len(t)) /\ i < Len(s) + Len(t)
    BY <1>1, <1>2, <1>4
  <2>2. CASE i <= Len(s)
    <3>1. i \in DOMAIN s /\ u[i] = s[i]
      BY <1>1, <1>2, <2>1, <2>2
    <3> QED
      BY <3>1 DEF BelowOf
  <2>3. CASE ~(i <= Len(s))
    <3>1. i - Len(s) \in DOMAIN t /\ i - Len(s) < Len(t) /\ u[i] = t[i - Len(s)]
      BY <1>1, <1>2, <2>1, <2>3
    <3> QED
      BY <3>1 DEF StackOf
  <2> QED
    BY <2>2, <2>3
<1>5. u # <<>>
  BY <1>1, <1>2
<1>6. StackOf(u, S)
  BY <1>2, <1>3, <1>4, <1>5 DEF StackOf
<1> QED
  BY <1>3, <1>6 DEF u, TopOf

LEMMA StaysBelow ==
  ASSUME NEW S, NEW s, NEW t, BelowOf(s, S), StackOf(t, S), NEW i \in DOMAIN s
  PROVE  i \in DOMAIN (s \o t) /\ (s \o t)[i] = s[i]
<1>1. /\ s \in Seq(FrameOf(S)) /\ t \in Seq(FrameOf(S)) /\ Len(s) \in Nat /\ Len(t) \in Nat
      /\ i \in 1..Len(s)
  BY DEF BelowOf, StackOf
<1>2. /\ s \o t \in Seq(FrameOf(S)) /\ Len(s \o t) = Len(s) + Len(t)
      /\ \A j \in 1..(Len(s) + Len(t)) : (s \o t)[j] = IF j <= Len(s) THEN s[j] ELSE t[j - Len(s)]
  BY <1>1, ConcatProperties
<1> QED
  BY <1>1, <1>2

LEMMA Below ==
  ASSUME NEW S, NEW s, NEW t, BelowOf(s, S), BelowOf(t, S)
  PROVE  BelowOf(s \o t, S)
<1>1. /\ s \in Seq(FrameOf(S)) /\ t \in Seq(FrameOf(S)) /\ Len(s) \in Nat /\ Len(t) \in Nat
      /\ DOMAIN s = 1..Len(s) /\ DOMAIN t = 1..Len(t)
  BY DEF BelowOf
<1>2. /\ s \o t \in Seq(FrameOf(S)) /\ Len(s \o t) = Len(s) + Len(t)
      /\ \A i \in 1..(Len(s) + Len(t)) : (s \o t)[i] = IF i <= Len(s) THEN s[i] ELSE t[i - Len(s)]
  BY <1>1, ConcatProperties
<1>3. ASSUME NEW i \in 1..(Len(s) + Len(t)) PROVE Waiting((s \o t)[i])
  <2>1. CASE i <= Len(s)
    <3>1. i \in DOMAIN s /\ (s \o t)[i] = s[i]
      BY <1>1, <1>2, <2>1
    <3> QED
      BY <3>1 DEF BelowOf
  <2>2. CASE ~(i <= Len(s))
    <3>1. i - Len(s) \in DOMAIN t /\ (s \o t)[i] = t[i - Len(s)]
      BY <1>1, <1>2, <2>2
    <3> QED
      BY <3>1 DEF BelowOf
  <2> QED
    BY <2>1, <2>2
<1> QED
  BY <1>2, <1>3 DEF BelowOf

\* The frames of a function that has just been called.
LEMMA NewFrame ==
  ASSUME NEW S, NEW l \in Label, NEW y \in Types
  PROVE  /\ Frame(l) \in FrameOf(S) /\ Typed(l, y) \in FrameOf(S)
         /\ Frame(l).at = l /\ Typed(l, y).at = l /\ Typed(l, y).type = y
         /\ Len(Frame(l).kids) = 0 /\ Len(Typed(l, y).kids) = 0
<1>1. <<>> \in Seq(S) /\ <<>> \in Seq(Nat) /\ Len(<<>>) = 0
  OBVIOUS
<1>2. Frame(l) \in FrameOf(S) /\ Frame(l).at = l /\ Frame(l).kids = <<>>
  BY <1>1 DEF Frame, FrameOf, Types
<1>3. Typed(l, y) = [Frame(l) EXCEPT !.type = y]
  BY DEF Typed
<1>4. /\ Typed(l, y) \in FrameOf(S) /\ Typed(l, y).at = l /\ Typed(l, y).type = y
      /\ Typed(l, y).kids = <<>>
  <2> HIDE DEF Frame
  <2> QED
    BY <1>2, <1>3 DEF FrameOf
<1> QED
  BY <1>1, <1>2, <1>4

LEMMA Called ==
  ASSUME NEW S, NEW l \in Label
  PROVE  Frame(l) \in FrameOf(S) /\ Frame(l).at = l /\ Len(Frame(l).kids) = 0
<1>1. "" \in Types
  BY DEF Types
<1> QED
  BY <1>1, NewFrame, Zenon

LEMMA WaitingFrame ==
  ASSUME NEW S, NEW f \in FrameOf(S), Len(f.kids) = 0,
         f.at \in Label \ {"terminator", "args"}
  PROVE  Waiting(f)
<1>1. Wants(f) = 1..2 \/ Wants(f) = Nat \ {0} \/ Wants(f) = Nat
  <2>1. \/ f.at \in {"list", "logic"} \/ f.at = "target" \/ f.at \in Free \cup {"args"}
        \/ f.at \in {"stage", "negate", "func_body", "redirs", "then", "done", "paren", "brace"}
    BY DEF Free
  <2> QED
    BY <2>1, WantsOf, Zenon
<1>2. 0 + 1 \in 1..2 /\ 0 + 1 \in Nat \ {0} /\ 0 + 1 \in Nat
  OBVIOUS
<1>3. Len(f.kids) + 1 \in Wants(f)
  BY <1>1, <1>2
<1> QED
  BY <1>3 DEF Waiting, Simply

LEMMA PipelineCalled ==
  ASSUME NEW S
  PROVE  StackOf(Pipeline, S) /\ TopOf(Pipeline).at = "bang"
<1>1. Frame("bang") \in FrameOf(S) /\ Frame("bang").at = "bang"
  <2>1. "bang" \in Label
    BY DEF Label
  <2> QED
    BY <2>1, Called
<1>2. Running(Frame("bang"))
  BY <1>1, FreeFits DEF Free, Label
<1> DEFINE f == Frame("bang")
<1> HIDE DEF f
<1>3. StackOf(<<f>>, S)
  BY <1>1, <1>2, OneFrame DEF f
<1>4. TopOf(<<f>>) = f
  BY DEF TopOf
<1> QED
  BY <1>1, <1>3, <1>4 DEF Pipeline, f

LEMMA SimplePipelineCalled ==
  ASSUME NEW S
  PROVE  /\ StackOf(SimplePipeline, S)
         /\ TopOf(SimplePipeline).at = "command"
<1> DEFINE f == Frame("stage")
           g == Frame("command")
<1>1. f \in FrameOf(S) /\ Len(f.kids) = 0 /\ f.at = "stage" /\ g \in FrameOf(S) /\ g.at = "command"
  <2>1. "stage" \in Label /\ "command" \in Label
    BY DEF Label
  <2> QED
    BY <2>1, Called
<1> HIDE DEF f, g
<1>2. Waiting(f) /\ Running(g)
  BY <1>1, WaitingFrame, FreeFits DEF Free, Label
<1>3. StackOf(<<g>>, S) /\ BelowOf(<<f>>, S) /\ TopOf(<<g>>) = g
  BY <1>1, <1>2, OneFrame DEF TopOf
<1>4. <<f, g>> = <<f>> \o <<g>>
  BY <1>1, TwoFrames
<1>5. StackOf(<<f>> \o <<g>>, S) /\ TopOf(<<f>> \o <<g>>) = TopOf(<<g>>)
  BY <1>3, Above
<1>6. StackOf(<<f, g>>, S) /\ TopOf(<<f, g>>).at = "command"
  BY <1>1, <1>3, <1>4, <1>5, Zenon
<1> QED
  BY <1>6 DEF SimplePipeline, f, g

LEMMA LogicListCalled ==
  ASSUME NEW S
  PROVE  StackOf(LogicList, S) /\ TopOf(LogicList).at = "bang"
<1> DEFINE f == Frame("logic")
<1>1. f \in FrameOf(S) /\ Len(f.kids) = 0 /\ f.at = "logic"
  <2>1. "logic" \in Label
    BY DEF Label
  <2> QED
    BY <2>1, Called
<1> HIDE DEF f
<1>2. Waiting(f)
  BY <1>1, WaitingFrame DEF Label
<1>3. BelowOf(<<f>>, S)
  BY <1>1, <1>2, OneFrame
<1> QED
  BY <1>3, PipelineCalled, Above DEF LogicList, f

LEMMA ListCalled ==
  ASSUME NEW S, NEW multi \in BOOLEAN, NEW until \in SUBSET Kind
  PROVE  /\ StackOf(List(multi, until), S)
         /\ TopOf(List(multi, until)).at = "bang"
<1> DEFINE e == Frame("list")
           f == [e EXCEPT !.multi = multi, !.until = until]
<1>1. e \in FrameOf(S) /\ Len(e.kids) = 0 /\ e.at = "list"
  <2>1. "list" \in Label
    BY DEF Label
  <2> QED
    BY <2>1, Called
<1> HIDE DEF e
<1>2. f \in FrameOf(S) /\ Len(f.kids) = 0 /\ f.at = "list"
  BY <1>1 DEF FrameOf
<1> HIDE DEF f
<1>3. Waiting(f)
  BY <1>2, WaitingFrame DEF Label
<1>4. BelowOf(<<f>>, S)
  BY <1>2, <1>3, OneFrame
<1> QED
  BY <1>4, LogicListCalled, Above DEF List, e, f

-----------------------------------------------------------------------------
(***************************************************************************)
(* The invariant.                                                          *)
(***************************************************************************)
At == {"line", "parse", "parsed", "discard", "end", "expanded", "crashed"}
TokenInv ==
  /\ input \in Input /\ read \in Seq(Kind) /\ putback \in {0, Len(read)} /\ prompt \in 1..2
StackInv ==
  /\ at \in At /\ (at # "parse" => stack = <<>>)
  /\ at = "parse" => \E S : StackOf(stack, S)
ParserInv == TokenInv /\ StackInv

LEMMA Wider ==
  ASSUME NEW S, NEW T, S \subseteq T
  PROVE  /\ FrameOf(S) \subseteq FrameOf(T)
         /\ \A s : BelowOf(s, S) => BelowOf(s, T)
<1>1. Seq(S) \subseteq Seq(T)
  OBVIOUS
<1>2. FrameOf(S) \subseteq FrameOf(T)
  BY <1>1 DEF FrameOf
<1>3. ASSUME NEW s, BelowOf(s, S) PROVE BelowOf(s, T)
  <2>1. s \in Seq(FrameOf(T))
    BY <1>2, <1>3 DEF BelowOf
  <2> QED
    BY <1>3, <2>1 DEF BelowOf
<1> QED
  BY <1>2, <1>3

LEMMA TopIs ==
  ASSUME NEW S, StackOf(stack, S)
  PROVE  /\ Len(stack) \in Nat \ {0} /\ Top \in FrameOf(S) /\ Running(Top)
         /\ BelowOf(Callers, S) /\ Len(Callers) = Len(stack) - 1
         /\ DOMAIN stack = 1..Len(stack)
         /\ \A i \in DOMAIN stack : i < Len(stack) => i \in DOMAIN Callers /\ Callers[i] = stack[i]
<1>1. /\ stack \in Seq(FrameOf(S)) /\ stack # <<>> /\ Running(stack[Len(stack)])
      /\ \A i \in DOMAIN stack : i < Len(stack) => Waiting(stack[i])
  BY DEF StackOf
<1>2. Len(stack) \in Nat \ {0} /\ DOMAIN stack = 1..Len(stack)
  BY <1>1
<1>3. Top \in FrameOf(S) /\ Running(Top)
  BY <1>1, <1>2 DEF Top
<1>4. \A i \in 1..(Len(stack) - 1) : stack[i] \in FrameOf(S) /\ Waiting(stack[i])
  BY <1>1, <1>2
<1>5. /\ Callers \in Seq(FrameOf(S)) /\ Len(Callers) = Len(stack) - 1
      /\ \A i \in 1..(Len(stack) - 1) : Callers[i] = stack[i]
  <2>1. /\ Callers \in Seq(FrameOf(S))
        /\ Len(Callers) = (IF 1 <= Len(stack) - 1 THEN Len(stack) - 1 - 1 + 1 ELSE 0)
        /\ \A i \in 1..(Len(stack) - 1 - 1 + 1) : Callers[i] = stack[1 + i - 1]
    BY <1>2, <1>4, SubSeqProperties DEF Callers
  <2>2. Len(Callers) = Len(stack) - 1
    <3>1. PICK n \in Nat \ {0} : n = Len(stack)
      BY <1>2
    <3>2. Len(Callers) = (IF 1 <= n - 1 THEN n - 1 - 1 + 1 ELSE 0)
      BY <2>1, <3>1, Zenon
    <3>3. (IF 1 <= n - 1 THEN n - 1 - 1 + 1 ELSE 0) = n - 1
      OBVIOUS
    <3> QED
      BY <3>1, <3>2, <3>3, Zenon
  <2>3. ASSUME NEW i \in 1..(Len(stack) - 1) PROVE Callers[i] = stack[i]
    <3>1. i \in 1..(Len(stack) - 1 - 1 + 1) /\ 1 + i - 1 = i
      BY <1>2
    <3> QED
      BY <2>1, <3>1, Zenon
  <2> QED
    BY <2>1, <2>2, <2>3
<1>6. DOMAIN Callers = 1..(Len(stack) - 1)
  BY <1>5
<1>7. BelowOf(Callers, S)
  BY <1>4, <1>5, <1>6 DEF BelowOf
<1> QED
  BY <1>2, <1>3, <1>5, <1>6, <1>7

LEMMA Moved ==
  ASSUME NEW S, NEW f \in FrameOf(S), NEW l \in Label
  PROVE  LET g == [f EXCEPT !.at = l]
         IN  g \in FrameOf(S) /\ g.at = l /\ g.kids = f.kids /\ g.type = f.type
  BY DEF FrameOf

LEMMA Fits ==
  ASSUME NEW S, StackOf(stack', S), at' = "parse"
  PROVE  StackInv'
  BY DEF StackInv, At

LEMMA GoesAlone ==
  ASSUME NEW S, NEW T, StackOf(stack, S), S \subseteq T, at = "parse", NEW f \in FrameOf(T), NEW l \in Label,
         GoOn(f, l, <<>>), Running([f EXCEPT !.at = l])
  PROVE  StackInv' /\ at' = at /\ Top'.at = l
<1>1. PICK g : g = [f EXCEPT !.at = l]
  OBVIOUS
<1>2. g \in FrameOf(T) /\ g.at = l /\ Running(g)
  BY <1>1, Moved, Zenon
<1>3. BelowOf(Callers, T)
  BY TopIs, Wider
<1>4. StackOf(<<g>>, T) /\ TopOf(<<g>>) = g
  BY <1>2, OneFrame DEF TopOf
<1>5. StackOf(Callers \o <<g>>, T) /\ TopOf(Callers \o <<g>>) = g
  BY <1>3, <1>4, Above
<1>6. stack' = Callers \o <<g>> /\ at' = at
  <2>1. stack' = Callers \o <<g>> \o <<>> /\ at' = at
    BY <1>1 DEF GoOn
  <2>2. Callers \o <<g>> \in Seq(FrameOf(T))
    BY <1>5 DEF StackOf
  <2> QED
    BY <2>1, <2>2, ConcatEmptySeq
<1> QED
  BY <1>2, <1>5, <1>6, Fits DEF Top

LEMMA GoesCalling ==
  ASSUME NEW S, NEW T, StackOf(stack, S), S \subseteq T, at = "parse", NEW f \in FrameOf(T), NEW l \in Label,
         NEW c, StackOf(c, T), GoOn(f, l, c), Waiting([f EXCEPT !.at = l])
  PROVE  /\ StackInv' /\ at' = at /\ Top' = TopOf(c)
         /\ \E i \in DOMAIN stack' : stack'[i].at = l
<1>1. PICK g : g = [f EXCEPT !.at = l]
  OBVIOUS
<1>2. g \in FrameOf(T) /\ g.at = l /\ Waiting(g)
  BY <1>1, Moved, Zenon
<1>3. BelowOf(Callers, T) /\ BelowOf(<<g>>, T)
  BY <1>2, TopIs, Wider, OneFrame
<1> DEFINE s == Callers \o <<g>>
<1>4. BelowOf(s, T) /\ Len(Callers) + 1 \in DOMAIN s /\ s[Len(Callers) + 1] = g
  <2>1. BelowOf(s, T)
    BY <1>3, Below
  <2>2. Callers \in Seq(FrameOf(T)) /\ <<g>> \in Seq(FrameOf(T)) /\ Len(<<g>>) = 1 /\ <<g>>[1] = g
    BY <1>3 DEF BelowOf
  <2> DEFINE h == <<g>>
  <2> HIDE DEF h
  <2>3. /\ Callers \o h \in Seq(FrameOf(T)) /\ Len(Callers \o h) = Len(Callers) + Len(h)
        /\ \A i \in 1..(Len(Callers) + Len(h)) :
             (Callers \o h)[i] = IF i <= Len(Callers) THEN Callers[i] ELSE h[i - Len(Callers)]
    BY <2>2, ConcatProperties DEF h
  <2>4. Len(h) = 1 /\ h[1] = g /\ Len(Callers) \in Nat
    BY <2>2 DEF h
  <2>5. Len(Callers) + 1 \in DOMAIN (Callers \o h) /\ (Callers \o h)[Len(Callers) + 1] = g
    BY <2>3, <2>4
  <2> QED
    BY <2>1, <2>5 DEF h
<1> HIDE DEF s
<1>5. /\ StackOf(s \o c, T) /\ TopOf(s \o c) = TopOf(c)
      /\ \E i \in DOMAIN (s \o c) : (s \o c)[i].at = l
  <2>1. StackOf(s \o c, T) /\ TopOf(s \o c) = TopOf(c)
    BY <1>4, Above
  <2>2. Len(Callers) + 1 \in DOMAIN (s \o c) /\ (s \o c)[Len(Callers) + 1] = g
    BY <1>4, StaysBelow, Zenon
  <2> QED
    BY <1>2, <2>1, <2>2
<1>6. stack' = s \o c /\ at' = at
  BY <1>1 DEF GoOn, s
<1>7. Top' = TopOf(stack')
  BY DEF Top, TopOf
<1> QED
  BY <1>2, <1>4, <1>5, <1>6, <1>7, Fits

\* At most labels a frame is free to have any number of trees.
LEMMA GoesFreely ==
  ASSUME NEW S, NEW T, StackOf(stack, S), S \subseteq T, at = "parse", NEW f \in FrameOf(T), NEW l \in Free,
         NEW c, c = <<>> \/ StackOf(c, T), GoOn(f, l, c)
  PROVE  StackInv'
<1>1. l \in Label
  BY DEF Free
<1>2. PICK g : g = [f EXCEPT !.at = l]
  OBVIOUS
<1>3. g \in FrameOf(T) /\ g.at = l
  BY <1>1, <1>2, Moved, Zenon
<1>4. Running(g) /\ Waiting(g)
  BY <1>3, FreeFits
<1> QED
  BY <1>1, <1>2, <1>4, GoesAlone, GoesCalling, Zenon

LEMMA GoesTo ==
  ASSUME NEW S, StackOf(stack, S), at = "parse", NEW c, StackOf(c, S), TailCall(c)
  PROVE  /\ StackInv' /\ at' = at /\ Top' = TopOf(c)
<1>1. BelowOf(Callers, S)
  BY TopIs
<1>2. StackOf(Callers \o c, S) /\ TopOf(Callers \o c) = TopOf(c)
  BY <1>1, Above
<1>3. Top' = TopOf(stack')
  BY DEF Top, TopOf
<1> QED
  BY <1>2, <1>3, Fits DEF TailCall

\* A caller gets the tree it has been waiting for.
LEMMA Returns ==
  ASSUME NEW S, StackOf(stack, S), at = "parse", NEW tree, Return(tree)
  PROVE  StackInv'
<1>1. CASE Len(stack) = 1
  BY <1>1 DEF Return, StackInv, At
<1>2. CASE Len(stack) # 1
  <2> DEFINE n == Len(stack) - 1
             T == S \cup {tree}
             g == [Callers[n] EXCEPT !.kids = Append(@, tree)]
  <2>1. /\ BelowOf(Callers, S) /\ Len(Callers) = n /\ n \in Nat \ {0}
        /\ Callers \in Seq(FrameOf(T)) /\ DOMAIN Callers = 1..n
    <3>1. BelowOf(Callers, S) /\ Len(Callers) = n /\ n \in Nat \ {0}
      BY <1>2, TopIs
    <3>2. BelowOf(Callers, T)
      BY <3>1, Wider
    <3> QED
      BY <3>1, <3>2 DEF BelowOf
  <2>2. Callers[n] \in FrameOf(S) /\ Waiting(Callers[n])
    BY <2>1 DEF BelowOf
  <2>3. stack' = [Callers EXCEPT ![n] = g] /\ at' = at
    BY <1>2 DEF Return
  <2>4. PICK f \in FrameOf(S) : f = Callers[n]
    BY <2>2
  <2>5. PICK kids : kids = Append(f.kids, tree)
    OBVIOUS
  <2>6. g = [f EXCEPT !.kids = kids]
    BY <2>4, <2>5
  <2> HIDE DEF g
  <2>7. kids \in Seq(T) /\ Len(kids) = Len(f.kids) + 1
    <3>1. f.kids \in Seq(S)
      BY DEF FrameOf
    <3>2. f.kids \in Seq(T) /\ tree \in T
      BY <3>1
    <3> HIDE DEF T
    <3> QED
      BY <2>5, <3>2, AppendProperties
  <2>8. g \in FrameOf(T) /\ g.at = f.at /\ g.type = f.type /\ g.kids = kids
    <3>1. f \in FrameOf(T)
      BY Wider
    <3> HIDE DEF T
    <3> QED
      BY <2>6, <2>7, <3>1 DEF FrameOf
  <2>9. Running(g)
    <3>1. Wants(g) = Wants(f)
      BY <2>8 DEF Wants
    <3>2. Len(f.kids) + 1 \in Wants(f) /\ Simply(f)
      BY <2>2, <2>4 DEF Waiting
    <3>3. Len(g.kids) \in Wants(g)
      BY <2>7, <2>8, <3>1, <3>2
    <3> QED
      BY <2>8, <3>2, <3>3 DEF Running, Simply
  <2>10. StackOf(stack', T)
    <3>1. stack' \in Seq(FrameOf(T)) /\ Len(stack') = n /\ stack'[n] = g /\ DOMAIN stack' = 1..n
          /\ \A i \in 1..n : i # n => stack'[i] = Callers[i]
      <4> HIDE DEF T, n
      <4> QED
        BY <2>1, <2>3, <2>8
    <3>2. stack' # <<>>
      BY <2>1, <3>1
    <3>3. \A i \in DOMAIN stack' : i < Len(stack') => Waiting(stack'[i])
      BY <2>1, <3>1 DEF BelowOf
    <3> QED
      BY <2>9, <3>1, <3>2, <3>3 DEF StackOf
  <2> QED
    BY <2>3, <2>10, Fits
<1> QED
  BY <1>1, <1>2

LEMMA Fails == Fail => StackInv'
  BY DEF Fail, StackInv, At

\* next_token() and unget_token().
LEMMA HereIs ==
  ASSUME TokenInv
  PROVE  Here \in Nat /\ Len(read) \in Nat
  BY DEF TokenInv, Here, AtEnd

LEMMA TokenRead ==
  ASSUME TokenInv, NEW k \in Kind, Take(k) \/ Peek(k)
  PROVE  /\ TokenInv' /\ Len(read') \in Nat
         /\ read'[Len(read')] = k
         /\ Peek(k) => putback' = Len(read') /\ putback' # 0
<1>1. read \in Seq(Kind) /\ Len(read) \in Nat /\ putback \in {0, Len(read)} /\ input \in Input /\ prompt \in 1..2
  BY DEF TokenInv
<1>2. input' = input /\ prompt' \in {prompt, 2} /\ Next_token(k)
  BY DEF Take, Peek, Prompt
<1>3. CASE putback # 0 \/ AtEnd
  <2>1. Len(read) # 0
    BY <1>1, <1>3 DEF AtEnd
  <2>2. k = read[Len(read)] /\ read' = read /\ Here = Len(read)
    BY <1>2, <1>3 DEF Next_token, Here
  <2>3. putback' = 0 \/ putback' = Here
    BY DEF Take, Peek
  <2>4. Peek(k) => putback' = Here
    BY DEF Peek
  <2> QED
    BY <1>1, <1>2, <2>1, <2>2, <2>3, <2>4 DEF TokenInv
<1>4. CASE ~(putback # 0 \/ AtEnd)
  <2>1. read' = Append(read, k) /\ Here = Len(read) + 1
    BY <1>2, <1>4 DEF Next_token, Here
  <2>2. read' \in Seq(Kind) /\ Len(read') = Len(read) + 1 /\ read'[Len(read) + 1] = k
    BY <1>1, <2>1, AppendProperties
  <2>3. putback' = 0 \/ putback' = Here
    BY DEF Take, Peek
  <2>4. Peek(k) => putback' = Here
    BY DEF Peek
  <2> QED
    BY <1>1, <1>2, <2>1, <2>2, <2>3, <2>4 DEF TokenInv
<1> QED
  BY <1>3, <1>4

LEMMA Parses ==
  ASSUME ParserInv, at = "parse"
  PROVE  \E S : StackOf(stack, S) /\ Top \in FrameOf(S) /\ Running(Top)
  BY TopIs DEF ParserInv, StackInv

LEMMA Positions ==
  ASSUME ParserInv
  PROVE  /\ Here \in Nat /\ <<Here>> \in Seq(Nat)
         /\ \A s \in Seq(Nat) : Append(s, Here) \in Seq(Nat) /\ Append(s, AllArguments) \in Seq(Nat)
<1>1. Here \in Nat /\ AllArguments \in Nat
  BY HereIs DEF ParserInv, AllArguments
<1> QED
  BY <1>1, AppendProperties
-----------------------------------------------------------------------------
(***************************************************************************)
(* What every function does to the stack.                                  *)
(***************************************************************************)
LEMMA ListStep ==
  ASSUME ParserInv, ListSeparator \/ ListEnds \/ ListTerminator
  PROVE  StackInv'
<1>1. at = "parse"
  BY DEF ListSeparator, ListEnds, ListTerminator, Parsing
<1>2. PICK S : StackOf(stack, S) /\ Top \in FrameOf(S) /\ Running(Top)
  BY <1>1, Parses
<1>3. "list" \in Label /\ "terminator" \in Label
  BY DEF Label
<1>4. ASSUME NEW x, NEW f, f = [Top EXCEPT !.kids = <<x>>]
      PROVE  /\ f \in FrameOf(S \cup {x})
             /\ Waiting([f EXCEPT !.at = "list"]) /\ Running([f EXCEPT !.at = "terminator"])
  <2> DEFINE T == S \cup {x}
  <2>1. PICK t \in FrameOf(S) : t = Top
    BY <1>2
  <2>2. t \in FrameOf(T)
    BY Wider
  <2>3. x \in T
    OBVIOUS
  <2> HIDE DEF T
  <2>4. PICK kids \in Seq(T) : kids = <<x>> /\ Len(kids) = 1
    <3>1. <<x>> \in Seq(T) /\ Len(<<x>>) = 1
      BY <2>3
    <3> QED
      BY <3>1
  <2>5. f = [t EXCEPT !.kids = kids]
    BY <1>4, <2>1, <2>4, Zenon
  <2>6. f \in FrameOf(T) /\ f.kids = kids
    BY <2>2, <2>5 DEF FrameOf
  <2>7. PICK g : g = [f EXCEPT !.at = "list"]
    OBVIOUS
  <2>8. g.at = "list" /\ g.kids = kids
    BY <1>3, <2>6, <2>7, Moved
  <2>9. Waiting(g)
    <3>1. Wants(g) = 1..2 /\ g.at # "args"
      BY <2>8, WantsOf
    <3> QED
      BY <2>4, <2>8, <3>1 DEF Waiting, Simply
  <2>10. PICK h : h = [f EXCEPT !.at = "terminator"]
    OBVIOUS
  <2>11. h.at = "terminator" /\ h.kids = kids
    BY <1>3, <2>6, <2>10, Moved
  <2>12. Running(h)
    <3>1. Wants(h) = {1} /\ h.at # "args"
      BY <2>11, WantsOf
    <3> QED
      BY <2>4, <2>11, <3>1 DEF Running, Simply
  <2> QED
    BY <2>6, <2>7, <2>9, <2>10, <2>12 DEF T
<1>5. CASE ListSeparator
  <2>1. PICK k \in Separator :
          IF Top.multi
            THEN IF Top.until = {}
                   THEN GoOn([Top EXCEPT !.kids = <<Ended(k)>>], "list", LogicList)
                   ELSE GoOn([Top EXCEPT !.kids = <<Ended(k)>>], "terminator", <<>>)
            ELSE Return(Ended(k))
    BY <1>5 DEF ListSeparator
  <2>2. CASE Return(Ended(k))
    BY <1>1, <1>2, <2>2, Returns
  <2>3. PICK f : f = [Top EXCEPT !.kids = <<Ended(k)>>]
    OBVIOUS
  <2> DEFINE T == S \cup {Ended(k)}
  <2>4. /\ f \in FrameOf(T) /\ S \subseteq T
        /\ Waiting([f EXCEPT !.at = "list"]) /\ Running([f EXCEPT !.at = "terminator"])
    BY <1>4, <2>3
  <2> HIDE DEF T
  <2>5. CASE GoOn(f, "list", LogicList)
    <3>1. StackOf(LogicList, T)
      BY LogicListCalled
    <3> QED
      BY <1>1, <1>2, <1>3, <2>4, <2>5, <3>1, GoesCalling
  <2>6. CASE GoOn(f, "terminator", <<>>)
    BY <1>1, <1>2, <1>3, <2>4, <2>6, GoesAlone
  <2> QED
    BY <2>1, <2>2, <2>3, <2>5, <2>6
<1>6. CASE ListEnds
  BY <1>1, <1>2, <1>6, Returns DEF ListEnds
<1>7. CASE ListTerminator
  <2>1. Top.at = "terminator" /\ (Return(Top.kids[1]) \/ GoOn(Top, "list", LogicList))
    BY <1>7 DEF ListTerminator, Parsing
  <2>2. CASE Return(Top.kids[1])
    BY <1>1, <1>2, <2>2, Returns
  <2>3. CASE GoOn(Top, "list", LogicList)
    <3>1. PICK g : g = [Top EXCEPT !.at = "list"]
      OBVIOUS
    <3>2. g.at = "list" /\ g.kids = Top.kids
      BY <1>2, <1>3, <3>1, Moved
    <3>3. Len(Top.kids) = 1
      <4>1. Wants(Top) = {1}
        BY <2>1, WantsOf
      <4> QED
        BY <1>2, <4>1 DEF Running
    <3>4. Waiting(g)
      <4>1. Wants(g) = 1..2 /\ g.at # "args"
        BY <3>2, WantsOf
      <4> QED
        BY <3>2, <3>3, <4>1 DEF Waiting, Simply
    <3>5. StackOf(LogicList, S) /\ S \subseteq S
      BY LogicListCalled
    <3> QED
      BY <1>1, <1>2, <1>3, <2>3, <3>1, <3>4, <3>5, GoesCalling
  <2> QED
    BY <2>1, <2>2, <2>3
<1> QED
  BY <1>5, <1>6, <1>7

LEMMA LogicStep ==
  ASSUME ParserInv, LogicOperator \/ LogicEnds
  PROVE  StackInv'
<1>1. at = "parse"
  BY DEF LogicOperator, LogicEnds, Parsing
<1>2. PICK S : StackOf(stack, S) /\ Top \in FrameOf(S) /\ Running(Top)
  BY <1>1, Parses
<1>3. "logic" \in Label
  BY DEF Label
<1>4. CASE LogicOperator
  <2>1. PICK y \in {"and", "or"} : GoOn([Top EXCEPT !.kids = <<LogicNode>>, !.type = y], "logic", Pipeline)
    BY <1>4 DEF LogicOperator
  <2> DEFINE T == S \cup {LogicNode}
  <2>2. LogicNode \in T /\ S \subseteq T
    OBVIOUS
  <2>3. PICK t \in FrameOf(S) : t = Top
    BY <1>2
  <2>4. t \in FrameOf(T)
    BY <2>2, Wider
  <2> HIDE DEF T
  <2>5. PICK kids \in Seq(T) : kids = <<LogicNode>> /\ Len(kids) = 1
    <3>1. <<LogicNode>> \in Seq(T) /\ Len(<<LogicNode>>) = 1
      BY <2>2
    <3> QED
      BY <3>1
  <2>6. PICK f : f = [t EXCEPT !.kids = kids, !.type = y]
    OBVIOUS
  <2>7. f \in FrameOf(T) /\ f.kids = kids
    <3>1. y \in Types
      BY DEF Types
    <3> QED
      BY <2>4, <2>6, <3>1 DEF FrameOf
  <2>8. PICK g : g = [f EXCEPT !.at = "logic"]
    OBVIOUS
  <2>9. g.at = "logic" /\ g.kids = kids
    BY <1>3, <2>7, <2>8, Moved
  <2>10. Waiting(g)
    <3>1. Wants(g) = 1..2 /\ g.at # "args"
      BY <2>9, WantsOf
    <3> QED
      BY <2>5, <2>9, <3>1 DEF Waiting, Simply
  <2>11. GoOn(f, "logic", Pipeline)
    BY <2>1, <2>3, <2>5, <2>6, Zenon
  <2>12. StackOf(Pipeline, T)
    BY PipelineCalled
  <2> QED
    BY <1>1, <1>2, <1>3, <2>2, <2>7, <2>8, <2>10, <2>11, <2>12, GoesCalling
<1>5. CASE LogicEnds
  BY <1>1, <1>2, <1>5, Returns DEF LogicEnds
<1> QED
  BY <1>4, <1>5

LEMMA BangStep ==
  ASSUME ParserInv, PipelineBang
  PROVE  /\ StackInv' /\ at' = at /\ Top'.at = "command"
         /\ \/ \E i \in DOMAIN stack' : stack'[i].at = "negate"
            \/ \E k \in Kind \ {"!"} : Peek(k)
<1>1. at = "parse" /\ Top.at = "bang"
  BY DEF PipelineBang, Parsing
<1>2. PICK S : StackOf(stack, S) /\ Top \in FrameOf(S) /\ Running(Top)
  BY <1>1, Parses
<1>3. StackOf(SimplePipeline, S) /\ TopOf(SimplePipeline).at = "command" /\ S \subseteq S
  BY SimplePipelineCalled
<1>4. CASE GoOn(Top, "negate", SimplePipeline)
  <2>1. "negate" \in Label
    BY DEF Label
  <2>2. PICK g : g = [Top EXCEPT !.at = "negate"]
    OBVIOUS
  <2>3. g.at = "negate" /\ g.kids = Top.kids
    BY <1>2, <2>1, <2>2, Moved
  <2>4. Len(Top.kids) \in Nat
    BY <1>2 DEF FrameOf
  <2>5. Waiting(g)
    <3>1. Wants(g) = Nat \ {0} /\ g.at # "args"
      BY <2>3, WantsOf
    <3> QED
      BY <2>3, <2>4, <3>1 DEF Waiting, Simply
  <2> QED
    BY <1>1, <1>2, <1>3, <1>4, <2>1, <2>2, <2>5, GoesCalling
<1>5. CASE TailCall(SimplePipeline) /\ \E k \in Kind \ {"!"} : Peek(k)
  BY <1>1, <1>2, <1>3, <1>5, GoesTo
<1> QED
  BY <1>4, <1>5 DEF PipelineBang

LEMMA BarStep ==
  ASSUME ParserInv, PipelineBar \/ PipelineEnds
  PROVE  StackInv'
<1>1. at = "parse"
  BY DEF PipelineBar, PipelineEnds, Parsing
<1>2. PICK S : StackOf(stack, S) /\ Top \in FrameOf(S) /\ Running(Top)
  BY <1>1, Parses
<1>3. StackOf(SimplePipeline, S) /\ S \subseteq S
  BY SimplePipelineCalled
<1>4. "pipe" \in Free
  BY DEF Free, Label
<1>5. \/ GoOn(Top, "pipe", SimplePipeline)
      \/ \E tree : Return(tree)
  BY Zenon DEF PipelineBar, PipelineEnds
<1>6. CASE GoOn(Top, "pipe", SimplePipeline)
  BY <1>1, <1>2, <1>3, <1>4, <1>6, GoesFreely
<1>7. CASE \E tree : Return(tree)
  BY <1>1, <1>2, <1>7, Returns
<1> QED
  BY <1>5, <1>6, <1>7

\* A frame that only takes the next token, and keeps what it has.
LEMMA SameFrame ==
  ASSUME ParserInv, at = "parse", NEW l \in Free, GoOn(Top, l, <<>>)
  PROVE  StackInv'
<1>1. PICK S : StackOf(stack, S) /\ Top \in FrameOf(S) /\ Running(Top)
  BY Parses
<1> QED
  BY <1>1, GoesFreely

\* A block is parsed, and its tree is one more.
LEMMA BlockCalled ==
  ASSUME NEW S, NEW until \in SUBSET Kind
  PROVE  StackOf(Block(until), S)
  BY ListCalled DEF Block

LEMMA CallsBlock ==
  ASSUME ParserInv, at = "parse", NEW until \in SUBSET Kind,
         NEW l \in {"elif", "fi", "then", "done", "item_end"}, GoOn(Top, l, Block(until))
  PROVE  StackInv'
<1>1. PICK S : StackOf(stack, S) /\ Top \in FrameOf(S) /\ Running(Top)
  BY Parses
<1>2. StackOf(Block(until), S) /\ S \subseteq S
  BY BlockCalled
<1>3. l \in Label
  BY DEF Label
<1>4. PICK g : g = [Top EXCEPT !.at = l]
  OBVIOUS
<1>5. g.at = l /\ g.kids = Top.kids
  BY <1>1, <1>3, <1>4, Moved
<1>6. Len(Top.kids) \in Nat
  BY <1>1 DEF FrameOf
<1>7. Waiting(g)
  <2>1. Wants(g) = Nat \/ Wants(g) = Nat \ {0}
    <3>1. g.at \in {"then", "done"} \/ g.at \in Free
      BY <1>5 DEF Free, Label
    <3> QED
      BY <3>1, WantsOf, Zenon
  <2> QED
    BY <1>5, <1>6, <2>1 DEF Waiting, Simply
<1> QED
  BY <1>1, <1>2, <1>3, <1>4, <1>7, GoesCalling

\* Words, assignments and redirections are positions of tokens.
LEMMA Positioned ==
  ASSUME NEW S, NEW f \in FrameOf(S), NEW s \in Seq(Nat), NEW g,
         g = [f EXCEPT !.words = s] \/ g = [f EXCEPT !.redirs = s] \/ g = [f EXCEPT !.assigns = s]
  PROVE  g \in FrameOf(S) /\ g.type = f.type /\ g.kids = f.kids
<1>1. CASE g = [f EXCEPT !.words = s]
  BY <1>1 DEF FrameOf
<1>2. CASE g = [f EXCEPT !.redirs = s]
  BY <1>2 DEF FrameOf
<1>3. CASE g = [f EXCEPT !.assigns = s]
  BY <1>3 DEF FrameOf
<1> QED
  BY <1>1, <1>2, <1>3

LEMMA MorePositions ==
  ASSUME ParserInv, NEW S, NEW f \in FrameOf(S)
  PROVE  /\ <<Here>> \in Seq(Nat) /\ Append(f.words, Here) \in Seq(Nat)
         /\ Append(f.words, AllArguments) \in Seq(Nat)
         /\ Append(f.redirs, Here) \in Seq(Nat) /\ Append(f.assigns, Here) \in Seq(Nat)
<1>1. f.words \in Seq(Nat) /\ f.redirs \in Seq(Nat) /\ f.assigns \in Seq(Nat)
  BY DEF FrameOf
<1> QED
  BY <1>1, Positions

\* At args and at target a simple command needs no tree.
LEMMA SimpleFits ==
  ASSUME NEW S, NEW f \in FrameOf(S), f.type = "cmd", NEW l \in {"args", "target"}
  PROVE  Running([f EXCEPT !.at = l])
<1>1. l \in Label
  BY DEF Label
<1>2. PICK g : g = [f EXCEPT !.at = l]
  OBVIOUS
<1>3. g.at = l /\ g.kids = f.kids /\ g.type = "cmd"
  BY <1>1, <1>2, Moved
<1>4. Wants(g) = Nat
  BY <1>3, WantsOf
<1>5. Len(f.kids) \in Nat
  BY DEF FrameOf
<1>6. Running(g)
  BY <1>3, <1>4, <1>5 DEF Running, Simply
<1> QED
  BY <1>2, <1>6

\* The first frame of a function that takes a token at once.
LEMMA CommandFrame ==
  ASSUME NEW S, NEW l \in {"target", "args"}
  PROVE  Typed(l, "cmd") \in FrameOf(S) /\ Typed(l, "cmd").type = "cmd"
         /\ Typed("command", "cmd") \in FrameOf(S) /\ Typed("command", "cmd").type = "cmd"
<1>1. l \in Label /\ "command" \in Label /\ "cmd" \in Types
  BY DEF Label, Types
<1> QED
  BY <1>1, NewFrame

LEMMA CommandStep ==
  ASSUME ParserInv, Command
  PROVE  StackInv'
<1>1. at = "parse"
  BY DEF Command, Parsing
<1>2. PICK S : StackOf(stack, S) /\ Top \in FrameOf(S) /\ Running(Top)
  BY <1>1, Parses
<1>3. \/ GoOn(Top, "compound", <<>>)
      \/ GoOn([Top EXCEPT !.words = <<Here>>], "word", <<>>)
      \/ GoOn([Typed("command", "cmd") EXCEPT !.redirs = <<Here>>], "target", <<>>)
  BY Zenon DEF Command
<1>4. "compound" \in Free /\ "word" \in Free
  BY DEF Free, Label
<1>5. CASE GoOn(Top, "compound", <<>>)
  BY <1>1, <1>4, <1>5, SameFrame
<1>6. CASE GoOn([Top EXCEPT !.words = <<Here>>], "word", <<>>)
  <2>1. [Top EXCEPT !.words = <<Here>>] \in FrameOf(S)
    BY <1>2, Positions, Positioned, Zenon
  <2> QED
    BY <1>1, <1>2, <1>4, <1>6, <2>1, GoesFreely
<1>7. CASE GoOn([Typed("command", "cmd") EXCEPT !.redirs = <<Here>>], "target", <<>>)
  <2>1. PICK e \in FrameOf(S) : e = Typed("command", "cmd") /\ e.type = "cmd"
    BY CommandFrame
  <2>2. PICK f : f = [e EXCEPT !.redirs = <<Here>>]
    OBVIOUS
  <2>3. f \in FrameOf(S) /\ f.type = "cmd"
    <3>1. PICK s \in Seq(Nat) : s = <<Here>>
      BY Positions
    <3>2. f = [e EXCEPT !.redirs = s]
      BY <2>2, <3>1
    <3>3. f \in FrameOf(S) /\ f.type = e.type
      BY <3>2, Positioned
    <3> QED
      BY <2>1, <3>3
  <2>4. Running([f EXCEPT !.at = "target"])
    BY <2>3, SimpleFits
  <2>5. GoOn(f, "target", <<>>) /\ "target" \in Label /\ S \subseteq S
    BY <1>7, <2>1, <2>2 DEF Label
  <2> QED
    BY <1>1, <1>2, <2>3, <2>4, <2>5, GoesAlone
<1> QED
  BY <1>3, <1>5, <1>6, <1>7

LEMMA IsFunctionStep ==
  ASSUME ParserInv, IsFunction
  PROVE  StackInv'
<1>1. at = "parse"
  BY DEF IsFunction, Parsing
<1>2. PICK S : StackOf(stack, S) /\ Top \in FrameOf(S) /\ Running(Top)
  BY <1>1, Parses
<1>3. \/ GoOn(Top, "func_open", <<>>)
      \/ GoOn([Typed("args", "cmd") EXCEPT !.assigns = Top.words], "args", <<>>)
      \/ GoOn([Typed("args", "cmd") EXCEPT !.words = Top.words], "args", <<>>)
  BY Zenon DEF IsFunction
<1>4. CASE GoOn(Top, "func_open", <<>>)
  <2>1. "func_open" \in Free
    BY DEF Free, Label
  <2> QED
    BY <1>1, <1>4, <2>1, SameFrame
<1>5. CASE \/ GoOn([Typed("args", "cmd") EXCEPT !.assigns = Top.words], "args", <<>>)
           \/ GoOn([Typed("args", "cmd") EXCEPT !.words = Top.words], "args", <<>>)
  <2>1. PICK e \in FrameOf(S) : e = Typed("args", "cmd") /\ e.type = "cmd"
    BY CommandFrame
  <2>2. Top.words \in Seq(Nat)
    BY <1>2 DEF FrameOf
  <2>3. PICK f : /\ GoOn(f, "args", <<>>)
                 /\ f = [e EXCEPT !.assigns = Top.words] \/ f = [e EXCEPT !.words = Top.words]
    BY <1>5, <2>1
  <2>4. f \in FrameOf(S) /\ f.type = "cmd"
    <3>1. f \in FrameOf(S) /\ f.type = e.type
      BY <2>2, <2>3, Positioned
    <3> QED
      BY <2>1, <3>1
  <2>5. Running([f EXCEPT !.at = "args"])
    BY <2>4, SimpleFits
  <2>6. "args" \in Label /\ S \subseteq S
    BY DEF Label
  <2> QED
    BY <1>1, <1>2, <2>3, <2>4, <2>5, <2>6, GoesAlone
<1> QED
  BY <1>3, <1>4, <1>5

LEMMA SimpleCommandStep ==
  ASSUME ParserInv, SimpleCommand
  PROVE  StackInv'
<1>1. at = "parse" /\ Top.at = "args"
  BY DEF SimpleCommand, Parsing
<1>2. PICK S : StackOf(stack, S) /\ Top \in FrameOf(S) /\ Running(Top)
  BY <1>1, Parses
<1>3. Top.type = "cmd"
  BY <1>1, <1>2 DEF Running, Simply
<1>4. \/ GoOn([Top EXCEPT !.assigns = Append(@, Here)], "args", <<>>)
      \/ GoOn([Top EXCEPT !.words = Append(@, Here)], "args", <<>>)
      \/ GoOn([Top EXCEPT !.redirs = Append(@, Here)], "target", <<>>)
      \/ \E tree : Return(tree)
  BY Zenon DEF SimpleCommand
<1>5. CASE \E tree : Return(tree)
  BY <1>1, <1>2, <1>5, Returns
<1>6. CASE \/ GoOn([Top EXCEPT !.assigns = Append(@, Here)], "args", <<>>)
           \/ GoOn([Top EXCEPT !.words = Append(@, Here)], "args", <<>>)
           \/ GoOn([Top EXCEPT !.redirs = Append(@, Here)], "target", <<>>)
  <2>1. PICK t \in FrameOf(S) : t = Top /\ t.type = "cmd"
    BY <1>2, <1>3
  <2>2. ASSUME NEW s \in Seq(Nat), NEW f, NEW l \in {"args", "target"}, GoOn(f, l, <<>>),
               f = [t EXCEPT !.words = s] \/ f = [t EXCEPT !.redirs = s] \/ f = [t EXCEPT !.assigns = s]
        PROVE  StackInv'
    <3>1. f \in FrameOf(S) /\ f.type = t.type
      BY <2>2, Positioned
    <3>2. l \in Label /\ S \subseteq S
      BY DEF Label
    <3>3. Running([f EXCEPT !.at = l])
      BY <2>1, <3>1, SimpleFits
    <3> QED
      BY <1>1, <1>2, <2>2, <3>1, <3>2, <3>3, GoesAlone
  <2>3. /\ Append(t.assigns, Here) \in Seq(Nat) /\ Append(t.words, Here) \in Seq(Nat)
        /\ Append(t.redirs, Here) \in Seq(Nat)
    BY MorePositions
  <2>4. "args" \in {"args", "target"} /\ "target" \in {"args", "target"}
    OBVIOUS
  <2>5. CASE GoOn([t EXCEPT !.assigns = Append(t.assigns, Here)], "args", <<>>)
    BY <2>2, <2>3, <2>4, <2>5, Zenon
  <2>6. CASE GoOn([t EXCEPT !.words = Append(t.words, Here)], "args", <<>>)
    BY <2>2, <2>3, <2>4, <2>6, Zenon
  <2>7. CASE GoOn([t EXCEPT !.redirs = Append(t.redirs, Here)], "target", <<>>)
    BY <2>2, <2>3, <2>4, <2>7, Zenon
  <2> QED
    BY <1>6, <2>1, <2>5, <2>6, <2>7
<1> QED
  BY <1>4, <1>5, <1>6

\* The target of a redirection leads back to where the redirection was.
LEMMA RedirTargetStep ==
  ASSUME ParserInv, RedirTarget
  PROVE  StackInv'
<1>1. at = "parse" /\ Top.at = "target"
  BY DEF RedirTarget, Parsing
<1>2. PICK S : StackOf(stack, S) /\ Top \in FrameOf(S) /\ Running(Top)
  BY <1>1, Parses
<1>3. CASE Top.type = "cmd"
  <2>1. GoOn(Top, "args", <<>>)
    BY <1>3 DEF RedirTarget
  <2>2. Running([Top EXCEPT !.at = "args"]) /\ "args" \in Label /\ S \subseteq S
    <3>1. "args" \in Label
      BY DEF Label
    <3> QED
      BY <1>2, <1>3, <3>1, SimpleFits
  <2> QED
    BY <1>1, <1>2, <2>1, <2>2, GoesAlone
<1>4. CASE Top.type # "cmd"
  <2>1. GoOn(Top, "redirs", <<>>) /\ "redirs" \in Label /\ S \subseteq S
    BY <1>4 DEF RedirTarget, Label
  <2>2. Len(Top.kids) \in Nat \ {0}
    <3>1. Wants(Top) = Nat \ {0}
      BY <1>1, <1>4, WantsOf
    <3> QED
      BY <1>2, <3>1 DEF Running
  <2>3. PICK g : g = [Top EXCEPT !.at = "redirs"]
    OBVIOUS
  <2>4. g.at = "redirs" /\ g.kids = Top.kids
    BY <1>2, <2>1, <2>3, Moved
  <2>5. Running(g)
    <3>1. Wants(g) = Nat \ {0} /\ g.at # "args"
      BY <2>4, WantsOf
    <3> QED
      BY <2>2, <2>4, <3>1 DEF Running, Simply
  <2> QED
    BY <1>1, <1>2, <2>1, <2>3, <2>5, GoesAlone
<1> QED
  BY <1>3, <1>4

LEMMA FunctionStep ==
  ASSUME ParserInv, FuncParentheses \/ FuncEnds
  PROVE  StackInv'
<1>1. at = "parse"
  BY DEF FuncParentheses, FuncEnds, Parsing
<1>2. PICK S : StackOf(stack, S) /\ Top \in FrameOf(S) /\ Running(Top)
  BY <1>1, Parses
<1>3. \/ GoOn(Top, "func_close", <<>>)
      \/ GoOn(Top, "func_body", <<Frame("compound")>>)
      \/ \E tree : Return(tree)
      \/ Fail
  BY Zenon DEF FuncParentheses, FuncEnds
<1>4. CASE GoOn(Top, "func_close", <<>>)
  <2>1. "func_close" \in Free
    BY DEF Free, Label
  <2> QED
    BY <1>1, <1>4, <2>1, SameFrame
<1>5. CASE GoOn(Top, "func_body", <<Frame("compound")>>)
  <2>1. "func_body" \in Label /\ "compound" \in Label /\ "compound" \in Free
    BY DEF Label, Free
  <2>2. PICK c \in FrameOf(S) : c = Frame("compound") /\ c.at = "compound"
    BY <2>1, Called
  <2>3. StackOf(<<c>>, S) /\ S \subseteq S
    BY <2>1, <2>2, FreeFits, OneFrame
  <2>4. PICK g : g = [Top EXCEPT !.at = "func_body"]
    OBVIOUS
  <2>5. g.at = "func_body" /\ g.kids = Top.kids
    BY <1>2, <2>1, <2>4, Moved
  <2>6. Len(Top.kids) \in Nat
    BY <1>2 DEF FrameOf
  <2>7. Waiting(g)
    <3>1. Wants(g) = Nat \ {0} /\ g.at # "args"
      BY <2>5, WantsOf
    <3> QED
      BY <2>5, <2>6, <3>1 DEF Waiting, Simply
  <2>8. GoOn(Top, "func_body", <<c>>)
    BY <1>5, <2>2
  <2> QED
    BY <1>1, <1>2, <2>1, <2>3, <2>4, <2>7, <2>8, GoesCalling
<1>6. CASE \E tree : Return(tree)
  BY <1>1, <1>2, <1>6, Returns
<1> QED
  BY <1>3, <1>4, <1>5, <1>6, Fails

\* A compound command starts with a frame that waits for a block, or with one that
\* takes a word.
LEMMA CompoundStep ==
  ASSUME ParserInv, Compound
  PROVE  StackInv'
<1>1. at = "parse"
  BY DEF Compound, Parsing
<1>2. PICK S : StackOf(stack, S) /\ Top \in FrameOf(S) /\ Running(Top)
  BY <1>1, Parses
<1>3. ASSUME NEW l \in {"then", "do", "paren", "brace"}, NEW y \in Types, NEW u \in SUBSET Kind
      PROVE  StackOf(<<Typed(l, y)>> \o Block(u), S)
  <2>1. l \in Label \ {"terminator", "args"}
    BY DEF Label
  <2>2. PICK f \in FrameOf(S) : f = Typed(l, y) /\ f.at = l /\ Len(f.kids) = 0
    BY <2>1, NewFrame
  <2>3. BelowOf(<<f>>, S)
    BY <2>1, <2>2, WaitingFrame, OneFrame
  <2>4. StackOf(<<f>> \o Block(u), S)
    BY <2>3, BlockCalled, Above
  <2> QED
    BY <2>2, <2>4
<1>4. ASSUME NEW l \in {"for_name", "case_word"}, NEW y \in Types
      PROVE  StackOf(<<Typed(l, y)>>, S)
  <2>1. l \in Label /\ l \in Free
    BY DEF Label, Free
  <2>2. PICK f \in FrameOf(S) : f = Typed(l, y) /\ f.at = l
    BY <2>1, NewFrame
  <2>3. StackOf(<<f>>, S)
    BY <2>1, <2>2, FreeFits, OneFrame
  <2> QED
    BY <2>2, <2>3
<1>5. PICK c : GoOn(Frame("redirs"), "redirs", c) /\ StackOf(c, S)
  <2>1. PICK k \in CompoundStart :
          GoOn(Frame("redirs"), "redirs",
               CASE k = "if" -> <<Typed("then", "if")>> \o Block({"then"})
                 [] k \in {"while", "until"} -> <<Typed("do", k)>> \o Block({"do"})
                 [] k = "for" -> <<Typed("for_name", "for")>>
                 [] k = "case" -> <<Typed("case_word", "case")>>
                 [] k = "(" -> <<Typed("paren", "subshell")>> \o Block({")"})
                 [] k = "{" -> <<Typed("brace", "group")>> \o Block({"}"}))
    BY DEF Compound
  <2> DEFINE Goes(c) == GoOn(Frame("redirs"), "redirs", c)
  <2>2. /\ k = "if" => Goes(<<Typed("then", "if")>> \o Block({"then"}))
        /\ k \in {"while", "until"} => Goes(<<Typed("do", k)>> \o Block({"do"}))
        /\ k = "for" => Goes(<<Typed("for_name", "for")>>)
        /\ k = "case" => Goes(<<Typed("case_word", "case")>>)
        /\ k = "(" => Goes(<<Typed("paren", "subshell")>> \o Block({")"}))
        /\ k = "{" => Goes(<<Typed("brace", "group")>> \o Block({"}"}))
    BY <2>1
  <2> HIDE DEF Goes
  <2>3. {"then"} \in SUBSET Kind /\ {"do"} \in SUBSET Kind /\ {")"} \in SUBSET Kind /\ {"}"} \in SUBSET Kind
    BY DEF Kind, Keyword
  <2>4. \A y \in {"if", "while", "until", "for", "case", "subshell", "group"} : y \in Types
    BY DEF Types
  <2>5. \/ k = "if" \/ k = "while" \/ k = "until" \/ k = "for" \/ k = "case" \/ k = "(" \/ k = "{"
    BY <2>1 DEF CompoundStart
  <2>6. \E c : Goes(c) /\ StackOf(c, S)
    <3>1. CASE k = "if"
      BY <1>3, <2>2, <2>3, <2>4, <3>1, Zenon
    <3>2. CASE k \in {"while", "until"}
      BY <1>3, <2>2, <2>3, <2>4, <3>2, Zenon
    <3>3. CASE k = "for"
      BY <1>4, <2>2, <2>4, <3>3, Zenon
    <3>4. CASE k = "case"
      BY <1>4, <2>2, <2>4, <3>4, Zenon
    <3>5. CASE k = "("
      BY <1>3, <2>2, <2>3, <2>4, <3>5, Zenon
    <3>6. CASE k = "{"
      BY <1>3, <2>2, <2>3, <2>4, <3>6, Zenon
    <3> QED
      BY <2>5, <3>1, <3>2, <3>3, <3>4, <3>5, <3>6
  <2> QED
    BY <2>6 DEF Goes
<1>6. "redirs" \in Label /\ S \subseteq S
  BY DEF Label
<1>7. PICK f \in FrameOf(S) : f = Frame("redirs") /\ f.at = "redirs" /\ Len(f.kids) = 0
  BY <1>6, Called
<1>8. PICK g : g = [f EXCEPT !.at = "redirs"]
  OBVIOUS
<1>9. g \in FrameOf(S) /\ g.at = "redirs" /\ Len(g.kids) = 0
  BY <1>6, <1>7, <1>8, Moved
<1>10. Waiting(g)
  BY <1>6, <1>9, WaitingFrame
<1>11. GoOn(f, "redirs", c)
  BY <1>5, <1>7
<1> QED
  BY <1>1, <1>2, <1>5, <1>6, <1>8, <1>10, <1>11, GoesCalling

LEMMA CompoundRedirsStep ==
  ASSUME ParserInv, CompoundRedirs
  PROVE  StackInv'
<1>1. at = "parse" /\ Top.at = "redirs"
  BY DEF CompoundRedirs, Parsing
<1>2. PICK S : StackOf(stack, S) /\ Top \in FrameOf(S) /\ Running(Top)
  BY <1>1, Parses
<1>3. CASE \E tree : Return(tree)
  BY <1>1, <1>2, <1>3, Returns
<1>4. CASE GoOn([Top EXCEPT !.redirs = Append(@, Here)], "target", <<>>)
  <2>1. PICK t \in FrameOf(S) : t = Top
    BY <1>2
  <2>2. PICK s \in Seq(Nat) : s = Append(t.redirs, Here)
    BY MorePositions
  <2>3. PICK f : f = [t EXCEPT !.redirs = s]
    OBVIOUS
  <2>4. f \in FrameOf(S) /\ f.kids = t.kids
    BY <2>3, Positioned
  <2>5. GoOn(f, "target", <<>>) /\ "target" \in Label /\ S \subseteq S
    BY <1>4, <2>1, <2>2, <2>3 DEF Label
  <2>6. PICK g : g = [f EXCEPT !.at = "target"]
    OBVIOUS
  <2>7. g.at = "target" /\ g.kids = t.kids
    BY <2>4, <2>5, <2>6, Moved
  <2>8. Len(t.kids) \in Nat \ {0}
    <3>1. Wants(Top) = Nat \ {0}
      BY <1>1, WantsOf
    <3> QED
      BY <1>2, <2>1, <3>1 DEF Running
  <2>9. Running(g)
    <3>1. Wants(g) = Nat \/ Wants(g) = Nat \ {0}
      BY <2>7, WantsOf, Zenon
    <3> QED
      BY <2>7, <2>8, <3>1 DEF Running, Simply
  <2> QED
    BY <1>1, <1>2, <2>4, <2>5, <2>6, <2>9, GoesAlone
<1> QED
  BY <1>3, <1>4, Zenon DEF CompoundRedirs

LEMMA ConditionStep ==
  ASSUME ParserInv, IfThen \/ IfElse \/ IfEnds \/ LoopDo \/ LoopEnds
  PROVE  StackInv'
<1>1. at = "parse"
  BY DEF IfThen, IfElse, IfEnds, LoopDo, LoopEnds, Parsing
<1>2. PICK S : StackOf(stack, S) /\ Top \in FrameOf(S) /\ Running(Top)
  BY <1>1, Parses
<1>3. \/ GoOn(Top, "elif", Block({"elif", "else", "fi"}))
      \/ GoOn(Top, "then", Block({"then"})) \/ GoOn(Top, "fi", Block({"fi"}))
      \/ GoOn(Top, "done", Block({"done"}))
      \/ GoOn(Top, "fi", <<>>)
      \/ \E tree : Return(tree)
  BY Zenon DEF IfThen, IfElse, IfEnds, LoopDo, LoopEnds
<1>4. /\ {"elif", "else", "fi"} \in SUBSET Kind /\ {"then"} \in SUBSET Kind
      /\ {"fi"} \in SUBSET Kind /\ {"done"} \in SUBSET Kind
  BY DEF Kind, Keyword
<1>5. CASE \/ GoOn(Top, "elif", Block({"elif", "else", "fi"}))
           \/ GoOn(Top, "then", Block({"then"})) \/ GoOn(Top, "fi", Block({"fi"}))
           \/ GoOn(Top, "done", Block({"done"}))
  BY <1>1, <1>4, <1>5, CallsBlock
<1>6. CASE GoOn(Top, "fi", <<>>)
  <2>1. "fi" \in Free
    BY DEF Free, Label
  <2> QED
    BY <1>1, <1>6, <2>1, SameFrame
<1>7. CASE \E tree : Return(tree)
  BY <1>1, <1>2, <1>7, Returns
<1> QED
  BY <1>3, <1>5, <1>6, <1>7

\* for and case keep the positions of their words.
LEMMA WithPositions ==
  ASSUME ParserInv, at = "parse", NEW s \in Seq(Nat), NEW l \in Free,
         \/ GoOn([Top EXCEPT !.words = s], l, <<>>)
         \/ GoOn([Top EXCEPT !.redirs = s], l, <<>>)
  PROVE  StackInv'
<1>1. PICK S : StackOf(stack, S) /\ Top \in FrameOf(S) /\ Running(Top)
  BY Parses
<1>2. PICK t \in FrameOf(S) : t = Top
  BY <1>1
<1>3. PICK f : GoOn(f, l, <<>>) /\ (f = [t EXCEPT !.words = s] \/ f = [t EXCEPT !.redirs = s])
  BY <1>2
<1>4. f \in FrameOf(S) /\ S \subseteq S
  BY <1>3, Positioned
<1> QED
  BY <1>1, <1>3, <1>4, GoesFreely

LEMMA TopPositions ==
  ASSUME ParserInv, at = "parse"
  PROVE  /\ <<Here>> \in Seq(Nat) /\ Append(Top.words, Here) \in Seq(Nat)
         /\ Append(Top.words, AllArguments) \in Seq(Nat) /\ Append(Top.redirs, Here) \in Seq(Nat)
<1>1. PICK S : StackOf(stack, S) /\ Top \in FrameOf(S) /\ Running(Top)
  BY Parses
<1> QED
  BY <1>1, MorePositions

LEMMA ForStep ==
  ASSUME ParserInv, ForName \/ ForIn \/ ForWords
  PROVE  StackInv'
<1>1. at = "parse"
  BY DEF ForName, ForIn, ForWords, Parsing
<1>2. \/ GoOn([Top EXCEPT !.words = <<Here>>], "for_in", <<>>)
      \/ GoOn([Top EXCEPT !.words = Append(@, AllArguments)], "do", <<>>)
      \/ GoOn([Top EXCEPT !.words = Append(@, Here)], "for_words", <<>>)
      \/ GoOn(Top, "for_words", <<>>) \/ GoOn(Top, "do", <<>>)
  BY Zenon DEF ForName, ForIn, ForWords
<1>3. "for_in" \in Free /\ "for_words" \in Free /\ "do" \in Free
  BY DEF Free, Label
<1> QED
  BY <1>1, <1>2, <1>3, TopPositions, WithPositions, SameFrame, Zenon

LEMMA PatternStep ==
  ASSUME ParserInv, CaseWord \/ CaseItem \/ CasePatterns
  PROVE  StackInv'
<1>1. at = "parse"
  BY DEF CaseWord, CaseItem, CasePatterns, Parsing
<1>2. \/ GoOn([Top EXCEPT !.words = <<Here>>], "in", <<>>)
      \/ GoOn([Top EXCEPT !.redirs = <<Here>>], "bar", <<>>)
      \/ GoOn([Top EXCEPT !.redirs = Append(@, Here)], "bar", <<>>)
      \/ GoOn(Top, "item", <<>>) \/ GoOn(Top, "pattern", <<>>) \/ GoOn(Top, "esac", <<>>)
      \/ GoOn(Top, "case_paren", <<>>) \/ GoOn(Top, "item_body", <<>>)
  BY Zenon DEF CaseWord, CaseItem, CasePatterns
<1>3. /\ "in" \in Free /\ "bar" \in Free /\ "item" \in Free /\ "pattern" \in Free
      /\ "esac" \in Free /\ "case_paren" \in Free /\ "item_body" \in Free
  BY DEF Free, Label
<1> QED
  BY <1>1, <1>2, <1>3, TopPositions, WithPositions, SameFrame, Zenon

\* The body that has just been parsed becomes an item, or an item without a body is
\* one more: a case keeps a frame of its type.
LEMMA WithItemIs ==
  ASSUME ParserInv, NEW S, Top \in FrameOf(S)
  PROVE  \E x : WithItem \in FrameOf(S \cup {x})
<1> DEFINE n == Len(Top.kids)
<1>1. PICK t \in FrameOf(S) : t = Top
  OBVIOUS
<1>2. t.kids \in Seq(S) /\ n = Len(t.kids) /\ n \in Nat /\ <<>> \in Seq(Nat)
  BY <1>1 DEF FrameOf
<1>3. ASSUME NEW x, NEW kids \in Seq(S \cup {x}), WithItem = [t EXCEPT !.kids = kids, !.redirs = <<>>]
      PROVE  WithItem \in FrameOf(S \cup {x})
  <2> DEFINE T == S \cup {x}
  <2>1. t \in FrameOf(T) /\ kids \in Seq(T)
    BY Wider
  <2> HIDE DEF T
  <2>2. WithItem \in FrameOf(T)
    BY <1>2, <1>3, <2>1 DEF FrameOf
  <2> QED
    BY <2>2 DEF T
<1>4. CASE n > 0 /\ t.kids[n].type # "item"
  <2>1. PICK x : x = Item(<<t.kids[n]>>)
    OBVIOUS
  <2>2. PICK kids : kids = [t.kids EXCEPT ![n] = x]
    OBVIOUS
  <2>3. WithItem = [t EXCEPT !.kids[n] = Item(<<@>>), !.redirs = <<>>]
    BY <1>1, <1>4 DEF WithItem
  <2>4. [t EXCEPT !.kids[n] = Item(<<@>>), !.redirs = <<>>] = [t EXCEPT !.kids = kids, !.redirs = <<>>]
    BY <2>1, <2>2
  <2>5. kids \in Seq(S \cup {x})
    <3> DEFINE T == S \cup {x}
    <3>1. t.kids \in Seq(T) /\ x \in T
      BY <1>2
    <3> HIDE DEF T
    <3>2. PICK q \in Seq(T), m \in Nat : q = t.kids /\ m = n
      BY <1>2, <3>1
    <3>3. kids = [q EXCEPT ![m] = x]
      BY <2>2, <3>2
    <3>4. kids \in Seq(T)
      <4>1. m \in 1..Len(q)
        BY <1>2, <1>4, <3>2
      <4> QED
        BY <3>1, <3>3, <4>1, ExceptSeq
    <3> QED
      BY <3>4 DEF T
  <2> QED
    BY <1>3, <2>3, <2>4, <2>5, Zenon
<1>5. CASE ~(n > 0 /\ t.kids[n].type # "item")
  <2>1. PICK x : x = Item(<<>>)
    OBVIOUS
  <2>2. WithItem = [t EXCEPT !.kids = Append(@, Item(<<>>)), !.redirs = <<>>]
    BY <1>1, <1>5 DEF WithItem
  <2>3. PICK kids : kids = Append(t.kids, x)
    OBVIOUS
  <2>4. WithItem = [t EXCEPT !.kids = kids, !.redirs = <<>>]
    BY <2>1, <2>2, <2>3
  <2>5. kids \in Seq(S \cup {x})
    <3> DEFINE T == S \cup {x}
    <3>1. t.kids \in Seq(T) /\ x \in T
      BY <1>2
    <3> HIDE DEF T
    <3>2. kids \in Seq(T)
      BY <2>3, <3>1, AppendProperties
    <3> QED
      BY <3>2 DEF T
  <2> QED
    BY <1>3, <2>4, <2>5, Zenon
<1> QED
  BY <1>4, <1>5

LEMMA CaseStep ==
  ASSUME ParserInv, CaseBody \/ CaseItemEnds \/ CaseEnds
  PROVE  StackInv'
<1>1. at = "parse"
  BY DEF CaseBody, CaseItemEnds, CaseEnds, Parsing
<1>2. PICK S : StackOf(stack, S) /\ Top \in FrameOf(S) /\ Running(Top)
  BY <1>1, Parses
<1>3. CASE CaseBody
  <2>1. GoOn(Top, "item_end", <<>>) \/ GoOn(Top, "item_end", Block({"esac", ";;"}))
    BY <1>3 DEF CaseBody
  <2>2. "item_end" \in Free /\ {"esac", ";;"} \in SUBSET Kind
    BY DEF Free, Label, Kind, Keyword
  <2> QED
    BY <1>1, <2>1, <2>2, SameFrame, CallsBlock
<1>4. CASE CaseItemEnds
  <2>1. PICK l \in {"item", "esac"} : GoOn(WithItem, l, <<>>)
    BY <1>4 DEF CaseItemEnds
  <2>2. PICK x : WithItem \in FrameOf(S \cup {x})
    BY <1>2, WithItemIs
  <2>3. l \in Free /\ S \subseteq S \cup {x}
    BY DEF Free, Label
  <2> QED
    BY <1>1, <1>2, <2>1, <2>2, <2>3, GoesFreely
<1>5. CASE CaseEnds
  BY <1>1, <1>2, <1>5, Returns DEF CaseEnds
<1> QED
  BY <1>3, <1>4, <1>5

LEMMA EndsStep ==
  ASSUME ParserInv, SubshellEnds \/ GroupEnds
  PROVE  StackInv'
<1>1. at = "parse" /\ \E tree : Return(tree)
  BY Zenon DEF SubshellEnds, GroupEnds, Parsing
<1>2. PICK S : StackOf(stack, S) /\ Top \in FrameOf(S) /\ Running(Top)
  BY <1>1, Parses
<1> QED
  BY <1>1, <1>2, Returns

LEMMA ParseStep ==
  ASSUME ParserInv, Parse
  PROVE  StackInv'
<1>1. CASE SkipNewline
  BY <1>1 DEF SkipNewline, ParserInv, StackInv
<1>2. CASE LexerFails \/ Unexpected
  BY <1>2, Fails DEF LexerFails, Unexpected
<1>3. CASE Lists
  BY <1>3, ListStep, LogicStep, BangStep, BarStep DEF Lists
<1>4. CASE Commands
  BY <1>4, CommandStep, IsFunctionStep, SimpleCommandStep, RedirTargetStep, FunctionStep DEF Commands
<1>5. CASE Compounds
  BY <1>5, CompoundStep, CompoundRedirsStep, ConditionStep, ForStep, PatternStep, CaseStep, EndsStep
     DEF Compounds, Conditionals
<1> QED
  BY <1>1, <1>2, <1>3, <1>4, <1>5 DEF Parse

\* interpret() has no frame of the parser between lines.
LEMMA InterpretStep ==
  ASSUME ParserInv, Interpret
  PROVE  StackInv'
<1>1. at \in At /\ (at # "parse" => stack = <<>>)
  BY DEF ParserInv, StackInv
<1>2. CASE StartLine
  <2>1. FALSE \in BOOLEAN /\ {} \in SUBSET Kind
    OBVIOUS
  <2>2. StackOf(List(FALSE, {}), {})
    BY <2>1, ListCalled
  <2> QED
    BY <1>2, <2>2, Fits DEF StartLine
<1>3. CASE ~StartLine
  <2>1. at # "parse"
    BY <1>3 DEF Interpret, BlankLine, EndOfInput, NullToken, Execute, DiscardToken,
       DiscardForever, SubstEnds, BacktickEnds
  <2>2. stack' = stack
    BY <1>3 DEF Interpret, BlankLine, EndOfInput, NullToken, Execute, DiscardToken,
       DiscardForever, SubstEnds, BacktickEnds
  <2>3. at' \in {at, "end", "crashed", "line", "expanded"}
    BY <1>3 DEF Interpret, BlankLine, EndOfInput, NullToken, Execute, DiscardToken,
       DiscardForever, SubstEnds, BacktickEnds, NextLine
  <2> QED
    BY <1>1, <2>1, <2>2, <2>3 DEF StackInv, At
<1> QED
  BY <1>2, <1>3

-----------------------------------------------------------------------------
(***************************************************************************)
(* Tokens: every step takes one, gives one back, or needs none.            *)
(***************************************************************************)
OneToken ==
  (\E k \in Kind : Take(k) \/ Peek(k)) \/ UNCHANGED <<input, read, putback, prompt>>

LEMMA Kinds ==
  /\ Words \subseteq Kind /\ PlainWord \subseteq Kind /\ Redirect \subseteq Kind
  /\ CompoundStart \subseteq Kind /\ Separator \subseteq Kind
  /\ \A k \in {"nl", ";", "&&", "||", "!", "|", "(", ")", "then", "elif", "else", "fi", "do", "done",
               "in", ";;", "esac", "}", "eof", Bad} : k \in Kind
  BY DEF Words, PlainWord, Redirect, CompoundStart, Separator, Kind, Keyword, Bad

\* what a step that goes on takes is not the end of the input
WholeToken ==
  (\E k \in Kind \ {"eof"} : Take(k)) \/ (\E k \in Kind : Peek(k)) \/ UNCHANGED <<input, read, putback, prompt>>

LEMMA NoEnds ==
  /\ "eof" \notin Words /\ "eof" \notin PlainWord /\ "eof" \notin Redirect
  /\ "eof" \notin CompoundStart /\ "eof" \notin Separator
  /\ \A k \in {"nl", ";", "&&", "||", "!", "|", "(", ")", "then", "elif", "else", "fi", "do", "done",
               "in", ";;", "esac", "}"} : k # "eof"
  BY DEF Words, PlainWord, Redirect, CompoundStart, Separator, Keyword

LEMMA ListTokens == Lists => WholeToken
<1>1. ListSeparator \/ ListEnds \/ ListTerminator => WholeToken
  BY Kinds, NoEnds DEF ListSeparator, ListEnds, ListTerminator, WholeToken
<1>2. LogicOperator \/ LogicEnds => WholeToken
  BY Kinds, NoEnds DEF LogicOperator, LogicEnds, WholeToken
<1>3. PipelineBang \/ PipelineBar \/ PipelineEnds => WholeToken
  BY Kinds, NoEnds DEF PipelineBang, PipelineBar, PipelineEnds, WholeToken
<1> QED
  BY <1>1, <1>2, <1>3 DEF Lists

LEMMA CommandTokens == Commands => WholeToken
<1>1. Command => WholeToken
  BY Kinds, NoEnds DEF Command, WholeToken
<1>2. IsFunction => WholeToken
  BY Kinds, NoEnds DEF IsFunction, WholeToken
<1>3. SimpleCommand => WholeToken
  BY Kinds, NoEnds DEF SimpleCommand, WholeToken
<1>4. RedirTarget \/ FuncParentheses \/ FuncEnds => WholeToken
  BY Kinds, NoEnds DEF RedirTarget, FuncParentheses, FuncEnds, WholeToken
<1> QED
  BY <1>1, <1>2, <1>3, <1>4 DEF Commands

LEMMA CompoundTokens == Compounds => WholeToken
<1>1. Compound \/ CompoundRedirs => WholeToken
  BY Kinds, NoEnds DEF Compound, CompoundRedirs, WholeToken
<1>2. IfThen \/ IfElse \/ IfEnds \/ LoopDo \/ LoopEnds => WholeToken
  BY Kinds, NoEnds DEF IfThen, IfElse, IfEnds, LoopDo, LoopEnds, WholeToken
<1>3. ForName \/ ForIn \/ ForWords => WholeToken
  BY Kinds, NoEnds DEF ForName, ForIn, ForWords, WholeToken
<1>4. CaseWord \/ CaseItem \/ CasePatterns => WholeToken
  BY Kinds, NoEnds DEF CaseWord, CaseItem, CasePatterns, WholeToken
<1>5. CaseBody \/ CaseItemEnds \/ CaseEnds \/ SubshellEnds \/ GroupEnds => WholeToken
  BY Kinds, NoEnds DEF CaseBody, CaseItemEnds, CaseEnds, SubshellEnds, GroupEnds, WholeToken
<1> QED
  BY <1>1, <1>2, <1>3, <1>4, <1>5 DEF Compounds, Conditionals

LEMMA ParseTokens == Parse => OneToken
<1>1. SkipNewline \/ LexerFails \/ Unexpected => OneToken
  BY Kinds DEF SkipNewline, LexerFails, Unexpected, OneToken
<1>2. WholeToken => OneToken
  BY DEF WholeToken, OneToken
<1> QED
  BY <1>1, <1>2, ListTokens, CommandTokens, CompoundTokens DEF Parse

LEMMA OneTokenKeeps ==
  ASSUME TokenInv, OneToken
  PROVE  TokenInv'
<1>1. CASE \E k \in Kind : Take(k) \/ Peek(k)
  BY <1>1, TokenRead
<1>2. CASE UNCHANGED <<input, read, putback, prompt>>
  BY <1>2 DEF TokenInv
<1> QED
  BY <1>1, <1>2 DEF OneToken

LEMMA TokenStep ==
  ASSUME ParserInv, Next
  PROVE  TokenInv'
<1>1. TokenInv
  BY DEF ParserInv
<1>2. CASE Parse
  BY <1>1, <1>2, ParseTokens, OneTokenKeeps
<1>3. CASE BlankLine \/ EndOfInput \/ NullToken \/ StartLine
  <2>1. OneToken
    BY <1>3, Kinds DEF BlankLine, EndOfInput, NullToken, StartLine, OneToken
  <2> QED
    BY <1>1, <2>1, OneTokenKeeps
<1>4. CASE Execute \/ DiscardForever \/ SubstEnds \/ BacktickEnds
  BY <1>1, <1>4 DEF Execute, DiscardForever, SubstEnds, BacktickEnds, NextLine, TokenInv
<1>5. CASE DiscardToken
  <2>1. PICK k \in {"nl", "word"} : read' = Append(read, k)
    BY <1>5 DEF DiscardToken
  <2>2. read' \in Seq(Kind)
    <3>1. k \in Kind /\ read \in Seq(Kind)
      BY <1>1 DEF TokenInv, Kind, PlainWord
    <3> QED
      BY <2>1, <3>1, AppendProperties
  <2>3. input' = input /\ putback' = 0 /\ (prompt' = prompt \/ prompt' = 1)
    BY <1>5 DEF DiscardToken, NextLine
  <2> QED
    BY <1>1, <2>2, <2>3 DEF TokenInv
<1> QED
  BY <1>2, <1>3, <1>4, <1>5 DEF Next, Interpret

LEMMA ParserInit == Init => ParserInv
<1> SUFFICES ASSUME Init PROVE ParserInv
  OBVIOUS
<1>1. input \in Input /\ read = <<>> /\ putback = 0 /\ prompt = 1
  BY DEF Init
<1>2. TokenInv
  BY <1>1 DEF TokenInv
<1>3. input.entry \in Entry
  BY <1>1, InputAssumption
<1>4. CASE input.entry \in Source
  <2>1. at = "line" /\ stack = <<>>
    BY <1>4 DEF Init, Source
  <2> QED
    BY <1>2, <2>1 DEF ParserInv, StackInv, At
<1>5. CASE input.entry \notin Source
  <2>1. PICK u \in SUBSET Kind : at = "parse" /\ stack = Block(u)
    <3>1. input.entry = "subst" \/ input.entry = "backtick"
      BY <1>3, <1>5 DEF Entry
    <3>2. {")"} \in SUBSET Kind /\ {} \in SUBSET Kind
      BY Kinds
    <3>3. at = "parse"
      BY <1>5 DEF Init
    <3>4. CASE input.entry = "subst"
      BY <3>2, <3>3, <3>4 DEF Init
    <3>5. CASE input.entry = "backtick"
      BY <3>2, <3>3, <3>5 DEF Init
    <3> QED
      BY <3>1, <3>4, <3>5
  <2>2. StackOf(stack, {})
    BY <2>1, BlockCalled
  <2> QED
    BY <1>2, <2>1, <2>2 DEF ParserInv, StackInv, At
<1> QED
  BY <1>4, <1>5

LEMMA ParserStep == ParserInv /\ [Next]_vars => ParserInv'
<1>1. ASSUME ParserInv, Next PROVE ParserInv'
  BY <1>1, ParseStep, InterpretStep, TokenStep DEF Next, ParserInv
<1>2. ASSUME ParserInv, UNCHANGED vars PROVE ParserInv'
  BY <1>2 DEF vars, ParserInv, TokenInv, StackInv
<1> QED
  BY <1>1, <1>2

LEMMA Typing == ParserInv => TypeOK
<1> SUFFICES ASSUME ParserInv PROVE TypeOK
  OBVIOUS
<1>1. TokenInv /\ StackInv
  BY DEF ParserInv
<1>2. at = "parse" <=> stack # <<>>
  BY <1>1 DEF StackInv, StackOf
<1>3. ASSUME NEW i \in DOMAIN stack
      PROVE  /\ stack[i].at \in Label /\ stack[i].until \subseteq Kind
             /\ i = Len(stack) => Len(stack[i].kids) \in Kids(stack[i].at)
  <2>1. stack # <<>>
    BY <1>3
  <2>2. PICK S : StackOf(stack, S)
    BY <1>1, <1>2, <2>1 DEF StackInv
  <2>3. PICK f \in FrameOf(S) : f = stack[i]
    BY <2>2 DEF StackOf
  <2>4. f.at \in Label /\ f.until \subseteq Kind
    BY DEF FrameOf
  <2>5. ASSUME i = Len(stack) PROVE Len(f.kids) \in Kids(f.at)
    <3>1. Len(f.kids) \in Wants(f) /\ Len(f.kids) \in Nat
      BY <2>2, <2>3, <2>5 DEF StackOf, Running, FrameOf
    <3>2. Wants(f) \cap Nat \subseteq Kids(f.at)
      BY DEF Wants, Kids
    <3> QED
      BY <3>1, <3>2
  <2> QED
    BY <2>3, <2>4, <2>5
<1> QED
  BY <1>1, <1>2, <1>3 DEF TypeOK, TokenInv, StackInv, At

LEMMA ParserInvHolds == Spec => []ParserInv
  BY ParserInit, ParserStep, PTL DEF Spec

\* Whatever is read, every function of the parser that goes on has the trees it will
\* use: a list never has three parts, a loop, an if or a group never returns without
\* its block, and the functions are left exactly when a line has been parsed.
THEOREM TypeCorrect == Spec => []TypeOK
  BY ParserInvHolds, Typing, PTL

-----------------------------------------------------------------------------
(***************************************************************************)
(* The prompt.  It is only the first one for as long as the first token of *)
(* a command has not been looked at.  That token has been put back and is  *)
(* no newline, as parse_line has skipped those, or a ! is in front of it.  *)
(***************************************************************************)
PromptInv ==
  input.entry = "terminal" /\ at = "parse" /\ prompt = 1 =>
    \/ Top.at \in {"bang", "command"} /\ putback # 0 /\ read[Len(read)] # "nl"
    \/ Top.at = "command" /\ \E i \in DOMAIN stack : stack[i].at = "negate"

LEMMA StackOfParse == Parse => at = "parse"
<1>1. SkipNewline \/ LexerFails \/ Unexpected => at = "parse"
  BY DEF SkipNewline, LexerFails, Unexpected
<1>2. Lists => at = "parse"
  BY DEF Lists, ListSeparator, ListEnds, ListTerminator, LogicOperator, LogicEnds, PipelineBang,
     PipelineBar, PipelineEnds, Parsing
<1>3. Commands => at = "parse"
  BY DEF Commands, Command, IsFunction, SimpleCommand, RedirTarget, FuncParentheses, FuncEnds, Parsing
<1>4. Compounds => at = "parse"
  BY DEF Compounds, Conditionals, Compound, CompoundRedirs, IfThen, IfElse, IfEnds, CaseWord, CaseItem,
     CasePatterns, CaseBody, CaseItemEnds, CaseEnds, LoopDo, LoopEnds, ForName, ForIn, ForWords,
     SubshellEnds, GroupEnds, Parsing
<1> QED
  BY <1>1, <1>2, <1>3, <1>4 DEF Parse

LEMMA OtherLabels ==
  ASSUME Parse, ~(SkipNewline \/ LexerFails \/ Unexpected \/ PipelineBang \/ Command)
  PROVE  Top.at \notin {"bang", "command"}
<1>1. Lists /\ ~PipelineBang => Top.at \notin {"bang", "command"}
  BY DEF Lists, ListSeparator, ListEnds, ListTerminator, LogicOperator, LogicEnds,
     PipelineBar, PipelineEnds, Parsing
<1>2. Commands /\ ~Command => Top.at \notin {"bang", "command"}
  BY DEF Commands, IsFunction, SimpleCommand, RedirTarget, FuncParentheses, FuncEnds, Parsing
<1>3. Compounds => Top.at \notin {"bang", "command"}
  BY DEF Compounds, Conditionals, Compound, CompoundRedirs, IfThen, IfElse, IfEnds, CaseWord, CaseItem,
     CasePatterns, CaseBody, CaseItemEnds, CaseEnds, LoopDo, LoopEnds, ForName, ForIn, ForWords,
     SubshellEnds, GroupEnds, Parsing
<1> QED
  BY <1>1, <1>2, <1>3 DEF Parse

\* Only two kinds of frame can be the running one while the prompt is the first.
LEMMA PromptStep ==
  ASSUME ParserInv, PromptInv, Next
  PROVE  PromptInv'
<1>1. TokenInv /\ StackInv
  BY DEF ParserInv
<1> SUFFICES ASSUME input'.entry = "terminal", at' = "parse", prompt' = 1
             PROVE  \/ Top'.at \in {"bang", "command"} /\ putback' # 0 /\ read'[Len(read')] # "nl"
                    \/ Top'.at = "command" /\ \E i \in DOMAIN stack' : stack'[i].at = "negate"
  BY DEF PromptInv
<1>2. CASE StartLine
  <2>1. PICK k \in Kind \ {"nl", "eof"} : Peek(k)
    BY <1>2 DEF StartLine
  <2>2. putback' # 0 /\ read'[Len(read')] = k
    BY <1>1, <2>1, TokenRead
  <2>3. TopOf(List(FALSE, {})).at = "bang"
    <3>1. FALSE \in BOOLEAN /\ {} \in SUBSET Kind
      OBVIOUS
    <3> QED
      BY <3>1, ListCalled
  <2>4. Top'.at = "bang"
    BY <1>2, <2>3 DEF StartLine, Top, TopOf
  <2> QED
    BY <2>1, <2>2, <2>4
<1>3. CASE Interpret /\ ~StartLine
  <2>1. at # "parse"
    BY <1>3 DEF Interpret, BlankLine, EndOfInput, NullToken, Execute, DiscardToken,
       DiscardForever, SubstEnds, BacktickEnds
  <2>2. at' # "parse"
    BY <1>3, <2>1 DEF Interpret, BlankLine, EndOfInput, NullToken, Execute, DiscardToken,
       DiscardForever, SubstEnds, BacktickEnds, NextLine
  <2> QED
    BY <2>2
<1>4. CASE Parse
  <2>1. at = "parse"
    BY <1>4, StackOfParse
  <2>2. input' = input /\ prompt = 1
    <3>1. OneToken /\ prompt \in 1..2
      BY <1>1, <1>4, ParseTokens DEF TokenInv
    <3>2. input' = input /\ prompt' \in {prompt, 2}
      BY <3>1 DEF OneToken, Take, Peek, Prompt
    <3> QED
      BY <3>1, <3>2
  <2>3. \/ Top.at \in {"bang", "command"} /\ putback # 0 /\ read[Len(read)] # "nl"
        \/ Top.at = "command" /\ \E i \in DOMAIN stack : stack[i].at = "negate"
    BY <2>1, <2>2 DEF PromptInv
  <2>4. Top.at \in {"bang", "command"}
    BY <2>3
  <2>5. ASSUME Top.at = "command", NEW k \in Kind, Take(k) \/ Peek(k)
        PROVE  k \in {"nl", Bad}
    BY <2>1, <2>5 DEF Take, Peek, Prompt
  <2>6. CASE SkipNewline
    <3>1. Top.at = "command" /\ stack' = stack
      BY <2>4, <2>6 DEF SkipNewline, SkipsNewlines
    <3>2. Take("nl") /\ "nl" \in Kind
      BY <2>6, Kinds DEF SkipNewline
    <3>3. read[Len(read)] = "nl" \/ putback = 0
      BY <3>2 DEF Take, Next_token
    <3> QED
      BY <2>3, <3>1, <3>3 DEF Top
  <2>7. CASE LexerFails \/ Unexpected
    BY <2>7 DEF LexerFails, Unexpected, Fail
  <2>8. CASE PipelineBang
    <3>1. /\ Top'.at = "command"
          /\ \/ \E i \in DOMAIN stack' : stack'[i].at = "negate"
             \/ \E k \in Kind \ {"!"} : Peek(k)
      BY <2>8, BangStep
    <3>2. ASSUME NEW k \in Kind, Peek(k) PROVE putback' # 0 /\ read'[Len(read')] # "nl"
      <4>1. Top.at = "bang"
        BY <2>8 DEF PipelineBang, Parsing
      <4>2. putback # 0 /\ read[Len(read)] # "nl"
        BY <2>3, <4>1
      <4>3. k = read[Len(read)]
        BY <3>2, <4>2 DEF Peek, Next_token
      <4>4. putback' # 0 /\ read'[Len(read')] = k
        BY <1>1, <3>2, TokenRead
      <4> QED
        BY <4>2, <4>3, <4>4
    <3> QED
      BY <3>1, <3>2
  <2>9. CASE Command
    <3>1. Top.at = "command"
      BY <2>9 DEF Command, Parsing
    <3>2. \E k \in CompoundStart \cup PlainWord \cup Redirect : Take(k) \/ Peek(k)
      BY <2>9 DEF Command
    <3>3. \A k \in CompoundStart \cup PlainWord \cup Redirect : k \in Kind /\ k \notin {"nl", Bad}
      BY DEF CompoundStart, PlainWord, Redirect, Kind, Keyword, Bad
    <3> QED
      BY <2>5, <3>1, <3>2, <3>3
  <2>10. CASE ~(SkipNewline \/ LexerFails \/ Unexpected \/ PipelineBang \/ Command)
    <3>1. Top.at \notin {"bang", "command"}
      BY <1>4, <2>10, OtherLabels
    <3> QED
      BY <2>4, <3>1
  <2> QED
    BY <2>6, <2>7, <2>8, <2>9, <2>10
<1> QED
  BY <1>2, <1>3, <1>4 DEF Next

\* Whoever types is asked with the second prompt for the rest of what the first
\* token has begun: for any input and however deep the constructs nest.
THEOREM RestAskedFor == Spec => []AsksForTheRest
<1>1. Init => PromptInv
  <2> SUFFICES ASSUME Init, input.entry = "terminal" PROVE at # "parse"
    BY DEF PromptInv
  <2> QED
    BY DEF Init, Source
<1>2. ParserInv /\ PromptInv /\ [Next]_vars => PromptInv'
  <2>1. ASSUME PromptInv, UNCHANGED vars PROVE PromptInv'
    BY <2>1 DEF vars, PromptInv, Top
  <2> QED
    BY <2>1, PromptStep
<1>3. ParserInv /\ PromptInv => AsksForTheRest
  BY DEF ParserInv, TokenInv, PromptInv, AsksForTheRest
<1> QED
  BY <1>1, <1>2, <1>3, ParserInvHolds, PTL DEF Spec

-----------------------------------------------------------------------------
(***************************************************************************)
(* The grammar: what stands for a stretch of tokens still does when more   *)
(* tokens follow, and when more is known of the parts.                     *)
(***************************************************************************)
Tok(s, i, K) == i \in DOMAIN s /\ s[i] \in K
Nls(s, i, j) == i <= j /\ j <= Len(s) + 1 /\ \A m \in i..(j - 1) : Tok(s, m, {"nl"})
Prefix(s, t) ==
  /\ s \in Seq(Kind) /\ t \in Seq(Kind) /\ Len(s) <= Len(t)
  /\ \A m \in DOMAIN s : m \in DOMAIN t /\ t[m] = s[m]
Grows(D, E, K) == \A k \in K : \A i \in Nat : D[k][i] \subseteq E[k][i]
KidsOf(n) == {n.kids[m] : m \in DOMAIN n.kids}
Numbered(n) == n.words \in Seq(Nat) /\ n.assigns \in Seq(Nat) /\ n.redirs \in Seq(Nat)

LEMMA PrefixSelf == ASSUME NEW s \in Seq(Kind) PROVE Prefix(s, s)
  BY DEF Prefix

LEMMA TokenGrows ==
  ASSUME NEW s, NEW t, Prefix(s, t), NEW K, NEW I, NEW J, I \subseteq J
  PROVE  Token(s, K, I) \subseteq Token(t, K, J)
  BY DEF Token, Prefix

LEMMA BreaksGrow ==
  ASSUME NEW s, NEW t, Prefix(s, t), NEW I, NEW J, I \subseteq J
  PROVE  Breaks(s, I) \subseteq Breaks(t, J)
<1>1. Len(s) \in Nat /\ Len(t) \in Nat /\ Len(s) <= Len(t) /\ \A m \in DOMAIN s : m \in DOMAIN t /\ t[m] = s[m]
  BY DEF Prefix
<1> SUFFICES ASSUME NEW j \in Breaks(s, I) PROVE j \in Breaks(t, J)
  OBVIOUS
<1>2. PICK i \in I \cap Nat : j \in i..(Len(s) + 1) /\ \A m \in i..(j - 1) : m \in DOMAIN s /\ s[m] = "nl"
  BY DEF Breaks
<1>3. i \in J \cap Nat /\ j \in i..(Len(t) + 1) /\ \A m \in i..(j - 1) : m \in DOMAIN t /\ t[m] = "nl"
  BY <1>1, <1>2
<1> QED BY <1>3 DEF Breaks

LEMMA WordEndsGrow ==
  ASSUME NEW s, NEW t, Prefix(s, t), NEW n, NEW a, NEW I, NEW J, I \subseteq J
  PROVE  WordEnds(s, n, a, I) \subseteq WordEnds(t, n, a, J)
<1>1. \A m \in DOMAIN s : m \in DOMAIN t /\ t[m] = s[m]
  BY DEF Prefix
<1> QED BY <1>1, Zenon DEF WordEnds

LEMMA RedirEndsGrow ==
  ASSUME NEW s, NEW t, Prefix(s, t), NEW n, NEW I, NEW J, I \subseteq J
  PROVE  RedirEnds(s, n, I) \subseteq RedirEnds(t, n, J)
<1>1. \A m \in DOMAIN s : m \in DOMAIN t /\ t[m] = s[m]
  BY DEF Prefix
<1> QED BY <1>1, Zenon DEF RedirEnds

LEMMA SimpleEndsGrow ==
  ASSUME NEW s, NEW t, Prefix(s, t), NEW n, Numbered(n), NEW I, NEW J, I \subseteq J
  PROVE  SimpleEnds(s, n, I) \subseteq SimpleEnds(t, n, J)
<1>1. \A m \in DOMAIN s : m \in DOMAIN t /\ t[m] = s[m]
  BY DEF Prefix
<1>2. DOMAIN s = 1..Len(s) /\ Len(s) \in Nat
  BY DEF Prefix
<1>3. Size(n) \in Nat
  <2>1. PICK a \in Nat, b \in Nat, c \in Nat : Len(n.words) = a /\ Len(n.assigns) = b /\ Len(n.redirs) = c
    BY DEF Numbered
  <2>2. Size(n) = a + b + 2 * c
    BY <2>1, Zenon DEF Size
  <2> QED BY <2>2
<1>4. ASSUME NEW i \in I \cap DOMAIN s, i + Size(n) - 1 \in DOMAIN s, IsSimple(s, n, i)
      PROVE  IsSimple(t, n, i)
  <2>1. Size(n) > 0 /\ Covered(n) = i..(i + Size(n) - 1)
    BY <1>4 DEF IsSimple
  <2>2. Covered(n) \subseteq DOMAIN s
    BY <1>2, <1>3, <1>4, <2>1
  <2>3. /\ \A m \in DOMAIN n.redirs : t[n.redirs[m]] = s[n.redirs[m]] /\ t[n.redirs[m] + 1] = s[n.redirs[m] + 1]
        /\ \A m \in DOMAIN n.assigns : t[n.assigns[m]] = s[n.assigns[m]]
        /\ \A m \in DOMAIN n.words : n.words[m] \in DOMAIN s /\ t[n.words[m]] = s[n.words[m]]
    BY <1>1, <2>2 DEF Covered
  <2>4. t[i] = s[i]
    BY <1>1, <1>4
  <2>5. i + Len(n.assigns) \in {n.words[m] : m \in DOMAIN n.words} => t[i + Len(n.assigns)] = s[i + Len(n.assigns)]
    BY <1>1, <2>3
  <2>6. /\ InOrder(n.words) /\ InOrder(n.assigns) /\ InOrder(n.redirs)
        /\ \A m \in DOMAIN n.redirs : s[n.redirs[m]] \in RedirKind /\ s[n.redirs[m] + 1] \in WordKind
        /\ \A m \in DOMAIN n.assigns : s[n.assigns[m]] = "assign" /\ n.assigns[m] = i + m - 1
        /\ \A m \in DOMAIN n.words : s[n.words[m]] \in WordKind
        /\ i + Len(n.assigns) \in {n.words[m] : m \in DOMAIN n.words} => s[i + Len(n.assigns)] # "assign"
        /\ s[i] \notin Reserved
    BY <1>4, Zenon DEF IsSimple
  <2>7. /\ \A m \in DOMAIN n.redirs : t[n.redirs[m]] \in RedirKind /\ t[n.redirs[m] + 1] \in WordKind
        /\ \A m \in DOMAIN n.assigns : t[n.assigns[m]] = "assign" /\ n.assigns[m] = i + m - 1
        /\ \A m \in DOMAIN n.words : t[n.words[m]] \in WordKind
    BY <2>3, <2>6, Zenon
  <2>8. i + Len(n.assigns) \in {n.words[m] : m \in DOMAIN n.words} => t[i + Len(n.assigns)] # "assign"
    BY <2>5, <2>6, Zenon
  <2>9. t[i] \notin Reserved
    BY <2>4, <2>6, Zenon
  <2> QED BY <2>1, <2>6, <2>7, <2>8, <2>9, Zenon DEF IsSimple
<1>5. ASSUME NEW i \in I \cap DOMAIN s, i + Size(n) - 1 \in DOMAIN s, IsSimple(s, n, i)
      PROVE  i \in J \cap DOMAIN t /\ i + Size(n) - 1 \in DOMAIN t /\ IsSimple(t, n, i)
  BY <1>1, <1>4, <1>5
<1> QED BY <1>5, Zenon DEF SimpleEnds

LEMMA EndsGrow ==
  ASSUME NEW s, NEW t, Prefix(s, t), NEW D, NEW E, NEW n, Grows(D, E, {n}), NEW I, NEW J, I \subseteq J
  PROVE  Ends(D, s, n, I) \subseteq Ends(E, t, n, J)
<1> DEFINE Bare(d, X) == UNION {d[n][i] : i \in X \cap Nat}
           From(u, X) == {i \in X \cap DOMAIN u : u[i] = "if"}
<1>1. ASSUME NEW X, NEW Y, X \subseteq Y PROVE Bare(D, X) \subseteq Bare(E, Y)
  BY <1>1 DEF Grows
<1>2. From(s, I) \subseteq From(t, J)
  BY DEF Prefix
<1>3. /\ Ends(D, s, n, I) = IF n.type = "if" THEN RedirEnds(s, n, Token(s, {"fi"}, Bare(D, From(s, I))))
                            ELSE IF n.type \in BareType THEN RedirEnds(s, n, Bare(D, I)) ELSE Bare(D, I)
      /\ Ends(E, t, n, J) = IF n.type = "if" THEN RedirEnds(t, n, Token(t, {"fi"}, Bare(E, From(t, J))))
                            ELSE IF n.type \in BareType THEN RedirEnds(t, n, Bare(E, J)) ELSE Bare(E, J)
  BY Zenon DEF Ends
<1> HIDE DEF Bare, From
<1>4. RedirEnds(s, n, Token(s, {"fi"}, Bare(D, From(s, I)))) \subseteq RedirEnds(t, n, Token(t, {"fi"}, Bare(E, From(t, J))))
  <2>1. Bare(D, From(s, I)) \subseteq Bare(E, From(t, J))
    BY <1>1, <1>2
  <2>2. Token(s, {"fi"}, Bare(D, From(s, I))) \subseteq Token(t, {"fi"}, Bare(E, From(t, J)))
    BY <2>1, TokenGrows
  <2> QED BY <2>2, RedirEndsGrow
<1>5. Bare(D, I) \subseteq Bare(E, J) /\ RedirEnds(s, n, Bare(D, I)) \subseteq RedirEnds(t, n, Bare(E, J))
  BY <1>1, RedirEndsGrow
<1> QED BY <1>3, <1>4, <1>5, Zenon

LEMMA BodyGrows ==
  ASSUME NEW s, NEW t, Prefix(s, t), NEW D, NEW E, NEW n, Grows(D, E, {n}), NEW I, NEW J, I \subseteq J
  PROVE  Body(D, s, n, I) \subseteq Body(E, t, n, J)
<1>1. PICK A : A = Ends(D, s, n, Breaks(s, I))
  OBVIOUS
<1>2. PICK B : B = Ends(E, t, n, Breaks(t, J))
  OBVIOUS
<1>3. A \subseteq B
  BY <1>1, <1>2, BreaksGrow, EndsGrow
<1>4. Token(s, {";"}, A) \subseteq Token(t, {";"}, B)
  BY <1>3, TokenGrows
<1>5. PICK X : X = A \cup IF EndsInBackground(n) THEN {} ELSE Token(s, {";"}, A)
  OBVIOUS
<1>6. PICK Y : Y = B \cup IF EndsInBackground(n) THEN {} ELSE Token(t, {";"}, B)
  OBVIOUS
<1>7. X \subseteq Y
  BY <1>3, <1>4, <1>5, <1>6
<1>8. Breaks(s, X) \subseteq Breaks(t, Y)
  BY <1>7, BreaksGrow
<1> QED BY <1>1, <1>2, <1>5, <1>6, <1>8, Zenon DEF Body

LEMMA ItemEndsGrow ==
  ASSUME NEW s, NEW t, Prefix(s, t), NEW D, NEW E, NEW n, Grows(D, E, KidsOf(n)),
         n.kids # <<>> => 1 \in DOMAIN n.kids, NEW I, NEW J, I \subseteq J
  PROVE  ItemEnds(D, s, n, I) \subseteq ItemEnds(E, t, n, J)
<1> DEFINE Good(u, i) == \A m \in DOMAIN n.words :
             /\ n.words[m] = i + 2 * (m - 1)
             /\ n.words[m] \in DOMAIN u /\ u[n.words[m]] \in WordKind
             /\ m < Len(n.words) => n.words[m] + 1 \in DOMAIN u /\ u[n.words[m] + 1] = "|"
           Bars(u, X) == {i \in X \cup Token(u, {"("}, X) : Good(u, i)}
           Behind(u, X) == {i + 2 * Len(n.words) - 1 : i \in Bars(u, X)}
           Front(u, X) == Breaks(u, Token(u, {")"}, Behind(u, X)))
<1>1. \A i : Good(s, i) => Good(t, i)
  <2>1. \A m \in DOMAIN s : m \in DOMAIN t /\ t[m] = s[m]
    BY DEF Prefix
  <2> QED BY <2>1, Zenon
<1>2. /\ ItemEnds(D, s, n, I) = IF n.kids = <<>> THEN Front(s, I) ELSE Body(D, s, n.kids[1], Front(s, I))
      /\ ItemEnds(E, t, n, J) = IF n.kids = <<>> THEN Front(t, J) ELSE Body(E, t, n.kids[1], Front(t, J))
  BY Zenon DEF ItemEnds
<1>3. Behind(s, I) \subseteq Behind(t, J)
  <2>1. I \cup Token(s, {"("}, I) \subseteq J \cup Token(t, {"("}, J)
    BY TokenGrows
  <2> HIDE DEF Good
  <2>2. Bars(s, I) \subseteq Bars(t, J)
    BY <1>1, <2>1
  <2> HIDE DEF Bars
  <2> QED BY <2>2
<1> HIDE DEF Good, Bars, Behind
<1>4. Front(s, I) \subseteq Front(t, J)
  <2>1. Token(s, {")"}, Behind(s, I)) \subseteq Token(t, {")"}, Behind(t, J))
    BY <1>3, TokenGrows
  <2> QED BY <2>1, BreaksGrow
<1> HIDE DEF Front
<1>5. n.kids # <<>> => Body(D, s, n.kids[1], Front(s, I)) \subseteq Body(E, t, n.kids[1], Front(t, J))
  <2> SUFFICES ASSUME n.kids # <<>> PROVE Body(D, s, n.kids[1], Front(s, I)) \subseteq Body(E, t, n.kids[1], Front(t, J))
    OBVIOUS
  <2>1. Grows(D, E, {n.kids[1]})
    BY DEF Grows, KidsOf
  <2> QED BY <1>4, <2>1, BodyGrows
<1> QED BY <1>2, <1>4, <1>5, Zenon

LEMMA ItemsGrow ==
  ASSUME NEW s, NEW t, Prefix(s, t), NEW D, NEW E, NEW n, Grows(D, E, KidsOf(n)),
         DOMAIN n.kids = 1..Len(n.kids), Len(n.kids) \in Nat, NEW I, NEW J, I \subseteq J
  PROVE  Items(D, s, n, I) \subseteq Items(E, t, n, J)
<1> DEFINE item(m) == n.kids[m]
           starts(u, m) == {item(m).words[1] - 1, item(m).words[1]} \cap DOMAIN u
           ends(d, u, m) == UNION {d[item(m)][i] : i \in starts(u, m)}
           next(d, u, m) == Breaks(u, Token(u, {";;"}, ends(d, u, m)))
           last == Len(n.kids)
           Linked(d, u, X) ==
              /\ \A m \in 1..last : item(m).type = "item" /\ item(m).words # <<>>
              /\ starts(u, 1) \cap Breaks(u, X) # {}
              /\ \A m \in 1..(last - 1) : starts(u, m + 1) \cap next(d, u, m) # {}
<1>1. /\ Items(D, s, n, I) = IF last = 0 THEN Breaks(s, I)
                             ELSE IF Linked(D, s, I) THEN next(D, s, last) \cup ends(D, s, last) ELSE {}
      /\ Items(E, t, n, J) = IF last = 0 THEN Breaks(t, J)
                             ELSE IF Linked(E, t, J) THEN next(E, t, last) \cup ends(E, t, last) ELSE {}
  BY Zenon DEF Items
<1>2. \A m \in 1..last : starts(s, m) \subseteq starts(t, m)
  BY DEF Prefix
<1>3. DOMAIN s \subseteq Nat
  BY DEF Prefix
<1>4. \A m \in 1..last : ends(D, s, m) \subseteq ends(E, t, m)
  <2> SUFFICES ASSUME NEW m \in 1..last, NEW j, NEW i \in starts(s, m), j \in D[item(m)][i]
               PROVE  j \in ends(E, t, m)
    OBVIOUS
  <2>1. i \in Nat /\ i \in starts(t, m)
    BY <1>2, <1>3
  <2>2. item(m) \in KidsOf(n)
    BY DEF KidsOf
  <2>3. j \in E[item(m)][i]
    BY <2>1, <2>2 DEF Grows
  <2> QED BY <2>1, <2>3
<1> HIDE DEF ends, starts
<1>5. \A m \in 1..last : next(D, s, m) \subseteq next(E, t, m)
  <2> SUFFICES ASSUME NEW m \in 1..last PROVE next(D, s, m) \subseteq next(E, t, m)
    OBVIOUS
  <2>1. PICK X, Y : X = Token(s, {";;"}, ends(D, s, m)) /\ Y = Token(t, {";;"}, ends(E, t, m))
    OBVIOUS
  <2>2. X \subseteq Y
    BY <1>4, <2>1, TokenGrows
  <2>3. Breaks(s, X) \subseteq Breaks(t, Y)
    BY <2>2, BreaksGrow
  <2> QED BY <2>1, <2>3, Zenon
<1>6. Breaks(s, I) \subseteq Breaks(t, J)
  BY BreaksGrow
<1> HIDE DEF next
<1>7. last # 0 /\ Linked(D, s, I) => Linked(E, t, J)
  <2> SUFFICES ASSUME last # 0, Linked(D, s, I) PROVE Linked(E, t, J)
    OBVIOUS
  <2>1. 1 \in 1..last /\ \A m \in 1..(last - 1) : m \in 1..last /\ m + 1 \in 1..last
    OBVIOUS
  <2>2. starts(t, 1) \cap Breaks(t, J) # {}
    BY <1>2, <1>6, <2>1
  <2>3. ASSUME NEW m \in 1..(last - 1) PROVE starts(t, m + 1) \cap next(E, t, m) # {}
    <3>1. starts(s, m + 1) \subseteq starts(t, m + 1) /\ next(D, s, m) \subseteq next(E, t, m)
      BY <1>2, <1>5, <2>1, Zenon
    <3>2. starts(s, m + 1) \cap next(D, s, m) # {}
      OBVIOUS
    <3> QED BY <3>1, <3>2
  <2>4. \A m \in 1..last : item(m).type = "item" /\ item(m).words # <<>>
    OBVIOUS
  <2> QED BY <2>2, <2>3, <2>4, Zenon
<1> HIDE DEF Linked, item
<1>8. last # 0 => next(D, s, last) \cup ends(D, s, last) \subseteq next(E, t, last) \cup ends(E, t, last)
  BY <1>4, <1>5
<1> QED BY <1>1, <1>6, <1>7, <1>8, Zenon

LEMMA ShapeOf ==
  ASSUME NEW n, Shaped(n), n.kids \in Seq(KidsOf(n))
  PROVE  /\ n.type \in {"sep", "and", "or", "pipe", "while", "until"} => Len(n.kids) = 2
         /\ n.type \in {"bg", "negate", "func", "group", "subshell", "for"} => Len(n.kids) = 1
         /\ n.type = "if" => Len(n.kids) \in {2, 3}
         /\ n.type \in {"sep", "and", "or", "pipe", "while", "until", "if"} => 1 \in DOMAIN n.kids /\ 2 \in DOMAIN n.kids
         /\ n.type \in {"bg", "negate", "func", "group", "subshell", "for"} => 1 \in DOMAIN n.kids
         /\ n.type = "if" /\ Len(n.kids) # 2 => 3 \in DOMAIN n.kids
         /\ Len(n.kids) \in Nat /\ DOMAIN n.kids = 1..Len(n.kids)
         /\ \A m \in DOMAIN n.kids : n.kids[m] \in KidsOf(n)
<1>1. Len(n.kids) \in Nat /\ DOMAIN n.kids = 1..Len(n.kids)
  OBVIOUS
<1>2. n.type \in {"sep", "and", "or", "pipe", "while", "until"} => Len(n.kids) = 2
  BY <1>1 DEF Shaped
<1>3. n.type \in {"bg", "negate", "func", "group", "subshell", "for"} => Len(n.kids) = 1
  BY <1>1 DEF Shaped
<1>4. n.type = "if" => Len(n.kids) \in {2, 3}
  BY <1>1 DEF Shaped
<1>5. /\ Len(n.kids) = 1 => 1 \in DOMAIN n.kids
      /\ Len(n.kids) = 2 => 1 \in DOMAIN n.kids /\ 2 \in DOMAIN n.kids
      /\ Len(n.kids) = 3 => 1 \in DOMAIN n.kids /\ 2 \in DOMAIN n.kids /\ 3 \in DOMAIN n.kids
  <2>1. PICK w, d : w = Len(n.kids) /\ d = DOMAIN n.kids
    OBVIOUS
  <2>2. d = 1..w
    BY <1>1, <2>1, Zenon
  <2>3. (w = 1 => 1 \in d) /\ (w = 2 => 1 \in d /\ 2 \in d) /\ (w = 3 => 1 \in d /\ 2 \in d /\ 3 \in d)
    BY <2>2
  <2> QED BY <2>1, <2>3, Zenon
<1>6. \A m \in DOMAIN n.kids : n.kids[m] \in KidsOf(n)
  BY DEF KidsOf
<1> QED BY <1>1, <1>2, <1>3, <1>4, <1>5, <1>6, Zenon

BareCases(D, s, n, I) ==
  LET Kid(m, J) == Ends(D, s, n.kids[m], J)
      Part(m, J) == Body(D, s, n.kids[m], J)
      E == BareEnds(D, s, n, I)
  IN  /\ n.type = "cmd" => E = SimpleEnds(s, n, I)
      /\ n.type = "sep" => E = Kid(2, Breaks(s, IF EndsInBackground(n.kids[1]) THEN Kid(1, I)
                                                ELSE Token(s, {";", "nl"}, Kid(1, I))))
      /\ n.type = "bg" => E = Token(s, {"&"}, Kid(1, I))
      /\ n.type = "and" => E = Kid(2, Breaks(s, Token(s, {"&&"}, Kid(1, I))))
      /\ n.type = "or" => E = Kid(2, Breaks(s, Token(s, {"||"}, Kid(1, I))))
      /\ n.type = "negate" => E = Kid(1, Breaks(s, Token(s, {"!"}, I)))
      /\ n.type = "pipe" => E = Kid(2, Breaks(s, Token(s, {"|"}, Kid(1, I))))
      /\ n.type = "func" => E = Kid(1, Breaks(s, Token(s, {")"}, Token(s, {"("}, WordEnds(s, n, 1, I)))))
      /\ n.type = "group" => E = Token(s, {"}"}, Part(1, Token(s, {"{"}, I)))
      /\ n.type = "subshell" => E = Token(s, {")"}, Part(1, Token(s, {"("}, I)))
      /\ n.type \in {"while", "until"} =>
           E = Token(s, {"done"}, Part(2, Token(s, {"do"}, Part(1, Token(s, {n.type}, I)))))
      /\ n.type = "if" =>
           LET body == Part(2, Token(s, {"then"}, Part(1, Token(s, {"if", "elif"}, I))))
           IN  E = IF Len(n.kids) = 2 THEN body
                   ELSE Part(3, Token(s, {"else"}, body))
                     \cup IF n.kids[3].type # "if" THEN {}
                          ELSE UNION {D[n.kids[3]][i] : i \in {j \in body \cap DOMAIN s : s[j] = "elif"}}
      /\ n.type = "for" =>
           LET name == Token(s, WordKind, {i \in Token(s, {"for"}, I) : n.words[1] = i})
               head == IF n.words[Len(n.words)] = 0
                         THEN name \cup Token(s, {";", "nl"}, name)
                         ELSE Token(s, {";", "nl"}, WordEnds(s, n, 2, Token(s, {"in"}, name)))
           IN  E = Token(s, {"done"}, Part(1, Token(s, {"do"}, Breaks(s, head))))
      /\ n.type = "case" =>
           E = Token(s, {"esac"}, Items(D, s, n, Token(s, {"in"}, WordEnds(s, n, 1, Token(s, {"case"}, I)))))
      /\ n.type = "item" => E = ItemEnds(D, s, n, I)
      /\ n.type \notin ListType \cup {"item"} => E = {}

LEMMA BareOf ==
  ASSUME NEW D, NEW s, NEW n, NEW I
  PROVE  BareCases(D, s, n, I)
  BY DEF BareCases, BareEnds, ListType, LogicType, PipelineType, StageType, CommandType, BareType

LEMMA SeparatorGrows ==
  ASSUME NEW s, NEW t, Prefix(s, t), NEW K, NEW I, NEW J, I \subseteq J
  PROVE  Breaks(s, Token(s, K, I)) \subseteq Breaks(t, Token(t, K, J))
<1>1. PICK X, Y : X = Token(s, K, I) /\ Y = Token(t, K, J)
  OBVIOUS
<1>2. X \subseteq Y
  BY <1>1, TokenGrows
<1>3. Breaks(s, X) \subseteq Breaks(t, Y)
  BY <1>2, BreaksGrow
<1> QED BY <1>1, <1>3

\* a child between two sets of tokens
LEMMA KidGrows ==
  ASSUME NEW s, NEW t, Prefix(s, t), NEW D, NEW E, NEW n, Grows(D, E, KidsOf(n)),
         NEW m \in DOMAIN n.kids, NEW I, NEW J, I \subseteq J
  PROVE  /\ Ends(D, s, n.kids[m], I) \subseteq Ends(E, t, n.kids[m], J)
         /\ Body(D, s, n.kids[m], I) \subseteq Body(E, t, n.kids[m], J)
<1>1. Grows(D, E, {n.kids[m]})
  BY DEF Grows, KidsOf
<1> QED BY <1>1, EndsGrow, BodyGrows

LEMMA BareEndsGrow ==
  ASSUME NEW s, NEW t, Prefix(s, t), NEW D, NEW E, NEW n, Grows(D, E, KidsOf(n)),
         Shaped(n), Numbered(n), n.kids \in Seq(KidsOf(n)), NEW I, NEW J, I \subseteq J
  PROVE  BareEnds(D, s, n, I) \subseteq BareEnds(E, t, n, J)
<1>1. \A m \in DOMAIN n.kids : \A X, Y : X \subseteq Y =>
        /\ Ends(D, s, n.kids[m], X) \subseteq Ends(E, t, n.kids[m], Y)
        /\ Body(D, s, n.kids[m], X) \subseteq Body(E, t, n.kids[m], Y)
  BY KidGrows
<1>2. \A K, X, Y : X \subseteq Y => /\ Token(s, K, X) \subseteq Token(t, K, Y)
                                   /\ Breaks(s, X) \subseteq Breaks(t, Y)
                                   /\ Breaks(s, Token(s, K, X)) \subseteq Breaks(t, Token(t, K, Y))
  BY TokenGrows, BreaksGrow, SeparatorGrows
<1>3. \A a, X, Y : X \subseteq Y => WordEnds(s, n, a, X) \subseteq WordEnds(t, n, a, Y)
  BY WordEndsGrow
<1>4. Len(n.kids) \in Nat /\ DOMAIN n.kids = 1..Len(n.kids)
  OBVIOUS
<1>a. BareCases(D, s, n, I) /\ BareCases(E, t, n, J)
  BY BareOf, Zenon
<1>b. /\ n.type \in {"sep", "and", "or", "pipe", "while", "until"} => Len(n.kids) = 2
      /\ n.type \in {"bg", "negate", "func", "group", "subshell", "for"} => Len(n.kids) = 1
      /\ n.type \in {"sep", "and", "or", "pipe", "while", "until", "if"} => 1 \in DOMAIN n.kids /\ 2 \in DOMAIN n.kids
      /\ n.type \in {"bg", "negate", "func", "group", "subshell", "for"} => 1 \in DOMAIN n.kids
      /\ n.type = "if" /\ Len(n.kids) # 2 => 3 \in DOMAIN n.kids
  BY ShapeOf, Zenon
<1>5. CASE n.type = "cmd"
  <2>1. BareEnds(D, s, n, I) = SimpleEnds(s, n, I) /\ BareEnds(E, t, n, J) = SimpleEnds(t, n, J)
    BY <1>5, <1>a DEF BareCases
  <2> QED BY <2>1, SimpleEndsGrow
<1>6. CASE n.type = "sep"
  <2>1. 1 \in DOMAIN n.kids /\ 2 \in DOMAIN n.kids
    BY <1>6, <1>b, Zenon
  <2>2. PICK A, B : A = Ends(D, s, n.kids[1], I) /\ B = Ends(E, t, n.kids[1], J)
    OBVIOUS
  <2>3. A \subseteq B
    BY <1>1, <2>1, <2>2
  <2>4. PICK X, Y : /\ X = Breaks(s, IF EndsInBackground(n.kids[1]) THEN A ELSE Token(s, {";", "nl"}, A))
                    /\ Y = Breaks(t, IF EndsInBackground(n.kids[1]) THEN B ELSE Token(t, {";", "nl"}, B))
    OBVIOUS
  <2>5. X \subseteq Y
    BY <1>2, <2>3, <2>4
  <2>6. Ends(D, s, n.kids[2], X) \subseteq Ends(E, t, n.kids[2], Y)
    BY <1>1, <2>1, <2>5
  <2>7. BareEnds(D, s, n, I) = Ends(D, s, n.kids[2], X) /\ BareEnds(E, t, n, J) = Ends(E, t, n.kids[2], Y)
    BY <1>6, <2>2, <2>4, <1>a DEF BareCases
  <2> QED BY <2>6, <2>7
<1>7. CASE n.type = "bg"
  <2>1. 1 \in DOMAIN n.kids
    BY <1>7, <1>b, Zenon
  <2>2. PICK A, B : A = Ends(D, s, n.kids[1], I) /\ B = Ends(E, t, n.kids[1], J)
    OBVIOUS
  <2>3. BareEnds(D, s, n, I) = Token(s, {"&"}, A) /\ BareEnds(E, t, n, J) = Token(t, {"&"}, B)
    BY <1>7, <1>a, <2>2 DEF BareCases
  <2>4. A \subseteq B
    BY <1>1, <2>1, <2>2
  <2> QED BY <1>2, <2>3, <2>4
<1>8. ASSUME NEW k, \/ n.type = "and" /\ k = "&&"
                    \/ n.type = "or" /\ k = "||"
                    \/ n.type = "pipe" /\ k = "|"
      PROVE BareEnds(D, s, n, I) \subseteq BareEnds(E, t, n, J)
  <2>1. 1 \in DOMAIN n.kids /\ 2 \in DOMAIN n.kids
    BY <1>8, <1>b, Zenon
  <2>2. PICK A, B : A = Ends(D, s, n.kids[1], I) /\ B = Ends(E, t, n.kids[1], J)
    OBVIOUS
  <2>3. PICK X, Y : X = Breaks(s, Token(s, {k}, A)) /\ Y = Breaks(t, Token(t, {k}, B))
    OBVIOUS
  <2>4. A \subseteq B
    BY <1>1, <2>1, <2>2
  <2>5. X \subseteq Y
    BY <1>2, <2>3, <2>4, Zenon
  <2>6. Ends(D, s, n.kids[2], X) \subseteq Ends(E, t, n.kids[2], Y)
    BY <1>1, <2>1, <2>5
  <2>7. BareEnds(D, s, n, I) = Ends(D, s, n.kids[2], X) /\ BareEnds(E, t, n, J) = Ends(E, t, n.kids[2], Y)
    <3>1. CASE n.type = "and" /\ k = "&&"
      BY <2>2, <2>3, <3>1, <1>a DEF BareCases
    <3>2. CASE n.type = "or" /\ k = "||"
      BY <2>2, <2>3, <3>2, <1>a DEF BareCases
    <3>3. CASE n.type = "pipe" /\ k = "|"
      BY <2>2, <2>3, <3>3, <1>a DEF BareCases
    <3> QED BY <1>8, <3>1, <3>2, <3>3
  <2> QED BY <2>6, <2>7
<1>9. CASE n.type = "negate"
  <2>1. 1 \in DOMAIN n.kids
    BY <1>9, <1>b, Zenon
  <2>2. PICK X, Y : X = Breaks(s, Token(s, {"!"}, I)) /\ Y = Breaks(t, Token(t, {"!"}, J))
    OBVIOUS
  <2>3. X \subseteq Y
    BY <1>2, <2>2, Zenon
  <2>4. Ends(D, s, n.kids[1], X) \subseteq Ends(E, t, n.kids[1], Y)
    BY <1>1, <2>1, <2>3
  <2>5. BareEnds(D, s, n, I) = Ends(D, s, n.kids[1], X) /\ BareEnds(E, t, n, J) = Ends(E, t, n.kids[1], Y)
    BY <1>9, <2>2, <1>a DEF BareCases
  <2> QED BY <2>4, <2>5
<1>10. CASE n.type = "func"
  <2>1. 1 \in DOMAIN n.kids
    BY <1>10, <1>b, Zenon
  <2>2. PICK A, B : A = Token(s, {"("}, WordEnds(s, n, 1, I)) /\ B = Token(t, {"("}, WordEnds(t, n, 1, J))
    OBVIOUS
  <2>3. A \subseteq B
    BY <1>2, <1>3, <2>2, Zenon
  <2>4. PICK X, Y : X = Breaks(s, Token(s, {")"}, A)) /\ Y = Breaks(t, Token(t, {")"}, B))
    OBVIOUS
  <2>5. X \subseteq Y
    BY <1>2, <2>3, <2>4, Zenon
  <2>6. Ends(D, s, n.kids[1], X) \subseteq Ends(E, t, n.kids[1], Y)
    BY <1>1, <2>1, <2>5
  <2>7. BareEnds(D, s, n, I) = Ends(D, s, n.kids[1], X) /\ BareEnds(E, t, n, J) = Ends(E, t, n.kids[1], Y)
    BY <1>10, <2>2, <2>4, <1>a DEF BareCases
  <2> QED BY <2>6, <2>7
<1>11. ASSUME NEW a, NEW b, \/ n.type = "group" /\ a = "{" /\ b = "}"
                            \/ n.type = "subshell" /\ a = "(" /\ b = ")"
       PROVE BareEnds(D, s, n, I) \subseteq BareEnds(E, t, n, J)
  <2>1. 1 \in DOMAIN n.kids
    BY <1>11, <1>b, Zenon
  <2>2. PICK X, Y : X = Body(D, s, n.kids[1], Token(s, {a}, I)) /\ Y = Body(E, t, n.kids[1], Token(t, {a}, J))
    OBVIOUS
  <2>3. X \subseteq Y
    BY <1>1, <1>2, <2>1, <2>2, Zenon
  <2>4. BareEnds(D, s, n, I) = Token(s, {b}, X) /\ BareEnds(E, t, n, J) = Token(t, {b}, Y)
    <3>1. CASE n.type = "group" /\ a = "{" /\ b = "}"
      BY <2>2, <3>1, <1>a DEF BareCases
    <3>2. CASE n.type = "subshell" /\ a = "(" /\ b = ")"
      BY <2>2, <3>2, <1>a DEF BareCases
    <3> QED BY <1>11, <3>1, <3>2
  <2> QED BY <1>2, <2>3, <2>4
<1>12. CASE n.type \in {"while", "until"}
  <2>1. 1 \in DOMAIN n.kids /\ 2 \in DOMAIN n.kids
    BY <1>12, <1>b, Zenon
  <2>2. PICK X, Y : X = Body(D, s, n.kids[1], Token(s, {n.type}, I)) /\ Y = Body(E, t, n.kids[1], Token(t, {n.type}, J))
    OBVIOUS
  <2>3. X \subseteq Y
    BY <1>1, <1>2, <2>1, <2>2, Zenon
  <2>4. PICK V, W : V = Body(D, s, n.kids[2], Token(s, {"do"}, X)) /\ W = Body(E, t, n.kids[2], Token(t, {"do"}, Y))
    OBVIOUS
  <2>5. V \subseteq W
    BY <1>1, <1>2, <2>1, <2>3, <2>4, Zenon
  <2>6. BareEnds(D, s, n, I) = Token(s, {"done"}, V) /\ BareEnds(E, t, n, J) = Token(t, {"done"}, W)
    BY <1>12, <2>2, <2>4, <1>a DEF BareCases
  <2> QED BY <1>2, <2>5, <2>6
<1>13. CASE n.type = "if"
  <2>1. 1 \in DOMAIN n.kids /\ 2 \in DOMAIN n.kids /\ (Len(n.kids) # 2 => 3 \in DOMAIN n.kids)
    BY <1>13, <1>b, Zenon
  <2>2. PICK X, Y : /\ X = Body(D, s, n.kids[1], Token(s, {"if", "elif"}, I))
                    /\ Y = Body(E, t, n.kids[1], Token(t, {"if", "elif"}, J))
    OBVIOUS
  <2>3. X \subseteq Y
    BY <1>1, <1>2, <2>1, <2>2, Zenon
  <2>4. PICK V, W : V = Body(D, s, n.kids[2], Token(s, {"then"}, X)) /\ W = Body(E, t, n.kids[2], Token(t, {"then"}, Y))
    OBVIOUS
  <2>5. V \subseteq W
    BY <1>1, <1>2, <2>1, <2>3, <2>4, Zenon
  <2> DEFINE Rest(d, u, Z) == Body(d, u, n.kids[3], Token(u, {"else"}, Z))
             Elif(d, u, Z) == UNION {d[n.kids[3]][i] : i \in {j \in Z \cap DOMAIN u : u[j] = "elif"}}
  <2>6. /\ BareEnds(D, s, n, I) = IF Len(n.kids) = 2 THEN V
                                  ELSE Rest(D, s, V) \cup IF n.kids[3].type # "if" THEN {} ELSE Elif(D, s, V)
        /\ BareEnds(E, t, n, J) = IF Len(n.kids) = 2 THEN W
                                  ELSE Rest(E, t, W) \cup IF n.kids[3].type # "if" THEN {} ELSE Elif(E, t, W)
    BY <1>13, <2>2, <2>4, <1>a DEF BareCases
  <2>7. CASE Len(n.kids) = 2
    BY <2>5, <2>6, <2>7
  <2>8. CASE Len(n.kids) # 2
    <3>1. Rest(D, s, V) \subseteq Rest(E, t, W)
      BY <1>1, <1>2, <2>1, <2>5, <2>8, Zenon
    <3>2. Elif(D, s, V) \subseteq Elif(E, t, W)
      <4>1. n.kids[3] \in KidsOf(n)
        BY <2>1, <2>8 DEF KidsOf
      <4>2. \A j \in DOMAIN s : j \in Nat /\ j \in DOMAIN t /\ t[j] = s[j]
        BY DEF Prefix
      <4> QED BY <2>5, <4>1, <4>2 DEF Grows
    <3> HIDE DEF Rest, Elif
    <3> QED BY <2>6, <2>8, <3>1, <3>2
  <2> QED BY <2>7, <2>8
<1>14. CASE n.type = "for"
  <2>1. 1 \in DOMAIN n.kids
    BY <1>14, <1>b, Zenon
  <2>2. PICK X, Y : X = {i \in Token(s, {"for"}, I) : n.words[1] = i} /\ Y = {i \in Token(t, {"for"}, J) : n.words[1] = i}
    OBVIOUS
  <2>3. X \subseteq Y
    <3>1. Token(s, {"for"}, I) \subseteq Token(t, {"for"}, J)
      BY <1>2
    <3> QED BY <2>2, <3>1
  <2>4. PICK V, W : V = Token(s, WordKind, X) /\ W = Token(t, WordKind, Y)
    OBVIOUS
  <2>5. V \subseteq W
    BY <1>2, <2>3, <2>4
  <2>6. PICK F, G : /\ F = IF n.words[Len(n.words)] = 0 THEN V \cup Token(s, {";", "nl"}, V)
                           ELSE Token(s, {";", "nl"}, WordEnds(s, n, 2, Token(s, {"in"}, V)))
                    /\ G = IF n.words[Len(n.words)] = 0 THEN W \cup Token(t, {";", "nl"}, W)
                           ELSE Token(t, {";", "nl"}, WordEnds(t, n, 2, Token(t, {"in"}, W)))
    OBVIOUS
  <2>7. F \subseteq G
    <3>1. Token(s, {";", "nl"}, V) \subseteq Token(t, {";", "nl"}, W)
      BY <1>2, <2>5
    <3>2. Token(s, {";", "nl"}, WordEnds(s, n, 2, Token(s, {"in"}, V)))
            \subseteq Token(t, {";", "nl"}, WordEnds(t, n, 2, Token(t, {"in"}, W)))
      BY <1>2, <1>3, <2>5, Zenon
    <3> QED BY <2>5, <2>6, <3>1, <3>2
  <2>8. PICK P, Q : P = Body(D, s, n.kids[1], Token(s, {"do"}, Breaks(s, F)))
                    /\ Q = Body(E, t, n.kids[1], Token(t, {"do"}, Breaks(t, G)))
    OBVIOUS
  <2>9. P \subseteq Q
    BY <1>1, <1>2, <2>1, <2>7, <2>8, Zenon
  <2>10. BareEnds(D, s, n, I) = Token(s, {"done"}, P) /\ BareEnds(E, t, n, J) = Token(t, {"done"}, Q)
    BY <1>14, <2>2, <2>4, <2>6, <2>8, <1>a DEF BareCases
  <2> QED BY <1>2, <2>9, <2>10
<1>15. CASE n.type = "case"
  <2>1. PICK A, B : A = Token(s, {"case"}, I) /\ B = Token(t, {"case"}, J)
    OBVIOUS
  <2>2. PICK X, Y : X = Token(s, {"in"}, WordEnds(s, n, 1, A)) /\ Y = Token(t, {"in"}, WordEnds(t, n, 1, B))
    OBVIOUS
  <2>3. X \subseteq Y
    BY <1>2, <1>3, <2>1, <2>2, Zenon
  <2>4. PICK P, Q : P = Items(D, s, n, X) /\ Q = Items(E, t, n, Y)
    OBVIOUS
  <2>5. P \subseteq Q
    BY <1>4, <2>3, <2>4, ItemsGrow
  <2>6. BareEnds(D, s, n, I) = Token(s, {"esac"}, P) /\ BareEnds(E, t, n, J) = Token(t, {"esac"}, Q)
    BY <1>15, <2>1, <2>2, <2>4, <1>a DEF BareCases
  <2> QED BY <1>2, <2>5, <2>6
<1>16. CASE n.type = "item"
  <2>1. BareEnds(D, s, n, I) = ItemEnds(D, s, n, I) /\ BareEnds(E, t, n, J) = ItemEnds(E, t, n, J)
    BY <1>16, <1>a DEF BareCases
  <2>2. n.kids # <<>> => 1 \in DOMAIN n.kids
    BY <1>4
  <2> QED BY <2>1, <2>2, ItemEndsGrow
<1>17. CASE n.type \notin ListType \cup {"item"}
  <2>1. BareEnds(D, s, n, I) = {}
    BY <1>17, <1>a DEF BareCases
  <2> QED BY <2>1
<1> QED
  BY <1>5, <1>6, <1>7, <1>8, <1>9, <1>10, <1>11, <1>12, <1>13, <1>14, <1>15, <1>16, <1>17
  DEF ListType, LogicType, PipelineType, StageType, CommandType, BareType

-----------------------------------------------------------------------------
(***************************************************************************)
(* A tree stands for the tokens from i to j if there is a set P of trees   *)
(* with where they start and end, it among them, in which every tree ends  *)
(* where the grammar says it can, from where its children in P end.        *)
(***************************************************************************)
IsTree(n) ==
  /\ n = [type |-> n.type, assigns |-> n.assigns, words |-> n.words, redirs |-> n.redirs, kids |-> n.kids]
  /\ Numbered(n) /\ n.kids \in Seq(KidsOf(n))
Under(P, n) == [k \in KidsOf(n) |-> [a \in Nat |-> {b \in Nat : <<k, a, b>> \in P}]]
Placed(P, s, n, i, j) ==
  /\ IsTree(n) /\ Shaped(n) /\ i \in Nat /\ j \in Nat /\ i <= j /\ j <= Len(s) + 1
  /\ j \in BareEnds(Under(P, n), s, n, {i})
Grown(P, s) == \A n, i, j : <<n, i, j>> \in P => Placed(P, s, n, i, j)
Bare(s, n, i, j) == \E P : Grown(P, s) /\ <<n, i, j>> \in P
KnownKids(s, n) == [k \in KidsOf(n) |-> [a \in Nat |-> {b \in Nat : Bare(s, k, a, b)}]]

LEMMA BareIs ==
  ASSUME NEW s, NEW n, NEW i, NEW j, Bare(s, n, i, j)
  PROVE  IsTree(n) /\ Shaped(n) /\ i \in Nat /\ j \in Nat /\ i <= j /\ j <= Len(s) + 1
  BY Zenon DEF Bare, Grown, Placed

LEMMA PlacedGrows ==
  ASSUME NEW s, NEW t, Prefix(s, t), NEW P, NEW Q, P \subseteq Q, NEW n, NEW i, NEW j, Placed(P, s, n, i, j)
  PROVE  Placed(Q, t, n, i, j)
<1>1. Grows(Under(P, n), Under(Q, n), KidsOf(n))
  BY DEF Grows, Under
<1>2. IsTree(n) /\ Shaped(n) /\ i \in Nat /\ j \in Nat /\ i <= j /\ j <= Len(s) + 1
  BY Zenon DEF Placed
<1>3. Numbered(n) /\ n.kids \in Seq(KidsOf(n))
  BY <1>2 DEF IsTree
<1>4. BareEnds(Under(P, n), s, n, {i}) \subseteq BareEnds(Under(Q, n), t, n, {i})
  <2>1. {i} \subseteq {i}
    OBVIOUS
  <2> QED BY <1>1, <1>2, <1>3, <2>1, BareEndsGrow, Zenon
<1>5. j <= Len(t) + 1
  BY <1>2 DEF Prefix
<1> QED BY <1>2, <1>4, <1>5 DEF Placed

LEMMA BareGrows ==
  ASSUME NEW s, NEW t, Prefix(s, t), NEW n, NEW i, NEW j, Bare(s, n, i, j)
  PROVE  Bare(t, n, i, j)
<1>1. PICK P : Grown(P, s) /\ <<n, i, j>> \in P
  BY DEF Bare
<1>2. Grown(P, t)
  <2>1. \A m, a, b : Placed(P, s, m, a, b) => Placed(P, t, m, a, b)
    BY PlacedGrows
  <2> QED BY <1>1, <2>1, Zenon DEF Grown
<1> QED BY <1>1, <1>2 DEF Bare

LEMMA BareFrom ==
  ASSUME NEW s \in Seq(Kind), NEW n, IsTree(n), Shaped(n), NEW i \in Nat, NEW j \in Nat,
         i <= j, j <= Len(s) + 1, j \in BareEnds(KnownKids(s, n), s, n, {i})
  PROVE  Bare(s, n, i, j)
<1> DEFINE T == {t \in KidsOf(n) \X Nat \X Nat : Bare(s, t[1], t[2], t[3])}
           Witness(t) == CHOOSE P : Grown(P, s) /\ t \in P
           Q == UNION {Witness(t) : t \in T}
           P == Q \cup {<<n, i, j>>}
<1>1. Prefix(s, s)
  BY PrefixSelf
<1>2. ASSUME NEW k \in KidsOf(n), NEW a \in Nat, NEW b \in Nat, Bare(s, k, a, b)
      PROVE  <<k, a, b>> \in Q
  <2>1. <<k, a, b>> \in T
    BY <1>2
  <2>2. \E W : Grown(W, s) /\ <<k, a, b>> \in W
    BY <1>2 DEF Bare
  <2>3. <<k, a, b>> \in Witness(<<k, a, b>>)
    BY <2>2
  <2> HIDE DEF T, Witness
  <2> QED BY <2>1, <2>3
<1>3. ASSUME NEW t \in T PROVE Grown(Witness(t), s)
  <2>1. t = <<t[1], t[2], t[3]>> /\ Bare(s, t[1], t[2], t[3])
    OBVIOUS
  <2>2. \E W : Grown(W, s) /\ t \in W
    BY <2>1, Zenon DEF Bare
  <2> QED BY <2>2
<1> HIDE DEF Witness, T
<1>4. ASSUME NEW m, NEW a, NEW b, <<m, a, b>> \in Q PROVE Placed(P, s, m, a, b)
  <2>1. PICK t \in T : <<m, a, b>> \in Witness(t)
    BY <1>4
  <2>2. Placed(Witness(t), s, m, a, b)
    BY <1>3, <2>1, Zenon DEF Grown
  <2>3. Witness(t) \subseteq P
    BY <2>1
  <2> HIDE DEF P
  <2> QED BY <1>1, <2>2, <2>3, PlacedGrows
<1>5. Placed(P, s, n, i, j)
  <2>1. Grows(KnownKids(s, n), Under(P, n), KidsOf(n))
    <3>1. ASSUME NEW k \in KidsOf(n), NEW a \in Nat, NEW b \in KnownKids(s, n)[k][a] PROVE b \in Under(P, n)[k][a]
      <4>1. b \in Nat /\ Bare(s, k, a, b)
        BY DEF KnownKids
      <4>2. <<k, a, b>> \in P
        BY <1>2, <4>1
      <4> HIDE DEF P
      <4> QED BY <4>1, <4>2 DEF Under
    <3> QED BY <3>1 DEF Grows
  <2> HIDE DEF P
  <2>2. Numbered(n) /\ n.kids \in Seq(KidsOf(n))
    BY DEF IsTree
  <2>3. {i} \subseteq {i}
    OBVIOUS
  <2>4. BareEnds(KnownKids(s, n), s, n, {i}) \subseteq BareEnds(Under(P, n), s, n, {i})
    BY <1>1, <2>1, <2>2, <2>3, BareEndsGrow, Zenon
  <2> QED BY <2>4 DEF Placed
<1>6. Grown(P, s)
  <2>1. ASSUME NEW m, NEW a, NEW b, <<m, a, b>> \in P PROVE Placed(P, s, m, a, b)
    <3>1. CASE <<m, a, b>> \in Q
      BY <1>4, <3>1
    <3>2. CASE <<m, a, b>> = <<n, i, j>>
      <4>1. m = n /\ a = i /\ b = j
        BY <3>2
      <4> HIDE DEF P
      <4> QED BY <1>5, <4>1
    <3> QED BY <2>1, <3>1, <3>2
  <2> HIDE DEF P
  <2> QED BY <2>1, Zenon DEF Grown
<1>7. <<n, i, j>> \in P
  OBVIOUS
<1> HIDE DEF P
<1> QED BY <1>6, <1>7 DEF Bare

-----------------------------------------------------------------------------
(***************************************************************************)
(* The same with what belongs to a tree, and around it.                    *)
(***************************************************************************)
Core(s, n, i, j) ==
  IF n.type = "if" THEN Tok(s, i, {"if"}) /\ \E m \in Nat : Bare(s, n, i, m) /\ Tok(s, m, {"fi"}) /\ j = m + 1
  ELSE Bare(s, n, i, j)
Redirected(s, r, m, j) ==
  /\ j = m + 2 * Len(r)
  /\ \A x \in DOMAIN r : r[x] = m + 2 * (x - 1) /\ Tok(s, r[x], RedirKind) /\ Tok(s, r[x] + 1, WordKind)
Stand(s, n, i, j) ==
  IF n.type \in BareType THEN \E m \in Nat : Core(s, n, i, m) /\ Redirected(s, n.redirs, m, j)
  ELSE Bare(s, n, i, j)
\* tokens by name
Semicolon == {";"}
LineEnd == {";", "nl"}
ItemEnd == {";;"}
OpenBrace == {"{"}
CloseBrace == {"}"}
\* newlines in front of it
After(s, n, i, j) == \E m \in Nat : Nls(s, i, m) /\ Stand(s, n, m, j)
\* a list in a compound command
Listed(s, n, i, j) ==
  \E m, p \in Nat : /\ After(s, n, i, m)
                    /\ p = m \/ (~EndsInBackground(n) /\ Tok(s, m, Semicolon) /\ p = m + 1)
                    /\ Nls(s, p, j)
\* D has every stretch of tokens that n stands for
Knows(D, s, n) == \A a \in Nat : \A b \in Nat : Bare(s, n, a, b) => b \in D[n][a]

LEMMA KidsKnown ==
  ASSUME NEW s, NEW n, NEW k \in KidsOf(n)
  PROVE  Knows(KnownKids(s, n), s, k)
  BY DEF Knows, KnownKids

LEMMA TokIs ==
  ASSUME NEW s \in Seq(Kind), NEW i, NEW K, Tok(s, i, K)
  PROVE  i \in Nat /\ i <= Len(s) /\ 1 <= i /\ i \in 1..Len(s)
  BY DEF Tok

LEMMA CoreIs ==
  ASSUME NEW s \in Seq(Kind), NEW n, NEW i, NEW j, Core(s, n, i, j)
  PROVE  IsTree(n) /\ Shaped(n) /\ i \in Nat /\ j \in Nat /\ i <= j /\ j <= Len(s) + 1
<1>1. CASE n.type = "if"
  <2>1. PICK m \in Nat : Bare(s, n, i, m) /\ Tok(s, m, {"fi"}) /\ j = m + 1
    BY <1>1 DEF Core
  <2>2. IsTree(n) /\ Shaped(n) /\ i \in Nat /\ i <= m
    BY <2>1, BareIs
  <2>3. m <= Len(s)
    BY <2>1, TokIs
  <2> QED BY <2>1, <2>2, <2>3
<1>2. CASE n.type # "if"
  BY <1>2, BareIs DEF Core
<1> QED BY <1>1, <1>2

LEMMA RedirectedIs ==
  ASSUME NEW s \in Seq(Kind), NEW r \in Seq(Nat), NEW m \in Nat, m <= Len(s) + 1, NEW j, Redirected(s, r, m, j)
  PROVE  j \in Nat /\ m <= j /\ j <= Len(s) + 1
<1>1. Len(r) \in Nat /\ Len(s) \in Nat /\ DOMAIN r = 1..Len(r) /\ DOMAIN s = 1..Len(s)
  OBVIOUS
<1>2. j = m + 2 * Len(r)
  BY DEF Redirected
<1>3. CASE Len(r) = 0
  BY <1>1, <1>2, <1>3
<1>4. CASE Len(r) # 0
  <2>1. PICK l \in Nat : l = Len(r) /\ l \in DOMAIN r
    <3>1. Len(r) \in 1..Len(r)
      BY <1>1, <1>4
    <3> QED BY <1>1, <3>1
  <2>2. r[l] = m + 2 * (l - 1) /\ r[l] + 1 \in DOMAIN s
    BY <2>1 DEF Redirected, Tok
  <2> QED BY <1>1, <1>2, <2>1, <2>2
<1> QED BY <1>3, <1>4

LEMMA StandIs ==
  ASSUME NEW s \in Seq(Kind), NEW n, NEW i, NEW j, Stand(s, n, i, j)
  PROVE  IsTree(n) /\ Shaped(n) /\ i \in Nat /\ j \in Nat /\ i <= j /\ j <= Len(s) + 1
<1>1. CASE n.type \in BareType
  <2>1. PICK m \in Nat : Core(s, n, i, m) /\ Redirected(s, n.redirs, m, j)
    BY <1>1 DEF Stand
  <2>2. IsTree(n) /\ Shaped(n) /\ i \in Nat /\ i <= m /\ m <= Len(s) + 1
    BY <2>1, CoreIs
  <2>3. n.redirs \in Seq(Nat)
    BY <2>2 DEF IsTree, Numbered
  <2>4. j \in Nat /\ m <= j /\ j <= Len(s) + 1
    BY <2>1, <2>2, <2>3, RedirectedIs
  <2> QED BY <2>2, <2>4
<1>2. CASE n.type \notin BareType
  BY <1>2, BareIs DEF Stand
<1> QED BY <1>1, <1>2

LEMMA AfterIs ==
  ASSUME NEW s \in Seq(Kind), NEW n, NEW i \in Nat, NEW j, After(s, n, i, j)
  PROVE  j \in Nat /\ i <= j /\ j <= Len(s) + 1
  BY StandIs DEF After, Nls

LEMMA ListedIs ==
  ASSUME NEW s \in Seq(Kind), NEW n, NEW i \in Nat, NEW j \in Nat, Listed(s, n, i, j)
  PROVE  i <= j /\ j <= Len(s) + 1
<1>1. PICK m \in Nat, p \in Nat : After(s, n, i, m) /\ (p = m \/ p = m + 1) /\ Nls(s, p, j)
  BY DEF Listed
<1>2. i <= m
  BY <1>1, AfterIs
<1>3. p <= j /\ j <= Len(s) + 1
  BY <1>1 DEF Nls
<1> QED BY <1>1, <1>2, <1>3

LEMMA TokIn ==
  ASSUME NEW s, NEW i, NEW K, Tok(s, i, K), NEW I, i \in I
  PROVE  i + 1 \in Token(s, K, I)
  BY DEF Tok, Token

LEMMA NlsIn ==
  ASSUME NEW s \in Seq(Kind), NEW i \in Nat, NEW j \in Nat, Nls(s, i, j), NEW I, i \in I
  PROVE  j \in Breaks(s, I)
<1>1. i \in I \cap Nat /\ j \in i..(Len(s) + 1) /\ \A m \in i..(j - 1) : m \in DOMAIN s /\ s[m] = "nl"
  BY DEF Nls, Tok
<1> QED BY <1>1 DEF Breaks

LEMMA StandIn ==
  ASSUME NEW s \in Seq(Kind), NEW n, NEW i \in Nat, NEW j, Stand(s, n, i, j), NEW D, Knows(D, s, n), NEW I, i \in I
  PROVE  j \in Ends(D, s, n, I)
<1> DEFINE bare(J) == UNION {D[n][a] : a \in J \cap Nat}
<1>1. /\ n.type = "if" => Ends(D, s, n, I) = RedirEnds(s, n, Token(s, {"fi"}, bare({a \in I \cap DOMAIN s : s[a] = "if"})))
      /\ n.type # "if" /\ n.type \in BareType => Ends(D, s, n, I) = RedirEnds(s, n, bare(I))
      /\ n.type \notin BareType => Ends(D, s, n, I) = bare(I)
  <2>1. "if" \in BareType
    BY DEF BareType
  <2> QED BY <2>1, Zenon DEF Ends
<1>2. ASSUME NEW b \in Nat, Bare(s, n, i, b), NEW J, i \in J PROVE b \in bare(J)
  BY <1>2 DEF Knows
<1> HIDE DEF bare
<1>3. ASSUME NEW m \in Nat, Redirected(s, n.redirs, m, j), NEW J, m \in J PROVE j \in RedirEnds(s, n, J)
  <2>1. j = m + 2 * Len(n.redirs)
    BY <1>3 DEF Redirected
  <2>2. \A x \in DOMAIN n.redirs : /\ n.redirs[x] = m + 2 * (x - 1)
                                   /\ n.redirs[x] \in DOMAIN s /\ s[n.redirs[x]] \in RedirKind
                                   /\ n.redirs[x] + 1 \in DOMAIN s /\ s[n.redirs[x] + 1] \in WordKind
    BY <1>3 DEF Redirected, Tok
  <2> QED BY <1>3, <2>1, <2>2, Zenon DEF RedirEnds
<1>4. CASE n.type = "if"
  <2>0. n.type \in BareType
    BY <1>4 DEF BareType
  <2>1. PICK m \in Nat : Core(s, n, i, m) /\ Redirected(s, n.redirs, m, j)
    BY <2>0 DEF Stand
  <2>2. PICK b \in Nat : Bare(s, n, i, b) /\ Tok(s, b, {"fi"}) /\ m = b + 1 /\ Tok(s, i, {"if"})
    BY <1>4, <2>1 DEF Core
  <2>3. i \in {a \in I \cap DOMAIN s : s[a] = "if"}
    BY <2>2 DEF Tok
  <2>4. b \in bare({a \in I \cap DOMAIN s : s[a] = "if"})
    BY <1>2, <2>2, <2>3
  <2>5. m \in Token(s, {"fi"}, bare({a \in I \cap DOMAIN s : s[a] = "if"}))
    BY <2>2, <2>4, TokIn
  <2> QED BY <1>1, <1>3, <1>4, <2>1, <2>5
<1>5. CASE n.type # "if" /\ n.type \in BareType
  <2>1. PICK m \in Nat : Core(s, n, i, m) /\ Redirected(s, n.redirs, m, j)
    BY <1>5 DEF Stand
  <2>2. Bare(s, n, i, m)
    BY <1>5, <2>1 DEF Core
  <2> QED BY <1>1, <1>2, <1>3, <1>5, <2>1, <2>2
<1>6. CASE n.type \notin BareType
  <2>1. Bare(s, n, i, j) /\ j \in Nat
    BY <1>6, BareIs DEF Stand
  <2> QED BY <1>1, <1>2, <1>6, <2>1
<1> QED BY <1>4, <1>5, <1>6

LEMMA AfterIn ==
  ASSUME NEW s \in Seq(Kind), NEW n, NEW i \in Nat, NEW j, After(s, n, i, j), NEW D, Knows(D, s, n), NEW I, i \in I
  PROVE  j \in Ends(D, s, n, Breaks(s, I))
<1>1. PICK m \in Nat : Nls(s, i, m) /\ Stand(s, n, m, j)
  BY DEF After
<1>2. m \in Breaks(s, I)
  BY <1>1, NlsIn
<1> QED BY <1>1, <1>2, StandIn

LEMMA ListedIn ==
  ASSUME NEW s \in Seq(Kind), NEW n, NEW i \in Nat, NEW j \in Nat, Listed(s, n, i, j), NEW D, Knows(D, s, n), NEW I, i \in I
  PROVE  j \in Body(D, s, n, I)
<1>1. PICK m \in Nat, p \in Nat : /\ After(s, n, i, m)
                                  /\ p = m \/ (~EndsInBackground(n) /\ Tok(s, m, Semicolon) /\ p = m + 1)
                                  /\ Nls(s, p, j)
  BY DEF Listed
<1>2. PICK A : A = Ends(D, s, n, Breaks(s, I))
  OBVIOUS
<1>3. m \in A
  BY <1>1, <1>2, AfterIn
<1>4. PICK B : B = A \cup IF EndsInBackground(n) THEN {} ELSE Token(s, Semicolon, A)
  OBVIOUS
<1>5. p \in B
  BY <1>1, <1>3, <1>4, TokIn
<1>6. j \in Breaks(s, B)
  BY <1>1, <1>5, NlsIn
<1> QED BY <1>2, <1>4, <1>6, Zenon DEF Body, Semicolon

-----------------------------------------------------------------------------
(***************************************************************************)
(* What each kind of tree stands for.                                      *)
(***************************************************************************)
LEMMA Whole ==
  ASSUME NEW y, NEW S, NEW k \in Seq(S), NEW a \in Seq(Nat), NEW w \in Seq(Nat), NEW r \in Seq(Nat)
  PROVE  LET n == [type |-> y, assigns |-> a, words |-> w, redirs |-> r, kids |-> k]
         IN  IsTree(n) /\ n.type = y /\ n.assigns = a /\ n.words = w /\ n.redirs = r /\ n.kids = k
<1>0. PICK n : n = [type |-> y, assigns |-> a, words |-> w, redirs |-> r, kids |-> k]
  OBVIOUS
<1>1. n.type = y /\ n.assigns = a /\ n.words = w /\ n.redirs = r /\ n.kids = k
  BY <1>0
<1>2. Numbered(n)
  BY <1>1 DEF Numbered
<1>3. n = [type |-> n.type, assigns |-> n.assigns, words |-> n.words, redirs |-> n.redirs, kids |-> n.kids]
  BY <1>0, <1>1
<1>4. k \in Seq({k[m] : m \in DOMAIN k})
  <2>1. Len(k) \in Nat /\ DOMAIN k = 1..Len(k) /\ k = [m \in 1..Len(k) |-> k[m]]
    OBVIOUS
  <2> DEFINE T == {k[m] : m \in DOMAIN k}
  <2>2. \A m \in 1..Len(k) : k[m] \in T
    BY <2>1
  <2> HIDE DEF T
  <2>3. k \in [1..Len(k) -> T]
    BY <2>1, <2>2
  <2>4. PICK z \in Nat : z = Len(k)
    BY <2>1
  <2>5. k \in [1..z -> T]
    BY <2>3, <2>4
  <2>6. k \in Seq(T)
    BY <2>5, SeqDef
  <2> QED BY <2>6 DEF T
<1>5. n.kids \in Seq(KidsOf(n))
  BY <1>1, <1>4 DEF KidsOf
<1>6. IsTree(n)
  BY <1>2, <1>3, <1>5 DEF IsTree
<1> QED BY <1>0, <1>1, <1>6

LEMMA NodeIs ==
  ASSUME NEW y, NEW S, NEW k \in Seq(S)
  PROVE  /\ IsTree(Node(y, k)) /\ Node(y, k).type = y /\ Node(y, k).kids = k
         /\ Node(y, k).words = <<>> /\ Node(y, k).assigns = <<>> /\ Node(y, k).redirs = <<>>
<1>0. <<>> \in Seq(Nat)
  OBVIOUS
<1>1. PICK e : e = <<>> /\ e \in Seq(Nat)
  BY <1>0
<1>2. Node(y, k) = [type |-> y, assigns |-> e, words |-> e, redirs |-> e, kids |-> k]
  BY <1>1 DEF Node
<1>3. PICK n : n = Node(y, k)
  OBVIOUS
<1>4. IsTree(n) /\ n.type = y /\ n.assigns = e /\ n.words = e /\ n.redirs = e /\ n.kids = k
  <2>1. LET m == [type |-> y, assigns |-> e, words |-> e, redirs |-> e, kids |-> k]
        IN  IsTree(m) /\ m.type = y /\ m.assigns = e /\ m.words = e /\ m.redirs = e /\ m.kids = k
    BY <1>1, Whole, Zenon
  <2> QED BY <1>2, <1>3, <2>1, Zenon
<1> QED BY <1>1, <1>3, <1>4, Zenon

LEMMA OneKid ==
  ASSUME NEW a, NEW n, n.kids = <<a>>
  PROVE  a \in KidsOf(n) /\ DOMAIN n.kids = 1..1 /\ Len(n.kids) = 1 /\ n.kids[1] = a
<1>1. DOMAIN n.kids = 1..1 /\ n.kids[1] = a /\ Len(n.kids) = 1 /\ 1 \in 1..1
  OBVIOUS
<1> QED BY <1>1 DEF KidsOf

LEMMA TwoKids ==
  ASSUME NEW a, NEW b, NEW n, n.kids = <<a, b>>
  PROVE  /\ a \in KidsOf(n) /\ b \in KidsOf(n) /\ DOMAIN n.kids = 1..2 /\ Len(n.kids) = 2
         /\ n.kids[1] = a /\ n.kids[2] = b
<1>1. DOMAIN n.kids = 1..2 /\ n.kids[1] = a /\ n.kids[2] = b /\ Len(n.kids) = 2 /\ 1 \in 1..2 /\ 2 \in 1..2
  OBVIOUS
<1> QED BY <1>1 DEF KidsOf

LEMMA ThreeKids ==
  ASSUME NEW a, NEW b, NEW c, NEW n, n.kids = <<a, b, c>>
  PROVE  /\ a \in KidsOf(n) /\ b \in KidsOf(n) /\ c \in KidsOf(n) /\ DOMAIN n.kids = 1..3 /\ Len(n.kids) = 3
         /\ n.kids[1] = a /\ n.kids[2] = b /\ n.kids[3] = c
<1>1. DOMAIN n.kids = 1..3 /\ n.kids[1] = a /\ n.kids[2] = b /\ n.kids[3] = c /\ Len(n.kids) = 3
      /\ 1 \in 1..3 /\ 2 \in 1..3 /\ 3 \in 1..3
  OBVIOUS
<1> QED BY <1>1 DEF KidsOf

LEMMA ShapedKids ==
  ASSUME NEW n
  PROVE  /\ \A a : n.kids = <<a>> =>
              /\ n.type = "bg" /\ a.type \in LogicType => Shaped(n)
              /\ n.type = "negate" /\ a.type \in StageType => Shaped(n)
              /\ n.type = "func" /\ a.type \in BareType => Shaped(n)
              /\ n.type \in {"group", "subshell", "for"} /\ a.type \in ListType => Shaped(n)
              /\ n.type = "item" /\ a.type \in ListType => Shaped(n)
         /\ \A a, b : n.kids = <<a, b>> =>
              /\ n.type = "sep" /\ a.type \in ListType /\ b.type \in LogicType \cup {"bg"} => Shaped(n)
              /\ n.type \in {"and", "or"} /\ a.type \in LogicType /\ b.type \in PipelineType => Shaped(n)
              /\ n.type = "pipe" /\ a.type \in CommandType /\ b.type \in StageType => Shaped(n)
              /\ n.type \in {"while", "until", "if"} /\ a.type \in ListType /\ b.type \in ListType => Shaped(n)
         /\ n.kids = <<>> /\ n.type \in {"cmd", "item", "case"} => Shaped(n)
<1>1. ASSUME NEW a, n.kids = <<a>>
      PROVE  /\ n.type = "bg" /\ a.type \in LogicType => Shaped(n)
             /\ n.type = "negate" /\ a.type \in StageType => Shaped(n)
             /\ n.type = "func" /\ a.type \in BareType => Shaped(n)
             /\ n.type \in {"group", "subshell", "for"} /\ a.type \in ListType => Shaped(n)
             /\ n.type = "item" /\ a.type \in ListType => Shaped(n)
  <2>1. DOMAIN n.kids = 1..1 /\ n.kids[1] = a /\ n.kids # <<>>
    BY <1>1
  <2> QED BY <2>1 DEF Shaped
<1>2. ASSUME NEW a, NEW b, n.kids = <<a, b>>
      PROVE  /\ n.type = "sep" /\ a.type \in ListType /\ b.type \in LogicType \cup {"bg"} => Shaped(n)
             /\ n.type \in {"and", "or"} /\ a.type \in LogicType /\ b.type \in PipelineType => Shaped(n)
             /\ n.type = "pipe" /\ a.type \in CommandType /\ b.type \in StageType => Shaped(n)
             /\ n.type \in {"while", "until", "if"} /\ a.type \in ListType /\ b.type \in ListType => Shaped(n)
  <2>1. DOMAIN n.kids = 1..2 /\ n.kids[1] = a /\ n.kids[2] = b /\ Len(n.kids) = 2
    BY <1>2
  <2>2. \A m \in 1..2 : m = 1 \/ m = 2
    OBVIOUS
  <2> QED BY <2>1, <2>2 DEF Shaped
<1>3. n.kids = <<>> /\ n.type \in {"cmd", "item", "case"} => Shaped(n)
  BY DEF Shaped
<1> QED BY <1>1, <1>2, <1>3, Zenon

\* a tree made of one or two others
LEMMA MadeOfTwo ==
  ASSUME NEW y, NEW a, NEW b, NEW s
  PROVE  LET n == Node(y, <<a, b>>)
             D == KnownKids(s, n)
         IN
         /\ IsTree(n) /\ n.type = y /\ n.kids = <<a, b>> /\ n.kids[1] = a /\ n.kids[2] = b /\ Len(n.kids) = 2
         /\ n.words = <<>> /\ n.assigns = <<>> /\ n.redirs = <<>>
         /\ Knows(D, s, a) /\ Knows(D, s, b)
<1>d. PICK n : n = Node(y, <<a, b>>)
  OBVIOUS
<1>e. PICK D : D = KnownKids(s, n)
  OBVIOUS
<1>1. <<a, b>> \in Seq({a, b})
  OBVIOUS
<1>2. PICK k \in Seq({a, b}) : k = <<a, b>>
  BY <1>1
<1>3. n = Node(y, k)
  BY <1>d, <1>2
<1>4. IsTree(n) /\ n.type = y /\ n.kids = k /\ n.words = <<>> /\ n.assigns = <<>> /\ n.redirs = <<>>
  BY <1>3, NodeIs
<1>5. n.kids = <<a, b>>
  BY <1>2, <1>4
<1>6. a \in KidsOf(n) /\ b \in KidsOf(n) /\ n.kids[1] = a /\ n.kids[2] = b /\ Len(n.kids) = 2
  BY <1>5, TwoKids
<1>7. \A c \in KidsOf(n) : Knows(D, s, c)
  BY <1>e, KidsKnown
<1> QED BY <1>d, <1>e, <1>4, <1>5, <1>6, <1>7

LEMMA MadeOfOne ==
  ASSUME NEW y, NEW a, NEW s
  PROVE  LET n == Node(y, <<a>>)
             D == KnownKids(s, n)
         IN
         /\ IsTree(n) /\ n.type = y /\ n.kids = <<a>> /\ n.kids[1] = a /\ Len(n.kids) = 1
         /\ n.words = <<>> /\ n.assigns = <<>> /\ n.redirs = <<>>
         /\ Knows(D, s, a)
<1>d. PICK n : n = Node(y, <<a>>)
  OBVIOUS
<1>e. PICK D : D = KnownKids(s, n)
  OBVIOUS
<1>1. <<a>> \in Seq({a})
  OBVIOUS
<1>2. PICK k \in Seq({a}) : k = <<a>>
  BY <1>1
<1>3. n = Node(y, k)
  BY <1>d, <1>2
<1>4. IsTree(n) /\ n.type = y /\ n.kids = k /\ n.words = <<>> /\ n.assigns = <<>> /\ n.redirs = <<>>
  BY <1>3, NodeIs
<1>5. n.kids = <<a>>
  BY <1>2, <1>4
<1>6. a \in KidsOf(n) /\ n.kids[1] = a /\ Len(n.kids) = 1
  BY <1>5, OneKid
<1>7. \A c \in KidsOf(n) : Knows(D, s, c)
  BY <1>e, KidsKnown
<1> QED BY <1>d, <1>e, <1>4, <1>5, <1>6, <1>7

LEMMA SepStands ==
  ASSUME NEW s \in Seq(Kind), NEW a, NEW b, a.type \in ListType, b.type \in LogicType \cup {"bg"},
         NEW i \in Nat, NEW m \in Nat, NEW p \in Nat, NEW j \in Nat, Stand(s, a, i, m),
         IF EndsInBackground(a) THEN p = m ELSE Tok(s, m, LineEnd) /\ p = m + 1,
         After(s, b, p, j)
  PROVE  Bare(s, Node("sep", <<a, b>>), i, j)
<1>1. PICK n : n = Node("sep", <<a, b>>)
  OBVIOUS
<1>2. PICK D : D = KnownKids(s, n)
  OBVIOUS
<1>3. /\ IsTree(n) /\ n.type = "sep" /\ n.kids[1] = a /\ n.kids[2] = b /\ n.kids = <<a, b>>
      /\ Knows(D, s, a) /\ Knows(D, s, b)
  BY <1>1, <1>2, MadeOfTwo
<1>4. PICK A : A = Ends(D, s, a, {i})
  OBVIOUS
<1>5. m \in A
  BY <1>3, <1>4, StandIn
<1>6. PICK B : B = IF EndsInBackground(a) THEN A ELSE Token(s, LineEnd, A)
  OBVIOUS
<1>7. p \in B
  BY <1>5, <1>6, TokIn
<1>8. j \in Ends(D, s, b, Breaks(s, B))
  BY <1>3, <1>7, AfterIn
<1>9. BareEnds(D, s, n, {i}) = Ends(D, s, b, Breaks(s, B))
  <2>1. BareCases(D, s, n, {i})
    BY BareOf
  <2> QED BY <1>3, <1>4, <1>6, <2>1 DEF BareCases, LineEnd
<1>10. Shaped(n)
  BY <1>3, ShapedKids, Zenon
<1>11. i <= j /\ j <= Len(s) + 1
  <2>0. p >= m
    <3>1. p = m \/ p = m + 1
      OBVIOUS
    <3> QED BY <3>1
  <2>1. i <= m
    BY StandIs
  <2>2. p <= j /\ j <= Len(s) + 1
    BY AfterIs
  <2> QED BY <2>0, <2>1, <2>2
<1> QED BY <1>1, <1>2, <1>3, <1>8, <1>9, <1>10, <1>11, BareFrom

LEMMA BackgroundStands ==
  ASSUME NEW s \in Seq(Kind), NEW a, a.type \in LogicType, NEW i \in Nat, NEW m \in Nat,
         Stand(s, a, i, m), Tok(s, m, {"&"})
  PROVE  Bare(s, Node("bg", <<a>>), i, m + 1)
<1>1. PICK n : n = Node("bg", <<a>>)
  OBVIOUS
<1>2. PICK D : D = KnownKids(s, n)
  OBVIOUS
<1>3. IsTree(n) /\ n.type = "bg" /\ n.kids[1] = a /\ n.kids = <<a>> /\ Knows(D, s, a)
  BY <1>1, <1>2, MadeOfOne
<1>4. PICK A : A = Ends(D, s, a, {i})
  OBVIOUS
<1>5. m \in A
  BY <1>3, <1>4, StandIn
<1>6. m + 1 \in Token(s, {"&"}, A)
  BY <1>5, TokIn
<1>7. BareEnds(D, s, n, {i}) = Token(s, {"&"}, A)
  <2>1. BareCases(D, s, n, {i})
    BY BareOf
  <2> QED BY <1>3, <1>4, <2>1 DEF BareCases
<1>8. Shaped(n)
  BY <1>3, ShapedKids, Zenon
<1>9. i <= m /\ m <= Len(s)
  BY StandIs, TokIs
<1>10. i <= m + 1 /\ m + 1 <= Len(s) + 1 /\ m + 1 \in Nat
  BY <1>9
<1> QED BY <1>1, <1>2, <1>3, <1>6, <1>7, <1>8, <1>10, BareFrom

\* two trees with a token between them
LEMMA JoinedStand ==
  ASSUME NEW s \in Seq(Kind), NEW a, NEW b, NEW y, NEW k,
         \/ y = "and" /\ k = "&&" /\ a.type \in LogicType /\ b.type \in PipelineType
         \/ y = "or" /\ k = "||" /\ a.type \in LogicType /\ b.type \in PipelineType
         \/ y = "pipe" /\ k = "|" /\ a.type \in CommandType /\ b.type \in StageType,
         NEW i \in Nat, NEW m \in Nat, NEW j \in Nat, Stand(s, a, i, m), Tok(s, m, {k}), After(s, b, m + 1, j)
  PROVE  Bare(s, Node(y, <<a, b>>), i, j)
<1>1. PICK n : n = Node(y, <<a, b>>)
  OBVIOUS
<1>2. PICK D : D = KnownKids(s, n)
  OBVIOUS
<1>3. /\ IsTree(n) /\ n.type = y /\ n.kids[1] = a /\ n.kids[2] = b /\ n.kids = <<a, b>>
      /\ Knows(D, s, a) /\ Knows(D, s, b)
  BY <1>1, <1>2, MadeOfTwo
<1>4. PICK A : A = Ends(D, s, a, {i})
  OBVIOUS
<1>5. m \in A
  BY <1>3, <1>4, StandIn
<1>6. PICK B : B = Token(s, {k}, A)
  OBVIOUS
<1>7. m + 1 \in B
  BY <1>5, <1>6, TokIn
<1>8. j \in Ends(D, s, b, Breaks(s, B))
  BY <1>3, <1>7, AfterIn
<1>9. BareEnds(D, s, n, {i}) = Ends(D, s, b, Breaks(s, B))
  <2>1. BareCases(D, s, n, {i})
    BY BareOf
  <2>2. CASE y = "and" /\ k = "&&"
    BY <1>3, <1>4, <1>6, <2>1, <2>2 DEF BareCases
  <2>3. CASE y = "or" /\ k = "||"
    BY <1>3, <1>4, <1>6, <2>1, <2>3 DEF BareCases
  <2>4. CASE y = "pipe" /\ k = "|"
    BY <1>3, <1>4, <1>6, <2>1, <2>4 DEF BareCases
  <2> QED BY <2>2, <2>3, <2>4
<1>10. Shaped(n)
  <2>1. \/ n.type \in {"and", "or"} /\ a.type \in LogicType /\ b.type \in PipelineType
        \/ n.type = "pipe" /\ a.type \in CommandType /\ b.type \in StageType
    BY <1>3
  <2> QED BY <1>3, <2>1, ShapedKids, Zenon
<1>11. i <= j /\ j <= Len(s) + 1
  <2>1. i <= m /\ m + 1 <= j /\ j <= Len(s) + 1
    BY StandIs, AfterIs
  <2> QED BY <2>1
<1> QED BY <1>1, <1>2, <1>3, <1>8, <1>9, <1>10, <1>11, BareFrom

LEMMA NegateStands ==
  ASSUME NEW s \in Seq(Kind), NEW a, a.type \in StageType, NEW i \in Nat, NEW j \in Nat,
         Tok(s, i, {"!"}), After(s, a, i + 1, j)
  PROVE  Bare(s, Node("negate", <<a>>), i, j)
<1>1. PICK n : n = Node("negate", <<a>>)
  OBVIOUS
<1>2. PICK D : D = KnownKids(s, n)
  OBVIOUS
<1>3. IsTree(n) /\ n.type = "negate" /\ n.kids[1] = a /\ n.kids = <<a>> /\ Knows(D, s, a)
  BY <1>1, <1>2, MadeOfOne
<1>4. PICK B : B = Token(s, {"!"}, {i})
  OBVIOUS
<1>5. i + 1 \in B
  BY <1>4, TokIn
<1>6. j \in Ends(D, s, a, Breaks(s, B))
  BY <1>3, <1>5, AfterIn
<1>7. BareEnds(D, s, n, {i}) = Ends(D, s, a, Breaks(s, B))
  <2>1. BareCases(D, s, n, {i})
    BY BareOf
  <2> QED BY <1>3, <1>4, <2>1 DEF BareCases
<1>8. Shaped(n)
  BY <1>3, ShapedKids, Zenon
<1>9. i <= j /\ j <= Len(s) + 1
  <2>1. i + 1 <= j /\ j <= Len(s) + 1
    BY AfterIs
  <2> QED BY <2>1
<1> QED BY <1>1, <1>2, <1>3, <1>6, <1>7, <1>8, <1>9, BareFrom

LEMMA EnclosedStands ==
  ASSUME NEW s \in Seq(Kind), NEW a, a.type \in ListType, NEW y, NEW K, NEW L,
         \/ y = "group" /\ K = OpenBrace /\ L = CloseBrace
         \/ y = "subshell" /\ K = {"("} /\ L = {")"},
         NEW i \in Nat, NEW m \in Nat, Tok(s, i, K), Listed(s, a, i + 1, m), Tok(s, m, L)
  PROVE  Bare(s, Node(y, <<a>>), i, m + 1)
<1>1. PICK n : n = Node(y, <<a>>)
  OBVIOUS
<1>2. PICK D : D = KnownKids(s, n)
  OBVIOUS
<1>3. IsTree(n) /\ n.type = y /\ n.kids[1] = a /\ n.kids = <<a>> /\ Knows(D, s, a)
  BY <1>1, <1>2, MadeOfOne
<1>4. PICK B : B = Token(s, K, {i})
  OBVIOUS
<1>5. i + 1 \in B
  BY <1>4, TokIn
<1>6. m \in Body(D, s, a, B)
  <2>1. i + 1 \in Nat
    OBVIOUS
  <2> QED BY <1>3, <1>5, <2>1, ListedIn, Zenon
<1>7. m + 1 \in Token(s, L, Body(D, s, a, B))
  BY <1>6, TokIn
<1>8. BareEnds(D, s, n, {i}) = Token(s, L, Body(D, s, a, B))
  <2>1. BareCases(D, s, n, {i})
    BY BareOf
  <2>2. CASE y = "group" /\ K = OpenBrace /\ L = CloseBrace
    BY <1>3, <1>4, <2>1, <2>2 DEF BareCases, OpenBrace, CloseBrace
  <2>3. CASE y = "subshell" /\ K = {"("} /\ L = {")"}
    BY <1>3, <1>4, <2>1, <2>3 DEF BareCases
  <2> QED BY <2>2, <2>3
<1>9. Shaped(n)
  <2>1. n.type \in {"group", "subshell", "for"}
    BY <1>3
  <2> QED BY <1>3, <2>1, ShapedKids, Zenon
<1>10. i <= m + 1 /\ m + 1 <= Len(s) + 1 /\ m + 1 \in Nat
  <2>0. i + 1 \in Nat
    OBVIOUS
  <2>1. i + 1 <= m
    BY <2>0, ListedIs, Zenon
  <2>2. m <= Len(s)
    BY TokIs
  <2> QED BY <2>1, <2>2
<1> QED BY <1>1, <1>2, <1>3, <1>7, <1>8, <1>9, <1>10, BareFrom

LEMMA LoopStands ==
  ASSUME NEW s \in Seq(Kind), NEW a, NEW b, a.type \in ListType, b.type \in ListType, NEW y \in {"while", "until"},
         NEW i \in Nat, NEW m \in Nat, NEW j \in Nat,
         Tok(s, i, {y}), Listed(s, a, i + 1, m), Tok(s, m, {"do"}), Listed(s, b, m + 1, j), Tok(s, j, {"done"})
  PROVE  Bare(s, Node(y, <<a, b>>), i, j + 1)
<1>1. PICK n : n = Node(y, <<a, b>>)
  OBVIOUS
<1>2. PICK D : D = KnownKids(s, n)
  OBVIOUS
<1>3. /\ IsTree(n) /\ n.type = y /\ n.kids[1] = a /\ n.kids[2] = b /\ n.kids = <<a, b>>
      /\ Knows(D, s, a) /\ Knows(D, s, b)
  BY <1>1, <1>2, MadeOfTwo
<1>4. PICK A : A = Body(D, s, a, Token(s, {y}, {i}))
  OBVIOUS
<1>5. m \in A
  <2>1. i + 1 \in Token(s, {y}, {i})
    BY TokIn
  <2> QED BY <1>3, <1>4, <2>1, ListedIn
<1>6. PICK B : B = Body(D, s, b, Token(s, {"do"}, A))
  OBVIOUS
<1>7. j \in B
  <2>1. m + 1 \in Token(s, {"do"}, A)
    BY <1>5, TokIn
  <2> QED BY <1>3, <1>6, <2>1, ListedIn
<1>8. j + 1 \in Token(s, {"done"}, B)
  BY <1>7, TokIn
<1>9. BareEnds(D, s, n, {i}) = Token(s, {"done"}, B)
  <2>1. BareCases(D, s, n, {i})
    BY BareOf
  <2> QED BY <1>3, <1>4, <1>6, <2>1 DEF BareCases
<1>10. Shaped(n)
  <2>1. n.type \in {"while", "until", "if"}
    BY <1>3
  <2> QED BY <1>3, <2>1, ShapedKids, Zenon
<1>11. i <= j + 1 /\ j + 1 <= Len(s) + 1 /\ j + 1 \in Nat
  <2>1. i + 1 <= m /\ m + 1 <= j /\ j <= Len(s)
    BY ListedIs, TokIs
  <2> QED BY <2>1
<1> QED BY <1>1, <1>2, <1>3, <1>8, <1>9, <1>10, <1>11, BareFrom

Worded(y, k, w) == [Node(y, k) EXCEPT !.words = w]

LEMMA WordedIs ==
  ASSUME NEW y, NEW S, NEW k \in Seq(S), NEW w \in Seq(Nat)
  PROVE  LET n == Worded(y, k, w)
         IN  /\ IsTree(n) /\ n.type = y /\ n.kids = k
             /\ n.words = w /\ n.assigns = <<>> /\ n.redirs = <<>>
<1>0. <<>> \in Seq(Nat)
  OBVIOUS
<1>1. PICK e : e = <<>> /\ e \in Seq(Nat)
  BY <1>0
<1>2. PICK m : m = [type |-> y, assigns |-> e, words |-> w, redirs |-> e, kids |-> k]
  OBVIOUS
<1>3. Worded(y, k, w) = m
  BY <1>1, <1>2 DEF Node, Worded
<1>4. IsTree(m) /\ m.type = y /\ m.assigns = e /\ m.words = w /\ m.redirs = e /\ m.kids = k
  <2>1. LET n == [type |-> y, assigns |-> e, words |-> w, redirs |-> e, kids |-> k]
        IN  IsTree(n) /\ n.type = y /\ n.assigns = e /\ n.words = w /\ n.redirs = e /\ n.kids = k
    BY <1>1, Whole, Zenon
  <2> QED BY <1>2, <2>1, Zenon
<1> QED BY <1>1, <1>3, <1>4, Zenon

WordedFacts(y, a, w, n, D, s) ==
  /\ IsTree(n) /\ n.type = y /\ n.kids = <<a>> /\ n.kids[1] = a /\ Len(n.kids) = 1
  /\ n.words = w /\ n.assigns = <<>> /\ n.redirs = <<>> /\ Knows(D, s, a)

LEMMA WordedOne ==
  ASSUME NEW y, NEW a, NEW w \in Seq(Nat), NEW s
  PROVE  WordedFacts(y, a, w, Worded(y, <<a>>, w), KnownKids(s, Worded(y, <<a>>, w)), s)
<1>d. PICK n : n = Worded(y, <<a>>, w)
  OBVIOUS
<1>e. PICK D : D = KnownKids(s, n)
  OBVIOUS
<1>1. <<a>> \in Seq({a})
  OBVIOUS
<1>2. PICK k \in Seq({a}) : k = <<a>>
  BY <1>1
<1>3. n = Worded(y, k, w)
  BY <1>d, <1>2
<1>4. IsTree(n) /\ n.type = y /\ n.kids = k /\ n.words = w /\ n.assigns = <<>> /\ n.redirs = <<>>
  BY <1>3, WordedIs
<1>5. n.kids = <<a>>
  BY <1>2, <1>4
<1>6. a \in KidsOf(n) /\ n.kids[1] = a /\ Len(n.kids) = 1
  BY <1>5, OneKid
<1>7. \A c \in KidsOf(n) : Knows(D, s, c)
  BY <1>e, KidsKnown
<1>8. WordedFacts(y, a, w, n, D, s)
  BY <1>4, <1>5, <1>6, <1>7, Zenon DEF WordedFacts
<1> QED BY <1>d, <1>e, <1>8, Zenon

LEMMA MadeOfThree ==
  ASSUME NEW y, NEW a, NEW b, NEW c, NEW s
  PROVE  LET n == Node(y, <<a, b, c>>)
             D == KnownKids(s, n)
         IN  /\ IsTree(n) /\ n.type = y /\ n.kids = <<a, b, c>> /\ n.kids[1] = a /\ n.kids[2] = b /\ n.kids[3] = c
             /\ Len(n.kids) = 3 /\ c \in KidsOf(n)
             /\ Knows(D, s, a) /\ Knows(D, s, b) /\ Knows(D, s, c)
<1>d. PICK n : n = Node(y, <<a, b, c>>)
  OBVIOUS
<1>e. PICK D : D = KnownKids(s, n)
  OBVIOUS
<1>1. <<a, b, c>> \in Seq({a, b, c})
  OBVIOUS
<1>2. PICK k \in Seq({a, b, c}) : k = <<a, b, c>>
  BY <1>1
<1>3. n = Node(y, k)
  BY <1>d, <1>2
<1>4. IsTree(n) /\ n.type = y /\ n.kids = k
  BY <1>3, NodeIs
<1>5. n.kids = <<a, b, c>>
  BY <1>2, <1>4
<1>6. a \in KidsOf(n) /\ b \in KidsOf(n) /\ c \in KidsOf(n)
      /\ n.kids[1] = a /\ n.kids[2] = b /\ n.kids[3] = c /\ Len(n.kids) = 3
  BY <1>5, ThreeKids
<1>7. \A x \in KidsOf(n) : Knows(D, s, x)
  BY <1>e, KidsKnown
<1>8. /\ IsTree(n) /\ n.type = y /\ n.kids = <<a, b, c>> /\ n.kids[1] = a /\ n.kids[2] = b /\ n.kids[3] = c
      /\ Len(n.kids) = 3 /\ c \in KidsOf(n)
      /\ Knows(D, s, a) /\ Knows(D, s, b) /\ Knows(D, s, c)
  BY <1>4, <1>5, <1>6, <1>7, Zenon
<1> QED BY <1>d, <1>e, <1>8, Zenon

LEMMA ShapedThree ==
  ASSUME NEW n, NEW a, NEW b, NEW c, n.kids = <<a, b, c>>, n.type = "if",
         a.type \in ListType, b.type \in ListType, c.type \in ListType
  PROVE  Shaped(n)
<1>1. DOMAIN n.kids = 1..3 /\ n.kids[1] = a /\ n.kids[2] = b /\ n.kids[3] = c /\ Len(n.kids) = 3
  OBVIOUS
<1>2. \A m \in 1..3 : m = 1 \/ m = 2 \/ m = 3
  OBVIOUS
<1> QED BY <1>1, <1>2 DEF Shaped

LEMMA FunctionStands ==
  ASSUME NEW s \in Seq(Kind), NEW a, a.type \in BareType, NEW i \in Nat, NEW j \in Nat,
         Tok(s, i, WordKind), Tok(s, i + 1, {"("}), Tok(s, i + 2, {")"}), After(s, a, i + 3, j)
  PROVE  Bare(s, Worded("func", <<a>>, <<i>>), i, j)
<1>1. PICK n : n = Worded("func", <<a>>, <<i>>)
  OBVIOUS
<1>2. PICK D : D = KnownKids(s, n)
  OBVIOUS
<1>3. IsTree(n) /\ n.type = "func" /\ n.kids[1] = a /\ n.kids = <<a>> /\ Knows(D, s, a) /\ n.words = <<i>>
  <2>1. <<i>> \in Seq(Nat)
    OBVIOUS
  <2>2. WordedFacts("func", a, <<i>>, n, D, s)
    BY <1>1, <1>2, <2>1, WordedOne, Zenon
  <2> QED BY <2>2, Zenon DEF WordedFacts
<1>4. PICK A : A = WordEnds(s, n, 1, {i})
  OBVIOUS
<1>5. i + 1 \in A
  <2>1. Len(n.words) = 1 /\ n.words[1] = i
    BY <1>3
  <2>2. \A x \in 1..1 : n.words[x] = i + x - 1 /\ n.words[x] \in DOMAIN s /\ s[n.words[x]] \in WordKind
    BY <2>1 DEF Tok
  <2>3. i + 1 = i + 1 - 1 + 1
    OBVIOUS
  <2> QED BY <1>4, <2>1, <2>2, <2>3 DEF WordEnds
<1>6. PICK B : B = Token(s, {")"}, Token(s, {"("}, A))
  OBVIOUS
<1>7. i + 3 \in B
  <2>1. (i + 1) + 1 = i + 2 /\ (i + 2) + 1 = i + 3
    OBVIOUS
  <2>2. i + 2 \in Token(s, {"("}, A)
    BY <1>5, <2>1, TokIn
  <2> QED BY <1>6, <2>1, <2>2, TokIn
<1>8. j \in Ends(D, s, a, Breaks(s, B))
  <2>1. i + 3 \in Nat
    OBVIOUS
  <2> QED BY <1>3, <1>7, <2>1, AfterIn, Zenon
<1>9. BareEnds(D, s, n, {i}) = Ends(D, s, a, Breaks(s, B))
  <2>1. BareCases(D, s, n, {i})
    BY BareOf
  <2> QED BY <1>3, <1>4, <1>6, <2>1 DEF BareCases
<1>10. Shaped(n)
  BY <1>3, ShapedKids, Zenon
<1>11. i <= j /\ j <= Len(s) + 1
  <2>0. i + 3 \in Nat
    OBVIOUS
  <2>1. i + 3 <= j /\ j <= Len(s) + 1
    BY <2>0, AfterIs, Zenon
  <2> QED BY <2>1
<1> QED BY <1>1, <1>2, <1>3, <1>8, <1>9, <1>10, <1>11, BareFrom

\* name and words of a for
ForHead(s, w, i, h) ==
  IF w[Len(w)] = 0 THEN h = i + 2 \/ (Tok(s, i + 2, LineEnd) /\ h = i + 3)
  ELSE /\ Tok(s, i + 2, {"in"})
       /\ \A x \in 2..Len(w) : w[x] = i + x + 1 /\ Tok(s, w[x], WordKind)
       /\ Tok(s, i + Len(w) + 2, LineEnd) /\ h = i + Len(w) + 3

LEMMA ForStands ==
  ASSUME NEW s \in Seq(Kind), NEW a, a.type \in ListType, NEW w \in Seq(Nat), w # <<>>,
         NEW i \in Nat, NEW h \in Nat, NEW m \in Nat,
         Tok(s, i, {"for"}), w[1] = i + 1, Tok(s, i + 1, WordKind), ForHead(s, w, i, h),
         Tok(s, h, {"do"}), Listed(s, a, h + 1, m), Tok(s, m, {"done"})
  PROVE  Bare(s, Worded("for", <<a>>, w), i, m + 1)
<1>1. PICK n : n = Worded("for", <<a>>, w)
  OBVIOUS
<1>2. PICK D : D = KnownKids(s, n)
  OBVIOUS
<1>3. IsTree(n) /\ n.type = "for" /\ n.kids[1] = a /\ n.kids = <<a>> /\ Knows(D, s, a) /\ n.words = w
  <2>1. WordedFacts("for", a, w, n, D, s)
    BY <1>1, <1>2, WordedOne, Zenon
  <2> QED BY <2>1, Zenon DEF WordedFacts
<1>4. PICK A : A = Token(s, WordKind, {x \in Token(s, {"for"}, {i}) : n.words[1] = x})
  OBVIOUS
<1>5. i + 2 \in A
  <2>1. i + 1 \in Token(s, {"for"}, {i})
    BY TokIn
  <2>2. i + 1 \in {x \in Token(s, {"for"}, {i}) : n.words[1] = x}
    BY <1>3, <2>1
  <2>3. (i + 1) + 1 = i + 2
    OBVIOUS
  <2> QED BY <1>4, <2>2, <2>3, TokIn
<1>6. PICK H : H = IF n.words[Len(n.words)] = 0 THEN A \cup Token(s, LineEnd, A)
                   ELSE Token(s, LineEnd, WordEnds(s, n, 2, Token(s, {"in"}, A)))
  OBVIOUS
<1>l. Len(w) \in Nat /\ Len(w) >= 1
  OBVIOUS
<1>7. h \in H
  <2>1. (i + 2) + 1 = i + 3
    OBVIOUS
  <2>2. CASE w[Len(w)] = 0
    <3>1. H = A \cup Token(s, LineEnd, A)
      BY <1>3, <1>6, <2>2
    <3>2. h = i + 2 \/ (Tok(s, i + 2, LineEnd) /\ h = i + 3)
      BY <2>2 DEF ForHead
    <3> QED BY <1>5, <2>1, <3>1, <3>2, TokIn
  <2>3. CASE w[Len(w)] # 0
    <3>1. H = Token(s, LineEnd, WordEnds(s, n, 2, Token(s, {"in"}, A)))
      BY <1>3, <1>6, <2>3
    <3>2. /\ Tok(s, i + 2, {"in"})
          /\ \A x \in 2..Len(w) : w[x] = i + x + 1 /\ Tok(s, w[x], WordKind)
          /\ Tok(s, i + Len(w) + 2, LineEnd) /\ h = i + Len(w) + 3
      BY <2>3 DEF ForHead
    <3>3. i + 3 \in Token(s, {"in"}, A)
      BY <1>5, <2>1, <3>2, TokIn
    <3>4. i + Len(w) + 2 \in WordEnds(s, n, 2, Token(s, {"in"}, A))
      <4>1. \A x \in 2..Len(n.words) : n.words[x] = i + 3 + x - 2 /\ n.words[x] \in DOMAIN s /\ s[n.words[x]] \in WordKind
        BY <1>3, <3>2 DEF Tok
      <4>2. i + Len(w) + 2 = i + 3 + Len(n.words) - 2 + 1
        BY <1>3, <1>l
      <4> QED BY <3>3, <4>1, <4>2 DEF WordEnds
    <3>5. (i + Len(w) + 2) + 1 = h
      BY <3>2, <1>l
    <3> QED BY <3>1, <3>2, <3>4, <3>5, TokIn
  <2> QED BY <2>2, <2>3
<1>8. PICK C : C = Body(D, s, a, Token(s, {"do"}, Breaks(s, H)))
  OBVIOUS
<1>9. h <= Len(s)
  BY TokIs
<1>10. m \in C
  <2>1. Nls(s, h, h)
    BY <1>9 DEF Nls
  <2>2. h \in Breaks(s, H)
    BY <1>7, <2>1, NlsIn
  <2>3. h + 1 \in Token(s, {"do"}, Breaks(s, H)) /\ h + 1 \in Nat
    BY <2>2, TokIn
  <2> QED BY <1>3, <1>8, <2>3, ListedIn, Zenon
<1>11. m + 1 \in Token(s, {"done"}, C)
  BY <1>10, TokIn
<1>12. BareEnds(D, s, n, {i}) = Token(s, {"done"}, C)
  <2>1. BareCases(D, s, n, {i})
    BY BareOf
  <2>2. /\ n.type = "for"
        /\ n.type = "for" =>
             LET name == Token(s, WordKind, {x \in Token(s, {"for"}, {i}) : n.words[1] = x})
                 head == IF n.words[Len(n.words)] = 0
                           THEN name \cup Token(s, LineEnd, name)
                           ELSE Token(s, LineEnd, WordEnds(s, n, 2, Token(s, {"in"}, name)))
             IN  BareEnds(D, s, n, {i}) = Token(s, {"done"}, Body(D, s, n.kids[1], Token(s, {"do"}, Breaks(s, head))))
    BY <1>3, <2>1, Zenon DEF BareCases, LineEnd
  <2> QED BY <1>3, <1>4, <1>6, <1>8, <2>2
<1>13. Shaped(n)
  <2>1. n.type \in {"group", "subshell", "for"}
    BY <1>3
  <2> QED BY <1>3, <2>1, ShapedKids, Zenon
<1>14. i <= m + 1 /\ m + 1 <= Len(s) + 1 /\ m + 1 \in Nat
  <2>0. h + 1 \in Nat
    OBVIOUS
  <2>1. h + 1 <= m
    BY <2>0, ListedIs, Zenon
  <2>2. m <= Len(s)
    BY TokIs
  <2>3. i <= h
    BY <1>l DEF ForHead
  <2> QED BY <2>1, <2>2, <2>3
<1> QED BY <1>1, <1>2, <1>3, <1>11, <1>12, <1>13, <1>14, BareFrom

\* if or elif, without what follows its body
LEMMA IfBody ==
  ASSUME NEW s \in Seq(Kind), NEW a, NEW b, NEW D, Knows(D, s, a), Knows(D, s, b),
         NEW i \in Nat, NEW m \in Nat, NEW j \in Nat,
         Tok(s, i, {"if", "elif"}), Listed(s, a, i + 1, m), Tok(s, m, {"then"}), Listed(s, b, m + 1, j)
  PROVE  /\ j \in Body(D, s, b, Token(s, {"then"}, Body(D, s, a, Token(s, {"if", "elif"}, {i}))))
         /\ i <= j /\ j <= Len(s) + 1
<1>1. PICK A : A = Body(D, s, a, Token(s, {"if", "elif"}, {i}))
  OBVIOUS
<1>2. i + 1 \in Nat /\ m + 1 \in Nat
  OBVIOUS
<1>3. m \in A
  <2>1. i + 1 \in Token(s, {"if", "elif"}, {i})
    BY TokIn
  <2> QED BY <1>1, <1>2, <2>1, ListedIn, Zenon
<1>4. j \in Body(D, s, b, Token(s, {"then"}, A))
  <2>1. m + 1 \in Token(s, {"then"}, A)
    BY <1>3, TokIn
  <2> QED BY <1>2, <2>1, ListedIn, Zenon
<1>5. i + 1 <= m /\ m + 1 <= j /\ j <= Len(s) + 1
  BY <1>2, ListedIs, Zenon
<1> QED BY <1>1, <1>4, <1>5

LEMMA IfStands ==
  ASSUME NEW s \in Seq(Kind), NEW a, NEW b, a.type \in ListType, b.type \in ListType,
         NEW i \in Nat, NEW m \in Nat, NEW j \in Nat,
         Tok(s, i, {"if", "elif"}), Listed(s, a, i + 1, m), Tok(s, m, {"then"}), Listed(s, b, m + 1, j)
  PROVE  Bare(s, Node("if", <<a, b>>), i, j)
<1>1. PICK n : n = Node("if", <<a, b>>)
  OBVIOUS
<1>2. PICK D : D = KnownKids(s, n)
  OBVIOUS
<1>3. /\ IsTree(n) /\ n.type = "if" /\ n.kids[1] = a /\ n.kids[2] = b /\ n.kids = <<a, b>> /\ Len(n.kids) = 2
      /\ Knows(D, s, a) /\ Knows(D, s, b)
  BY <1>1, <1>2, MadeOfTwo
<1>4. PICK V : V = Body(D, s, b, Token(s, {"then"}, Body(D, s, a, Token(s, {"if", "elif"}, {i}))))
  OBVIOUS
<1>5. j \in V /\ i <= j /\ j <= Len(s) + 1
  BY <1>3, <1>4, IfBody, Zenon
<1>6. BareEnds(D, s, n, {i}) = V
  <2>1. BareCases(D, s, n, {i})
    BY BareOf
  <2> QED BY <1>3, <1>4, <2>1 DEF BareCases
<1>7. Shaped(n)
  <2>1. n.type \in {"while", "until", "if"}
    BY <1>3
  <2> QED BY <1>3, <2>1, ShapedKids, Zenon
<1> QED BY <1>1, <1>2, <1>3, <1>5, <1>6, <1>7, BareFrom

LEMMA IfElseStands ==
  ASSUME NEW s \in Seq(Kind), NEW a, NEW b, NEW c, a.type \in ListType, b.type \in ListType, c.type \in ListType,
         NEW i \in Nat, NEW m \in Nat, NEW p \in Nat, NEW j \in Nat,
         Tok(s, i, {"if", "elif"}), Listed(s, a, i + 1, m), Tok(s, m, {"then"}), Listed(s, b, m + 1, p),
         \/ Tok(s, p, {"else"}) /\ Listed(s, c, p + 1, j)
         \/ Tok(s, p, {"elif"}) /\ c.type = "if" /\ Bare(s, c, p, j)
  PROVE  Bare(s, Node("if", <<a, b, c>>), i, j)
<1>1. PICK n : n = Node("if", <<a, b, c>>)
  OBVIOUS
<1>2. PICK D : D = KnownKids(s, n)
  OBVIOUS
<1>3. /\ IsTree(n) /\ n.type = "if" /\ n.kids[1] = a /\ n.kids[2] = b /\ n.kids[3] = c /\ n.kids = <<a, b, c>>
      /\ Len(n.kids) = 3 /\ Knows(D, s, a) /\ Knows(D, s, b) /\ Knows(D, s, c)
  BY <1>1, <1>2, MadeOfThree
<1>4. PICK V : V = Body(D, s, b, Token(s, {"then"}, Body(D, s, a, Token(s, {"if", "elif"}, {i}))))
  OBVIOUS
<1>5. p \in V /\ i <= p
  BY <1>3, <1>4, IfBody, Zenon
<1> DEFINE Rest == Body(D, s, c, Token(s, {"else"}, V))
           Elif == UNION {D[c][x] : x \in {y \in V \cap DOMAIN s : s[y] = "elif"}}
<1>6. BareEnds(D, s, n, {i}) = Rest \cup IF c.type # "if" THEN {} ELSE Elif
  <2>1. BareCases(D, s, n, {i})
    BY BareOf
  <2>2. n.type = "if" /\ Len(n.kids) # 2 /\ n.kids[3] = c
    BY <1>3
  <2>3. n.type = "if" =>
          LET body == Body(D, s, n.kids[2], Token(s, {"then"}, Body(D, s, n.kids[1], Token(s, {"if", "elif"}, {i}))))
          IN  BareEnds(D, s, n, {i}) =
                IF Len(n.kids) = 2 THEN body
                ELSE Body(D, s, n.kids[3], Token(s, {"else"}, body))
                       \cup IF n.kids[3].type # "if" THEN {}
                            ELSE UNION {D[n.kids[3]][x] : x \in {y \in body \cap DOMAIN s : s[y] = "elif"}}
    BY <2>1, Zenon DEF BareCases
  <2>4. V = Body(D, s, n.kids[2], Token(s, {"then"}, Body(D, s, n.kids[1], Token(s, {"if", "elif"}, {i}))))
    BY <1>3, <1>4
  <2> QED BY <2>2, <2>3, <2>4
<1>7. j \in BareEnds(D, s, n, {i})
  <2> HIDE DEF Rest, Elif
  <2>1. CASE Tok(s, p, {"else"}) /\ Listed(s, c, p + 1, j)
    <3>1. j \in Rest
      <4>0. p + 1 \in Nat
        OBVIOUS
      <4>1. p + 1 \in Token(s, {"else"}, V)
        BY <1>5, <2>1, TokIn
      <4> QED BY <1>3, <2>1, <4>0, <4>1, ListedIn, Zenon DEF Rest
    <3> QED BY <1>6, <3>1
  <2>2. CASE Tok(s, p, {"elif"}) /\ c.type = "if" /\ Bare(s, c, p, j)
    <3>1. p \in {y \in V \cap DOMAIN s : s[y] = "elif"}
      BY <1>5, <2>2 DEF Tok
    <3>2. j \in D[c][p]
      BY <1>3, <2>2 DEF Knows
    <3>3. j \in Elif
      BY <3>1, <3>2 DEF Elif
    <3> QED BY <1>6, <2>2, <3>3
  <2> QED BY <2>1, <2>2
<1>8. i <= j /\ j <= Len(s) + 1
  <2>1. CASE Tok(s, p, {"else"}) /\ Listed(s, c, p + 1, j)
    <3>1. p + 1 \in Nat
      OBVIOUS
    <3>2. p + 1 <= j /\ j <= Len(s) + 1
      BY <2>1, <3>1, ListedIs, Zenon
    <3> QED BY <1>5, <3>2
  <2>2. CASE Tok(s, p, {"elif"}) /\ c.type = "if" /\ Bare(s, c, p, j)
    <3>1. p <= j /\ j <= Len(s) + 1
      BY <2>2, BareIs
    <3> QED BY <1>5, <3>1
  <2> QED BY <2>1, <2>2
<1>9. Shaped(n)
  BY <1>3, ShapedThree, Zenon
<1> QED BY <1>1, <1>2, <1>3, <1>7, <1>8, <1>9, BareFrom

-----------------------------------------------------------------------------
(***************************************************************************)
(* The items of a case, from the positions after its in.                   *)
(***************************************************************************)
StartsOf(s, k) == {k.words[1] - 1, k.words[1]} \cap DOMAIN s
EndOf(s, k, j) == \E i \in StartsOf(s, k) : Bare(s, k, i, j)
Past(s, k, j) == \E m \in Nat : EndOf(s, k, m) /\ Tok(s, m, ItemEnd) /\ Nls(s, m + 1, j)
Follows(s, items, m, x, i) == IF m = 1 THEN Nls(s, x, i) ELSE Past(s, items[m - 1], i)
Linked(s, items, x) ==
  \A m \in DOMAIN items : /\ items[m].type = "item" /\ items[m].words # <<>>
                          /\ \E i \in StartsOf(s, items[m]) : Follows(s, items, m, x, i)

LEMMA EndOfIn ==
  ASSUME NEW s \in Seq(Kind), NEW k, NEW j, EndOf(s, k, j), NEW D, Knows(D, s, k)
  PROVE  j \in UNION {D[k][i] : i \in StartsOf(s, k)}
<1>1. PICK i \in StartsOf(s, k) : Bare(s, k, i, j)
  BY DEF EndOf
<1>2. i \in Nat /\ j \in Nat
  BY <1>1, BareIs
<1>3. j \in D[k][i]
  BY <1>1, <1>2 DEF Knows
<1> QED BY <1>3

LEMMA ItemsFrom ==
  ASSUME NEW s \in Seq(Kind), NEW D, NEW n, NEW x \in Nat, NEW I, x \in I, NEW h \in Nat,
         n.kids \in Seq(KidsOf(n)), \A k \in KidsOf(n) : Knows(D, s, k), Linked(s, n.kids, x),
         \/ Follows(s, n.kids, Len(n.kids) + 1, x, h)
         \/ n.kids # <<>> /\ EndOf(s, n.kids[Len(n.kids)], h)
  PROVE  h \in Items(D, s, n, I)
<1> DEFINE item(m) == n.kids[m]
           starts(m) == {item(m).words[1] - 1, item(m).words[1]} \cap DOMAIN s
           ends(m) == UNION {D[item(m)][i] : i \in starts(m)}
           next(m) == Breaks(s, Token(s, ItemEnd, ends(m)))
           last == Len(n.kids)
           linked == /\ \A m \in 1..last : item(m).type = "item" /\ item(m).words # <<>>
                     /\ starts(1) \cap Breaks(s, I) # {}
                     /\ \A m \in 1..(last - 1) : starts(m + 1) \cap next(m) # {}
<1>1. Items(D, s, n, I) = IF last = 0 THEN Breaks(s, I)
                          ELSE IF linked THEN next(last) \cup ends(last) ELSE {}
  BY Zenon DEF Items, ItemEnd
<1>2. last \in Nat /\ DOMAIN n.kids = 1..last /\ (n.kids = <<>> <=> last = 0)
  OBVIOUS
<1>3. ASSUME NEW m \in 1..last, NEW j, EndOf(s, item(m), j) PROVE j \in ends(m)
  <2>1. item(m) \in KidsOf(n)
    BY <1>2 DEF KidsOf
  <2>2. Knows(D, s, item(m))
    BY <2>1
  <2>3. PICK k : k = item(m)
    OBVIOUS
  <2>4. j \in UNION {D[k][i] : i \in StartsOf(s, k)}
    BY <1>3, <2>2, <2>3, EndOfIn
  <2> QED BY <2>3, <2>4 DEF StartsOf
<1>a. \A m \in 1..last : starts(m) = StartsOf(s, item(m))
  BY DEF StartsOf
<1> HIDE DEF ends, starts
<1>4. ASSUME NEW m \in 1..last, NEW j, Past(s, item(m), j), j \in Nat PROVE j \in next(m)
  <2>1. PICK e \in Nat : EndOf(s, item(m), e) /\ Tok(s, e, ItemEnd) /\ Nls(s, e + 1, j)
    BY <1>4 DEF Past
  <2>2. e \in ends(m)
    BY <1>3, <2>1
  <2>3. e + 1 \in Token(s, ItemEnd, ends(m)) /\ e + 1 \in Nat
    BY <2>1, <2>2, TokIn
  <2> QED BY <1>4, <2>1, <2>3, NlsIn, Zenon
<1> HIDE DEF next
<1>5. ASSUME NEW j \in Nat, Nls(s, x, j) PROVE j \in Breaks(s, I)
  BY <1>5, NlsIn
<1>6. CASE last = 0
  <2>1. Nls(s, x, h)
    BY <1>2, <1>6 DEF Follows
  <2> QED BY <1>1, <1>5, <1>6, <2>1
<1>7. CASE last # 0
  <2>1. 1 \in 1..last /\ last \in 1..last /\ last + 1 # 1 /\ (last + 1) - 1 = last
        /\ \A m \in 1..(last - 1) : m \in 1..last /\ m + 1 \in 1..last /\ m + 1 # 1 /\ (m + 1) - 1 = m
    BY <1>2, <1>7
  <2>2. starts(1) \cap Breaks(s, I) # {}
    <3>1. PICK i \in StartsOf(s, item(1)) : Follows(s, n.kids, 1, x, i)
      BY <1>2, <2>1, Zenon DEF Linked
    <3>2. i \in DOMAIN s /\ i \in Nat
      BY <3>1 DEF StartsOf
    <3>3. Nls(s, x, i)
      BY <3>1 DEF Follows
    <3> QED BY <1>5, <1>a, <2>1, <3>1, <3>2, <3>3
  <2>3. ASSUME NEW m \in 1..(last - 1) PROVE starts(m + 1) \cap next(m) # {}
    <3>0. m \in 1..last /\ m + 1 \in 1..last /\ m + 1 # 1 /\ (m + 1) - 1 = m
      BY <2>1, <2>3
    <3>1. PICK i \in StartsOf(s, item(m + 1)) : Follows(s, n.kids, m + 1, x, i)
      BY <1>2, <3>0, Zenon DEF Linked
    <3>2. i \in Nat
      BY <3>1 DEF StartsOf
    <3>3. Past(s, item(m), i)
      BY <3>0, <3>1 DEF Follows
    <3>4. i \in next(m)
      BY <1>4, <3>0, <3>2, <3>3
    <3> QED BY <1>a, <3>0, <3>1, <3>4
  <2>4. \A m \in 1..last : item(m).type = "item" /\ item(m).words # <<>>
    BY <1>2, Zenon DEF Linked
  <2>5. Items(D, s, n, I) = next(last) \cup ends(last)
    BY <1>1, <1>7, <2>2, <2>3, <2>4, Zenon
  <2>6. CASE Follows(s, n.kids, Len(n.kids) + 1, x, h)
    <3>1. Past(s, item(last), h)
      BY <2>1, <2>6 DEF Follows
    <3> QED BY <1>4, <2>1, <2>5, <3>1
  <2>7. CASE EndOf(s, n.kids[Len(n.kids)], h)
    BY <1>3, <2>1, <2>5, <2>7
  <2> QED BY <2>6, <2>7
<1> QED BY <1>6, <1>7

LEMMA LinkedMore ==
  ASSUME NEW s \in Seq(Kind), NEW S, NEW items \in Seq(S), NEW x, Linked(s, items, x), NEW k,
         k.type = "item", k.words # <<>>,
         \E i \in StartsOf(s, k) : Follows(s, items, Len(items) + 1, x, i)
  PROVE  Linked(s, Append(items, k), x)
<1>1. PICK e : e = Append(items, k)
  OBVIOUS
<1>2. PICK w \in Nat : w = Len(items) /\ DOMAIN items = 1..w
  OBVIOUS
<1>3. DOMAIN e = 1..(w + 1) /\ e[w + 1] = k /\ \A m \in 1..w : e[m] = items[m]
  BY <1>1, <1>2
<1>4. ASSUME NEW m \in DOMAIN e
      PROVE  /\ e[m].type = "item" /\ e[m].words # <<>>
             /\ \E i \in StartsOf(s, e[m]) : Follows(s, e, m, x, i)
  <2>1. \A i : Follows(s, e, m, x, i) <=> Follows(s, items, m, x, i)
    <3>1. m = 1 \/ m - 1 \in 1..w
      BY <1>2, <1>3
    <3>2. m # 1 => e[m - 1] = items[m - 1]
      BY <1>3, <3>1
    <3> QED BY <3>2 DEF Follows
  <2>2. CASE m \in 1..w
    <3>1. e[m] = items[m] /\ m \in DOMAIN items
      BY <1>2, <1>3, <2>2
    <3>2. /\ items[m].type = "item" /\ items[m].words # <<>>
          /\ \E i \in StartsOf(s, items[m]) : Follows(s, items, m, x, i)
      BY <3>1, Zenon DEF Linked
    <3> QED BY <2>1, <3>1, <3>2
  <2>3. CASE m = w + 1
    <3>1. e[m] = k
      BY <1>3, <2>3
    <3>2. PICK i \in StartsOf(s, k) : Follows(s, items, m, x, i)
      BY <1>2, <2>3
    <3> QED BY <2>1, <3>1, <3>2
  <2> QED BY <1>2, <1>3, <2>2, <2>3
<1>5. Linked(s, e, x)
  BY <1>4, Zenon DEF Linked
<1> QED BY <1>1, <1>5

LEMMA ShapedItems ==
  ASSUME NEW n, n.type = "case", \A m \in DOMAIN n.kids : n.kids[m].type = "item"
  PROVE  Shaped(n)
  BY DEF Shaped

Parted(n, y, k, w) == IsTree(n) /\ n.type = y /\ n.kids = k /\ n.words = w
LEMMA WordedParts ==
  ASSUME NEW y, NEW S, NEW k \in Seq(S), NEW w \in Seq(Nat)
  PROVE  Parted(Worded(y, k, w), y, k, w)
  BY WordedIs DEF Parted

LEMMA CaseStands ==
  ASSUME NEW s \in Seq(Kind), NEW S, NEW items \in Seq(S), NEW i \in Nat, NEW h \in Nat, i <= h,
         Tok(s, i, {"case"}), Tok(s, i + 1, WordKind), Tok(s, i + 2, {"in"}), Linked(s, items, i + 3),
         \/ Follows(s, items, Len(items) + 1, i + 3, h)
         \/ items # <<>> /\ EndOf(s, items[Len(items)], h),
         Tok(s, h, {"esac"})
  PROVE  Bare(s, Worded("case", items, <<i + 1>>), i, h + 1)
<1>1. PICK n : n = Worded("case", items, <<i + 1>>)
  OBVIOUS
<1>2. PICK D : D = KnownKids(s, n)
  OBVIOUS
<1>3. IsTree(n) /\ n.type = "case" /\ n.kids = items /\ n.words = <<i + 1>>
  <2>1. <<i + 1>> \in Seq(Nat)
    OBVIOUS
  <2>2. Parted(n, "case", items, <<i + 1>>)
    BY <1>1, <2>1, WordedParts, Zenon
  <2> QED BY <2>2, Zenon DEF Parted
<1>4. \A k \in KidsOf(n) : Knows(D, s, k)
  BY <1>2, KidsKnown
<1>5. PICK A : A = WordEnds(s, n, 1, Token(s, {"case"}, {i}))
  OBVIOUS
<1>6. i + 2 \in A
  <2>1. i + 1 \in Token(s, {"case"}, {i})
    BY TokIn
  <2>2. Len(n.words) = 1 /\ n.words[1] = i + 1
    BY <1>3
  <2>3. \A x \in 1..1 : n.words[x] = (i + 1) + x - 1 /\ n.words[x] \in DOMAIN s /\ s[n.words[x]] \in WordKind
    BY <2>2 DEF Tok
  <2>4. i + 2 = (i + 1) + 1 - 1 + 1
    OBVIOUS
  <2> QED BY <1>5, <2>1, <2>2, <2>3, <2>4 DEF WordEnds
<1>7. PICK I : I = Token(s, {"in"}, A)
  OBVIOUS
<1>8. i + 3 \in I /\ i + 3 \in Nat
  <2>1. (i + 2) + 1 = i + 3
    OBVIOUS
  <2> QED BY <1>6, <1>7, <2>1, TokIn
<1>9. h \in Items(D, s, n, I)
  <2>1. n.kids \in Seq(KidsOf(n))
    BY <1>3 DEF IsTree
  <2>2. \/ Follows(s, n.kids, Len(n.kids) + 1, i + 3, h)
        \/ n.kids # <<>> /\ EndOf(s, n.kids[Len(n.kids)], h)
    BY <1>3
  <2>3. Linked(s, n.kids, i + 3)
    BY <1>3
  <2> QED BY <1>4, <1>8, <2>1, <2>2, <2>3, ItemsFrom, Zenon
<1>10. h + 1 \in Token(s, {"esac"}, Items(D, s, n, I))
  BY <1>9, TokIn
<1>11. BareEnds(D, s, n, {i}) = Token(s, {"esac"}, Items(D, s, n, I))
  <2>1. BareCases(D, s, n, {i})
    BY BareOf
  <2> QED BY <1>3, <1>5, <1>7, <2>1 DEF BareCases
<1>12. Shaped(n)
  <2>1. \A m \in DOMAIN n.kids : n.kids[m].type = "item"
    BY <1>3, Zenon DEF Linked
  <2> QED BY <1>3, <2>1, ShapedItems
<1>13. i <= h + 1 /\ h + 1 <= Len(s) + 1 /\ h + 1 \in Nat
  <2>1. h <= Len(s)
    BY TokIs
  <2> QED BY <2>1
<1> QED BY <1>1, <1>2, <1>3, <1>10, <1>11, <1>12, <1>13, BareFrom

\* the patterns of an item from b on
Patterns(s, r, b) ==
  \A x \in DOMAIN r : /\ r[x] = b + 2 * (x - 1) /\ Tok(s, r[x], WordKind)
                      /\ x < Len(r) => Tok(s, r[x] + 1, {"|"})

LEMMA ItemStands ==
  ASSUME NEW s \in Seq(Kind), NEW r \in Seq(Nat), r # <<>>, NEW b \in Nat, Patterns(s, r, b),
         NEW i \in Nat, i = b \/ (i + 1 = b /\ Tok(s, i, {"("})), NEW z \in Nat, z = b + 2 * Len(r) - 1, Tok(s, z, {")"}),
         NEW p \in Nat, Nls(s, z + 1, p), NEW j \in Nat,
         NEW body, \/ body = <<>> /\ j = p
                   \/ \E a : body = <<a>> /\ a.type \in ListType /\ Listed(s, a, p, j)
  PROVE  Bare(s, Worded("item", body, r), i, j)
<1>1. PICK n : n = Worded("item", body, r)
  OBVIOUS
<1>2. PICK D : D = KnownKids(s, n)
  OBVIOUS
<1>3. IsTree(n) /\ n.type = "item" /\ n.kids = body /\ n.words = r
  <2>1. \E S : body \in Seq(S)
    <3>1. CASE body = <<>>
      <4>1. body \in Seq({})
        BY <3>1
      <4> QED BY <4>1
    <3>2. CASE \E a : body = <<a>>
      <4>1. PICK a : body = <<a>>
        BY <3>2
      <4>2. body \in Seq({a})
        BY <4>1
      <4> QED BY <4>2
    <3> QED BY <3>1, <3>2
  <2>2. PICK S : body \in Seq(S)
    BY <2>1
  <2> QED BY <1>1, <2>2, WordedIs
<1>4. \A k \in KidsOf(n) : Knows(D, s, k)
  BY <1>2, KidsKnown
<1> DEFINE start == {i} \cup Token(s, {"("}, {i})
           bars == {c \in start : \A m \in DOMAIN n.words :
                      /\ n.words[m] = c + 2 * (m - 1)
                      /\ n.words[m] \in DOMAIN s /\ s[n.words[m]] \in WordKind
                      /\ m < Len(n.words) => n.words[m] + 1 \in DOMAIN s /\ s[n.words[m] + 1] = "|"}
           behind == {c + 2 * Len(n.words) - 1 : c \in bars}
           front == Breaks(s, Token(s, {")"}, behind))
<1>5. ItemEnds(D, s, n, {i}) = IF n.kids = <<>> THEN front ELSE Body(D, s, n.kids[1], front)
  BY Zenon DEF ItemEnds
<1>6. b \in start
  <2>1. CASE i = b
    BY <2>1
  <2>2. CASE i + 1 = b /\ Tok(s, i, {"("})
    <3>1. i + 1 \in Token(s, {"("}, {i})
      BY <2>2, TokIn
    <3> QED BY <2>2, <3>1
  <2> QED BY <2>1, <2>2
<1> HIDE DEF start
<1>7. b \in bars
  <2>1. \A m \in DOMAIN n.words :
          /\ n.words[m] = b + 2 * (m - 1)
          /\ n.words[m] \in DOMAIN s /\ s[n.words[m]] \in WordKind
          /\ m < Len(n.words) => n.words[m] + 1 \in DOMAIN s /\ s[n.words[m] + 1] \in {"|"}
    BY <1>3, Zenon DEF Patterns, Tok
  <2>2. \A c : c \in {"|"} => c = "|"
    OBVIOUS
  <2> QED BY <1>6, <2>1, <2>2, Zenon
<1> HIDE DEF bars
<1>8. z \in behind
  BY <1>3, <1>7
<1> HIDE DEF behind
<1>9. p \in front
  <2>1. z + 1 \in Token(s, {")"}, behind) /\ z + 1 \in Nat
    BY <1>8, TokIn
  <2> QED BY <2>1, NlsIn, Zenon
<1> HIDE DEF front
<1>10. BareEnds(D, s, n, {i}) = ItemEnds(D, s, n, {i})
  <2>1. BareCases(D, s, n, {i})
    BY BareOf
  <2> QED BY <1>3, <2>1 DEF BareCases
<1>11. z <= Len(s) /\ i <= z /\ z + 1 <= p /\ p <= Len(s) + 1
  <2>1. z <= Len(s)
    BY TokIs
  <2>2. Len(r) \in Nat /\ Len(r) >= 1
    OBVIOUS
  <2>3. i <= b
    OBVIOUS
  <2>4. b <= z
    BY <2>2
  <2> QED BY <2>1, <2>3, <2>4 DEF Nls
<1>12. CASE body = <<>> /\ j = p
  <2>1. Shaped(n)
    <3>1. n.kids = <<>> /\ n.type \in {"cmd", "item", "case"}
      BY <1>3, <1>12
    <3> QED BY <3>1, ShapedKids, Zenon
  <2>2. j \in BareEnds(D, s, n, {i})
    BY <1>3, <1>5, <1>9, <1>10, <1>12
  <2>3. i <= j /\ j <= Len(s) + 1
    BY <1>11, <1>12
  <2> QED BY <1>1, <1>2, <1>3, <2>1, <2>2, <2>3, BareFrom
<1>13. CASE \E a : body = <<a>> /\ a.type \in ListType /\ Listed(s, a, p, j)
  <2>1. PICK a : body = <<a>> /\ a.type \in ListType /\ Listed(s, a, p, j)
    BY <1>13
  <2>2. a \in KidsOf(n) /\ n.kids[1] = a /\ n.kids # <<>> /\ n.kids = <<a>>
    <3>1. n.kids = <<a>>
      BY <1>3, <2>1
    <3> QED BY <3>1, OneKid
  <2>3. Shaped(n)
    BY <1>3, <2>1, <2>2, ShapedKids, Zenon
  <2>4. j \in Body(D, s, a, front)
    BY <1>4, <1>9, <2>1, <2>2, ListedIn, Zenon
  <2>5. j \in BareEnds(D, s, n, {i})
    BY <1>5, <1>10, <2>2, <2>4
  <2>6. p <= j /\ j <= Len(s) + 1
    BY <2>1, ListedIs
  <2>7. i <= j
    BY <1>11, <2>6
  <2> QED BY <1>1, <1>2, <1>3, <2>3, <2>5, <2>6, <2>7, BareFrom
<1> QED BY <1>12, <1>13

\* a simple command
SimpleNode(a, w, r) == [Node("cmd", <<>>) EXCEPT !.assigns = a, !.words = w, !.redirs = r]

LEMMA SimpleNodeIs ==
  ASSUME NEW a \in Seq(Nat), NEW w \in Seq(Nat), NEW r \in Seq(Nat)
  PROVE  LET n == SimpleNode(a, w, r)
         IN  IsTree(n) /\ n.type = "cmd" /\ n.assigns = a /\ n.words = w /\ n.redirs = r /\ n.kids = <<>>
<1>1. <<>> \in Seq({})
  OBVIOUS
<1>2. PICK k : k = <<>> /\ k \in Seq({})
  BY <1>1
<1>3. PICK m : m = [type |-> "cmd", assigns |-> a, words |-> w, redirs |-> r, kids |-> k]
  OBVIOUS
<1>i. PICK e : e = <<>>
  OBVIOUS
<1>a. PICK c : c = [type |-> "cmd", assigns |-> e, words |-> e, redirs |-> e, kids |-> k]
  OBVIOUS
<1>b. Node("cmd", <<>>) = c
  BY <1>2, <1>a, <1>i, Zenon DEF Node
<1>d. PICK f : f = [type |-> "cmd", assigns |-> a, words |-> e, redirs |-> e, kids |-> k]
  OBVIOUS
<1>e. PICK g : g = [type |-> "cmd", assigns |-> a, words |-> w, redirs |-> e, kids |-> k]
  OBVIOUS
<1>f. [c EXCEPT !.assigns = a] = f
  BY <1>a, <1>d
<1>g. [f EXCEPT !.words = w] = g
  BY <1>d, <1>e
<1>h. [g EXCEPT !.redirs = r] = m
  BY <1>3, <1>e
<1>c. [c EXCEPT !.assigns = a, !.words = w, !.redirs = r] = m
  BY <1>f, <1>g, <1>h, Zenon
<1>4. SimpleNode(a, w, r) = m
  BY <1>b, <1>c, Zenon DEF SimpleNode
<1>5. IsTree(m) /\ m.type = "cmd" /\ m.assigns = a /\ m.words = w /\ m.redirs = r /\ m.kids = k
  <2>1. LET n == [type |-> "cmd", assigns |-> a, words |-> w, redirs |-> r, kids |-> k]
        IN  IsTree(n) /\ n.type = "cmd" /\ n.assigns = a /\ n.words = w /\ n.redirs = r /\ n.kids = k
    BY <1>2, Whole, Zenon
  <2> QED BY <1>3, <2>1, Zenon
<1> QED BY <1>2, <1>4, <1>5

LEMMA SimpleStands ==
  ASSUME NEW s \in Seq(Kind), NEW n, IsTree(n), n.type = "cmd", n.kids = <<>>,
         NEW i \in Nat, i \in DOMAIN s, NEW j \in Nat, j = i + Size(n), j - 1 \in DOMAIN s, IsSimple(s, n, i)
  PROVE  Bare(s, n, i, j)
<1>1. PICK D : D = KnownKids(s, n)
  OBVIOUS
<1>2. Size(n) \in Nat
  <2>0. Numbered(n)
    BY Zenon DEF IsTree
  <2>1. PICK a \in Nat, b \in Nat, c \in Nat : Len(n.words) = a /\ Len(n.assigns) = b /\ Len(n.redirs) = c
    BY <2>0 DEF Numbered
  <2>2. Size(n) = a + b + 2 * c
    BY <2>1, Zenon DEF Size
  <2> QED BY <2>2
<1>3. j \in SimpleEnds(s, n, {i})
  <2>1. i + Size(n) - 1 = j - 1
    BY <1>2
  <2>2. i \in {i} \cap DOMAIN s /\ i + Size(n) - 1 \in DOMAIN s
    BY <2>1
  <2> QED BY <2>2, Zenon DEF SimpleEnds
<1>4. BareEnds(D, s, n, {i}) = SimpleEnds(s, n, {i})
  <2>1. BareCases(D, s, n, {i})
    BY BareOf
  <2> QED BY <2>1 DEF BareCases
<1>5. Shaped(n)
  <2>1. n.type \in {"cmd", "item", "case"}
    OBVIOUS
  <2> QED BY <2>1, ShapedKids, Zenon
<1>6. i <= j /\ j <= Len(s) + 1
  BY <1>2
<1> QED BY <1>1, <1>3, <1>4, <1>5, <1>6, BareFrom

-----------------------------------------------------------------------------
(***************************************************************************)
(* All of it stays true when more tokens follow.                           *)
(***************************************************************************)
LEMMA TokGrows ==
  ASSUME NEW s, NEW t, Prefix(s, t), NEW i, NEW K, Tok(s, i, K)
  PROVE  Tok(t, i, K)
  BY DEF Tok, Prefix

LEMMA NlsGrow ==
  ASSUME NEW s, NEW t, Prefix(s, t), NEW i \in Nat, NEW j \in Nat, Nls(s, i, j)
  PROVE  Nls(t, i, j)
<1>1. Len(s) \in Nat /\ Len(t) \in Nat /\ Len(s) <= Len(t)
  BY DEF Prefix
<1>2. \A m \in i..(j - 1) : Tok(t, m, {"nl"})
  BY TokGrows DEF Nls
<1> QED BY <1>1, <1>2 DEF Nls

LEMMA CoreGrows ==
  ASSUME NEW s, NEW t, Prefix(s, t), NEW n, NEW i, NEW j, Core(s, n, i, j)
  PROVE  Core(t, n, i, j)
<1>1. CASE n.type = "if"
  <2>1. PICK m \in Nat : Bare(s, n, i, m) /\ Tok(s, m, {"fi"}) /\ j = m + 1 /\ Tok(s, i, {"if"})
    BY <1>1 DEF Core
  <2>2. Bare(t, n, i, m) /\ Tok(t, m, {"fi"}) /\ Tok(t, i, {"if"})
    BY <2>1, BareGrows, TokGrows
  <2> QED BY <1>1, <2>1, <2>2 DEF Core
<1>2. CASE n.type # "if"
  BY <1>2, BareGrows DEF Core
<1> QED BY <1>1, <1>2

LEMMA RedirectedGrows ==
  ASSUME NEW s, NEW t, Prefix(s, t), NEW r, NEW i, NEW j, Redirected(s, r, i, j)
  PROVE  Redirected(t, r, i, j)
  BY TokGrows, Zenon DEF Redirected

LEMMA StandGrows ==
  ASSUME NEW s, NEW t, Prefix(s, t), NEW n, NEW i, NEW j, Stand(s, n, i, j)
  PROVE  Stand(t, n, i, j)
<1>1. CASE n.type \in BareType
  BY <1>1, CoreGrows, RedirectedGrows DEF Stand
<1>2. CASE n.type \notin BareType
  BY <1>2, BareGrows DEF Stand
<1> QED BY <1>1, <1>2

LEMMA AfterGrows ==
  ASSUME NEW s, NEW t, Prefix(s, t), NEW n, NEW i \in Nat, NEW j, After(s, n, i, j)
  PROVE  After(t, n, i, j)
<1>1. PICK m \in Nat : Nls(s, i, m) /\ Stand(s, n, m, j)
  BY DEF After
<1>2. Nls(t, i, m) /\ Stand(t, n, m, j)
  BY <1>1, NlsGrow, StandGrows
<1> QED BY <1>2 DEF After

LEMMA ListedGrows ==
  ASSUME NEW s, NEW t, Prefix(s, t), NEW n, NEW i \in Nat, NEW j \in Nat, Listed(s, n, i, j)
  PROVE  Listed(t, n, i, j)
<1>1. PICK m \in Nat, p \in Nat : /\ After(s, n, i, m)
                                  /\ p = m \/ (~EndsInBackground(n) /\ Tok(s, m, Semicolon) /\ p = m + 1)
                                  /\ Nls(s, p, j)
  BY DEF Listed
<1>2. After(t, n, i, m) /\ Nls(t, p, j) /\ (Tok(s, m, Semicolon) => Tok(t, m, Semicolon))
  BY <1>1, AfterGrows, NlsGrow, TokGrows
<1>3. p = m \/ (~EndsInBackground(n) /\ Tok(t, m, Semicolon) /\ p = m + 1)
  BY <1>1, <1>2
<1> QED BY <1>2, <1>3, Zenon DEF Listed

LEMMA IsSimpleGrows ==
  ASSUME NEW s, NEW t, Prefix(s, t), NEW n, NEW i, Covered(n) \subseteq DOMAIN s, i \in DOMAIN s, IsSimple(s, n, i)
  PROVE  IsSimple(t, n, i)
<1>1. \A m \in DOMAIN s : m \in DOMAIN t /\ t[m] = s[m]
  BY DEF Prefix
<1>2. /\ \A m \in DOMAIN n.redirs : t[n.redirs[m]] = s[n.redirs[m]] /\ t[n.redirs[m] + 1] = s[n.redirs[m] + 1]
      /\ \A m \in DOMAIN n.assigns : t[n.assigns[m]] = s[n.assigns[m]]
      /\ \A m \in DOMAIN n.words : n.words[m] \in DOMAIN s /\ t[n.words[m]] = s[n.words[m]]
  BY <1>1 DEF Covered
<1>3. t[i] = s[i]
  BY <1>1
<1>4. i + Len(n.assigns) \in {n.words[m] : m \in DOMAIN n.words} => t[i + Len(n.assigns)] = s[i + Len(n.assigns)]
  BY <1>1, <1>2
<1>5. /\ Size(n) > 0 /\ Covered(n) = i..(i + Size(n) - 1)
      /\ InOrder(n.words) /\ InOrder(n.assigns) /\ InOrder(n.redirs)
      /\ \A m \in DOMAIN n.redirs : s[n.redirs[m]] \in RedirKind /\ s[n.redirs[m] + 1] \in WordKind
      /\ \A m \in DOMAIN n.assigns : s[n.assigns[m]] = "assign" /\ n.assigns[m] = i + m - 1
      /\ \A m \in DOMAIN n.words : s[n.words[m]] \in WordKind
      /\ i + Len(n.assigns) \in {n.words[m] : m \in DOMAIN n.words} => s[i + Len(n.assigns)] # "assign"
      /\ s[i] \notin Reserved
  BY Zenon DEF IsSimple
<1>6. /\ \A m \in DOMAIN n.redirs : t[n.redirs[m]] \in RedirKind /\ t[n.redirs[m] + 1] \in WordKind
      /\ \A m \in DOMAIN n.assigns : t[n.assigns[m]] = "assign" /\ n.assigns[m] = i + m - 1
      /\ \A m \in DOMAIN n.words : t[n.words[m]] \in WordKind
  BY <1>2, <1>5, Zenon
<1>7. i + Len(n.assigns) \in {n.words[m] : m \in DOMAIN n.words} => t[i + Len(n.assigns)] # "assign"
  BY <1>4, <1>5, Zenon
<1>8. t[i] \notin Reserved
  BY <1>3, <1>5, Zenon
<1> QED BY <1>5, <1>6, <1>7, <1>8, Zenon DEF IsSimple

LEMMA ForHeadGrows ==
  ASSUME NEW s, NEW t, Prefix(s, t), NEW w, NEW i, NEW h, ForHead(s, w, i, h)
  PROVE  ForHead(t, w, i, h)
  BY TokGrows, Zenon DEF ForHead

LEMMA EndOfGrows ==
  ASSUME NEW s, NEW t, Prefix(s, t), NEW k
  PROVE  /\ StartsOf(s, k) \subseteq StartsOf(t, k)
         /\ \A j : EndOf(s, k, j) => EndOf(t, k, j)
<1>1. StartsOf(s, k) \subseteq StartsOf(t, k)
  BY DEF StartsOf, Prefix
<1> QED BY <1>1, BareGrows, Zenon DEF EndOf

LEMMA PastGrows ==
  ASSUME NEW s, NEW t, Prefix(s, t), NEW k, NEW j \in Nat, Past(s, k, j)
  PROVE  Past(t, k, j)
<1>1. PICK m \in Nat : EndOf(s, k, m) /\ Tok(s, m, ItemEnd) /\ Nls(s, m + 1, j)
  BY DEF Past
<1>2. EndOf(t, k, m) /\ Tok(t, m, ItemEnd)
  BY <1>1, EndOfGrows, TokGrows
<1>3. m + 1 \in Nat
  OBVIOUS
<1>4. Nls(t, m + 1, j)
  BY <1>1, <1>3, NlsGrow, Zenon
<1> QED BY <1>2, <1>4 DEF Past

LEMMA FollowsGrows ==
  ASSUME NEW s, NEW t, Prefix(s, t), NEW k, NEW m, NEW x \in Nat, NEW j \in Nat, Follows(s, k, m, x, j)
  PROVE  Follows(t, k, m, x, j)
  BY NlsGrow, PastGrows, Zenon DEF Follows

LEMMA LinkedGrows ==
  ASSUME NEW s, NEW t, Prefix(s, t), NEW k, NEW x \in Nat, Linked(s, k, x)
  PROVE  Linked(t, k, x)
<1> SUFFICES ASSUME NEW m \in DOMAIN k
             PROVE  /\ k[m].type = "item" /\ k[m].words # <<>>
                    /\ \E i \in StartsOf(t, k[m]) : Follows(t, k, m, x, i)
  BY Zenon DEF Linked
<1>1. /\ k[m].type = "item" /\ k[m].words # <<>>
      /\ \E i \in StartsOf(s, k[m]) : Follows(s, k, m, x, i)
  BY Zenon DEF Linked
<1>2. PICK i \in StartsOf(s, k[m]) : Follows(s, k, m, x, i)
  BY <1>1
<1>3. i \in Nat
  BY DEF StartsOf, Prefix
<1>4. Follows(t, k, m, x, i) /\ i \in StartsOf(t, k[m])
  BY <1>2, <1>3, FollowsGrows, EndOfGrows
<1> QED BY <1>1, <1>4

LEMMA PatternsGrow ==
  ASSUME NEW s, NEW t, Prefix(s, t), NEW r, NEW b, Patterns(s, r, b)
  PROVE  Patterns(t, r, b)
  BY TokGrows, Zenon DEF Patterns

\* Newlines in front of newlines.
LEMMA NlsJoin ==
  ASSUME NEW s \in Seq(Kind), NEW i \in Nat, NEW j \in Nat, NEW m \in Nat, Nls(s, i, m), Nls(s, m, j)
  PROVE  Nls(s, i, j)
  BY DEF Nls

LEMMA NlsNone ==
  ASSUME NEW s \in Seq(Kind), NEW i \in Nat, i <= Len(s) + 1
  PROVE  Nls(s, i, i)
  BY DEF Nls

LEMMA NlsMore ==
  ASSUME NEW s \in Seq(Kind), NEW i \in Nat, NEW j \in Nat, Nls(s, i, j), Tok(s, j, {"nl"})
  PROVE  Nls(s, i, j + 1)
<1>1. j <= Len(s) /\ Len(s) \in Nat
  BY TokIs
<1>2. \A m \in i..j : Tok(s, m, {"nl"})
  BY DEF Nls
<1> QED BY <1>1, <1>2 DEF Nls

LEMMA AfterNls ==
  ASSUME NEW s \in Seq(Kind), NEW i \in Nat, NEW m \in Nat, NEW j \in Nat, Nls(s, i, m), NEW n, After(s, n, m, j)
  PROVE  After(s, n, i, j)
<1>1. PICK x \in Nat : Nls(s, m, x) /\ Stand(s, n, x, j)
  BY DEF After
<1>2. Nls(s, i, x)
  BY <1>1, NlsJoin
<1> QED BY <1>1, <1>2 DEF After

LEMMA ListedMore ==
  ASSUME NEW s \in Seq(Kind), NEW n, NEW i \in Nat, NEW j \in Nat, NEW l \in Nat, Listed(s, n, i, j), Nls(s, j, l)
  PROVE  Listed(s, n, i, l)
<1>1. PICK m \in Nat, p \in Nat : /\ After(s, n, i, m)
                                  /\ p = m \/ (~EndsInBackground(n) /\ Tok(s, m, Semicolon) /\ p = m + 1)
                                  /\ Nls(s, p, j)
  BY DEF Listed
<1>2. Nls(s, p, l)
  BY <1>1, NlsJoin
<1> QED BY <1>1, <1>2, Zenon DEF Listed
=============================================================================
