----------------------------- MODULE ShellWords -----------------------------
(***************************************************************************)
(* What the words of a script mean, before they are expanded.  A word is a *)
(* sequence of pieces.  Raw is how it is written; Marked is what the lexer *)
(* has to make of it: quotes and backslashes have gone, every quoted       *)
(* character that a later stage might take for something else has a mark,  *)
(* and what is inside a command substitution is left as it is.             *)
(***************************************************************************)
EXTENDS Integers, Sequences

Piece(kind, text, parts) == [kind |-> kind, text |-> text, parts |-> parts]
Ch(c)       == Piece("char", <<c>>, <<>>)
Slash(c)    == Piece("escaped", <<c>>, <<>>)
Singly(s)   == Piece("single", s, <<>>)
Doubly(ps)  == Piece("double", <<>>, ps)
\* a $ with nothing to expand behind it
LoneDollar  == Piece("var", <<>>, <<>>)
Var(x)      == Piece("var", <<x>>, <<>>)
Length(x)   == Piece("length", <<x>>, <<>>)
Tilde       == Piece("tilde", <<"~">>, <<>>)
\* what begins like an expansion and is none
Malformed(s) == Piece("malformed", s, <<>>)
\* ${x op word}; op is a sequence of characters
Braces(x, op, ps) == Piece("braces", <<x>> \o op, ps)
Command(ps) == Piece("command", <<>>, ps)
Backquoted(ps) == Piece("backquoted", <<>>, ps)
\* ( ) inside of a substitution
Parens(ps)  == Piece("parens", <<>>, ps)

RECURSIVE Raw(_)
Raw(ps) ==
  IF ps = <<>> THEN <<>>
  ELSE LET p == Head(ps)
           inner == Raw(p.parts)
       IN  (CASE p.kind = "escaped" -> <<"backslash">> \o p.text
              [] p.kind = "single" -> <<"quote">> \o p.text \o <<"quote">>
              [] p.kind = "double" -> <<"dquote">> \o inner \o <<"dquote">>
              [] p.kind = "var" -> <<"$">> \o p.text
              [] p.kind = "length" -> <<"$", "{", "#">> \o p.text \o <<"}">>
              [] p.kind = "braces" -> <<"$", "{">> \o p.text \o inner \o <<"}">>
              [] p.kind = "command" -> <<"$", "(">> \o inner \o <<")">>
              [] p.kind = "backquoted" -> <<"backtick">> \o inner \o <<"backtick">>
              [] p.kind = "parens" -> <<"(">> \o inner \o <<")">>
              [] OTHER -> p.text) \o Raw(Tail(ps))

\* what means something to the expansion: wildcards, blanks and expansions
Special == {"*", "?", " ", "tab", "nl", "$", "backtick"}
Quoted(c) == IF c \in Special THEN <<"ESC", c>> ELSE <<c>>
MarkAll(s) == LET from[i \in Nat] == IF i > Len(s) THEN <<>> ELSE Quoted(s[i]) \o from[i + 1] IN from[1]

\* between double quotes a backslash stays in front of most characters
EscapedInQuotes(c) ==
  CASE c = "nl" -> <<>>
    [] c \in {"$", "dquote", "backtick", "backslash"} -> Quoted(c)
    [] OTHER -> <<"backslash">> \o Quoted(c)

RECURSIVE Joined(_)
\* without the newlines that a backslash takes away
Joined(ps) ==
  IF ps = <<>> THEN <<>>
  ELSE (IF Head(ps) = Slash("nl") THEN <<>> ELSE <<[Head(ps) EXCEPT !.parts = Joined(@)]>>) \o Joined(Tail(ps))

RECURSIVE Marked(_, _)
\* quoted: between double quotes
Marked(ps, quoted) ==
  IF ps = <<>> THEN <<>>
  ELSE LET p == Head(ps) IN
       (CASE p.kind = "char" -> IF quoted THEN MarkAll(p.text) ELSE p.text
          [] p.kind = "escaped" /\ quoted -> EscapedInQuotes(p.text[1])
          [] p.kind = "escaped" /\ ~quoted -> IF p.text = <<"nl">> THEN <<>> ELSE MarkAll(p.text)
          [] p.kind = "single" -> <<"QUOT">> \o MarkAll(p.text) \o <<"QUOT">>
          [] p.kind = "double" -> <<"QUOT">> \o Marked(p.parts, TRUE) \o <<"QUOT">>
          [] p.kind = "var" -> <<"$">> \o p.text
          [] p.kind = "braces" -> <<"$", "{">> \o p.text \o Marked(p.parts, FALSE) \o <<"}">>
          [] OTHER -> Raw(Joined(<<p>>))) \o Marked(Tail(ps), quoted)

\* the marks in front of ordinary characters, which change nothing, taken away
Needless(s) ==
  LET from[i \in Nat] ==
        IF i > Len(s) THEN <<>>
        ELSE IF s[i] = "ESC" /\ s[i + 1] \notin Special THEN <<s[i + 1]>> \o from[i + 2]
        ELSE IF s[i] = "ESC" THEN <<"ESC", s[i + 1]>> \o from[i + 2]
        ELSE <<s[i]>> \o from[i + 1]
  IN  from[1]

RECURSIVE HasQuotes(_)
HasQuotes(ps) ==
  \E i \in DOMAIN ps : \/ ps[i].kind \in {"single", "double"}
                       \/ ps[i].kind = "braces" /\ HasQuotes(ps[i].parts)
=============================================================================
