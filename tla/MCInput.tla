------------------------------ MODULE MCInput ------------------------------
(***************************************************************************)
(* Instances of TashInput: short texts over small alphabets, words that    *)
(* are correct by construction, and a few keys at a prompt.                *)
(***************************************************************************)
EXTENDS TashInput, ShellWords

Each(n, chars) == [i \in 1..n |-> chars]
Exactly(s) == [i \in 1..Len(s) |-> {s[i]}]

FreeTexts ==
  {Each(4, {"a", "quote", "dquote", "backslash", "*", " ", "nl"}),
   Each(3, {"a", "1", "<", ">", "&", "|", ";", " ", "nl", "#", "(", "cr"}),
   Exactly(<<"$", "(">>) \o Each(3, {"a", "(", ")", "dquote", "backtick", "$", "nl"}),
   Exactly(<<"dquote", "$", "{">>) \o Each(3, {"a", "}", "dquote", "quote", "$", "backtick"}),
   Exactly(<<"backtick">>) \o Each(3, {"a", "backslash", "backtick", "quote", "(", " ", "ctl"})}

Basic ==
  {Ch(c) : c \in {"a", "*", "#", "!", "{", "}", "ctl"}} \cup {Slash(c) : c \in {"a", "*", " ", "dquote", "nl", "$"}}
    \cup {Singly(s) : s \in {<<>>, <<"dquote", "backslash">>, <<" ", "$">>, <<"*", "nl">>, <<"backtick", "ctl">>}}
    \cup {Doubly(ps) : ps \in {<<>>, <<Ch("quote"), Ch("?")>>, <<Slash("dquote"), Ch("*")>>, <<Slash("a"), Slash("*")>>,
                               <<Slash("$"), Ch(" ")>>, <<Slash("nl"), Var("x")>>, <<Ch("nl"), LoneDollar, Ch("tab")>>,
                               <<Ch("ctl"), Slash("backslash"), Slash("backtick")>>}}
    \cup {Var("x"), Var("*")}
\* a } that is quoted does end ${ }
Inside == {p \in Basic : p # Ch("}")}
Bigger ==
  UNION {{Braces("x", <<"-">>, <<p>>), Braces("x", <<"#">>, <<p, Var("x")>>),
          Command(<<Ch("a"), Ch(" "), p>>), Doubly(<<Command(<<p, Ch("nl"), Doubly(<<Ch("quote"), Ch(" ")>>)>>), Ch("*")>>),
          Command(<<Parens(<<p>>), Ch("|"), Parens(<<Ch("a"), Command(<<Ch("x")>>)>>)>>),
          Backquoted(<<Ch("a"), p>>), Doubly(<<Backquoted(<<p, Ch(" ")>>), Ch("?")>>),
          Braces("x", <<"?">>, <<Command(<<p, Ch(";")>>)>>), Command(<<Braces("x", <<"-">>, <<p, Ch("(")>>)>>)} :
         p \in {q \in Inside : q # Singly(<<"backtick", "ctl">>)}}
    \cup {Doubly(<<Braces("x", <<"-">>, <<p>>), Ch(" ")>>) : p \in {Ch("a"), Var("x"), Command(<<Ch(" ")>>)}}
\* a # would start a comment
Written == {w \in {<<p>> : p \in Basic \cup Bigger} \cup {<<p, q>> : p, q \in Basic}
                 \cup {<<p, q>> : p \in {Ch("a"), Doubly(<<Ch(" ")>>)}, q \in Bigger} : Raw(w)[1] # "#"}

Meaning(w) ==
  [line |-> Append(Raw(w), "nl"), value |-> Marked(w, FALSE), quoted |-> HasQuotes(w),
   reserved |-> Marked(w, FALSE) \in Keyword /\ \A i \in DOMAIN w : w[i] = Slash("nl") \/ w[i].kind = "char"]
Meanings == {Meaning(w) : w \in Written}

MCText == FreeTexts \cup {Exactly(m.line) : m \in Meanings}
Files == {<<"a", "a">>, <<"a", "a", "a">>}

\* What the lexer makes of a word is what the word means: the text it was
\* written as becomes one token, with the right characters marked, and as a
\* reserved word only if nothing of it is quoted.
WordsKeepTheirMeaning ==
  at = "end" /\ got = <<>> /\ text = Exactly(seen) =>
    \E m \in Meanings :
      /\ m.line = seen
      /\ Len(tokens) = 3 /\ tokens[2].type = <<"nl">>
      /\ Needless(tokens[1].value) = m.value
      /\ tokens[1].quoted = m.quoted
      /\ (tokens[1].type # <<"word">>) = m.reserved
=============================================================================
