------------------------------ MODULE MCWords ------------------------------
(***************************************************************************)
(* Instances of TashExpand, together with those of TashGlob: one or two    *)
(* words of one to three pieces, on variables and parameters that are      *)
(* unset, empty, or hold blanks, wildcards and control characters.         *)
(***************************************************************************)
EXTENDS TashExpand, MCGlob, ShellWords

Shell == INSTANCE ShellExpansion

Plainly == {Ch("a"), Ch("*"), Slash("*"), Singly(<<>>), Singly(<<"a", " ">>), Doubly(<<>>), Doubly(<<Ch("?")>>)}
Values == {Var("x"), Var("@"), Var("*"), Var("#"), Length("x"), Var("2"), LoneDollar}
Substitutions == {Command(<<Ch("a")>>), Command(<<Ch("b")>>), Backquoted(<<Ch("x")>>), Backquoted(<<Ch("a")>>)}
InQuotes == {Doubly(<<v>>) : v \in Values \cup Substitutions} \cup {Doubly(<<Ch(" "), Var("x"), Slash("$")>>)}
Ops == {<<"-">>, <<":", "-">>, <<":", "=">>, <<":", "+">>, <<"+">>, <<"?">>, <<"#">>, <<"#", "#">>, <<"%">>, <<"%", "%">>, <<"=">>}
Inner == {<<>>, <<Ch("a"), Ch(" "), Ch("b")>>, <<Ch("*")>>, <<Tilde>>, <<Doubly(<<Var("y"), Ch("*")>>)>>,
          <<Var("x")>>, <<Ch("?"), Var("y")>>, <<Braces("y", <<"=">>, <<Ch("b")>>)>>, <<Braces("x", <<":", "=">>, <<Slash("*")>>)>>,
          <<Braces("y", <<"%">>, <<Slash("?"), Ch("*")>>), Command(<<Ch("a")>>)>>}
Bracing == {Braces("x", op, w) : op \in Ops, w \in Inner}
Wrong == {Malformed(s) : s \in {<<"$", "{", "}">>, <<"$", "{", "#", "x", "-", "}">>, <<"$", "{", "x", ":", "}">>,
                                <<"$", "{", "x", "a">>, <<"$", "{", "x", "-", "a">>}}
Pieces == Plainly \cup Values \cup Substitutions \cup InQuotes \cup Bracing \cup Wrong

Follows(p, q) == ~(p.kind = "var" /\ q.kind = "char")      \* they would be one name
Single == {<<p>> : p \in Pieces \cup {Tilde}} \cup {<<Doubly(<<p>>)>> : p \in {b \in Bracing : b.parts = <<>> \/ b.parts[1].kind = "double"}}
Pairs == {w \in {<<p, q>> : p, q \in Plainly \cup {Var("x"), Var("@"), Doubly(<<Var("@")>>), Command(<<Ch("a")>>),
                                                 Braces("y", <<":", "=">>, <<Ch("a")>>)}} : Follows(w[1], w[2])}
Lists == {<<w>> : w \in Single \cup Pairs}
           \cup {<<<<p>>, <<q>>>> : p \in {Braces("y", <<"=">>, <<Ch("a"), Ch(" ")>>), Braces("x", <<"?">>, <<>>)},
                                    q \in {Var("y"), Doubly(<<Var("y")>>), Braces("x", <<"%">>, <<Var("y")>>)}}

Words1(ws) == [i \in DOMAIN ws |-> [text |-> Marked(ws[i], FALSE), quoted |-> HasQuotes(ws[i])]]
Options == {[split |-> TRUE, nounset |-> FALSE, noglob |-> FALSE], [split |-> FALSE, nounset |-> TRUE, noglob |-> TRUE]}
Settings == [{<<"x">>} -> {<<>>, <<<<>>>>, <<<<"a", " ", "b">>>>, <<<<" ", "*">>>>, <<<<"a", "b", Quot>>>>}]
MCInputs == {[written |-> ws, words |-> Words1(ws), params |-> ps, vars |-> vs] @@ o :
               ws \in Lists, ps \in {<<>>, <<<<"a">>, <<"b", " ">>>>, <<<<>>, <<"*">>>>}, vs \in Settings, o \in Options}
MCTree == {<<<<"a">>>>, <<<<"a", "b">>>>}
MCHome == <<"a", " ", "*">>
\* b is no command
MCOutput == [t \in {<<"a">>, <<"b">>, <<"x">>} |->
               CASE t = <<"a">> -> <<<<"a", "nl", "b", "nl", "nl">>>> [] t = <<"x">> -> <<<<"*", " ", Quot>>>> [] OTHER -> <<>>]

NoInput == [op |-> "none"]
WordsInit ==
  \/ ExpandInit /\ call = NoInput /\ result = <<>>
  \/ /\ GlobInit
     /\ input = NoInput /\ todo = <<>> /\ src = <<>> /\ calls = <<>> /\ vars = <<>> /\ fields = <<>>
     /\ at = "done" /\ output = <<>> /\ nl_count = 0 /\ kept = FALSE
WordsNext ==
  \/ ExpandNext /\ UNCHANGED globVars
  \/ GlobNext /\ UNCHANGED expandVars
Backquotes == \E i \in DOMAIN input.words : \E j \in DOMAIN input.words[i].text : input.words[i].text[j] = "backtick"
Expanded == call = NoInput /\ at \in {"done", "failed", "undefined"} /\ (at = "failed" => ~Backquotes)
Meant == Shell!Meant(input.written, input.vars, input)

\* what is left of the fields of a word: an empty one only if there is no other,
\* and then one if there was a quote at all
Remains(fs, w) ==
  LET some == SelectSeq(fs, LAMBDA f : f # {<<>>}) IN
  IF some # <<>> THEN some ELSE IF fs # <<>> \/ HasQuotes(w) THEN <<{<<>>}>> ELSE <<>>

\* Each word becomes the fields that the rules of the language give it: quoted
\* text and quoted expansions stay whole, the others are split and looked up,
\* operators choose, assign, remove or fail, and a substitution loses just the
\* newlines at its end, however the reads cut its output.  It is all or nothing.
ExpandsAsWritten ==
  Expanded /\ ~kept /\ Meant.verdict # "open" =>
    IF Meant.verdict = "fails" THEN at = "failed" /\ fields = <<>>
    ELSE /\ at = "done"
         /\ fields = FlattenSeq([i \in DOMAIN Meant.fields |-> Remains(Meant.fields[i], input.written[i])])

\* The variables are assigned in the order of the words, before and after a
\* failure, and nothing else happens to them.
AssignsAsWritten == Expanded /\ ~kept /\ Meant.verdict # "open" => vars = Meant.vars

WordsSpec == WordsInit /\ [][WordsNext]_<<expandVars, globVars>>
=============================================================================
