------------------------------ MODULE MCParser ------------------------------
(***************************************************************************)
(* Instances of TashParser: tokens chosen as they are read from small      *)
(* alphabets, which finds every tree and every error of a few tokens; and  *)
(* whole scripts, correct by construction, with every construct in every   *)
(* place.                                                                  *)
(***************************************************************************)
EXTENDS TashParser, SequencesExt

CONSTANT Family      \* which inputs a run takes

Each(n, kinds) == [i \in 1..n |-> kinds]
Exactly(tokens) == [i \in 1..Len(tokens) |-> {tokens[i]}]

FreeInputs ==
  {Each(5, {"word", "nl", ";", "&", "|", "&&", "!"}),
   Each(6, {"word", "(", ")", "{", "}", ";"}),
   Each(5, {"word", "assign", "path", ">", "if", "nl", Bad, "("}),
   Exactly(<<"if", "word", ";", "then">>) \o Each(5, {"word", "nl", "elif", "else", "then", "fi", ";"}),
   Exactly(<<"case", "word", "in">>) \o Each(6, {"word", "(", "|", ")", ";;", "esac", "nl"}),
   Exactly(<<"for", "word">>) \o Each(6, {"in", "word", ";", "nl", "do", "done"}),
   Exactly(<<"while">>) \o Each(6, {"word", ";", "do", "done", "!", "||"})}
\* what is between the parentheses of a substitution, with what is behind it
Substituted ==
  {Each(2, {"(", "word"}) \o Each(4, {")", "word", ";", "nl"}) \o Exactly(<<")">>),
   Each(5, {"word", ";", "&", ")", "||", Bad})}

Nl(s) == s \o <<"nl">>
Semi(s) == s \o <<";">>
Simple == {<<"word">>, <<"assign", "word", ">", "fi">>, <<">>", "path", "assign">>}
\* every compound command around a list
Compounds1(c) ==
  LET b == Semi(c) IN
  {<<"{">> \o b \o <<"}">>, <<"(">> \o c \o <<")", ">&", "word">>,
   <<"if">> \o b \o <<"then">> \o Nl(c) \o <<"nl", "fi">>,
   <<"if">> \o Nl(c) \o <<"then">> \o b \o <<"elif">> \o b \o <<"then">> \o b \o <<"else", "nl">> \o Nl(c) \o <<"fi">>,
   <<"while">> \o Nl(Nl(c)) \o <<"do", "nl">> \o b \o <<"done">>,
   <<"until">> \o c \o <<"&", "do">> \o b \o <<"done", "<", "word">>,
   <<"for", "word", "do">> \o b \o <<"done">>,
   <<"for", "do", "in", "word", "done", ";", "do">> \o Nl(c) \o <<"done">>,
   <<"case", "word", "in", "esac">>,
   <<"case", "in", "in", "nl", "(", "word", "|", "path", ")", "nl">> \o c \o <<";;", "nl", "word", ")", ";;">>
      \o <<"word", ")">> \o b \o <<"esac">>,
   <<"word", "(", ")", "nl", "{">> \o Nl(c) \o <<"}", ">", "word">>}
Lists1(c) ==
  {c, c \o <<"&&", "!">> \o c \o <<"|", "nl">> \o c \o <<"||", "nl">> \o c,
   c \o <<"&", "nl">> \o c, c \o <<";">> \o c \o <<"&">> \o c}
Sentences1 ==
  LET inner == UNION {Lists1(c) : c \in Simple \cup Compounds1(<<"word">>)}
  IN  {Nl(l) : l \in inner \cup UNION {Compounds1(i) : i \in inner}}

Sentence == [entry : {"script"}, tokens : {Exactly(s) : s \in Sentences1}]
MCInput ==
  CASE Family = "all" -> Sentence \cup [entry : {"terminal"}, tokens : FreeInputs]
                          \cup [entry : Entry \ {"terminal"}, tokens : Substituted]
    [] Family = "newline" ->
         [entry : {"terminal"}, tokens : {Exactly(<<"word", ">", "nl", "word", "nl">>) \o Each(2, {"word", "nl"})}]

\* No line of a correct script is refused.
AcceptsTheGrammar ==
  input \in Sentence => \A i \in DOMAIN lines : lines[i].tree # SyntaxError
=============================================================================
