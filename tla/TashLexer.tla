----------------------------- MODULE TashLexer -----------------------------
(***************************************************************************)
(* The lexer of tash (src/lexer.c): next_token() and get_word_helper(),    *)
(* which make tokens of the characters of a script, of a string, or of     *)
(* what somebody types.  One step is one turn of their loops, and reads at *)
(* most one character: the next one may be on a line not yet typed.        *)
(*                                                                         *)
(* A character is a string that names it; Ordinary stands for every one    *)
(* without a meaning, "ctl" for the two control characters CTLESC and      *)
(* CTLQUOT in the text.  ESC and QUOT are the marks that the lexer leaves  *)
(* in a word for the expansion.                                            *)
(***************************************************************************)
EXTENDS Integers, Sequences

Blank == {" ", "tab"}
Digit == {"1"}
\* the first characters of operators that may have a second one, and the second
Follow == [c \in {";", "&", "|", "<", ">", "cr"} |->
             CASE c = ">" -> {">", "&"} [] c = "<" -> {"&"} [] c = "cr" -> {"nl"} [] OTHER -> {c}]
\* mutant: the character behind a newline is looked at
Single_NoNewline == {"(", ")"}

Single == {"(", ")", "nl"}
Delimiter == Blank \cup {"&", "|", "<", ">", "(", ")", "nl", ";", "eof"}      \* is_delimiter()
Wild == {"*", "?"}
Ordinary == {"a", "x", "-"}
Char == Delimiter \cup Wild \cup Digit \cup Ordinary
          \cup {"cr", "#", "quote", "dquote", "backslash", "$", "backtick", "{", "}", "!", "ctl"}
Mark == {"ESC", "QUOT"}
Keyword == {<<"{">>, <<"}">>, <<"!">>}     \* those of a single character

CONSTANTS
  Text          \* what may be read: for each position the characters that may be there

None == "none"  \* no character

ASSUME TextAssumption == Text \subseteq Seq(SUBSET (Char \ {"eof"}))

VARIABLES
  text,         \* what there is to read
  typing,       \* it is being typed: more may come
  seen,         \* the characters that src->get_char has returned
  eof,          \* src->eof
  unget,        \* src->unget
  at,           \* where next_token() is
  hold,         \* a character it has read and not used yet
  frames,       \* the calls of get_word_helper, each inside the one before
  token,        \* the token being made
  tokens        \* the tokens made so far

input == <<text, typing>>
vars == <<text, typing, seen, eof, unget, at, hold, frames, token, tokens>>

\* end and is_subshell are the parameters of get_word_helper, quote its variable;
\* after is "backslash" or "$" when the character behind one of them is looked at
Frame(end, sub) == [end |-> end, sub |-> sub, quote |-> None, after |-> None]
\* from and to are the positions of a token in seen; quoted is WORD_HAS_QUOTE
NewToken == [type |-> <<>>, digit |-> None, value |-> <<>>, quoted |-> FALSE, from |-> 0, to |-> 0]

Top == frames[Len(frames)]
Outer == SubSeq(frames, 1, Len(frames) - 1)

(***************************************************************************)
(* get_char(), unget_char() and peek_char().                               *)
(***************************************************************************)
Source ==
  IF Len(seen) < Len(text) THEN text[Len(seen) + 1]
  ELSE IF typing THEN {} ELSE {"eof"}
Readable == IF eof THEN {"eof"} ELSE IF unget # None THEN {unget} ELSE Source

Get(c) ==
  /\ c \in Readable
  /\ seen' = IF eof \/ unget # None \/ c = "eof" THEN seen ELSE Append(seen, c)
  /\ eof' = (eof \/ (unget = None /\ c = "eof"))
  /\ unget' = IF eof THEN unget ELSE None
Unget(c) == IF c = "eof" THEN None ELSE c
Peek(c) ==
  /\ c \in Readable
  /\ seen' = IF eof \/ unget # None \/ c = "eof" THEN seen ELSE Append(seen, c)
  /\ eof' = (eof \/ c = "eof")
  /\ unget' = IF eof THEN unget ELSE Unget(c)

\* the position of the last character that has been taken and not put back
Taken == Len(seen') - (IF unget' = None THEN 0 ELSE 1)

Made(type, last) ==
  /\ tokens' = Append(tokens, [token EXCEPT !.type = type, !.to = last])
  /\ token' = NewToken
  /\ hold' = None
  /\ frames' = <<>>
  /\ at' = IF type = <<"eof">> THEN "end" ELSE "blanks"

(***************************************************************************)
(* next_token().                                                           *)
(***************************************************************************)
Blanks ==
  /\ at = "blanks"
  /\ \E c \in Blank \cup {"#"} : Get(c) /\ at' = IF c = "#" THEN "comment" ELSE at
  /\ UNCHANGED <<input, hold, frames, token, tokens>>

\* mutant: a comment goes on behind the newline
Comment_Lines ==
  /\ at = "comment"
  /\ \E c \in Char : Get(c)
  /\ UNCHANGED <<input, at, hold, frames, token, tokens>>

\* up to the newline, which is a token; the end of the input is no end of a comment
Comment ==
  /\ at = "comment"
  /\ \E c \in Char \ {"nl"} : Get(c)
  /\ UNCHANGED <<input, at, hold, frames, token, tokens>>

First ==
  \/ /\ at \in {"blanks", "comment"}
     /\ \E c \in IF at = "comment" THEN {"nl"} ELSE Single \cup {"eof"} :
          /\ Get(c)
          /\ tokens' = Append(tokens, [NewToken EXCEPT !.type = <<c>>, !.from = Taken, !.to = Taken])
          /\ at' = IF c = "eof" THEN "end" ELSE "blanks"
     /\ UNCHANGED <<input, hold, frames, token>>
  \/ /\ at = "blanks"
     /\ \E c \in Char \ (Blank \cup {"#", "eof"} \cup Single) :
          /\ Get(c)
          /\ at' = "second" /\ hold' = c /\ token' = [NewToken EXCEPT !.from = Taken]
     /\ UNCHANGED <<input, frames, tokens>>

\* mutant: the second character is not looked at
Second_Single ==
  /\ at = "second" /\ hold \in DOMAIN Follow
  /\ \E c \in Char : Peek(c) /\ Made(<<hold>>, Taken)
  /\ UNCHANGED input

Second ==
  /\ at = "second" /\ hold \in DOMAIN Follow
  /\ \E c \in Char :
       IF c \in Follow[hold]
         THEN Get(c) /\ Made(IF hold = "cr" THEN <<"nl">> ELSE <<hold, c>>, Taken)
         ELSE Peek(c) /\ Made(IF hold = "cr" THEN <<"nl">> ELSE <<hold>>, Taken)
  /\ UNCHANGED input

\* a single digit in front of < or >
RedirDigit ==
  /\ at = "second" /\ hold \in Digit
  /\ \E c \in {"<", ">"} : Get(c) /\ hold' = c
  /\ token' = [token EXCEPT !.digit = hold]
  /\ UNCHANGED <<input, at, frames, tokens>>

StartWord ==
  /\ at = "second" /\ hold \notin DOMAIN Follow
  /\ \E c \in IF hold \in Digit THEN Char \ {"<", ">"} ELSE Char : Peek(c)
  /\ at' = "word"
  /\ frames' = <<Frame(None, 0)>>
  /\ UNCHANGED <<input, hold, token, tokens>>

(***************************************************************************)
(* get_word_helper(): one action for each case of its loop.  Inside $( )   *)
(* and backticks (sub > 0) nothing is marked: the text is read again.      *)
(***************************************************************************)
\* the loop's next character is c: the one in hand, or the next one
NextChar(c) ==
  IF hold # None THEN c = hold /\ hold' = None /\ UNCHANGED <<seen, eof, unget>>
                 ELSE Get(c) /\ UNCHANGED hold

Quoting == Top.quote # None
\* c ends the word, or the call of get_word_helper
Stops(c) == ~Quoting /\ (c = Top.end \/ (Top.end = None /\ c \in Delimiter))
InWord(c) == at = "word" /\ Top.after = None /\ ~Stops(c) /\ NextChar(c)
\* the last call goes on as f, behind what s adds to the word
Goes(f, s) ==
  /\ frames' = Outer \o f
  /\ token' = [token EXCEPT !.value = @ \o s]
  /\ UNCHANGED <<input, at, tokens>>

Escaped(c) == IF Top.sub > 0 THEN <<c>> ELSE <<"ESC", c>>
Type == IF token.value \in Keyword THEN token.value ELSE <<"word">>

WordEnds ==
  /\ at = "word" /\ Top.after = None /\ Top.end = None /\ ~Quoting
  /\ hold = None
  /\ \E c \in Delimiter : Peek(c)
  /\ Made(Type, Taken)
  /\ UNCHANGED input

Closes ==
  /\ at = "word" /\ Top.after = None /\ Top.end # None /\ ~Quoting
  /\ NextChar(Top.end)
  /\ Goes(<<>>, <<Top.end>>)

\* the input ends inside quotes, $( ), ${ } or backticks
Unterminated ==
  /\ InWord("eof")
  /\ at' = "failed" /\ frames' = <<>> /\ token' = NewToken
  /\ UNCHANGED <<input, tokens>>

Quote ==
  \E q \in {"quote", "dquote"} :
    /\ InWord(q)
    /\ IF Top.quote \notin {None, q}
         THEN Goes(<<Top>>, Escaped(q))
         ELSE /\ frames' = Outer \o <<[Top EXCEPT !.quote = IF @ = q THEN None ELSE q]>>
              /\ token' = [token EXCEPT !.value = Append(@, IF Top.sub > 0 THEN q ELSE "QUOT"),
                                        !.quoted = @ \/ Top.sub = 0]
              /\ UNCHANGED <<input, at, tokens>>

Backslash ==
  /\ InWord("backslash")
  /\ IF Top.quote = "quote" THEN Goes(<<Top>>, <<"backslash">>)
                        ELSE Goes(<<[Top EXCEPT !.after = "backslash"]>>, <<>>)

\* between double quotes only some characters are escaped; a newline goes away
AfterBackslash ==
  /\ at = "word" /\ Top.after = "backslash"
  /\ LET f == [Top EXCEPT !.after = None] IN
     \E c \in Char :
       IF Top.quote = "dquote" /\ c \notin {"$", "dquote", "backtick", "backslash", "nl"}
         THEN Peek(c) /\ Goes(<<f>>, <<"backslash">>)
         ELSE /\ Get(c)
              /\ Goes(<<f>>, IF c \in {"nl", "eof"} THEN <<>>
                             ELSE <<IF Top.sub > 0 THEN "backslash" ELSE "ESC", c>>)
  /\ UNCHANGED hold

Dollar ==
  /\ InWord("$")
  /\ IF Top.quote = "quote" THEN Goes(<<Top>>, Escaped("$"))
                        ELSE Goes(<<[Top EXCEPT !.after = "$"]>>, <<"$">>)

\* $( and ${ call get_word_helper; * and ? are the name of a parameter here
AfterDollar ==
  /\ at = "word" /\ Top.after = "$"
  /\ LET f == [Top EXCEPT !.after = None] IN
     \/ Get("(") /\ Goes(<<f, Frame(")", 1)>>, <<"(">>) /\ UNCHANGED hold
     \/ /\ Get("{") /\ hold' = "{"
        /\ Goes(<<f, Frame("}", IF Top.sub > 0 THEN Top.sub + 1 ELSE 0)>>, <<>>)
     \/ \E c \in Wild : Get(c) /\ Goes(<<f>>, <<c>>) /\ UNCHANGED hold
     \/ \E c \in Char \ (Wild \cup {"(", "{"}) : Peek(c) /\ Goes(<<f>>, <<>>) /\ UNCHANGED hold

\* mutant: a star between quotes is not marked
Magic_Bare == \E c \in Wild \cup Blank \cup {"nl"} : InWord(c) /\ Goes(<<Top>>, <<c>>)

Magic ==
  \E c \in Wild \cup Blank \cup {"nl"} :
    InWord(c) /\ Goes(<<Top>>, IF Quoting THEN Escaped(c) ELSE <<c>>)

\* a ( that is not quoted needs its ) before the substitution ends
Paren ==
  /\ InWord("(")
  /\ Goes(IF Top.sub = 1 /\ ~Quoting THEN <<Top, Frame(")", 1)>> ELSE <<Top>>, <<"(">>)

Backtick ==
  /\ InWord("backtick")
  /\ IF Top.quote = "quote" THEN Goes(<<Top>>, Escaped("backtick"))
                        ELSE Goes(<<Top, Frame("backtick", 1)>>, <<"backtick">>)

Ctl == InWord("ctl") /\ Goes(<<Top>>, Escaped("ctl"))

Plain ==
  \E c \in Char \ (Wild \cup Blank \cup {"nl", "(", "backtick", "ctl", "$", "backslash", "quote", "dquote", "eof"}) :
    InWord(c) /\ Goes(<<Top>>, <<c>>)

-----------------------------------------------------------------------------
Init ==
  /\ typing \in BOOLEAN
  /\ text \in IF typing THEN {<<>>} ELSE Text
  /\ seen = <<>>
  /\ eof = FALSE
  /\ unget = None
  /\ at = "blanks"
  /\ hold = None
  /\ frames = <<>>
  /\ token = NewToken
  /\ tokens = <<>>

NextToken == Blanks \/ Comment \/ First \/ Second \/ RedirDigit \/ StartWord
Word == WordEnds \/ Closes \/ Unterminated \/ Quote \/ Backslash \/ AfterBackslash
          \/ Dollar \/ AfterDollar \/ Magic \/ Paren \/ Backtick \/ Ctl \/ Plain
Next == NextToken \/ Word

Spec == Init /\ [][Next]_vars /\ WF_vars(Next)

-----------------------------------------------------------------------------
\* blanks, and a comment up to the end of the line, in what has been read
Gap(read, first, last) ==
  \E k \in (first - 1)..last :
    /\ \A i \in first..k : read[i] \in Blank
    /\ k < last => read[k + 1] = "#" /\ \A i \in (k + 1)..last : read[i] # "nl"

Quoter == {"quote", "dquote", "backslash", "$", "backtick"}
Spells(read, t) ==
  LET s == SubSeq(read, t.from, t.to)
      Behind(S) == t.to < Len(read) /\ read[t.to + 1] \in S
  IN  CASE t.type = <<"eof">> -> t.to = Len(read)
        [] t.type = <<"nl">> -> s \in {<<"nl">>, <<"cr">>, <<"cr", "nl">>} /\ (s = <<"cr">> => ~Behind({"nl"}))
        [] t.type \in Keyword \cup {<<"word">>} ->
             /\ s[1] \notin Delimiter \cup {"#"}
             /\ Behind(Delimiter) \/ t.to = Len(read)
             /\ s \in {<<d>> : d \in Digit} => ~Behind({"<", ">"})
             /\ (\A i \in DOMAIN s : s[i] \notin Quoter \cup {"ctl"}) =>
                  t.value = s /\ \A i \in DOMAIN s : s[i] \notin Delimiter
        [] OTHER ->
             /\ s = (IF t.digit = None THEN <<>> ELSE <<t.digit>>) \o t.type
             /\ Len(t.type) = 1 /\ t.type[1] \in DOMAIN Follow => ~Behind(Follow[t.type[1]])

Tiles(read, made) ==
  \A i \in DOMAIN made :
    /\ Spells(read, made[i])
    /\ LET first == IF i = 1 THEN 1 ELSE made[i - 1].to + 1
           last == IF made[i].type = <<"eof">> THEN made[i].to ELSE made[i].from - 1
       IN  first <= last + 1 /\ Gap(read, first, last)

\* The tokens are the text: nothing is between them but blanks and comments,
\* each is spelled as it was written, and as long as it can be.
TilesTheText == Tiles(seen, tokens)
=============================================================================
