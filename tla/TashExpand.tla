----------------------------- MODULE TashExpand -----------------------------
(***************************************************************************)
(* Word expansion in tash (src/expand.c): word_expansion() on a list of    *)
(* words as the lexer left them.  first_expansion() goes through a word    *)
(* from left to right; the word behind the operator of a ${ } is expanded  *)
(* by a call inside that call.  Then the word is split, and each field     *)
(* that has a wildcard replaced by the files it finds.                     *)
(*                                                                         *)
(* Esc is CTLESC and Quot CTLQUOT.  An option is <<>> or a sequence of one *)
(* element.  A field is the set of the strings that stand in its place:    *)
(* the order in which files are found is left open.                        *)
(***************************************************************************)
EXTENDS TashGlob

CONSTANTS
  Quot,
  Inputs,       \* the words to expand, each [text, quoted], with options, parameters and variables
  Output,       \* what the command of a substitution writes; <<>> if it is no command
  Tree,         \* the files of the working directory
  Home

VARIABLES
  input,        \* [words, split, nounset, noglob, params, vars]
  todo,         \* the words that are left, the one being expanded first
  src,          \* the rest of its text
  calls,        \* the calls of first_expansion, each inside the one before
  vars,         \* the variables: a function from names to options
  fields,       \* the strings found so far
  at,           \* "word", "reading", "done", "failed", or "undefined": anything may happen
  output,       \* what can still be read from the pipe of a substitution
  nl_count,     \* the newlines at the end of what has been read
  kept          \* history: an output ended in newlines that came in several reads

expandVars == <<input, todo, src, calls, vars, fields, at, output, nl_count, kept>>

Name == {"x", "y"}
Alnum == Name \cup {"a", "b"}
Digits == <<"0", "1", "2", "3", "4", "5", "6">>
Positional == {"1", "2"}
Blank == {" ", "tab", "nl"}
Dangerous == {Esc, Quot}
IsSpecial == Blank \cup {"*", "?", "~"} \cup Dangerous

(***************************************************************************)
(* append_safe().                                                          *)
(***************************************************************************)
Safe(s, in_quote) ==
  LET from[i \in 1..(Len(s) + 1)] ==
        IF i > Len(s) THEN <<>>
        ELSE (IF s[i] \in Dangerous \/ (in_quote /\ s[i] \in IsSpecial) THEN <<Esc>> ELSE <<>>)
               \o <<s[i]>> \o from[i + 1]
  IN  from[1]

Top == calls[Len(calls)]
InQuote == Top.in_quote
\* a call inside the word of an operator on a parameter
Call(dest, param, op, value, unset) ==
  [dest |-> dest, in_quote |-> FALSE, param |-> param, op |-> op, value |-> value, unset |-> unset]

\* first_expansion begins on s: a ~ comes first
AtTilde(s) == s # <<>> /\ s[1] = "~"
Begun(s) == IF AtTilde(s) THEN Safe(Home, TRUE) ELSE <<>>
Behind(s) == IF AtTilde(s) THEN Tail(s) ELSE s
From(i) == SubSeq(src, i, Len(src))

\* the current call goes on at s with d added to what it has
Adds(d, s) ==
  /\ calls' = [calls EXCEPT ![Len(calls)].dest = @ \o d]
  /\ src' = s
  /\ UNCHANGED <<todo, vars, fields, at>>
Stops(how) ==
  /\ at' = how
  /\ todo' = <<>> /\ src' = <<>> /\ calls' = <<>> /\ fields' = <<>>
  /\ UNCHANGED vars
Fails == Stops("failed")
Expanding == at = "word" /\ src # <<>> /\ UNCHANGED <<input, output, nl_count, kept>>

(***************************************************************************)
(* first_expansion().                                                      *)
(***************************************************************************)
Copy ==
  /\ Expanding
  /\ src[1] \notin {Quot, "$", "backtick"} /\ (src[1] = "}" => Len(calls) = 1)
  /\ LET n == IF src[1] = Esc THEN 2 ELSE 1 IN Adds(SubSeq(src, 1, n), From(n + 1))

QuoteMark ==
  /\ Expanding /\ src[1] = Quot
  /\ calls' = [calls EXCEPT ![Len(calls)].in_quote = ~@]
  /\ src' = Tail(src)
  /\ UNCHANGED <<todo, vars, fields, at>>

(***************************************************************************)
(* handle_var(), parameters.                                               *)
(***************************************************************************)
IsAt(i, c) == i <= Len(src) /\ src[i] = c
Braced == IsAt(2, "{")
Counted == Braced /\ IsAt(3, "#")
NameAt == IF Counted THEN 4 ELSE IF Braced THEN 3 ELSE 2
\* the position behind the name of the parameter
NameEnds ==
  IF NameAt \in DOMAIN src /\ src[NameAt] \in {"@", "*", "#"} \cup Positional THEN NameAt + 1
  ELSE CHOOSE i \in NameAt..(Len(src) + 1) :
         /\ \A j \in NameAt..(i - 1) : src[j] \in Alnum
         /\ i \in DOMAIN src => src[i] \notin Alnum
Param == SubSeq(src, NameAt, NameEnds - 1)
IsList == Param \in {<<"@">>, <<"*">>}
IsVar == \A i \in DOMAIN Param : Param[i] \in Alnum

Number(n) == <<Digits[n + 1]>>
Argc == Len(input.params)
Value ==
  IF IsVar THEN IF Param \in DOMAIN vars THEN vars[Param] ELSE <<>>
  ELSE CASE Param = <<"#">> -> <<Number(Argc)>>
         [] Param = <<"1">> /\ Argc >= 1 -> <<input.params[1]>>
         [] Param = <<"2">> /\ Argc >= 2 -> <<input.params[2]>>
         [] OTHER -> <<>>

\* what stands between two parameters of $@ and $*
Between == IF Param = <<"*">> /\ InQuote THEN <<Esc, " ">> ELSE <<" ">>
AllParams ==
  LET from[i \in 1..(Argc + 1)] ==
        IF i > Argc THEN <<>>
        ELSE Safe(input.params[i], InQuote) \o (IF i < Argc THEN Between ELSE <<>>) \o from[i + 1]
  IN  from[1]

AtDollar == Expanding /\ src[1] = "$" /\ ~IsAt(2, "(")

\* nothing that could be a name follows
NoName == AtDollar /\ Param = <<>> /\ ~Braced /\ Adds(<<"$">>, From(2))

\* a value that has been freed since it was fetched
Freed == <<"freed">>

\* the expansion has a value, or nothing if there is none, and goes on at s
Yields(value, s) ==
  CASE value = <<Freed>> -> Stops("undefined")
    [] value = <<>> -> IF input.nounset THEN Fails ELSE Adds(<<>>, s)
    [] OTHER -> Adds(Safe(value[1], InQuote), s)

\* $x, ${x} and ${#x}
Plain ==
  /\ AtDollar /\ Param # <<>>
  /\ Braced => IsAt(NameEnds, "}")
  /\ LET behind == From(IF Braced THEN NameEnds + 1 ELSE NameEnds) IN
     IF Param = <<"@">> /\ Counted THEN Adds(Number(Argc), behind)
     ELSE IF IsList THEN Adds(AllParams, behind)
     ELSE Yields(IF Counted /\ Value # <<>> THEN <<Number(Len(Value[1]))>> ELSE Value, behind)

\* the operator behind the name, and how many characters it has
Colon == IsAt(NameEnds, ":")
Operators == {<<"-">>, <<"=">>, <<"?">>, <<"+">>, <<"#">>, <<"%">>, <<"#", "#">>, <<"%", "%">>,
              <<":", "-">>, <<":", "=">>, <<":", "?">>, <<":", "+">>}
OperatorsHere ==
  {op \in Operators : /\ NameEnds + Len(op) - 1 <= Len(src)
                      /\ SubSeq(src, NameEnds, NameEnds + Len(op) - 1) = op}

\* mutant: the colon is read over, and an empty value is a value
IsUnset_NoColon(op, value) == value = <<>>

\* with a colon an empty value is none
IsUnset(op, value) == value = <<>> \/ (op[1] = ":" /\ value = <<<<>>>>)

\* ${x, an operator, and the word behind it, which is expanded first
Operator ==
  /\ AtDollar /\ Braced /\ ~Counted /\ Param # <<>> /\ OperatorsHere # {}
  /\ LET op == CHOOSE o \in OperatorsHere : \A other \in OperatorsHere : Len(other) <= Len(o)
         word == From(NameEnds + Len(op))
     IN  /\ calls' = Append([calls EXCEPT ![Len(calls)].dest = @ \o IF IsList THEN AllParams ELSE <<>>],
                            Call(Begun(word), Param, op, Value, IsUnset(op, Value)))
         /\ src' = Behind(word)
  /\ UNCHANGED <<todo, vars, fields, at>>

\* var is freed twice when nothing follows a colon
BadSubstitution ==
  /\ AtDollar /\ Braced
  /\ Param = <<>> \/ (~IsAt(NameEnds, "}") /\ (Counted \/ OperatorsHere = {}))
  /\ Stops(IF Param # <<>> /\ ~Counted /\ IsVar /\ Colon THEN "undefined" ELSE "failed")

(***************************************************************************)
(* The end of the word behind an operator: handle_unset_action() and       *)
(* remove_prefix_suffix(), and back to the call outside.                   *)
(***************************************************************************)
Outer == SubSeq(calls, 1, Len(calls) - 1)
\* putvar frees the old value: whoever still has it
Without(cs, param) ==
  [i \in DOMAIN cs |-> IF cs[i].param = param /\ cs[i].value # <<>> THEN [cs[i] EXCEPT !.value = <<Freed>>]
                       ELSE cs[i]]
\* d for the call outside, to which this one returns
Returns(cs, d) ==
  /\ calls' = [cs EXCEPT ![Len(cs)].dest = @ \o d]
  /\ src' = Tail(src)
  /\ UNCHANGED <<todo, fields, at>>

\* remove_prefix_suffix measures a value that there is not
Unmeasured(f) == f.op[Len(f.op)] \in {"#", "%"} /\ f.value \in {<<>>, <<Freed>>}

WordEnds ==
  /\ Expanding /\ src[1] = "}" /\ Len(calls) > 1
  /\ LET f == Top
         quoted == Outer[Len(Outer)].in_quote
         op == f.op[Len(f.op)]
         list == f.param \in {<<"@">>, <<"*">>}
     IN  IF Unmeasured(f) THEN Stops("undefined")
         ELSE IF op \in {"#", "%"}
         THEN LET largest == Len(f.op) = 2
                       left == IF op = "#" THEN RemovePrefix(f.value[1], f.dest, largest)
                                           ELSE RemoveSuffix(f.value[1], f.dest, largest)
                   IN  Returns(Outer, Safe(left, quoted)) /\ UNCHANGED vars
         ELSE CASE op = "-" /\ f.unset -> Returns(Outer, f.dest) /\ UNCHANGED vars
                [] op = "+" /\ ~f.unset -> Returns(Outer, f.dest) /\ UNCHANGED vars
                [] op = "?" /\ f.unset -> Fails
                [] op = "=" /\ f.unset ->
                     IF ~(\A i \in DOMAIN f.param : f.param[i] \in Alnum) THEN Stops("undefined")
                     ELSE /\ Returns(Without(Outer, f.param), Safe(NoEsc(f.dest), quoted))
                          /\ vars' = [n \in DOMAIN vars \cup {f.param} |->
                                        IF n = f.param THEN <<NoEsc(f.dest)>> ELSE vars[n]]
                [] f.value = <<Freed>> -> Stops("undefined")
                [] f.value = <<>> /\ input.nounset /\ ~list -> Fails
                [] OTHER -> Returns(Outer, IF f.value = <<>> THEN <<>> ELSE Safe(f.value[1], quoted))
                              /\ UNCHANGED vars

(***************************************************************************)
(* Substitutions.  What parse_list_buf finds between the parentheses is    *)
(* one of the commands of Output.                                          *)
(***************************************************************************)
Begins(s) == Len(s) <= Len(src) /\ SubSeq(src, 1, Len(s)) = s
\* execute_subshell begins to read, behind a text of n characters
Reads(written, n) ==
  /\ at' = "reading" /\ output' = written /\ nl_count' = 0
  /\ src' = From(n + 1)
  /\ UNCHANGED <<input, todo, calls, vars, fields, kept>>

Substitution ==
  /\ at = "word"
  /\ \E t \in DOMAIN Output :
       /\ Begins(<<"$", "(">> \o t \o <<")">>)
       /\ \/ Output[t] # <<>> /\ Reads(Output[t][1], Len(t) + 3)
          \/ Output[t] = <<>> /\ Fails /\ UNCHANGED <<input, output, nl_count, kept>>

\* the copy of the command has been freed when its end is looked at: it may be
\* no end any more
Backtick ==
  /\ at = "word"
  /\ \E t \in DOMAIN Output :
       /\ Begins(<<"backtick">> \o t \o <<"backtick">>)
       /\ \/ Output[t] # <<>> /\ Reads(Output[t][1], Len(t) + 2)
          \/ Fails /\ UNCHANGED <<input, output, nl_count, kept>>

Newlines(n) == [i \in 1..n |-> "nl"]

\* mutant: the newlines stripped from what was read before are not put back
Read_NewlinesLost ==
  /\ at = "reading" /\ output # <<>>
  /\ \E n \in 1..Len(output) : \E k \in 0..n :
       /\ \A i \in (k + 1)..n : output[i] = "nl"
       /\ k > 0 => output[k] # "nl"
       /\ Adds(Safe(SubSeq(output, 1, k), InQuote), src)
       /\ nl_count' = n - k
       /\ output' = SubSeq(output, n + 1, Len(output))
  /\ UNCHANGED <<input, kept>>

\* read() returns any part of what has been written.  Its newlines at the end
\* are kept back until it turns out that something follows.
Read ==
  /\ at = "reading" /\ output # <<>>
  /\ \E n \in 1..Len(output) : \E k \in 0..n :
       /\ \A i \in (k + 1)..n : output[i] = "nl"
       /\ k > 0 => output[k] # "nl"
       /\ Adds(Safe(Newlines(nl_count), InQuote) \o Safe(SubSeq(output, 1, k), InQuote), src)
       /\ nl_count' = n - k
       /\ output' = SubSeq(output, n + 1, Len(output))
       /\ kept' = (kept \/ (n = Len(output) /\ k = 0 /\ nl_count > 0))
  /\ UNCHANGED input

ReadEnds ==
  /\ at = "reading" /\ output = <<>> /\ at' = "word"
  /\ UNCHANGED <<input, todo, src, calls, vars, fields, output, nl_count, kept>>

(***************************************************************************)
(* word_spliting(), split_word().                                          *)
(***************************************************************************)
OneField(v, globing) ==
  IF globing /\ ~input.noglob THEN {path[1] : path \in Words(Tree, <<v>>)} ELSE {NoEsc(v)}

\* v is the field begun, found those that are complete
RECURSIVE Splits(_, _, _, _)
Splits(s, v, globing, found) ==
  IF s = <<>> THEN IF v # <<>> \/ ~input.split THEN Append(found, OneField(v, globing)) ELSE found
  ELSE LET c == Head(s) IN
       CASE c = Esc -> Splits(SubSeq(s, 3, Len(s)), v \o SubSeq(s, 1, 2), globing, found)
         [] c = Quot -> Splits(Tail(s), v, globing, found)
         [] c \in Blank /\ input.split ->
              IF v = <<>> THEN Splits(Tail(s), v, globing, found)
              ELSE Splits(Tail(s), <<>>, FALSE, Append(found, OneField(v, globing)))
         [] OTHER -> Splits(Tail(s), Append(v, c), globing \/ c \in {"*", "?"}, found)

\* an empty string if there is nothing else, and something was quoted
Split(s, quoted) ==
  LET found == Splits(s, <<>>, FALSE, <<>>) IN
  IF found = <<>> /\ quoted THEN <<{<<>>}>> ELSE found

\* the word behind an operator has no }, which is found out after the prefix or
\* suffix has been removed
EndOfWord ==
  /\ at = "word" /\ src = <<>>
  /\ IF Len(calls) > 1 THEN Stops(IF Unmeasured(Top) THEN "undefined" ELSE "failed")
     ELSE /\ fields' = fields \o Split(Top.dest, todo[1].quoted)
          /\ todo' = Tail(todo)
          /\ IF todo' = <<>> THEN at' = "done" /\ calls' = <<>> /\ UNCHANGED src
                             ELSE /\ calls' = <<Call(Begun(todo'[1].text), <<>>, <<>>, <<>>, FALSE)>>
                                  /\ src' = Behind(todo'[1].text) /\ UNCHANGED at
          /\ UNCHANGED vars
  /\ UNCHANGED <<input, output, nl_count, kept>>

-----------------------------------------------------------------------------
ExpandInit ==
  /\ input \in Inputs
  /\ todo = input.words
  /\ calls = <<Call(Begun(todo[1].text), <<>>, <<>>, <<>>, FALSE)>>
  /\ src = Behind(todo[1].text)
  /\ vars = input.vars
  /\ fields = <<>>
  /\ at = "word"
  /\ output = <<>> /\ nl_count = 0 /\ kept = FALSE

ExpandNext ==
  \/ Copy \/ QuoteMark \/ NoName \/ Plain \/ Operator \/ BadSubstitution \/ WordEnds
  \/ Substitution \/ Backtick \/ Read \/ ReadEnds \/ EndOfWord

ExpandSpec == ExpandInit /\ [][ExpandNext]_expandVars
=============================================================================
