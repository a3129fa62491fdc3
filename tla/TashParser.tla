----------------------------- MODULE TashParser -----------------------------
(***************************************************************************)
(* The parser of tash (src/parser.c) and the loop that drives it,          *)
(* interpret().  A token is its kind: what parse_* looks at.  The lexer is *)
(* read one token at a time, so that an interactive shell parses while its *)
(* user types; unget_token() has a single slot.                            *)
(*                                                                         *)
(* The parser is recursive descent.  Here its C stack is the variable      *)
(* stack: one frame per function that is running, whose field at says      *)
(* where it goes on, and whose other fields are its local variables.  One  *)
(* step takes one token.  A function that fails frees what it has built    *)
(* and returns NULL, and so does its caller, up to interpret(): Fail.      *)
(***************************************************************************)
EXTENDS Integers, Sequences, ShellGrammar

Redirect == {"<", ">", ">>", "<&", ">&"}
Keyword  == {"if", "then", "elif", "else", "fi", "for", "in", "do", "done", "while",
             "until", "case", "esac", "{", "}", "!"}
\* a word, name=value, a word that cannot name a function, a word of a single
\* character with a ) right behind it
PlainWord == {"word", "assign", "path", "tight"}

\* mutant: token_is_word() forgets the reserved words
Words_NoKeywords == PlainWord

Words == PlainWord \cup Keyword                       \* token_is_word()
Bad   == "bad"                                        \* next_token() returns NULL
Kind  == PlainWord \cup Keyword \cup Redirect \cup
           {"nl", ";", "&", "|", "&&", "||", ";;", "(", ")", "eof", Bad}
CompoundStart == {"if", "for", "while", "until", "case", "(", "{"}

CONSTANTS
  Input         \* what may be read: by whom, and for each token the kinds it may have

\* interpret() on a file or on what a user types, $( ) and backticks
Source == {"script", "terminal"}
Entry == Source \cup {"subst", "backtick"}
ASSUME InputAssumption ==
  \A i \in Input : i.entry \in Entry /\ i.tokens \in Seq(SUBSET (Kind \ {"eof"}))

VARIABLES
  input,
  at,           \* where interpret() is
  stack,        \* the frames of the functions of the parser
  read,         \* every token the lexer has made so far
  putback,      \* src->lexer.putback: the position in read, or 0
  prompt,       \* 1 for a new line, 2 for more of the same
  lines         \* the lines parsed so far, each with the tokens it came from

vars == <<input, at, stack, read, putback, prompt, lines>>

(***************************************************************************)
(* Trees.  A word is the position of its token, a redirection that of its  *)
(* operator.                                                               *)
(***************************************************************************)
Node(type, kids) == [type |-> type, assigns |-> <<>>, words |-> <<>>, redirs |-> <<>>, kids |-> kids]
SyntaxError == Node("error", <<>>)
AllArguments == 0                  \* the "$@" that parse_for puts in

\* condition and body of if and of every elif, then the body of else
IfNode(parts) ==
  LET from[i \in 1..(Len(parts) + 1)] ==
        IF i >= Len(parts) THEN SubSeq(parts, i, Len(parts))
        ELSE <<Node("if", <<parts[i], parts[i + 1]>> \o from[i + 2])>>
  IN  from[1][1]

\* mutant: & takes everything since the start of the line
Background_All(node) == Node("bg", <<node>>)

\* & belongs to the last list of the line only
Background(node) ==
  IF node.type = "sep"
    THEN [node EXCEPT !.kids[2] = Node("bg", <<@>>)]
    ELSE Node("bg", <<node>>)

(***************************************************************************)
(* Frames.                                                                 *)
(***************************************************************************)
Frame(label) == [at |-> label, type |-> "", assigns |-> <<>>, words |-> <<>>, redirs |-> <<>>,
                 kids |-> <<>>, multi |-> TRUE, until |-> {}]
Typed(label, type) == [Frame(label) EXCEPT !.type = type]

\* what is on the stack when parse_pipeline, parse_simple_pipeline or parse_list starts
Pipeline == <<Frame("bang")>>
\* mutant: parse_simple_pipeline starts with the |
SimplePipeline_NoCommand == <<Frame("stage")>>

SimplePipeline == <<Frame("stage"), Frame("command")>>
LogicList == <<Frame("logic")>> \o Pipeline
List(multi, until) == <<[Frame("list") EXCEPT !.multi = multi, !.until = until]>> \o LogicList
Block(until) == List(TRUE, until)

Top == stack[Len(stack)]
Callers == SubSeq(stack, 1, Len(stack) - 1)
Parsing(label) == at = "parse" /\ Top.at = label

\* the running function goes on at label, after it has called what frames run
GoOn(frame, label, called) ==
  /\ stack' = Callers \o <<[frame EXCEPT !.at = label]>> \o called
  /\ UNCHANGED <<at, lines>>
TailCall(called) == stack' = Callers \o called /\ UNCHANGED <<at, lines>>

Done(tree) == Append(lines,
  [tree |-> tree,
   from |-> IF lines = <<>> THEN 1 ELSE lines[Len(lines)].to + 1,
   to   |-> Len(read') - (IF putback' = 0 THEN 0 ELSE 1)])

Return(tree) ==
  IF Len(stack) = 1
    THEN /\ stack' = <<>> /\ at' = "parsed" /\ lines' = Done(tree)
    ELSE /\ stack' = [Callers EXCEPT ![Len(stack) - 1].kids = Append(@, tree)]
         /\ UNCHANGED <<at, lines>>

Fail ==
  /\ stack' = <<>>
  /\ lines' = Done(SyntaxError)
  /\ at' = IF input.entry = "terminal" THEN "discard" ELSE "end"

(***************************************************************************)
(* next_token() and unget_token(): every step of the parser is one of      *)
(* Take, for a token that it uses up, and Peek, for one it gives back.     *)
(* What is put back is always the token read last.  The end of the input   *)
(* is read again and again; an unterminated quote eats everything in front *)
(* of it.                                                                  *)
(***************************************************************************)
AtEnd == read # <<>> /\ read[Len(read)] = "eof"
Here == IF putback # 0 \/ AtEnd THEN Len(read) ELSE Len(read) + 1
Exhausted == read # <<>> /\ read[Len(read)] \in {"eof", Bad}
Readable == IF Exhausted \/ Len(read) >= Len(input.tokens) THEN {"eof"} ELSE input.tokens[Len(read) + 1]

Next_token(k) ==
  IF putback # 0 \/ AtEnd
    THEN k = read[Len(read)] /\ read' = read
    ELSE k \in Readable /\ read' = Append(read, k)

\* mutant: parse_command does not touch the prompt
Prompt_Never(k) == UNCHANGED <<input, prompt>>

\* the first token of a command makes the prompt ask for the rest of it
Prompt(k) ==
  /\ prompt' = IF at = "parse" /\ Top.at \in {"command", "compound"} /\ k \notin {"nl", Bad}
                 THEN 2 ELSE prompt
  /\ UNCHANGED input
Take(k) == Next_token(k) /\ putback' = 0 /\ Prompt(k)
Peek(k) == Next_token(k) /\ k # Bad /\ putback' = Here /\ Prompt(k)

(***************************************************************************)
(* What the functions have in common: skip_newlines(), a token that is not *)
(* one of those expected, and a lexer that fails.                          *)
(***************************************************************************)
SkipsNewlines == {"terminator", "command", "compound", "item", "item_body", "paren"}

Accepts(label) ==
  CASE label \in {"target", "for_name", "case_word", "pattern"} -> Words
    [] label = "for_words" -> Words \cup {";", "nl"}
    [] label = "command"   -> CompoundStart \cup PlainWord \cup Redirect
    [] label = "compound"  -> CompoundStart
    [] label = "then"      -> {"then"}
    [] label = "fi"        -> {"fi"}
    [] label = "do"        -> {"do"}
    [] label = "done"      -> {"done"}
    [] label = "in"        -> {"in"}
    [] label \in {"case_paren", "paren", "func_close"} -> {")"}
    [] label = "func_open" -> {"("}
    [] label = "esac"      -> {"esac"}
    [] label = "brace"     -> {"}"}
    [] OTHER -> Kind

\* the frames of functions that wait for the one they called, and take no token then
Waits == {"negate", "pipe", "func_body"}

SkipNewline ==
  /\ at = "parse" /\ Top.at \in SkipsNewlines
  /\ Take("nl")
  /\ UNCHANGED <<at, stack, lines>>

LexerFails ==
  /\ at = "parse" /\ Top.at \notin Waits
  /\ Take(Bad)
  /\ Fail

Unexpected ==
  /\ at = "parse"
  /\ \E k \in Kind \ (Accepts(Top.at) \cup {Bad}) :
       /\ k # "nl" \/ Top.at \notin SkipsNewlines
       /\ Take(k)
  /\ Fail

(***************************************************************************)
(* Lists: parse_list, parse_logic_list, parse_pipeline and                 *)
(* parse_simple_pipeline.                                                  *)
(***************************************************************************)
Separator == {"nl", ";", "&"}

\* what parse_list has so far: its last child makes a NODE_SEP of it
ListNode == IF Len(Top.kids) = 2 THEN Node("sep", Top.kids) ELSE Top.kids[1]
Ended(k) == IF k = "&" THEN Background(ListNode) ELSE ListNode

ListSeparator ==
  /\ Parsing("list")
  /\ \E k \in Separator :
       /\ Take(k)
       /\ IF Top.multi
            THEN IF Top.until = {}
                   THEN GoOn([Top EXCEPT !.kids = <<Ended(k)>>], "list", LogicList)
                   ELSE GoOn([Top EXCEPT !.kids = <<Ended(k)>>], "terminator", <<>>)
            ELSE Return(Ended(k))

ListEnds ==
  /\ Parsing("list")
  /\ \E k \in Kind \ Separator : Peek(k)
  /\ Return(ListNode)

ListTerminator ==
  /\ Parsing("terminator")
  /\ \E k \in Kind \ {"nl"} :
       /\ Peek(k)
       /\ IF k \in Top.until THEN Return(Top.kids[1]) ELSE GoOn(Top, "list", LogicList)

\* type is the operator between the two children, once it is known
LogicNode == IF Len(Top.kids) = 2 THEN Node(Top.type, Top.kids) ELSE Top.kids[1]

LogicOperator ==
  /\ Parsing("logic")
  /\ \E k \in {"&&", "||"} :
       /\ Take(k)
       /\ GoOn([Top EXCEPT !.kids = <<LogicNode>>, !.type = IF k = "&&" THEN "and" ELSE "or"],
               "logic", Pipeline)

LogicEnds ==
  /\ Parsing("logic")
  /\ \E k \in Kind \ {"&&", "||"} : Peek(k)
  /\ Return(LogicNode)

PipelineBang ==
  /\ Parsing("bang")
  /\ \/ Take("!") /\ GoOn(Top, "negate", SimplePipeline)
     \/ (\E k \in Kind \ {"!"} : Peek(k)) /\ TailCall(SimplePipeline)

PipelineBar ==
  /\ Parsing("stage")
  /\ \/ Take("|") /\ GoOn(Top, "pipe", SimplePipeline)
     \/ (\E k \in Kind \ {"|"} : Peek(k)) /\ Return(Top.kids[1])

\* the ends of parse_pipeline and parse_simple_pipeline, which take no token
PipelineEnds ==
  /\ at = "parse" /\ Top.at \in {"negate", "pipe"}
  /\ Return(Node(Top.at, Top.kids))
  /\ UNCHANGED <<input, read, putback, prompt>>

(***************************************************************************)
(* Commands: parse_command, parse_simple_command, parse_redir, parse_func. *)
(***************************************************************************)
Command ==
  /\ Parsing("command")
  /\ \/ (\E k \in CompoundStart : Peek(k)) /\ GoOn(Top, "compound", <<>>)
     \/ \E k \in PlainWord :
          /\ Take(k)
          /\ GoOn([Top EXCEPT !.words = <<Here>>], "word", <<>>)
     \/ \E k \in Redirect :
          /\ Take(k)
          /\ GoOn([Typed("command", "cmd") EXCEPT !.redirs = <<Here>>], "target", <<>>)

\* a word at the start of a command: name ( makes it a function
IsFunction ==
  /\ Parsing("word")
  /\ \/ Peek("(") /\ GoOn(Top, "func_open", <<>>)
     \/ /\ \E k \in Kind \ {"("} : Peek(k)
        /\ GoOn(IF read[Top.words[1]] = "assign"
                  THEN [Typed("args", "cmd") EXCEPT !.assigns = Top.words]
                  ELSE [Typed("args", "cmd") EXCEPT !.words = Top.words],
                "args", <<>>)

\* assignments only count in front of everything else
SimpleCommand ==
  /\ Parsing("args")
  /\ \/ \E k \in Words :
          /\ Take(k)
          /\ GoOn(IF k = "assign" /\ Top.words = <<>> /\ Top.redirs = <<>>
                    THEN [Top EXCEPT !.assigns = Append(@, Here)]
                    ELSE [Top EXCEPT !.words = Append(@, Here)],
                  "args", <<>>)
     \/ \E k \in Redirect :
          /\ Take(k)
          /\ GoOn([Top EXCEPT !.redirs = Append(@, Here)], "target", <<>>)
     \/ /\ \E k \in Kind \ (Words \cup Redirect) : Peek(k)
        /\ Return([Node("cmd", <<>>) EXCEPT !.assigns = Top.assigns, !.words = Top.words,
                                            !.redirs = Top.redirs])

RedirTarget ==
  /\ Parsing("target")
  /\ \E k \in Words : Take(k)
  /\ GoOn(Top, IF Top.type = "cmd" THEN "args" ELSE "redirs", <<>>)

FuncParentheses ==
  \/ Parsing("func_open") /\ Take("(") /\ GoOn(Top, "func_close", <<>>)
  \/ Parsing("func_close") /\ Take(")") /\ GoOn(Top, "func_body", <<Frame("compound")>>)

\* the name is only looked at once the body is there
FuncEnds ==
  /\ Parsing("func_body")
  /\ UNCHANGED <<input, read, putback, prompt>>
  /\ IF read[Top.words[1]] \in {"word", "tight"}
       THEN Return([Node("func", Top.kids) EXCEPT !.words = Top.words])
       ELSE Fail

(***************************************************************************)
(* Compound commands: parse_compound_command and the functions it calls.   *)
(***************************************************************************)
Compound ==
  /\ Parsing("compound")
  /\ \E k \in CompoundStart :
       /\ Take(k)
       /\ GoOn(Frame("redirs"), "redirs",
               CASE k = "if" -> <<Typed("then", "if")>> \o Block({"then"})
                 [] k \in {"while", "until"} -> <<Typed("do", k)>> \o Block({"do"})
                 [] k = "for" -> <<Typed("for_name", "for")>>
                 [] k = "case" -> <<Typed("case_word", "case")>>
                 [] k = "(" -> <<Typed("paren", "subshell")>> \o Block({")"})
                 [] k = "{" -> <<Typed("brace", "group")>> \o Block({"}"}))

CompoundRedirs ==
  /\ Parsing("redirs")
  /\ \/ \E k \in Redirect :
          /\ Take(k)
          /\ GoOn([Top EXCEPT !.redirs = Append(@, Here)], "target", <<>>)
     \/ /\ \E k \in Kind \ Redirect : Peek(k)
        /\ Return([Top.kids[1] EXCEPT !.redirs = Top.redirs])

IfThen ==
  /\ Parsing("then")
  /\ Take("then")
  /\ GoOn(Top, "elif", Block({"elif", "else", "fi"}))

IfElse ==
  /\ Parsing("elif")
  /\ \/ Take("elif") /\ GoOn(Top, "then", Block({"then"}))
     \/ Take("else") /\ GoOn(Top, "fi", Block({"fi"}))
     \/ (\E k \in Kind \ {"elif", "else"} : Peek(k)) /\ GoOn(Top, "fi", <<>>)

IfEnds ==
  /\ Parsing("fi")
  /\ Take("fi")
  /\ Return(IfNode(Top.kids))

LoopDo ==
  /\ Parsing("do")
  /\ Take("do")
  /\ GoOn(Top, "done", Block({"done"}))

LoopEnds ==
  /\ Parsing("done")
  /\ Take("done")
  /\ Return([Node(Top.type, Top.kids) EXCEPT !.words = Top.words])

ForName ==
  /\ Parsing("for_name")
  /\ \E k \in Words : Take(k)
  /\ GoOn([Top EXCEPT !.words = <<Here>>], "for_in", <<>>)

\* without in, the words are "$@", and a separator may be left out
ForIn ==
  /\ Parsing("for_in")
  /\ \/ Take("in") /\ GoOn(Top, "for_words", <<>>)
     \/ /\ \/ \E k \in {";", "nl"} : Take(k)
           \/ \E k \in Kind \ {"in", ";", "nl"} : Peek(k)
        /\ GoOn([Top EXCEPT !.words = Append(@, AllArguments)], "do", <<>>)

ForWords ==
  /\ Parsing("for_words")
  /\ \/ (\E k \in Words : Take(k)) /\ GoOn([Top EXCEPT !.words = Append(@, Here)], "for_words", <<>>)
     \/ (\E k \in {";", "nl"} : Take(k)) /\ GoOn(Top, "do", <<>>)

\* kids are the items so far, redirs the patterns of the one being read
CaseWord ==
  \/ /\ Parsing("case_word")
     /\ \E k \in Words : Take(k)
     /\ GoOn([Top EXCEPT !.words = <<Here>>], "in", <<>>)
  \/ /\ Parsing("in")
     /\ Take("in")
     /\ GoOn(Top, "item", <<>>)

CaseItem ==
  /\ Parsing("item")
  /\ \/ Take("(") /\ GoOn(Top, "pattern", <<>>)
     \/ \E k \in Words \ {"esac"} : Take(k) /\ GoOn([Top EXCEPT !.redirs = <<Here>>], "bar", <<>>)
     \/ \E k \in Kind \ ((Words \ {"esac"}) \cup {"(", "nl"}) : Peek(k) /\ GoOn(Top, "esac", <<>>)

CasePatterns ==
  \/ /\ Parsing("pattern")
     /\ \E k \in Words : Take(k)
     /\ GoOn([Top EXCEPT !.redirs = Append(@, Here)], "bar", <<>>)
  \/ /\ Parsing("bar")
     /\ \/ Take("|") /\ GoOn(Top, "pattern", <<>>)
        \/ (\E k \in Kind \ {"|"} : Peek(k)) /\ GoOn(Top, "case_paren", <<>>)
  \/ /\ Parsing("case_paren")
     /\ Take(")")
     /\ GoOn(Top, "item_body", <<>>)

Item(body) == [Node("item", body) EXCEPT !.words = Top.redirs]
\* a body that has just been parsed is the last of the kids, behind the items
WithItem ==
  LET n == Len(Top.kids)
  IN  IF n > 0 /\ Top.kids[n].type # "item"
        THEN [Top EXCEPT !.kids[n] = Item(<<@>>), !.redirs = <<>>]
        ELSE [Top EXCEPT !.kids = Append(@, Item(<<>>)), !.redirs = <<>>]

CaseBody ==
  /\ Parsing("item_body")
  /\ \E k \in Kind \ {"nl"} :
       /\ Peek(k)
       /\ GoOn(Top, "item_end", IF k \in {";;", "esac"} THEN <<>> ELSE Block({"esac", ";;"}))

CaseItemEnds ==
  /\ Parsing("item_end")
  /\ \/ Take(";;") /\ GoOn(WithItem, "item", <<>>)
     \/ (\E k \in Kind \ {";;"} : Peek(k)) /\ GoOn(WithItem, "esac", <<>>)

CaseEnds ==
  /\ Parsing("esac")
  /\ Take("esac")
  /\ Return([Node("case", Top.kids) EXCEPT !.words = Top.words])

SubshellEnds ==
  /\ Parsing("paren")
  /\ Take(")")
  /\ Return(Node("subshell", Top.kids))

GroupEnds ==
  /\ Parsing("brace")
  /\ Take("}")
  /\ Return(Node("group", Top.kids))

(***************************************************************************)
(* interpret(), which parses and executes line by line; and                *)
(* parse_list_buf(), which parses what is between $( and its parenthesis,  *)
(* or between backticks, and sees where the parser stopped.                *)
(***************************************************************************)
\* parse_line: the end of the input is only one between lines
BlankLine ==
  /\ at = "line"
  /\ Take("nl")
  /\ UNCHANGED <<at, stack, lines>>

\* mutant: parse_line skips the end of the input as it skips blank lines
EndOfInput_Blank ==
  /\ at = "line"
  /\ Take("eof")
  /\ UNCHANGED <<at, stack, lines>>

EndOfInput ==
  /\ at = "line"
  /\ Take("eof")
  /\ at' = "end"
  /\ UNCHANGED <<stack, lines>>

\* parse_line looks at the type of a token that is not there
NullToken ==
  /\ at = "line"
  /\ Take(Bad)
  /\ at' = "crashed"
  /\ UNCHANGED <<stack, lines>>

StartLine ==
  /\ at = "line"
  /\ \E k \in Kind \ {"nl", "eof"} : Peek(k)
  /\ at' = "parse"
  /\ stack' = List(FALSE, {})
  /\ UNCHANGED lines

NextLine == at' = "line" /\ prompt' = 1

\* execute(), which may leave the loop: by return, or by a status and set -e
Execute ==
  /\ at = "parsed" /\ input.entry \in Source
  /\ \/ NextLine
     \/ at' = "end" /\ UNCHANGED prompt
  /\ UNCHANGED <<input, stack, read, putback, lines>>

\* discard_line: the rest of the line, character by character; what has been
\* put back is thrown away, no token is made (read gets words), and the end of the
\* input is not noticed
DiscardToken ==
  /\ at = "discard"
  /\ putback' = 0
  /\ \E k \in Readable \ {"eof"} :
       /\ read' = Append(read, IF k = "nl" THEN k ELSE "word")
       /\ IF k = "nl" THEN NextLine ELSE UNCHANGED <<at, prompt>>
       /\ lines' = [lines EXCEPT ![Len(lines)].to = Len(read')]
  /\ UNCHANGED <<input, stack>>

DiscardForever ==
  /\ at = "discard" /\ Readable = {"eof"}
  /\ putback' = 0
  /\ UNCHANGED <<input, at, stack, read, prompt, lines>>

\* the token that ended the list is taken off the end by its length: right for
\* an operator, one too few for a word, behind which a character was put back
EndsAtParen == read[putback] \in {")", "tight"}

SubstEnds ==
  /\ at = "parsed" /\ input.entry = "subst"
  /\ at' = IF EndsAtParen THEN "expanded" ELSE "end"
  /\ UNCHANGED <<input, stack, read, putback, prompt, lines>>

\* handle_backtick looks behind the string for its end after it has freed it:
\* what it finds there is anything
BacktickEnds ==
  /\ at = "parsed" /\ input.entry = "backtick"
  /\ at' \in {"expanded", "end"}
  /\ UNCHANGED <<input, stack, read, putback, prompt, lines>>

-----------------------------------------------------------------------------
Init ==
  /\ input \in Input
  /\ at = IF input.entry \in Source THEN "line" ELSE "parse"
  /\ stack = CASE input.entry = "subst" -> Block({")"})
               [] input.entry = "backtick" -> Block({})
               [] OTHER -> <<>>
  /\ read = <<>>
  /\ putback = 0
  /\ prompt = 1
  /\ lines = <<>>

Lists == ListSeparator \/ ListEnds \/ ListTerminator \/ LogicOperator \/ LogicEnds
           \/ PipelineBang \/ PipelineBar \/ PipelineEnds
Commands == Command \/ IsFunction \/ SimpleCommand \/ RedirTarget \/ FuncParentheses \/ FuncEnds
Conditionals == IfThen \/ IfElse \/ IfEnds \/ CaseWord \/ CaseItem \/ CasePatterns \/ CaseBody
                  \/ CaseItemEnds \/ CaseEnds
Compounds == Compound \/ CompoundRedirs \/ Conditionals \/ LoopDo \/ LoopEnds \/ ForName \/ ForIn
               \/ ForWords \/ SubshellEnds \/ GroupEnds
Parse == SkipNewline \/ LexerFails \/ Unexpected \/ Lists \/ Commands \/ Compounds
Interpret == BlankLine \/ EndOfInput \/ NullToken \/ StartLine \/ Execute \/ DiscardToken
               \/ DiscardForever \/ SubstEnds \/ BacktickEnds

\* what has ended stays as it is; so does a shell that waits for a newline for ever
Stopped == at \in {"end", "expanded", "crashed"} \/ (at = "discard" /\ Readable = {"eof"})
Next == Parse \/ Interpret

Spec == Init /\ [][Next]_vars /\ WF_vars(Next)

-----------------------------------------------------------------------------
(***************************************************************************)
(* Properties.                                                             *)
(***************************************************************************)
\* how many children a frame has got when it goes on at a label
Kids(label) ==
  CASE label \in {"list", "logic"} -> 1..2
    [] label \in {"terminator", "stage", "negate", "func_body", "redirs", "then", "done", "paren",
                  "brace"} -> Nat \ {0}
    [] OTHER -> Nat

Label == {"list", "terminator", "logic", "bang", "negate", "stage", "pipe", "command", "word", "args",
          "target", "func_open", "func_close", "func_body", "compound", "redirs", "then", "elif",
          "fi", "do", "done", "for_name", "for_in", "for_words", "case_word", "in", "item",
          "pattern", "bar", "case_paren", "item_body", "item_end", "esac", "paren", "brace"}

TypeOK ==
  /\ input \in Input
  /\ at \in {"line", "parse", "parsed", "discard", "end", "expanded", "crashed"}
  /\ at = "parse" <=> stack # <<>>
  /\ read \in Seq(Kind)
  /\ putback \in {0, Len(read)}
  /\ prompt \in 1..2
  /\ \A i \in DOMAIN stack : /\ stack[i].at \in Label
                             /\ stack[i].until \subseteq Kind
                             /\ i = Len(stack) => Len(stack[i].kids) \in Kids(stack[i].at)

\* Whoever types in the middle of a command is asked for the rest of it with
\* the second prompt; a ! alone is not the middle of one yet.
AsksForTheRest ==
  input.entry = "terminal" /\ at = "parse" /\ putback = 0 /\ read # <<>> /\ read[Len(read)] = "nl" =>
    prompt = 2 \/ \E i \in DOMAIN stack : stack[i].at = "negate"

\* What the parser makes of a line is the tree that the grammar gives to just
\* those tokens: every token is in it, where it belongs, with the precedence
\* of the shell.
TreeOfItsTokens ==
  at = "parsed" =>
    LET line == lines[Len(lines)]
        parts == Derived(read, line.tree)
        ends == Ends(parts, read, line.tree, Breaks(read, {line.from}))
    IN  line.to + 1 \in IF input.entry \in Source
                          THEN ends \cup Token(read, {";", "nl"}, ends)
                          ELSE Body(parts, read, line.tree, {line.from})

\* Discarding the line of a syntax error begins within that line.
DiscardsOnlyTheBadLine == at = "discard" => read[Len(read)] # "nl"

\* The parser gets to the end of whatever it reads.
Finishes == <>Stopped
=============================================================================
