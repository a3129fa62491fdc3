----------------------------- MODULE TashPrompt -----------------------------
(***************************************************************************)
(* The prompt of an interactive tash (src/prompt.c): the line editor, and  *)
(* prompt_getc(), which hands out the line that was entered character by   *)
(* character and asks for another one when there is nothing left.          *)
(*                                                                         *)
(* One step is one key, or one call of prompt_getc.  The screen is the     *)
(* part of it behind the prompt; a line is shorter than the screen is      *)
(* wide, and, as the code does not check it, shorter than the buffer.      *)
(***************************************************************************)
EXTENDS Integers, Sequences

CONSTANTS
  Size,         \* the size of prompt_buf: 256
  Printable,    \* the characters that somebody types
  Space,        \* the one of them that separates words
  Newline,
  Nul,          \* what Ctrl-D leaves in the buffer, and prompt_getc takes for EOF
  File,         \* the names that a completion finds
  KeyLimit      \* bound: how many keys are pressed

ASSUME PromptAssumption ==
  /\ Size \in Nat \ {0, 1} /\ KeyLimit \in Nat
  /\ Space \in Printable /\ {Newline, Nul} \cap Printable = {}
  /\ File \subseteq Seq(Printable)

VARIABLES
  prompt_buf, prompt_len, prompt_cursor, prompt_index,
  editing,      \* do_prompt() is running
  cells,        \* what is on the screen behind the prompt
  column,       \* where the terminal's cursor is
  stale,        \* history: a completion moved text that has not been drawn again
  got,          \* the characters that prompt_getc has returned
  keys          \* how many keys have been pressed

promptVars == <<prompt_buf, prompt_len, prompt_cursor, prompt_index, editing, cells, column,
                stale, got, keys>>

\* what buf holds from i up to j, without j
Part(buf, i, j) == [k \in 1..(j - i) |-> buf[i + k - 1]]

(***************************************************************************)
(* The screen.                                                             *)
(***************************************************************************)
\* s is printed over what is on the screen from col on
Printed(col, s) ==
  [i \in 1..(IF col + Len(s) > Len(cells) THEN col + Len(s) ELSE Len(cells)) |->
     IF i > col /\ i <= col + Len(s) THEN s[i - col] ELSE cells[i]]

\* mutant: redraw() does not clear the character behind the end
Redraw_NoSpace(cursor, buf, len) ==
  /\ prompt_buf' = buf
  /\ cells' = Printed(cursor, Part(buf, cursor, len))
  /\ stale' = FALSE

\* redraw(), from the cursor to the end and back, of buf with a space behind it
Redraw(cursor, buf, len) ==
  /\ prompt_buf' = [buf EXCEPT ![len] = Space]
  /\ cells' = Printed(cursor, Append(Part(buf, cursor, len), Space))
  /\ stale' = FALSE

\* move(): left by backspaces, right by printing what is there
Move(to) ==
  /\ prompt_cursor' = to
  /\ column' = column + (to - prompt_cursor)
  /\ cells' = IF to > prompt_cursor THEN Printed(column, Part(prompt_buf, prompt_cursor, to)) ELSE cells

(***************************************************************************)
(* Keys.                                                                   *)
(***************************************************************************)
Key == editing /\ keys < KeyLimit /\ keys' = keys + 1 /\ UNCHANGED <<prompt_index, got>>
\* bound: what is not checked is left out
Fits(n) == n < Size

Insert ==
  /\ Key /\ Fits(prompt_len + 1)
  /\ \E c \in Printable :
       Redraw(prompt_cursor,
              [i \in 0..(Size - 1) |->
                 IF i = prompt_cursor THEN c
                 ELSE IF i > prompt_cursor /\ i <= prompt_len THEN prompt_buf[i - 1] ELSE prompt_buf[i]],
              prompt_len + 1)
  /\ prompt_len' = prompt_len + 1 /\ prompt_cursor' = prompt_cursor + 1 /\ column' = column + 1
  /\ UNCHANGED editing

Backspace ==
  /\ Key /\ prompt_cursor > 0
  /\ Redraw(prompt_cursor - 1,
            [i \in 0..(Size - 1) |->
               IF i >= prompt_cursor - 1 /\ i < prompt_len THEN prompt_buf[i + 1] ELSE prompt_buf[i]],
            prompt_len - 1)
  /\ prompt_len' = prompt_len - 1 /\ prompt_cursor' = prompt_cursor - 1 /\ column' = column - 1
  /\ UNCHANGED editing

\* handle_escape(): left, right, home and end
Arrow ==
  /\ Key
  /\ \/ prompt_cursor > 0 /\ Move(prompt_cursor - 1)
     \/ prompt_cursor < prompt_len /\ Move(prompt_cursor + 1)
     \/ Move(0)
     \/ Move(prompt_len)
  /\ UNCHANGED <<prompt_buf, prompt_len, editing, stale>>

(***************************************************************************)
(* handle_autocompletion().  The word at the cursor is looked up as the    *)
(* start of a file name.                                                   *)
(***************************************************************************)
IsBlank(i) == prompt_buf[i] = Space
Back(i) == i = 0 \/ IsBlank(i)
WordStart ==
  LET before == IF prompt_cursor > 0 THEN prompt_cursor - 1 ELSE 0
      first == CHOOSE i \in 0..before : Back(i) /\ \A j \in (i + 1)..before : ~Back(j)
  IN  IF IsBlank(first) /\ first < prompt_cursor THEN first + 1 ELSE first
WordEnd ==
  CHOOSE i \in prompt_cursor..prompt_len :
    (i = prompt_len \/ IsBlank(i)) /\ \A j \in prompt_cursor..(i - 1) : ~IsBlank(j)

StartsWith(f, s) == Len(f) >= Len(s) /\ SubSeq(f, 1, Len(s)) = s
Search == Part(prompt_buf, WordStart, WordEnd)
Found == {f \in File : StartsWith(f, Search)}
\* what all of Found start with
Common ==
  LET f == CHOOSE f \in Found : TRUE
      n == CHOOSE n \in 0..Len(f) :
             /\ \A g \in Found : StartsWith(g, SubSeq(f, 1, n))
             /\ n = Len(f) \/ \E g \in Found : ~StartsWith(g, SubSeq(f, 1, n + 1))
  IN  SubSeq(f, 1, n)

\* nothing to add: the names are listed, and the line drawn again under them
ListNames ==
  /\ Key
  /\ Found # {} /\ Len(Common) <= Len(Search)
  /\ prompt_buf' = [prompt_buf EXCEPT ![prompt_len] = Space]
  /\ cells' = Append(Part(prompt_buf, 0, prompt_len), Space)
  /\ column' = prompt_cursor
  /\ stale' = FALSE
  /\ UNCHANGED <<prompt_len, prompt_cursor, editing>>

\* the rest of the line moves, and is not drawn again
Complete ==
  /\ Key
  /\ Found # {} /\ Len(Common) > Len(Search)
  /\ LET end == WordStart + Len(Common)
         len == prompt_len + Len(Common) - Len(Search)
     IN  /\ Fits(len)
         /\ prompt_len' = len
         /\ prompt_buf' = [i \in 0..(Size - 1) |->
              IF i < WordStart \/ i >= len THEN prompt_buf[i]
              ELSE IF i < end THEN Common[i - WordStart + 1] ELSE prompt_buf[i - end + WordEnd]]
         /\ prompt_cursor' = end
         /\ column' = column + (end - prompt_cursor)
         /\ cells' = Printed(column, SubSeq(Common, prompt_cursor - WordStart + 1, Len(Common)))
         /\ stale' = (stale \/ WordEnd < prompt_len)
  /\ UNCHANGED editing

(***************************************************************************)
(* The end of a line, and prompt_getc().                                   *)
(***************************************************************************)
Done(c, n) ==
  /\ prompt_buf' = [prompt_buf EXCEPT ![n] = c]
  /\ prompt_len' = n + 1
  /\ editing' = FALSE
  /\ UNCHANGED <<prompt_cursor, cells, column, stale>>

Enter == Key /\ Done(Newline, prompt_len)

\* mutant: Ctrl-D ends the input whatever is on the line
CtrlD_Anywhere == Key /\ Done(Nul, 0)

\* Ctrl-D is ignored unless the line is empty
CtrlD == Key /\ prompt_len = 0 /\ Done(Nul, 0)

\* prompt_getc() begins a line when the last one is used up
DoPrompt ==
  /\ ~editing /\ prompt_index >= prompt_len
  /\ prompt_index' = 0 /\ prompt_cursor' = 0 /\ prompt_len' = 0
  /\ editing' = TRUE
  /\ cells' = <<>> /\ column' = 0 /\ stale' = FALSE
  /\ UNCHANGED <<prompt_buf, got, keys>>

Getc ==
  /\ ~editing /\ prompt_index < prompt_len
  /\ got' = Append(got, prompt_buf[prompt_index])
  /\ prompt_index' = prompt_index + 1
  /\ UNCHANGED <<prompt_buf, prompt_len, prompt_cursor, editing, cells, column, stale, keys>>

-----------------------------------------------------------------------------
\* prompt_buf is static; no line has been asked for yet
PromptInit ==
  /\ prompt_buf = [i \in 0..(Size - 1) |-> Nul]
  /\ prompt_len = 0 /\ prompt_cursor = 0 /\ prompt_index = 0
  /\ editing = FALSE
  /\ cells = <<>> /\ column = 0 /\ stale = FALSE
  /\ got = <<>> /\ keys = 0

Press == Insert \/ Backspace \/ Arrow \/ ListNames \/ Complete \/ Enter \/ CtrlD
PromptNext == Press \/ DoPrompt \/ Getc

PromptSpec == PromptInit /\ [][PromptNext]_promptVars

-----------------------------------------------------------------------------
\* The screen shows the line that is edited, with the cursor where it is in
\* the line, and nothing behind it, after any insertions, deletions and
\* movements.  Only a completion in the middle of a line leaves what is behind
\* the cursor as it was, until the next change.
ShowsTheLine ==
  editing =>
    /\ column = prompt_cursor
    /\ Len(cells) >= IF stale THEN prompt_cursor ELSE prompt_len
    /\ \A i \in DOMAIN cells :
         /\ i <= prompt_len /\ (~stale \/ i <= prompt_cursor) => cells[i] = prompt_buf[i - 1]
         /\ i > prompt_len => cells[i] = Space

Added == UNION {{SubSeq(f, i, j) : i, j \in 1..Len(f)} : f \in File}
Editor == INSTANCE LineEditor WITH
  Letter <- Printable, Extension <- Added, EndOfFile <- Nul,
  line <- IF editing THEN Part(prompt_buf, 0, prompt_len) ELSE <<>>,
  pos <- IF editing THEN prompt_cursor ELSE 0,
  sent <- IF editing THEN got ELSE got \o Part(prompt_buf, prompt_index, prompt_len),
  received <- got

\* Whatever is typed, moved over, deleted and completed in whatever order, the
\* shell reads the lines as they stood when Enter was pressed, each character
\* once; the prompt implements LineEditor.
EditsLines == Editor!Spec
=============================================================================
