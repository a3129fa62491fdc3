----------------------------- MODULE LineEditor -----------------------------
(***************************************************************************)
(* What somebody who types a line may rely on: a text with a position in   *)
(* it, that keys change; and a program that reads, in order and each once, *)
(* the characters of the lines that were entered.                          *)
(***************************************************************************)
EXTENDS Integers, Sequences

CONSTANTS
  Letter,       \* what can be typed
  Extension,    \* what a completion can add to a word
  Newline, EndOfFile

VARIABLES
  line,         \* the text on the line
  pos,          \* how many of its characters are left of the cursor
  sent,         \* the characters sent to the program
  received      \* those it has read

vars == <<line, pos, sent, received>>

\* s with new between its first n elements and the others
Insert(s, n, new) ==
  [i \in 1..(Len(s) + Len(new)) |->
     IF i <= n THEN s[i] ELSE IF i <= n + Len(new) THEN new[i - n] ELSE s[i - Len(new)]]
\* s without its n-th element
Erase(s, n) == [i \in 1..(Len(s) - 1) |-> IF i < n THEN s[i] ELSE s[i + 1]]

Init == line = <<>> /\ pos = 0 /\ sent = <<>> /\ received = <<>>

Type(c) == line' = Insert(line, pos, <<c>>) /\ pos' = pos + 1
Rubout == pos > 0 /\ line' = Erase(line, pos) /\ pos' = pos - 1
Move == line' = line /\ pos' \in 0..Len(line)
\* the word at the cursor gets longer
Complete(j, more) ==
  /\ line' = Insert(line, j, more)
  /\ pos' = j + Len(more)

Edit ==
  /\ \/ \E c \in Letter : Type(c)
     \/ Rubout
     \/ Move
     \/ \E j \in pos..Len(line), more \in Extension : Complete(j, more)
  /\ UNCHANGED <<sent, received>>

\* the end of the file is sent with an empty line
Send ==
  /\ \/ sent' = sent \o line \o <<Newline>>
     \/ line = <<>> /\ sent' = sent \o <<EndOfFile>>
  /\ line' = <<>> /\ pos' = 0
  /\ UNCHANGED received

Receive ==
  /\ Len(received) < Len(sent)
  /\ received' = Append(received, sent[Len(received) + 1])
  /\ UNCHANGED <<line, pos, sent>>

Next == Edit \/ Send \/ Receive
Spec == Init /\ [][Next]_vars
=============================================================================
