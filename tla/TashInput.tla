----------------------------- MODULE TashInput -----------------------------
(***************************************************************************)
(* The lexer with what it reads: a text that is there, or the prompt.      *)
(* get_char() of an interactive shell is prompt_getc(): the lexer stands   *)
(* still while a line is typed.                                            *)
(***************************************************************************)
EXTENDS TashLexer, TashPrompt

lexer == <<seen, eof, unget, at, hold, frames, token, tokens>>

\* the lexer's next step reads a character that the source has to deliver
Wants == at \notin {"end", "failed"} /\ ~eof /\ unget = None /\ (at = "word" => hold = None)

PromptGetc ==
  /\ typing /\ Wants /\ Len(seen) = Len(text)
  /\ \/ DoPrompt /\ UNCHANGED input
     \/ /\ Getc
        /\ IF prompt_buf[prompt_index] = Nul
             THEN typing' = FALSE /\ UNCHANGED text
             ELSE text' = Append(text, {prompt_buf[prompt_index]}) /\ UNCHANGED typing
  /\ UNCHANGED lexer

InputInit == Init /\ PromptInit
Lex == Next /\ UNCHANGED promptVars
Types == Press /\ UNCHANGED vars
InputNext == Lex \/ PromptGetc \/ Types

\* tash goes on reading; nobody has to type
InputSpec ==
  /\ InputInit /\ [][InputNext]_<<vars, promptVars>>
  /\ WF_<<vars, promptVars>>(Lex) /\ WF_<<vars, promptVars>>(PromptGetc)

-----------------------------------------------------------------------------
\* what is open goes on behind a newline: a quote, a substitution, or a
\* backslash in front of it
Open == at = "word" /\ (Len(frames) > 1 \/ Top.quote # None \/ seen[Len(seen) - 1] = "backslash")

\* A line is executed before the next one is asked for: the lexer only needs
\* the first character of another line when the newline of the last one has
\* become a token, or something is open at its end.
AsksForALineWhenNeeded ==
  Wants /\ seen # <<>> /\ seen[Len(seen)] = "nl" =>
    Open \/ (tokens # <<>> /\ tokens[Len(tokens)].to = Len(seen))

\* Whatever is read or typed, the lexer gets through it: to the end, to an
\* error, or to where another line is to be typed.  Only in a comment on a last
\* line without a newline it stays for ever.
GetsThrough ==
  []<>(\/ at \in {"end", "failed"}
       \/ editing
       \/ at = "comment" /\ eof /\ seen[Len(seen)] # "nl")
=============================================================================
