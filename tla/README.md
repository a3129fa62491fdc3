# A TLA+ model of tash

tash is a small POSIX shell in C: one process reads a script line by line,
parses each line to a tree, walks the tree, and forks for what has to run
elsewhere. This directory holds TLA+ modules of it, the configurations that
model-check them with TLC, and proofs that TLAPS checks.

## 1. The system

| component | source | state it keeps | operations |
|---|---|---|---|
| executor | `src/execute.c`, `include/tash.h` | `exit_status`, `break_depth`, `continue_depth`, `loop_depth`, `stack_depth`, `sigint_break`, `return_break`, `last_background`, and the C stack | `execute` (one case per node type), `execute_cmd`, `execute_pipe`, `execute_func`, the `*_CHECK` macros |
| redirections | `src/execute.c:20-250` | the descriptor table of the process, one `saved_fd_t` vector per node in progress, stdio's buffer | `apply_redirs`, `save_fd`, `restore_fd`, `restore_fds`, `flush_fd` |
| builtins | `src/builtin.c` | the executor's globals, `_argc`/`_argv`, shell flags, the working directory | `break`, `continue`, `return`, `exit`, `shift`, `set`, `eval`, `source`, `wait`, `unset`, `export`, `cd`, `kill`, `echo`, `pwd`, `true`, `false` |
| jobs | `src/jobs.c` | process groups, the terminal's foreground group, `sigint_break` | `job_init_group`, `job_fork_async`, `job_fork`, `job_single`, `job_wait`, `job_wait_pid`, `job_report_termination`, the signal handlers |
| interpreter loop | `src/parser.c:1047-1199` | the line being read, the source | `interpret`, `eval`, `eval_script` |
| parser | `src/parser.c` | one token of look-ahead, the prompt, the tree under construction | `parse_list`, `parse_pipeline`, `parse_command`, one function per compound command, and `free_node` |
| lexer | `src/lexer.c` | `putback`, one character put back, the state of quoting | `next_token`, `get_word_helper`, `unget_token`, `discard_line` |
| expansion | `src/expand.c` | the words being built | `word_expansion`, `execute_subshell`, `${}` operators, field splitting |
| globbing | `src/globing.c` | none | `glob_match`, `glob_files` |
| variables | `src/var.c` | a vector of name, value, exported | `putvar`, `getvar`, `unset_var`, `export_var`, `setup_environ` |
| functions table | `src/func.c` | a vector of name and body | `get_func`, `register_func`, `unregister_func` |
| parameters | `src/builtin.c`, `src/execute.c:231-269`, `src/main.c` | `_argc`, `_argv`, `_argv0`, the static array of `set` | `set`, `shift`, `save_args`, `load_args`, `source`, `execute_func` |
| prompt | `src/prompt.c` | the line being edited, the cursor, what of it has been read | one operation per key, `prompt_getc` |
| start-up | `src/main.c`, `src/init.c` | options | option parsing, initial variables |
| the rest | `src/mem.c`, `src/error.c`, `src/stub.c`, `vector.h` | none | wrappers of malloc and printf, a growable array |

How they meet. `main` calls `eval_script`, which calls `interpret`, which calls
the parser and the executor in turn; the parser pulls tokens from the lexer and
characters from a file or a string. The executor calls expansion before each
command, and expansion may call back into the executor through `$( )`; `eval`
and `source` call back into `interpret`. All of them steer through global
variables: a builtin sets `break_depth`, and every `execute()` on the way out
looks at it. `fork` copies all of that, C stack included, into the child.

What is hard here:

* *Jumps through globals.* `break`, `continue`, `return` and a SIGINT only set a
  variable. Nothing unwinds: each construct between the command and its loop
  has to notice. A request nobody consumes makes `execute()` skip the rest of the
  script.
* *Bookkeeping across early returns.* `loop_depth` and `stack_depth` are
  incremented and decremented by hand around every return.
* *Children that share a stack.* A forked child that returns instead of exiting
  runs the rest of its parent's script.
* *The no-fork optimisation.* `FLAG_NO_FORK` lets the last command of a child
  replace it by a program. Passed one construct too far it loses commands.
* *Waiting.* For which pid, when a fork failed, when another wait already had it,
  when a pipe is still held open by a grandchild.
* *Undoing redirections* after partial failure, in nested nodes, with stdio
  holding bytes that belong to the file from before.
* *Pointers that are saved instead of what they point to.* A call saves `_argv`,
  and `set` writes to the one array that it may point to; a definition gives its
  body to the table, and the table frees it, while trees may still refer to it.
* *Vectors with the swap with last trick*, where an entry's place changes.
* *Who is first*: parent or child in `setpgid`, the parent in `tcsetpgrp` or the
  child in `read`, an interrupt or the test for it.
* *Reading while somebody types.* A character of look-ahead may be on a line that
  is not there yet; what was put back, and the prompt, outlive an error.
* *Marks instead of quotes.* The lexer leaves control characters in a word, and
  three stages behind it have to agree on what they mean.
* *A screen that is redrawn in part*, next to a buffer that is shifted.
* *Matching by going back to the last star*, with five exits and one place that
  continues.

What makes each component correct:

* executor: a script does what its tree means; a request to leave ends exactly the
  constructs it names; both depth counters are the numbers of loops and calls in
  progress; a child stays in its own part of the stack.
* jobs: everyone waits for their own children, each status reaches its waiter once,
  and everything ends; a job is one process group, the terminal goes to it and comes
  back, and an interrupt ends the line.
* redirections: after a command the descriptor table is what it was, and output
  goes to the file it was printed for.
* variables, functions, parameters: names are independent, calls are scopes, a
  program sees what is exported and given to it, and no freed body is run.
* globbing: what is matched, removed or found is what the pattern denotes.
* lexer: the tokens are the text, with nothing lost between them, and a word means
  what is written; no line is asked for before it is needed.
* parser: a tree stands for the tokens of its line, no correct line is refused, and
  there is an end to every input.
* expansion: a word becomes the fields that the rules of the language give it.
* prompt: the screen shows the line, and what was typed is what is read.

The places where each can go wrong are the `hazards` of `PROJECT.json`, with the
properties that cover them.

## 2. The modules

| module | models | proved about in |
|---|---|---|
| `TashAst` | `node_t`, the trees | |
| `TashExec` | executor, control builtins, interpreter loop, waiting, command substitution | `TashExecProofs` |
| `TashSemantics` | what a script means: a reference, by recursion on the tree | |
| `MCExec` | scripts, and the comparison of `TashExec` with `TashSemantics` | |
| `TashJobs` | process groups, the terminal, SIGINT | `TashJobsProofs` |
| `MCJobs` | what somebody types | |
| `TashRedirs` | `apply_redirs` to `restore_fds`, on the descriptor table | `TashRedirsProofs` |
| `RedirScopes` | what redirections promise: scopes | `TashRedirsProofs` |
| `MCRedirs` | tables and lists of redirections | |
| `TashState` | variables, functions table, parameters | `TashStateProofs` |
| `ShellState` | what a shell promises of them: names are independent, calls are scopes | `TashStateProofs` |
| `MCState` | two names, and menus of commands | |
| `TashParser` | the parser, and `interpret()` with its end of input and errors | `TashParserProofs`, `TashParserTreeProofs` |
| `ShellGrammar` | which tokens a tree stands for: a reference | `TashParserProofs` |
| `MCParser` | alphabets of tokens, and correct scripts | |
| `TashLexer` | `next_token`, `get_word_helper` | `TashInputProofs` |
| `TashPrompt` | the line editor and `prompt_getc` | `TashInputProofs` |
| `LineEditor` | what who types may rely on: a line with a position, sent and read in order | `TashInputProofs` |
| `TashInput` | the two together: the lexer stands still while a line is typed | `TashInputProofs` |
| `ShellWords` | words, as they are written and as the lexer has to leave them | |
| `MCInput` | texts, words, and keys | |
| `TashExpand` | word expansion | |
| `ShellExpansion` | what words expand to: a reference | |
| `TashGlob` | `glob_match`, prefix and suffix removal, the walk through directories | `TashGlobProofs` |
| `GlobCalls` | calls of these, and what each should give | `TashGlobProofs` |
| `Patterns` | what patterns mean: a reference, by recursion on the pattern | `TashGlobProofs` |
| `MCGlob`, `MCWords` | short patterns, strings and trees; lists of words | |

### TashExec

Every process has a stack of *frames*, `frames[p]`, the innermost first. A frame
is a C call in progress and the point it continues from: `exec` is the entry of
`execute(node, flags)`, `condition` and `body` are the two points of a `while`
at which a recursive `execute` returns, `wait` is the loop of `job_wait`, and so
on. A step takes the innermost frame of one process and replaces it. That gives
one action per `case` of `execute()`, one per return point, and one per builtin,
with the guards in the order of the code: `Skip` and `RedirsFail` are the checks at
the head of `execute()`, `Leaves`, `Restarts` and `Consume` are `BREAK_CHECK`,
`CONTINUE_CHECK` and `VARIOUS_BREAK_CHECK`. `BuiltinEnds` is the way back into
`execute_cmd`: a builtin that ends with a negative status, as `return -1` does, and an `eval` or `source`
of it where no fork succeeds any more, was none to it: the name is looked for among
functions and programs.

`glob[p]` are the globals of the process; `proc[p]` is the kernel's entry for it.
`Fork` copies frames and globals, exactly as `fork` does, and puts the child's
code on top; `base` remembers how many of the frames are the parent's, for the
property that a child never gets down to them. Fork fails when no pid is free.
`out` is the substitution's pipe that the process writes to: `read` sees the end of
file when no running process has it.

Strings are abstracted to what execution tells apart (see the head of
`TashAst`): which builtin, the shape of its argument, whether a word expands,
how a program ends. `ran` is history: each command that ran, with the `$?` it saw.

`TashSemantics` knows nothing of all this. A jump is a value that a command
returns, a subshell is an evaluation whose environment is thrown away, a
pipeline is its stages from left to right. `MCExec` runs both on the same script
and compares the final status and the history.

### TashRedirs

The state is the descriptor table with close-on-exec flags, a stack of executions
with their `saved_fd_t` vectors, and the files the bytes in stdio's buffer were
meant for. One step is one turn of the loop of `apply_redirs` or `restore_fds`,
so a failure may come after any of them. Bodies print, and run further nodes.
`RedirScopes` is the abstract view: entering a command opens a scope whose table
may be anything, leaving it gives back the table from before. The refinement maps
`env` to the current table while a body runs, and to the table an execution
started with while it is applying or restoring: neither is visible to a script.

### TashState

The vectors are sequences of entries, with the operations of `var.c` and `func.c` on
them: `IndexOf` is the search, `Without` the swap with last trick. A command is
taken from a menu, in any order; the ones that name several things (`x=1 y=2`,
`unset -f a b`) leave their turns in `todo`, one step each. A program in front of
which variables are assigned forks: `child` keeps the shell's vector while the
child's is changed, and `StartsProgram` hands the child's to `putenv` and puts the
shell's back.

`_argv` is a pointer, `[array, at]`, and `arrays` is what it may point to: the
arguments of `main`, the words of the call at each depth, and the static array of
`set`. `calls` are the saved pointers. `stolen` and `freed` follow the bodies of
definitions: the node of a definition loses its body to the table, and
`register_func` frees the one it replaces.

`ShellState` has none of this. Variables are a map, a call opens a scope with its
own sequence of parameters, a program gets the exported variables and the
assignments in front of it. The refinement maps a vector to the map it represents
and each saved pointer to the words it leads to now, so that a pointer that leads
to something else after the call is a step the abstract shell cannot take. Nor is
there any choice in what the operands of `set` leave (`OperandsFrom`, up to the
`MaxArgs - 1` that the array has room for), in how far `shift` shifts, or in which body a
definition registers: `stolen` has the definitions whose body is gone, after which the
code registers an empty one.

### TashGlob

A `Place` of `glob_match` is what its four pointers are, and `Turn` is what one turn of
its loop leads to; `Scan` is the loop. The removals are the four loops of
`remove_prefix_suffix`, with the bounds of each; `FoundIn` is one call of
`glob_file_recur`. In `GlobCalls` an action is one call of one of these, with its result.
`Patterns` says what a pattern denotes without saying how it is found: a star by any
length it may have. Both are recursive functions and not recursive operators, so
that they can be proved equal.

### TashJobs

The shell, its children and the terminal, for an interactive shell. A step is one
system call of one process, or one test of `sigint_break`: `Fork`, `ParentSetpgid`
and `TakeTerminal` are the three calls of `job_fork_async` in the parent,
`ChildSetpgid` and `ChildSignals` those in the child, `Wait` and `ReturnTerminal`
are `job_wait`, `WaitAny` is `wait` without operands. `CtrlC` sends SIGINT to the
group that has the terminal, `Kill` to the shell, between any two of them:
`Delivered` is what each process does with it, a handler before `job_control_setup`
in the child has reset it, death behind that, and a `waitpid` that returns early.
A list in the background is the one child that `execute_async` forks: as it has no job
control any more, what it forks in turn stays in its group, and neither the shell
nor the terminal has to do with it.
A line is what `parse_line` returns, so `list` are the commands of one tree; what
they do otherwise is `TashExec`'s. The histories `struck`, `early` and `eintr` say
what has happened, for the properties; no action reads them.

### TashParser

The C stack of the recursive descent is the variable `stack`: a frame per function
that is running, with its locals, and with the point at which it goes on. A step
takes one token, or looks at it and puts it back: a function that ends on a token
leaves it to its caller, which looks at it again. Tokens are their
kinds, in the classes the parser distinguishes (`assign` is a word with `=`, `path`
one that cannot name a function); a tree has positions of tokens in place of
strings. `Unexpected` is every call of the error function: all frames go, as every
caller frees what it has and returns NULL. `read` is all that the lexer has made,
`putback` the one slot of `unget_token`. What the input may be is a set of kinds
for each position, so that a token is chosen when it is read.

`ShellGrammar` takes the same tree and says which positions it can end at, from where its
children can; it neither looks ahead nor has states. `Derived` gives that for a whole tree,
level by level from as far down as a line of that many tokens can reach: there is no set of all
trees to define a recursive function on, and a recursive operator cannot be proved about.
`Shaped` says what may be a child of what, which is the precedence of the operators.

### TashLexer, TashPrompt, TashInput

`TashLexer` is `next_token` and `get_word_helper` on characters. A frame is a call
of `get_word_helper` (a word, or inside it `$( )`, `${ }` or backticks), with its
delimiter, its quote and the depth of substitution; `hold` is the character it
has read and not used, `unget` the one put back. A step reads one character at most.
`ShellWords` builds words from pieces and gives two spellings of each: as one writes
it, and as the lexer has to leave it, with a mark in front of each quoted
character that a later stage might take for something else.

`TashPrompt` has the buffer, the cursor and what is on the screen, with a key per
step. `LineEditor` has a sequence and a position. The refinement maps the buffer up
to `prompt_len` to the line, and what `prompt_getc` has handed out, with the rest of
the buffer behind it, to what was sent.

`TashInput` joins them: when the lexer needs a character that is not there, the
interactive shell is in `prompt_getc`, and in `do_prompt` when the line is used up.

### TashExpand

`first_expansion` from left to right on characters and marks, one step per piece of
the word; a `${ }` with a word behind its operator is a call inside the call, and
returns to its operator. `Read` is one `read()` of a substitution's pipe, of any
length, with the newlines at its end counted as in the code. Behind the expansion
come `Split` and the search for files, with the operators of `TashGlob`. A
variable whose value was freed, or a null pointer that is measured, makes the state
`undefined`.

`ShellExpansion` works on pieces, not on characters, and keeps with each character
whether it was quoted. Where tash is known to differ it says `open` (section 3).

## 3. What is checked

TLC, two workers, from seconds to two minutes per run.

| run | what it shows |
|---|---|
| `scripts` | `SameMeaning`, `RequestsWithinLoops`, `DepthsMatchStack`, `ChildStaysInChild`, `NoForkOnlyInTail`: two nested loops of every kind, with every jump under every construct in the inner one, and in the condition of a `while`; functions, sourced files and `set -e` left in every way; programs killed by SIGINT, with and without a terminal; and twenty arrangements of subshells, pipelines, background lists and substitutions around seven endings, with all interleavings |
| `limits` | the same arrangements, and every failing command in every kind of process, with two pids left, so that forks fail: `TypeOK`, `WaitsForOwnChildren`, `LifeCycle`, `Termination` |
| `jobs` | seven sessions with two interrupts at any step: `OwnGroups`, `TerminalGoesRound`, `InterruptEndsTheLine`, and `GetsBack`, that the shell gets through what is typed but for two races |
| `redirs` | two nested nodes with up to two redirections each, with room for every copy and with room for one: `TypeOK`, `Restored`, `EveryNodeRestorable`, `OutputReachesItsFile`, and `ScopesSpec`, the refinement |
| `state` | any sequence of commands from one of three menus, one for variables, one for functions that call and redefine each other, one for parameters: `TypeOK`, `OneEntryPerName`, `BodiesOwned`, `ParametersReadable`, `FreedOnlyWhenRedefined`, and `KeepsPromises`, the refinement |
| `syntax` | every line of five or six tokens from small alphabets and some six hundred scripts: `TypeOK`; a tree stands for the tokens of its line (`TreeOfItsTokens`), a correct line is accepted (`AcceptsTheGrammar`), who types in the middle of a command gets the second prompt (`AsksForTheRest`), and every input comes to an end (`Finishes`) |
| `input` | some fifteen hundred texts, and anything typed with six keys: the tokens and the gaps between them are the text (`TilesTheText`), words come out marked as they should (`WordsKeepTheirMeaning`), no line is asked for too early (`AsksForALineWhenNeeded`), the screen is right (`ShowsTheLine`), `EditsLines` is the refinement of `LineEditor`, and the lexer gets through (`GetsThrough`) |
| `words` | some four hundred lists of words on awkward values, with every operator and each option on and off: `ExpandsAsWritten`, `AssignsAsWritten`; and every pattern of up to four elements on every string of up to four characters, every removal, every tree of two levels and three names: `MatchesWhatItDenotes`, `RemovesTheRightPart`, `FindsWhatIsSelected` |

Bounds. *Two nested loops* are enough to tell a jump's level from the number of
loops (`break 2` against `break 9`); a third would repeat the inner one. *Loops
run at most twice*, by two words or two arguments to `shift`: the second turn is
what a wrong `continue` loses or repeats. *Pids*: thirteen in `scripts`, so that no
fork fails, and three in `limits`, where they should. *Jobs*: three children are a
pipeline and another job, or two in the background and one in front; two interrupts
are one that kills and one that comes while the first is dealt with. *Two
levels of redirections*, since an execution only touches the one around it through
the table it leaves. *Descriptors* 0 to 4 and two to four above 10: the tty, the
script, and one that is free; in one starting table there is room for a single copy,
fewer than a list has redirections. *Two names* are enough for one to be the last
entry and the other not, which is where the swap with last trick differs. *Calls nest
twice*, so that a saved pointer has one saved above it. *The array of `set`* has
room for three words and the null pointer, and a `set` with five words is in the menu.
*Lines* of five free tokens, behind a prefix that gets into `if`, `case`, `for` or
`while`, have every token in the place of every other; longer nesting is in the
scripts. *Texts* have three or four free characters behind what opens a quote or a
substitution: the longest look-ahead of the lexer is two. *Six keys* put the cursor into the
middle of a line, change it there and enter it; the prompt's buffer has five places,
and keys that would need more are left out. *Patterns* of four elements have two stars
with something between and behind them. *Words* have one or two pieces, each of
which may have a word with pieces inside.

Fairness. `Spec` of `TashExec` has weak fairness of every process's steps: the
kernel's scheduler runs each process that can run. Nothing is assumed of choices
within a step. `Termination` (every script with bounded loops ends, with every
process it started) uses it. `JobsSpec` has the same for the shell and each
child; interrupts need not come, and a program ends unless it is stopped. The parser
and the lexer are one sequential program: `Spec` and `InputSpec` say that tash goes
on reading where it can. Nobody has to press a key: `GetsThrough` counts waiting
for a key as having got through. The other modules need none: their properties
are all about safety. The runs without the deadlock check are those whose behaviours
end: a parser at the end of the input, a shell that nobody types to, an expansion
that has its result.

Mutants. Next to the definitions stand variants with a plausible slip (a
comment `mutant:` says which). Each property is violated when one of them
replaces its definition.

### Where the code disagrees with its documentation

Four runs end in a counterexample.

* `until_break`: `break` in the condition of `until`. The condition's status 0 ends
  the loop before `BREAK_CHECK` sees the request, and the rest of the script is
  skipped (`execute.c:520`). `while ! break` does the same.
* `redirected_twice`: `cmd >a >b` leaves the shell's own output on `a`
  (`execute.c:127`).
* `set_twice`: `set -- a b`, then a function or a sourced script that runs
  `set -- c`: the caller gets its count and its pointer back, and finds `c` and a
  null pointer there (`builtin.c:68`).
* `discards_next_line`: when the token that is wrong is the newline itself, as in
  `echo >`, the next line is thrown away with the bad one (`lexer.c:444`).

More that was met while modelling is in the models as the code has it. The passing
runs leave these cases out, or name them as exceptions, and only these:

* executor: `break 5x` is refused with a message, and obeyed (`builtin.c:249`);
  `( no-such-program )` succeeds, as the failed `execvp` leaves the status alone
  (`execute.c:313`); for `x=${y?} program` the child returns into the rest of the
  script (`execute.c:307`).
* jobs: the terminal is given away by the parent alone, so a child that reads first
  is stopped and never continued (`jobs.c:114`); `waitpid` interrupted by a signal is
  not repeated, so the terminal is taken from a job that still runs (`jobs.c:133`);
  `eval` begins by forgetting an interrupt (`parser.c:1070`); SIGTSTP keeps its default
  action in an interactive shell (`jobs.c:58`), which the suspend key stops. At top level `a; b` is two trees, each its own
  line for SIGINT: an interrupt of `a` does not keep `b` from running, and in `{ a; b; }` it does.
* parser: a first word with a quote that is not closed is a null token whose type is
  looked at (`parser.c:897`); a list after a `)`, as in `(echo a) echo b`, is taken
  for another line; `$( (echo a) b)` loses `b` (`parser.c:1121`); `! ! true`, a newline in
  front of `!`, and two newlines or `;` and a newline in front of the `do` of a `for`
  are refused; the end of a backtick is looked for in freed memory (`expand.c:404`).
* lexer: a comment on a last line without a newline is read for ever
  (`lexer.c:296`), and so is the end of the input by `discard_line`
  (`lexer.c:444`); a quoted `}` ends `${ }`; `$( )` counts parentheses alone, so a
  `case` in it is cut short; only one digit makes a descriptor (`lexer.c:320`).
* prompt: completing in the middle of a line does not draw the rest of it again;
  the size of the buffer is not checked (`prompt.c:29`); Ctrl-C at the prompt inserts
  the character 0xFF (`prompt.c:412`).
* expansion (`open` in `ShellExpansion`): the word inside `"${x:-a *}"` is split
  unless it is quoted itself; `${x#w}` of an unset variable, a value that `:=` replaces
  while its own word is expanded, and `${x:}` use memory that is not theirs;
  `${1=w}`, `${#x}` of an unset variable; `"$@"` with no or with empty parameters;
  `${x+w}` of an unset variable with `set -u`; assignments glob; `$x""` loses its
  empty field; newlines at the end of an output stay when reads cut it among them
  (`expand.c:66`).
* builtins: `set +e` makes `+e` the first parameter (`builtin.c:18`); a definition that is
  executed twice registers an empty function (`execute.c:559`), and one that
  defines itself again frees its running body (`func.c:22`).

Scripts that use `set` both in a call and around it are left out by `SetOnceSpec`.
Lists of redirections that are not `Orderly` are in the run `redirs`, whose properties
promise nothing from then on. Of the components of a path two kinds are not in `words`
(`IsComponent`): with a wildcard behind an escaped leading dot, which the walk takes for
patterns without a leading dot (`globing.c:115`), and with the byte of the escape quoted itself,
where `glob_file_recur` and `glob_match` disagree on what the second of the two
stands in front of (`globing.c:71`).

## 4. What is proved

**`TashExecProofs`**, for any sets of nodes, scripts, pids and terminals, from the
assumptions of `TashExec`: the nodes are trees, the shell has a pid.

* `TypeCorrect`: `Spec => []TypeOK`. The types of the frames do not carry
  themselves: the step that continues a `while` reads the condition of the frame's
  node, and a frame whose node is a command has none. The inductive invariant,
  `Fitting`, says of each frame that its node has one of the types its return point
  expects (`Fit`), which is why each case of `execute()` may read the fields it reads.
  The proof has one lemma for what a step may do to one process's frames, one for
  `fork`, and one per action.
* `LivesOnce`: `Spec => LifeCycle`: a pid goes from free to running to zombie to
  reaped, and a zombie keeps its status until its parent has it. It is an action
  property and follows from `Fitting`.

The second half of the module has the invariants of the stack. Twenty-odd actions
times four invariants would be unreadable; instead one lemma per action says which of
few *shapes* it has (`Shaped`): the process that steps replaces its innermost frame
(`Goes`), becomes a program (`Becomes`) or ends; every other one stays as it is
(`Stays`), is forked by it (`Born`) or is reaped. The invariants are then
preserved shape by shape.

* `DepthsCount`: `Spec => []DepthsMatchStack`. `Deep` says it with cardinalities
  (`Number`), and lemmas say what a push, a pop and a change of the top frame do to
  them. A fork copies the counters with the frames they count.
* `WaitsForOwn`: `Spec => []WaitsForOwnChildren`. It is not inductive: it needs
  that only the innermost frame waits and that its list has no pid twice (`Waits`), or
  reaping one would leave another entry of it behind.
* `ChildStays`: `Spec => []ChildStaysInChild`, if the assignments in front of commands
  expand (`Assigns`): without it the theorem is false, by `execute.c:307`. The last of a
  child's own frames is the one that exits, is the program, or is the child of
  `job_single` (`Inside`), and nothing but its last step takes it away.
* `NoForkInTail`: `Spec => []NoForkOnlyInTail`, with the same hypothesis. The
  property speaks of calls; the invariant (`InTail`) speaks of every frame that will
  pass the flag on, the `if`, `for` and `;` that have yet to make their last call included.
* `RequestsConsumed`: `Spec /\ []Refused /\ []Heeded => []RequestsWithinLoops`: a
  request to leave never asks for more levels than there are loops around it. The two
  hypotheses are predicates on states, and each leaves out one of the cases of section
  3 in which the code breaks the property: `Refused` is about the argument that `break
  5x` has stored when it refuses it (`builtin.c:249`, `273`), `Heeded` about a `while`
  or `until` whose condition asks to leave and ends the loop by its status as well
  (`execute.c:520`). Both hold in every state of the run `scripts`. The invariant,
  `Requests`, adds that `break` and `continue` are never both pending (`Levels`), and
  needs to know why a pending request is not seen by a `break` in an expansion: a
  command is only expanded when nothing is pending, and above its frame are only those
  of the substitution's pipe (`Commands`). What a child inherits is in the shape
  `Born`.
* `RequestsOfQuietConditions`: `Spec => []RequestsWithinLoops`, with hypotheses on the
  trees alone. `QuietConditions`: the condition of every `while` and `until` is
  *silent*, that is, neither it nor anything it reads with `eval` or `source`,
  substitutes or calls has a `break` or a `continue`. `Silent` is the largest set of
  nodes closed under all of these, so that a recursive function is silent if nothing
  in it asks. `SmallArguments`: no argument that `break` or `continue` refuses is
  larger than 1. The invariant, `CalmInv`, is that above a frame that waits for a
  condition every frame is of a silent tree and has only silent lines left to read,
  that nothing is pending there, and that the functions table only has bodies from the
  scripts; it gives `Heeded`, and `Deep` gives `Refused`, for `RequestsConsumed`. Every
  script of the run `scripts` but those with a jump in a condition (`ConditionScripts`)
  satisfies both hypotheses, and the others are why `RequestsConsumed` is the more general.

**`TashJobsProofs`**, for any number of processes, any scripts and any number of
interrupts. The invariant `JobsInv` has seven parts, each for the next.

* `TypeCorrect`: `JobsSpec => []TypeOK`; `PidInv` has that no process exists before its
  pid is given away.
* `GroupsOwn`: `JobsSpec => []OwnGroups`, from `GroupInv`: the copy of `group->pid` that
  a child has leads to the same group as the parent's variable, whoever calls `setpgid` first.
* `TerminalRound`: `JobsSpec => []TerminalGoesRound`. `JobInv` keeps the groups of the
  background and of the job in front apart, `TtyInv` says to whom the terminal is lent,
  `WaitedInv` that every living child of a job is in `job_wait`'s list.
* `InterruptEnds`: `JobsSpec => InterruptEndsTheLine`. An interrupt has reached the
  shell, or there is a zombie of the job, killed by it, that the shell will wait for
  before it starts another command (`StruckInv`).

**`TashRedirsProofs`**, for any descriptors, files, lists of redirections, starting
tables and depth of nesting, from the assumptions that `TashRedirs` names: scripts
redirect descriptors below 10, 1 among them, copies are made from 10 up, and the
lists and tables are of their types.

* `TypeCorrect`: `Spec => []TypeOK`. With it, that a saved copy is always a
  descriptor no script can name.
* `Nested`: `Spec => []EveryNodeRestorable`. This is the inductive invariant.
  `Restored` speaks only of the moment when a node has finished putting back; it
  says nothing about the steps before. What holds at every step is that the vector
  describes exactly the difference between the table now and the table the
  execution started with: each entry not yet taken holds the only copy of its
  descriptor, the entries do not overlap, and no other descriptor has changed
  (`Restorable`). For an execution further down the stack, "the table now" is the
  one the execution above it started with (`Under`), which is what makes nesting
  work. The redirections not yet applied must be of descriptors that are still
  untouched (`Untouched`), or a second copy would be made of a changed descriptor:
  exactly what goes wrong in `redirected_twice`.
* `PutsEverythingBack`: `Spec => []Restored`, from the above: with no entry left,
  nothing differs.
* `OutputArrives`: `Spec => []OutputReachesItsFile`: what the shell prints gets into
  the file its output was at that moment, in spite of stdio's buffer. The invariant
  (`BufferBelongs`) says of the bytes still in the buffer that they are for the file
  descriptor 1 leads to now; that no step may move the descriptor under them is why
  the code flushes before it applies and before it restores.
* `ImplementsScopes`: `Spec => ScopesSpec`. As long as the lists are orderly, each
  step of the redirections is a step of the scopes or changes nothing that a script
  sees.

**`TashStateProofs`**, for any names, values, bodies, menus of commands, starting
vectors and depth of nesting, and any length of the array of `set`. The invariant
`Inv` has a part for each kind of state.

* `TypeCorrect`: `Spec => []TypeOK`; among the rest, `_argc` is never negative.
* `OneEach`: `Spec => []OneEntryPerName`, from lemmas about what a search finds
  (`IndexFound`), and what appending, replacing and the swap with last trick
  leave (`AppendDistinct`, `ReplaceDistinct`, `WithoutDistinct`).
* `Owns`: `Spec => []BodiesOwned`. It is not inductive: it needs that every body in
  the table, and every freed one, was stolen from its definition, so that the body
  a definition gives away is in neither place (`FuncInv`).
* `FreedByRedefinition`: `Spec => FreedOnlyWhenRedefined`, an action property: a step that
  frees a body a call is still running is a definition of that call's name. It needs that an
  entry that still holds the body of a call has the name the call was made by (`CallInv`).
* `ParametersStayReadable`: `SetOnceSpec => []ParametersReadable`. Each pointer has
  as many words as its count says and a null pointer behind them, and the pointer
  of a scope never leads to the words of a deeper call (`ReadInv`): so the words of
  the next call overwrite nothing. For the array of `set` that argument fails, and
  `StaticOnce` takes its place. That what `set` keeps always fits is `KeptFits`.
* `PromisesKept`: `SetOnceSpec => KeepsPromises`, the refinement of `ShellState`. That the map
  a vector stands for changes in one name only rests on `OneEntryPerName`; that a
  return gives back the words of before rests on `ReadInv`, as the words behind a saved
  pointer must not have changed in between. `ZeroInv` is the same for `$0`, and `ChildInv` says
  of a program's environment that the vector it is built from is still the shell's with the
  assignments in front of it. That `set` keeps neither fewer nor other words than the
  abstract one is `KeptOperands`, and for the number that is left out `NumberKept`.

**`TashInputProofs`**, for any size of the buffer, any names to complete, any number of
keys. All theorems are about `InputSpec`, so the lexer reads while the line is typed; those
on the prompt are proved of `PromptSpec` first, which `InputSpec` implies by its shape
(the lemma `PromptOfTheShell`, on how the two are joined and not on what they do).

* `ScreenShowsTheLine`: `InputSpec => []ShowsTheLine`. A key redraws a part of the
  line and moves the cursor back by what it wrote, so the proof is about what
  writing over a part of a sequence leaves of the rest. `LineInv` has that the cursor and
  what was read stay within the line, and the line within the buffer.
* `LinesAreEdited`: `InputSpec => EditsLines`, the refinement of `LineEditor`: insertion,
  deletion, the arrows, completion and reading are its operations; `do_prompt` with
  nothing left to read is a stutter.

Of the lexer there, for any text and any way of typing it:

* `LinesAreAskedForInTime`: `InputSpec => []AsksForALineWhenNeeded`: a line is asked for only
  when a token cannot be finished without it. `LexerInv` says for each place in the code
  what may be in `hold` and `unget` there and which character it was.
* `TokensTileTheText`: `InputSpec => []TilesTheText`: nothing is lost, read twice or made up
  between the characters and the tokens. The tokens already made stay right whatever is
  read next; for the one being made, `TInv` says, for each stage (blanks, a comment, the
  second character of an operator, a word), which part of the text it has used.

**`TashParserProofs`**, for any input.

* `TypeCorrect`: `Spec => []TypeOK`. The property speaks of the frame that is running,
  which has all the trees it goes on to use. It is not inductive, as a frame that waits has
  one tree fewer than it will have when its callee returns: that is `StackInv`.
* `RestAskedFor`: `Spec => []AsksForTheRest`: who has entered a line and is still in
  the middle of a command gets the second prompt. The invariant (`PromptInv`) has the places
  in which the first one is still right: before a command has begun, or behind a `!`.

The rest of the module is about `ShellGrammar`: of each kind of tree, what it stands for
once its children are known (`SepStands`, `IfStands`, `CaseStands`, `SimpleStands` and so on),
and that it still does when more tokens follow (`BareGrows`).

**`TashParserTreeProofs`**, for any input, of any length and nesting.

* `TreeOfTokens`: `Spec => []TreeOfItsTokens`: the tree that the parser returns is one that the
  grammar gives to just the tokens of the line. A tree stands for the tokens from `i` to `j`
  (`Bare`) if there is a set of parts with places, it among them, in which each part ends where
  the grammar lets it end, from where its own parts do; that needs no recursion, and what is
  in it holds of `Derived` too (`DerivedKnows`). The invariant is about the stack:
  `Runs` has a position for each function at which it started to read. Of a function that waits,
  `Awaits` says, label by label, how its trees, words and redirections account for the
  tokens up to where the next one started; of the one that runs, `HasRead` and `Resumed` say the
  same up to the token in hand. `Role` and `Needs` have which function may be called where, and
  `Gives` what it owes when it returns: as `Gives` of the callee is what `Awaits` of the caller
  lacks, a return needs nothing of the frames in between. One lemma for each action of `Next`
  shows that its step keeps this (`IfThenTree`, `CasePatternsTree`, ...); when the last function
  returns, `Gives` is the theorem (`TokensOfTheTree`).

**`TashGlobProofs`**, for any patterns, strings, values and trees, of any length. What is
assumed of the constants (`CallsAssumption`) is that the marks are not wildcards, that each
path of a tree is in a directory of the tree, and of the components of a path what section
3 leaves out.

* `GlobMatches`: `GlobSpec => []MatchesWhatItDenotes`. `glob_match` forgets every star but the
  last, and the theorem says that nothing is lost by it. The invariant of the loop (`Kept`)
  says that the pattern denotes the string exactly if the last star and the rest of the
  pattern denote what is left from where that star was last tried; and, which is why the
  earlier stars can be forgotten (`Follows`), that wherever the pattern behind the last star
  would fit further on, what is left of it would fit as much further on. That every turn
  leads further, by the last star, then by what it was tried on, then by the place in the
  pattern, makes the loop end, so that the place furthest on with a wrong result
  would lead to another one (`MatchIsDenotation`).
* `RemovalIsRight`: `GlobSpec => []RemovesTheRightPart`. With the above, what is left are
  the bounds of the loops: the two that look for the largest part never try the
  empty one, which is the same as removing nothing.
* `FilesAreFound`: `GlobSpec => []FindsWhatIsSelected`. The components without a wildcard
  denote one name each, the one that is appended unread (`LiteralIs`); the others are tried on what
  `readdir` returns, which are the names of the paths that lead on (`TriedIs`).

Recursive functions are chosen among the solutions of their equation, and a proof about one
begins by showing that there is a solution. For the loop and for the patterns that is the least
fixed point of the steps that lead to the end (`FixedPoint`), for the rest a solution that
can be written down. Induction is by the greatest counterexample, a fact about sets of numbers.

A finding about the models came of these proofs. TLA+ leaves open which arm a `CASE` takes
when two of its guards hold, and TLC takes the first; a few definitions had relied on
that. Their arms now exclude each other, so that what is proved and what is
checked are the same.

Model-checked only: liveness (`Termination`, `Finishes`, `GetsThrough`, `GetsBack`), which is
beyond the prover; what compares the code with a reference that is a recursive operator,
on trees and on words with words inside (`SameMeaning`, `WordsKeepTheirMeaning`,
`ExpandsAsWritten`, `AssignsAsWritten`); and `AcceptsTheGrammar`, which is about
the scripts of `MCParser`: that a tree is the right one is proved for all inputs, that
every correct line gets one is checked for these.

## 5. What is not modelled

* In `TashExec`, a redirection succeeds or fails and nothing else: `TashRedirs` has
  the rest. The two are not composed; `execute()` calls `apply_redirs` before and
  `restore_fds` after its `switch`, and that is where `Begin` and `EndBody` are.
* Likewise `TashExec` knows a function by its name and how many parameters are left,
  and `TashState` takes commands in any order from a menu, with no control flow: any
  script is one of its behaviours.
* In `TashExec` a program may die of SIGINT, which a terminal sends it; that tash
  itself gets SIGINT at any point, and process groups, are in `TashJobs`, which in turn
  has no statuses: the uninitialised one that `job_wait` reports after an interrupt
  only goes to `exit_status`. Other signals, and the builtin `kill`, are not modelled.
* Pids are not reused. A `wait` for a pid that has long been reaped is possible
  in the code and could meet a new process of the same number only after the
  kernel's numbers wrap around.
* `eval` and `source` lines in the scripts define no functions twice: that a
  definition executed again registers an empty body is in the model (`ExecFunc`,
  and `TashState`) and not in the reference.
* Of the flags of `set`, only `-e` has an effect, in `TashExec`; `TashState` has the
  flags as words that are not parameters.
* Where a path is cut at its slashes, and the order in which `readdir` returns names.
* `$$`, `$!`, `$?`, `$0` and `$3` to `$9` in `TashExpand`: each is fetched as `$1` is.
* Lines longer than the prompt's buffer, wide characters (not in the configured build),
  and how the screen wraps.
* `cd` and `pwd`; start-up and option parsing, which
  run once and in sequence; `mem.c`, `error.c`, `stub.c` and `vector.h`, which have no
  protocol of their own; allocation failure, which ends tash (`mem.c`).

## 6. Plan

Done: every component but start-up and the wrappers, each with its reference or
abstract specification, and the proofs of section 4. What is left:

1. `TashShell`: `TashExec` with the descriptors of `TashRedirs` and the table of
   `TashState`, so that a substitution in a redirection and a fork in a body are
   checked together; and `TashJobs` under `TashExec`, for a job inside a substitution.
2. `TashInput` with `TashParser`: characters to trees, where the token put back
   and the character put back meet.
3. Proofs: what `TashShell` adds, from the invariants of its parts.
