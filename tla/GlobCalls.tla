----------------------------- MODULE GlobCalls -----------------------------
(***************************************************************************)
(* Calls of the functions of TashGlob, and what they should give: each is  *)
(* one step, from a call to its result.                                    *)
(***************************************************************************)
EXTENDS TashGlob

CONSTANTS
  Character,
  Calls         \* of glob_match, of remove_prefix_suffix, or of glob_files

VARIABLES
  call,
  result        \* <<>> while it runs, then its result alone

globVars == <<call, result>>

Glob == Seq(Character)
FileName == Glob \ {<<>>, <<Dot>>, <<Dot, Dot>>}

\* The paths of a tree, each in a directory that is there.
IsTree(tree) ==
  /\ \A path \in tree : path # <<>> /\ \A i \in DOMAIN path : path[i] \in FileName
  /\ \A path \in tree : \A k \in 1..Len(path) : SubSeq(path, 1, k) \in tree

\* A component of a pattern has a character behind each mark, and that is neither
\* another mark nor, in front of a wildcard, a leading dot.
IsComponent(glob) ==
  /\ \A i \in DOMAIN glob : glob[i] = Esc => i < Len(glob) /\ glob[i + 1] # Esc
  /\ HasWildcard(glob) => glob[1] # Esc \/ glob[2] # Dot

MatchCall == [op : {"match"}, glob : Glob, str : Glob]
RemovalCall == [op : {"prefix", "suffix"}, glob : Glob, value : Glob, largest : BOOLEAN]
FilesCall == [op : {"files"}, tree : SUBSET Seq(Glob), globs : Seq(Glob)]

ASSUME CallsAssumption ==
  /\ Dot # Esc /\ {Dot, Esc} \cap {"*", "?"} = {}
  /\ Calls \subseteq MatchCall \cup RemovalCall \cup FilesCall
  /\ \A c \in Calls : c.op = "files" =>
       IsTree(c.tree) /\ \A i \in DOMAIN c.globs : IsComponent(c.globs[i])
-----------------------------------------------------------------------------
GlobInit == call \in Calls /\ result = <<>>

Gives(op, value) ==
  /\ result = <<>> /\ call.op = op
  /\ result' = <<value>>
  /\ UNCHANGED call

GlobNext ==
  \/ Gives("match", call.op = "match" /\ GlobMatch(call.glob, call.str))
  \/ Gives("prefix", RemovePrefix(call.value, call.glob, call.largest))
  \/ Gives("suffix", RemoveSuffix(call.value, call.glob, call.largest))
  \/ Gives("files", Words(call.tree, call.globs))

GlobSpec == GlobInit /\ [][GlobNext]_globVars
-----------------------------------------------------------------------------
Meaning == INSTANCE Patterns
Gave(op) == result # <<>> /\ call.op = op

\* glob_match, which only ever goes back to the last star, accepts exactly the strings
\* that the pattern denotes.
MatchesWhatItDenotes ==
  Gave("match") => result[1] = Meaning!Denotes(call.glob, call.str)

\* The four loops remove the shortest or the longest prefix or suffix that the pattern
\* denotes, and nothing if it denotes none.
RemovesTheRightPart ==
  /\ Gave("prefix") => result[1] = Meaning!WithoutPrefix(call.glob, call.value, call.largest)
  /\ Gave("suffix") => result[1] = Meaning!WithoutSuffix(call.glob, call.value, call.largest)

\* The walk through the directories finds exactly the paths each of whose names the
\* pattern of that component selects.
FindsWhatIsSelected ==
  Gave("files") =>
    LET selected == Meaning!Selected(call.globs, call.tree)
    IN selected # {} => result[1] = selected
=============================================================================
