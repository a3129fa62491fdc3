------------------------------- MODULE MCGlob -------------------------------
(***************************************************************************)
(* Instances of TashGlob: every short pattern on every short string, and   *)
(* every tree of three names and two levels.                               *)
(***************************************************************************)
EXTENDS GlobCalls, SequencesExt

UpTo(n, chars) == BoundedSeq(chars, n)
\* patterns with quoted characters
QuotedPatterns == {FlattenSeq(parts) :
             parts \in UpTo(3, {<<"a">>, <<"*">>, <<"?">>, <<Esc, "*">>, <<Esc, "a">>, <<Esc, Esc>>})}

Matches ==
  [op : {"match"}, glob : UpTo(4, {"a", "b", "*", "?"}), str : UpTo(4, {"a", "b"})]
    \cup [op : {"match"}, glob : QuotedPatterns, str : UpTo(3, {"a", "*", Esc})]
Removals ==
  [op : {"prefix", "suffix"}, glob : UpTo(3, {"a", "*", "?"}), value : UpTo(4, {"a", "b"}),
   largest : BOOLEAN]

Names == {<<"a">>, <<"a", "b">>, <<Dot, "a">>}
\* a tree: some of the names, each with some of the names in it
Trees == {UNION {{<<name>>} \cup {<<name, inner>> : inner \in t[name]} : name \in DOMAIN t} :
            t \in UNION {[top -> SUBSET Names] : top \in SUBSET Names}}
Components == {<<"a">>, <<"*">>, <<"?", "b">>, <<Dot, "*">>, <<Esc, "*">>}
Searches == [op : {"files"}, tree : Trees, globs : UpTo(2, Components) \ {<<>>}]

MCCalls == Matches \cup Removals \cup Searches
MCCharacter == {"a", "b", "*", "?", Dot, Esc}
=============================================================================
