------------------------------ MODULE MCState ------------------------------
(***************************************************************************)
(* Instances of TashState: two names, and menus of commands, one for each  *)
(* of the things that commands interact through.                           *)
(***************************************************************************)
EXTENDS TashState

CONSTANTS x, y, empty, one, b1, b2, b3, u, v, w, file, tash, opt

T(do, n, val) == [do |-> do, name |-> n, value |-> val]
Do(type, turns) == [type |-> type, turns |-> turns]
Put(n, val) == T("put", n, val)
Pass(n, val) == T("putexport", n, val)
Only(do, n) == T(do, n, empty)

VarMenu ==
  {Do("assign", <<Put(x, one)>>), Do("assign", <<Put(y, empty), Put(x, empty)>>),
   Do("update", <<Only("export", x), Pass(y, one)>>),
   Do("update", <<Only("unsetvar", x)>>), Do("update", <<Only("unset", y)>>),
   Do("program", <<>>), Do("program", <<Pass(x, one), Pass(x, empty)>>),
   Do("program", <<Pass(y, empty)>>)}

Def(n, b) == [type |-> "define", name |-> n, body |-> b]
CallOf(n, ws) == [type |-> "call", name |-> n, words |-> ws]

FuncMenu ==
  {Def(x, b1), Def(x, b2), Def(y, b3), CallOf(x, <<>>), CallOf(y, <<u>>),
   Do("assign", <<Put(x, one)>>), Do("update", <<Only("unset", x), Only("unset", x)>>),
   Do("update", <<Only("unsetfunc", y), Only("unsetfunc", x)>>),
   Do("update", <<Only("unsetvar", x)>>)}

S(kind, word) == [kind |-> kind, word |-> word]
SetOf(ws) == [type |-> "set", words |-> ws]
Operands(ws) == [i \in DOMAIN ws |-> S("word", ws[i])]

ArgsMenu ==
  {Def(x, b1), CallOf(x, <<u, v>>), CallOf(x, <<>>),
   [type |-> "source", file |-> file, words |-> <<w>>],
   SetOf(<<>>), SetOf(<<S("end", opt)>>), SetOf(<<S("options", opt)>>),
   SetOf(<<S("options", opt), S("end", opt), S("options", opt), S("word", v)>>),
   SetOf(<<S("options", opt), S("invalid", opt), S("word", v)>>),
   SetOf(Operands(<<u, v>>)), SetOf(Operands(<<u, v, w>>)), SetOf(Operands(<<w, v, u, w, u>>)),
   [type |-> "shift", amount |-> 1], [type |-> "shift", amount |-> 2],
   [type |-> "shift", amount |-> -1]}

MCMenus == {VarMenu, FuncMenu, ArgsMenu}
MCArgsOnly == {ArgsMenu}
MCStarted == <<u, v, w>>
MCEnvironment ==
  {<<>>, <<[name |-> y, value |-> one, exported |-> TRUE],
           [name |-> x, value |-> empty, exported |-> TRUE]>>}
=============================================================================
