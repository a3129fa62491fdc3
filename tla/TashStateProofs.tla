--------------------------- MODULE TashStateProofs ---------------------------
(***************************************************************************)
(* Proofs about TashState, for any names, values, bodies and menus of      *)
(* commands: its types, that the vectors have one entry per name, that the *)
(* table of functions owns the bodies in it and gives one up only to a     *)
(* definition of the same name, that saved pointers stay readable, and     *)
(* that TashState implements ShellState.                                   *)
(***************************************************************************)
EXTENDS TashState, WellFoundedInduction, TLAPS
-----------------------------------------------------------------------------
(***************************************************************************)
(* Vectors.                                                                *)
(***************************************************************************)
Distinct(t) == \A i, j \in DOMAIN t : t[i].name = t[j].name => i = j

\* In a vector without duplicates a search finds the entry, if there is one.
LEMMA IndexFound ==
  ASSUME NEW S, NEW t \in Seq(S), Distinct(t), NEW n, Has(t, n)
  PROVE  IndexOf(t, n) \in DOMAIN t /\ IndexOf(t, n) \in 1..Len(t) /\ t[IndexOf(t, n)].name = n
<1>1. PICK i \in DOMAIN t : t[i].name = n
  BY DEF Has
<1>2. \A j \in 1..(i - 1) : t[j].name # n
  <2> SUFFICES ASSUME NEW j \in 1..(i - 1), t[j].name = n PROVE FALSE
    OBVIOUS
  <2>1. DOMAIN t = 1..Len(t) /\ Len(t) \in Nat
    OBVIOUS
  <2>2. j \in DOMAIN t /\ j # i
    BY <1>1, <2>1
  <2> QED
    BY <1>1, <2>2 DEF Distinct
<1>3. \E k \in DOMAIN t : t[k].name = n /\ \A j \in 1..(k - 1) : t[j].name # n
  BY <1>1, <1>2
<1>4. DOMAIN t = 1..Len(t)
  OBVIOUS
<1> QED
  BY <1>3, <1>4 DEF IndexOf

\* An entry of a new name at the end.
LEMMA AppendDistinct ==
  ASSUME NEW S, NEW t \in Seq(S), NEW e \in S, Distinct(t), ~Has(t, e.name)
  PROVE  Append(t, e) \in Seq(S) /\ Distinct(Append(t, e))
<1> DEFINE a == Append(t, e)
<1>1. a \in Seq(S) /\ DOMAIN a = 1..(Len(t) + 1) /\ Len(t) \in Nat /\ DOMAIN t = 1..Len(t)
  OBVIOUS
<1>2. \A i \in DOMAIN a : IF i = Len(t) + 1 THEN a[i] = e ELSE i \in DOMAIN t /\ a[i] = t[i]
  BY <1>1
<1>3. \A i \in DOMAIN t : t[i].name # e.name
  BY DEF Has
<1> HIDE DEF a
<1>4. Distinct(a)
  BY <1>1, <1>2, <1>3 DEF Distinct
<1> QED
  BY <1>1, <1>4 DEF a

\* A change of an entry that keeps its name.
LEMMA ReplaceDistinct ==
  ASSUME NEW S, NEW t \in Seq(S), NEW k \in DOMAIN t, NEW e \in S, Distinct(t),
         e.name = t[k].name
  PROVE  [t EXCEPT ![k] = e] \in Seq(S) /\ Distinct([t EXCEPT ![k] = e])
<1> DEFINE a == [t EXCEPT ![k] = e]
<1>1. a \in Seq(S) /\ DOMAIN a = DOMAIN t
  OBVIOUS
<1>2. \A i \in DOMAIN a : a[i].name = t[i].name
  BY <1>1
<1> HIDE DEF a
<1>3. Distinct(a)
  BY <1>1, <1>2 DEF Distinct
<1> QED
  BY <1>1, <1>3 DEF a

\* What the swap with last trick leaves: the entries of the other names, once each.
LEMMA WithoutDistinct ==
  ASSUME NEW S, NEW t \in Seq(S), NEW n, Distinct(t)
  PROVE  /\ Without(t, n) \in Seq(S)
         /\ Distinct(Without(t, n))
         /\ ~Has(Without(t, n), n)
         /\ \A i, j \in DOMAIN Without(t, n) :
              \E k, l \in DOMAIN t : /\ Without(t, n)[i] = t[k] /\ Without(t, n)[j] = t[l]
                                     /\ k = l => i = j
<1> DEFINE a == Without(t, n)
           m == IndexOf(t, n)
           From(i) == IF i = m THEN Len(t) ELSE i
<1>1. CASE ~Has(t, n)
  BY <1>1 DEF Without
<1>2. CASE Has(t, n)
  <2>1. m \in 1..Len(t) /\ t[m].name = n /\ DOMAIN t = 1..Len(t) /\ Len(t) \in Nat
    BY <1>2, IndexFound
  <2>2. a = [i \in 1..(Len(t) - 1) |-> IF i = m THEN t[Len(t)] ELSE t[i]]
    BY <1>2 DEF Without
  <2>3. a \in Seq(S) /\ DOMAIN a = 1..(Len(t) - 1)
    <3>1. \A i \in 1..(Len(t) - 1) : (IF i = m THEN t[Len(t)] ELSE t[i]) \in S
      BY <2>1
    <3>2. Len(t) - 1 \in Nat
      BY <2>1
    <3> QED
      BY <2>2, <3>1, <3>2
  <2>4. \A i \in DOMAIN a : From(i) \in DOMAIN t /\ a[i] = t[From(i)] /\ From(i) # m
    BY <2>1, <2>2, <2>3
  <2>5. \A i, j \in DOMAIN a : From(i) = From(j) => i = j
    BY <2>1, <2>3
  <2> HIDE DEF a, From
  <2>6. Distinct(a)
    BY <2>4, <2>5 DEF Distinct
  <2>7. ~Has(a, n)
    BY <2>1, <2>4 DEF Has, Distinct
  <2>8. \A i, j \in DOMAIN a :
          \E k, l \in DOMAIN t : a[i] = t[k] /\ a[j] = t[l] /\ (k = l => i = j)
    BY <2>4, <2>5
  <2> QED
    BY <2>3, <2>6, <2>7, <2>8 DEF a
<1> QED
  BY <1>1, <1>2

\* putvar keeps a vector of variables one.
LEMMA PutDistinct ==
  ASSUME NEW t \in Seq(Var), NEW n \in Name, NEW v \in Value, Distinct(t)
  PROVE  PutVar(t, n, v) \in Seq(Var) /\ Distinct(PutVar(t, n, v))
<1>1. CASE Has(t, n)
  <2> DEFINE k == IndexOf(t, n)
             e == [t[k] EXCEPT !.value = v]
  <2>1. k \in DOMAIN t
    BY <1>1, IndexFound
  <2>2. t[k] \in Var
    BY <2>1
  <2>3. e \in Var /\ e.name = t[k].name
    BY <2>2 DEF Var
  <2>4. PutVar(t, n, v) = [t EXCEPT ![k] = e]
    BY <1>1 DEF PutVar
  <2> HIDE DEF k, e
  <2>5. [t EXCEPT ![k] = e] \in Seq(Var) /\ Distinct([t EXCEPT ![k] = e])
    BY <2>1, <2>3, ReplaceDistinct, Zenon
  <2> QED
    BY <2>4, <2>5, Zenon
<1>2. CASE ~Has(t, n)
  <2> DEFINE e == [name |-> n, value |-> v, exported |-> FALSE]
  <2>1. e \in Var /\ e.name = n
    BY DEF Var
  <2>2. PutVar(t, n, v) = Append(t, e)
    BY <1>2 DEF PutVar
  <2> HIDE DEF e
  <2> QED
    BY <1>2, <2>1, <2>2, AppendDistinct
<1> QED
  BY <1>1, <1>2

\* export_var keeps a vector of variables one.
LEMMA ExportDistinct ==
  ASSUME NEW t \in Seq(Var), NEW n \in Name, Distinct(t)
  PROVE  ExportVar(t, n) \in Seq(Var) /\ Distinct(ExportVar(t, n))
<1>1. CASE Has(t, n)
  <2> DEFINE k == IndexOf(t, n)
             e == [t[k] EXCEPT !.exported = TRUE]
  <2>1. k \in DOMAIN t
    BY <1>1, IndexFound
  <2>2. t[k] \in Var
    BY <2>1
  <2>3. e \in Var /\ e.name = t[k].name
    BY <2>2 DEF Var
  <2>4. ExportVar(t, n) = [t EXCEPT ![k] = e]
    BY <1>1 DEF ExportVar
  <2> HIDE DEF k, e
  <2>5. [t EXCEPT ![k] = e] \in Seq(Var) /\ Distinct([t EXCEPT ![k] = e])
    BY <2>1, <2>3, ReplaceDistinct, Zenon
  <2> QED
    BY <2>4, <2>5, Zenon
<1>2. CASE ~Has(t, n)
  <2> DEFINE e == [name |-> n, value |-> Empty, exported |-> TRUE]
  <2>1. e \in Var /\ e.name = n
    BY NilAssumption DEF Var
  <2>2. ExportVar(t, n) = Append(t, e)
    BY <1>2 DEF ExportVar
  <2> HIDE DEF e
  <2> QED
    BY <1>2, <2>1, <2>2, AppendDistinct
<1> QED
  BY <1>1, <1>2

\* A turn keeps a vector of variables one.
LEMMA ChangedDistinct ==
  ASSUME NEW t \in Seq(Var), NEW turn \in Turns, Distinct(t)
  PROVE  ChangedVars(t, turn) \in Seq(Var) /\ Distinct(ChangedVars(t, turn))
<1>1. turn.name \in Name /\ turn.value \in Value
  BY DEF Turns
<1>2. CASE turn.do = "put"
  BY <1>1, <1>2, PutDistinct DEF ChangedVars
<1>3. CASE turn.do = "export"
  BY <1>1, <1>3, ExportDistinct DEF ChangedVars
<1>4. CASE turn.do = "putexport"
  <2>1. PutVar(t, turn.name, turn.value) \in Seq(Var)
        /\ Distinct(PutVar(t, turn.name, turn.value))
    BY <1>1, PutDistinct
  <2>2. ChangedVars(t, turn) = ExportVar(PutVar(t, turn.name, turn.value), turn.name)
    BY <1>4 DEF ChangedVars
  <2> QED
    BY <1>1, <2>1, <2>2, ExportDistinct
<1>5. CASE turn.do \in {"unset", "unsetvar"}
  <2>1. ChangedVars(t, turn) = Without(t, turn.name)
    BY <1>5 DEF ChangedVars
  <2> QED
    BY <2>1, WithoutDistinct
<1>6. CASE turn.do = "unsetfunc"
  BY <1>6 DEF ChangedVars
<1> QED
  BY <1>2, <1>3, <1>4, <1>5, <1>6 DEF Turns

\* What a program gets as its environment.
LEMMA EnvironType ==
  ASSUME NEW t \in Seq(Var), Distinct(t)
  PROVE  Environ(t) \in UNION {[names -> Value] : names \in SUBSET Name}
<1> DEFINE exported == {i \in DOMAIN t : t[i].exported}
           names == {t[i].name : i \in exported}
           Last(n) == CHOOSE i \in exported :
                        t[i].name = n /\ \A j \in exported : t[j].name = n => j <= i
<1>1. DOMAIN t = 1..Len(t) /\ \A i \in DOMAIN t : t[i].name \in Name /\ t[i].value \in Value
  <2>1. DOMAIN t = 1..Len(t) /\ \A i \in DOMAIN t : t[i] \in Var
    OBVIOUS
  <2> QED
    BY <2>1 DEF Var
<1>2. names \subseteq Name
  BY <1>1
<1>3. ASSUME NEW n \in names PROVE t[Last(n)].value \in Value
  <2>1. PICK i \in exported : t[i].name = n
    OBVIOUS
  <2>2. \A j \in exported : t[j].name = n => j <= i
    BY <1>1, <2>1 DEF Distinct
  <2>3. Last(n) \in exported
    <3>1. \E k \in exported : t[k].name = n /\ \A j \in exported : t[j].name = n => j <= k
      BY <2>1, <2>2
    <3> QED
      BY <3>1
  <2> QED
    BY <1>1, <2>3
<1>4. Environ(t) = [n \in names |-> t[Last(n)].value]
  BY DEF Environ
<1> HIDE DEF names, Last
<1>5. Environ(t) \in [names -> Value]
  BY <1>3, <1>4
<1> QED
  BY <1>2, <1>5
-----------------------------------------------------------------------------
(***************************************************************************)
(* Commands.                                                               *)
(***************************************************************************)
\* What the commands of a menu carry.
LEMMA Carried ==
  ASSUME menu \in Menus, NEW c \in menu
  PROVE  /\ c.type \in {"assign", "update", "program"} => c.turns \in Seq(Turns)
         /\ c.type = "program" => c.turns \in Seq(Assignments("putexport"))
         /\ c.type = "define" => c.name \in Name /\ c.body \in Body
         /\ c.type = "call" => c.name \in Name /\ c.words \in Seq(Word)
         /\ c.type = "source" => c.file \in Word /\ c.words \in Seq(Word)
         /\ c.type = "set" => c.words \in Seq(SetWord)
         /\ c.type = "shift" => c.amount \in Int
<1>1. c \in Command
  BY MenusAssumption
<1>2. \A do \in {"put", "putexport"} : Seq(Assignments(do)) \subseteq Seq(Turns)
  <2>1. \A do \in {"put", "putexport"} : Assignments(do) \subseteq Turns
    BY DEF Assignments, Turns
  <2> QED
    BY <2>1
<1>3. c.type \in {"assign", "update", "program"} => c.turns \in Seq(Turns)
  <2>1. c.type = "assign" => c.turns \in Seq(Assignments("put"))
    BY <1>1 DEF Command
  <2>2. c.type = "program" => c.turns \in Seq(Assignments("putexport"))
    BY <1>1 DEF Command
  <2>3. c.type = "update" => c.turns \in Seq(Turns)
    BY <1>1 DEF Command
  <2> QED
    BY <1>2, <2>1, <2>2, <2>3
<1> QED
  BY <1>1, <1>3 DEF Command

-----------------------------------------------------------------------------
(***************************************************************************)
(* Variables.                                                              *)
(***************************************************************************)
Environs == UNION {[names -> Value] : names \in SUBSET Name}

\* The vectors of variables, that of the shell put aside for a child included.
VarInv ==
  /\ shvars \in Seq(Var) /\ Distinct(shvars)
  /\ todo \in Seq(Turns)
  /\ child \in Seq(Child) /\ Len(child) <= 1
  /\ child # <<>> => Distinct(Head(child).vars)
  /\ env \in Environs

varState == <<shvars, todo, child, env>>

LEMMA VarInit == Init => VarInv
<1> SUFFICES ASSUME Init PROVE VarInv
  OBVIOUS
<1>1. shvars \in Seq(Var) /\ Distinct(shvars)
  BY EnvironmentAssumption DEF Init, Distinct
<1>2. todo = <<>> /\ child = <<>> /\ env = [n \in {} |-> Empty]
  BY DEF Init
<1>3. env \in Environs
  <2>1. env \in [{} -> Value]
    BY <1>2
  <2>2. {} \in SUBSET Name
    OBVIOUS
  <2>3. [{} -> Value] \in {[names -> Value] : names \in SUBSET Name}
    BY <2>2, Zenon
  <2> QED
    BY <2>1, <2>3, Zenon DEF Environs
<1> QED
  BY <1>1, <1>2, <1>3 DEF VarInv

LEMMA VarStep == menu \in Menus /\ VarInv /\ [Next]_vars => VarInv'
<1> SUFFICES ASSUME menu \in Menus, VarInv, [Next]_vars PROVE VarInv'
  OBVIOUS
<1>1. ASSUME NEW c \in menu, Assign(c) PROVE VarInv'
  <2>1. PICK k \in 0..Len(c.turns) : todo' = SubSeq(c.turns, 1, k)
    BY <1>1 DEF Assign
  <2>2. c.turns \in Seq(Turns)
    BY <1>1, Carried DEF Assign, Runs
  <2>3. todo' \in Seq(Turns)
    BY <2>1, <2>2
  <2> QED
    BY <1>1, <2>3 DEF Assign, VarInv, Distinct
<1>2. ASSUME NEW c \in menu, Update(c) PROVE VarInv'
  <2>1. c.turns \in Seq(Turns)
    BY <1>2, Carried DEF Update, Runs
  <2> QED
    BY <1>2, <2>1 DEF Update, VarInv, Distinct
<1>3. ASSUME NEW c \in menu, Program(c) PROVE VarInv'
  <2>1. c.turns \in Seq(Turns)
    BY <1>3, Carried DEF Program, Runs
  <2> DEFINE e == [vars |-> shvars, given |-> c.turns]
  <2>2. e \in Child /\ e.vars = shvars
    BY <2>1 DEF Child, VarInv
  <2>3. child' = <<e>>
    BY <1>3 DEF Program
  <2> HIDE DEF e
  <2>4. child' \in Seq(Child) /\ Len(child') <= 1 /\ Head(child') = e
    BY <2>2, <2>3
  <2> QED
    BY <1>3, <2>1, <2>2, <2>4 DEF Program, VarInv, Distinct
<1>4. CASE StartsProgram
  <2>1. Head(child) \in Child
    BY <1>4 DEF StartsProgram, VarInv
  <2>2. shvars' \in Seq(Var) /\ Distinct(shvars)'
    BY <1>4, <2>1 DEF StartsProgram, VarInv, Child, Distinct
  <2>3. env' \in Environs
    BY <1>4, EnvironType DEF StartsProgram, VarInv, Environs
  <2> QED
    BY <1>4, <2>2, <2>3 DEF StartsProgram, VarInv
<1>5. CASE Turn
  <2>1. Head(todo) \in Turns /\ Tail(todo) \in Seq(Turns)
    BY <1>5 DEF Turn, VarInv
  <2>2. shvars' = ChangedVars(shvars, Head(todo))
    BY <1>5 DEF Turn
  <2>3. shvars' \in Seq(Var) /\ Distinct(shvars')
    BY <2>1, <2>2, ChangedDistinct DEF VarInv
  <2> QED
    BY <1>5, <2>1, <2>3 DEF Turn, VarInv, Distinct
<1>6. CASE UNCHANGED varState
  BY <1>6 DEF VarInv, varState, Distinct
<1>7. ASSUME NEW c \in menu, Define(c) \/ CallFunc(c) \/ Source(c) \/ Set(c) \/ Shift(c)
      PROVE  UNCHANGED varState
  BY <1>7 DEF Define, CallFunc, Source, Enter, Set, Shift, varState
<1>8. CASE Leave
  BY <1>6, <1>8 DEF Leave, varState
<1>9. CASE UNCHANGED vars
  BY <1>6, <1>9 DEF vars, varState
<1> QED
  BY <1>1, <1>2, <1>3, <1>4, <1>5, <1>6, <1>7, <1>8, <1>9 DEF Next

-----------------------------------------------------------------------------
(***************************************************************************)
(* Functions.                                                              *)
(***************************************************************************)
\* Bodies reach the table only by being stolen, and only once; what is freed has been
\* in the table.
FuncInv ==
  /\ funcs \in Seq(Func) /\ Distinct(funcs)
  /\ stolen \subseteq Body /\ freed \subseteq stolen
  /\ \A i \in DOMAIN funcs : funcs[i].node \in stolen \cup {Nil}
  /\ BodiesOwned

funcState == <<funcs, stolen, freed>>

LEMMA FuncInit == Init => FuncInv
<1> SUFFICES ASSUME Init PROVE FuncInv
  OBVIOUS
<1>1. funcs = <<>> /\ stolen = {} /\ freed = {}
  BY DEF Init
<1>2. funcs \in Seq(Func) /\ \A i \in DOMAIN funcs : FALSE
  BY <1>1
<1> QED
  BY <1>1, <1>2 DEF FuncInv, Distinct, BodiesOwned

\* An entry that is taken out takes nothing with it.
LEMMA FuncTurn == FuncInv /\ Turn => FuncInv'
<1> SUFFICES ASSUME FuncInv, Turn PROVE FuncInv'
  OBVIOUS
<1> DEFINE n == Head(todo).name
           t == Without(funcs, n)
<1>1. (funcs' = t \/ funcs' = funcs) /\ UNCHANGED <<stolen, freed>>
  BY DEF Turn
<1>2. CASE funcs' = t
  <2>1. /\ t \in Seq(Func) /\ Distinct(t)
        /\ \A i, j \in DOMAIN t :
             \E k, l \in DOMAIN funcs : t[i] = funcs[k] /\ t[j] = funcs[l] /\ (k = l => i = j)
    BY WithoutDistinct DEF FuncInv
  <2>2. \A i \in DOMAIN t : t[i].node \in stolen \cup {Nil}
    BY <2>1 DEF FuncInv
  <2>3. \A i, j \in DOMAIN t : t[i].node # Nil =>
          t[i].node \notin freed /\ (t[j].node = t[i].node => i = j)
    BY <2>1 DEF FuncInv, BodiesOwned
  <2> HIDE DEF t
  <2> QED
    BY <1>1, <1>2, <2>1, <2>2, <2>3 DEF FuncInv, BodiesOwned, Distinct
<1>3. CASE funcs' = funcs
  BY <1>1, <1>3 DEF FuncInv, BodiesOwned, Distinct
<1> QED
  BY <1>1, <1>2, <1>3

\* What is stolen was nowhere before.
LEMMA FuncDefine ==
  ASSUME menu \in Menus, FuncInv, NEW c \in menu, Define(c)
  PROVE  FuncInv'
<1>1. c.name \in Name /\ c.body \in Body
  BY Carried DEF Define, Runs
<1>2. Stolen(c) \in Body \cup {Nil} /\ Stolen(c) \in stolen' \cup {Nil}
      /\ (Stolen(c) # Nil => Stolen(c) \notin stolen)
  BY <1>1 DEF Stolen, Define
<1>3. stolen' = stolen \cup {c.body}
  BY DEF Define
<1>4. CASE Has(funcs, c.name)
  <2> DEFINE k == IndexOf(funcs, c.name)
             e == [funcs[k] EXCEPT !.node = Stolen(c)]
  <2>1. k \in DOMAIN funcs
    BY <1>4, IndexFound DEF FuncInv
  <2>2. funcs[k] \in Func
    BY <2>1 DEF FuncInv
  <2>3. e \in Func /\ e.name = funcs[k].name /\ e.node = Stolen(c)
    BY <1>2, <2>2 DEF Func
  <2>4. funcs' = [funcs EXCEPT ![k] = e] /\ freed' = freed \cup ({funcs[k].node} \ {Nil})
    BY <1>4 DEF Define
  <2> HIDE DEF k, e
  <2>5. funcs' \in Seq(Func) /\ Distinct(funcs')
    <3>1. [funcs EXCEPT ![k] = e] \in Seq(Func) /\ Distinct([funcs EXCEPT ![k] = e])
      BY <2>1, <2>3, ReplaceDistinct, Zenon DEF FuncInv
    <3> QED
      BY <2>4, <3>1, Zenon
  <2>6. DOMAIN funcs' = DOMAIN funcs
        /\ \A i \in DOMAIN funcs' : funcs'[i] = IF i = k THEN e ELSE funcs[i]
    BY <2>1, <2>4 DEF FuncInv
  <2>7. freed' \subseteq stolen
    BY <2>1, <2>4 DEF FuncInv
  <2>8. \A i \in DOMAIN funcs' : funcs'[i].node \in stolen' \cup {Nil}
    BY <1>2, <1>3, <2>3, <2>6 DEF FuncInv
  <2>9. ASSUME NEW i \in DOMAIN funcs', NEW j \in DOMAIN funcs', funcs'[i].node # Nil
        PROVE  funcs'[i].node \notin freed' /\ (funcs'[j].node = funcs'[i].node => i = j)
    <3>1. CASE i = k
      BY <1>2, <2>3, <2>6, <2>7, <2>9, <3>1 DEF FuncInv
    <3>2. CASE i # k
      BY <1>2, <2>1, <2>3, <2>4, <2>6, <2>9, <3>2 DEF FuncInv, BodiesOwned
    <3> QED
      BY <3>1, <3>2
  <2>10. stolen' \subseteq Body
    BY <1>1, <1>3 DEF FuncInv
  <2> QED
    BY <1>3, <2>5, <2>7, <2>8, <2>9, <2>10 DEF FuncInv, BodiesOwned, Distinct
<1>5. CASE ~Has(funcs, c.name)
  <2> DEFINE e == [name |-> c.name, node |-> Stolen(c)]
  <2>1. e \in Func /\ e.name = c.name /\ e.node = Stolen(c)
    BY <1>1, <1>2 DEF Func
  <2>2. funcs' = Append(funcs, e) /\ freed' = freed
    BY <1>5 DEF Define
  <2> HIDE DEF e
  <2>3. funcs' \in Seq(Func) /\ Distinct(funcs')
    BY <1>5, <2>1, <2>2, AppendDistinct DEF FuncInv
  <2>4. \A i \in DOMAIN funcs' :
          IF i = Len(funcs) + 1 THEN funcs'[i] = e ELSE i \in DOMAIN funcs /\ funcs'[i] = funcs[i]
    BY <2>1, <2>2 DEF FuncInv
  <2>5. \A i \in DOMAIN funcs' : funcs'[i].node \in stolen' \cup {Nil}
    BY <1>2, <1>3, <2>1, <2>4 DEF FuncInv
  <2>6. ASSUME NEW i \in DOMAIN funcs', NEW j \in DOMAIN funcs', funcs'[i].node # Nil
        PROVE  funcs'[i].node \notin freed' /\ (funcs'[j].node = funcs'[i].node => i = j)
    BY <1>2, <2>1, <2>2, <2>4, <2>6 DEF FuncInv, BodiesOwned
  <2>7. stolen' \subseteq Body /\ freed' \subseteq stolen'
    BY <1>1, <1>3, <2>2 DEF FuncInv
  <2> QED
    BY <2>3, <2>5, <2>6, <2>7 DEF FuncInv, BodiesOwned, Distinct
<1> QED
  BY <1>4, <1>5

LEMMA FuncStep == menu \in Menus /\ FuncInv /\ [Next]_vars => FuncInv'
<1> SUFFICES ASSUME menu \in Menus, FuncInv, [Next]_vars PROVE FuncInv'
  OBVIOUS
<1>1. CASE UNCHANGED funcState
  BY <1>1 DEF FuncInv, BodiesOwned, Distinct, funcState
<1>2. ASSUME NEW c \in menu, \/ Assign(c) \/ Update(c) \/ Program(c) \/ CallFunc(c)
                             \/ Source(c) \/ Set(c) \/ Shift(c)
      PROVE  UNCHANGED funcState
  BY <1>2 DEF Assign, Update, Program, CallFunc, Source, Enter, Set, Shift, funcState
<1>3. CASE StartsProgram \/ Leave \/ UNCHANGED vars
  BY <1>1, <1>3 DEF StartsProgram, Leave, vars, funcState
<1> QED
  BY <1>1, <1>2, <1>3, FuncTurn, FuncDefine DEF Next

-----------------------------------------------------------------------------
(***************************************************************************)
(* Parameters.                                                             *)
(***************************************************************************)
LEMMA LeastNat ==
  ASSUME NEW S, S \subseteq Nat, S # {}
  PROVE  \E m \in S : \A k \in S : m <= k
<1> DEFINE R == OpToRel(<, Nat)
<1>1. IsWellFoundedOn(R, Nat)
  BY NatLessThanWellFounded
<1>2. \A i, j \in Nat : <<j, i>> \in R <=> j < i
  BY DEF OpToRel
<1> HIDE DEF R
<1>3. PICK m \in S : \A k \in S : ~ (<<k, m>> \in R)
  BY <1>1, WFMin
<1>4. \A k \in S : ~(k < m) /\ k \in Nat /\ m \in Nat
  BY <1>2, <1>3
<1> QED
  BY <1>4

\* What set keeps of its arguments always leaves room for the null pointer.
LEMMA KeptFits ==
  ASSUME NEW words \in Seq(SetWord), ~OnlyOptions(words)
  PROVE  /\ Kept(words) \in Seq(SetWord) /\ Len(Kept(words)) < MaxArgs
         /\ \E from \in 1..(Len(words) + 1) : Kept(words) = SubSeq(words, from, Len(words))
<1> DEFINE first == IF words = <<>> THEN 1
                    ELSE Operand(words) + (IF words[Operand(words)].kind = "end" THEN 1 ELSE 0)
           n == Len(words) - first + 1
           from == IF n >= MaxArgs THEN first + n - MaxArgs + 1 ELSE first
<1>1. DOMAIN words = 1..Len(words) /\ Len(words) \in Nat /\ MaxArgs \in Nat \ {0}
  BY ArgsAssumption
<1>2. first \in 1..(Len(words) + 1)
  <2>1. CASE words = <<>>
    BY <1>1, <2>1
  <2>2. CASE words # <<>>
    <3> DEFINE others == {i \in DOMAIN words : words[i].kind # "options"}
    <3>1. others \subseteq Nat /\ others # {}
      BY <1>1, <2>2 DEF OnlyOptions
    <3>2. PICK m \in others : \A i \in others : m <= i
      BY <3>1, LeastNat
    <3>3. \A j \in 1..(m - 1) : words[j].kind = "options"
      BY <1>1, <3>2
    <3>4. Operand(words) \in DOMAIN words
      BY <3>2, <3>3 DEF Operand
    <3> QED
      BY <1>1, <2>2, <3>4
  <2> QED
    BY <2>1, <2>2
<1>3. Kept(words) = SubSeq(words, from, Len(words))
  BY DEF Kept
<1> HIDE DEF first
<1>4. from \in 1..(Len(words) + 1) /\ Len(words) - from + 1 < MaxArgs
  <2>1. CASE n >= MaxArgs
    BY <1>1, <1>2, <2>1
  <2>2. CASE ~(n >= MaxArgs)
    BY <1>1, <1>2, <2>2
  <2> QED
    BY <2>1, <2>2
<1> HIDE DEF from
<1> QED
  BY <1>1, <1>3, <1>4

\* How many of the words from k on set keeps.
NumberKept(words, k) ==
  LET given == Len(words) - k + 1 IN IF given < MaxArgs THEN given ELSE MaxArgs - 1

\* What set keeps is what it should: the operands, and the last ones of them if there are
\* too many.
LEMMA KeptOperands ==
  ASSUME NEW words \in Seq(SetWord), ~OnlyOptions(words)
  PROVE  \E k \in 1..(Len(words) + 1), n \in 0..Len(words) :
           /\ Promised!OperandsFrom(words, k)
           /\ n = NumberKept(words, k)
           /\ Len(Kept(words)) = n
           /\ \A i \in 1..n : Kept(words)[i] = words[Len(words) - n + i]
<1> DEFINE first == IF words = <<>> THEN 1
                    ELSE Operand(words) + (IF words[Operand(words)].kind = "end" THEN 1 ELSE 0)
           from == IF Len(words) - first + 1 >= MaxArgs
                   THEN first + (Len(words) - first + 1) - MaxArgs + 1 ELSE first
           n == NumberKept(words, first)
<1>1. DOMAIN words = 1..Len(words) /\ Len(words) \in Nat /\ MaxArgs \in Nat \ {0}
  BY ArgsAssumption
<1>2. first \in 1..(Len(words) + 1) /\ Promised!OperandsFrom(words, first)
  <2>1. CASE words = <<>>
    <3>1. first = 1 /\ \A i \in 1..(first - 1) : FALSE
      BY <2>1
    <3> QED
      BY <1>1, <2>1, <3>1 DEF Promised!OperandsFrom
  <2>2. CASE words # <<>>
    <3> DEFINE others == {i \in DOMAIN words : words[i].kind # "options"}
               op == Operand(words)
    <3>1. others \subseteq Nat /\ others # {}
      BY <1>1, <2>2 DEF OnlyOptions
    <3>2. PICK m \in others : \A i \in others : m <= i
      BY <3>1, LeastNat
    <3>3. \A j \in 1..(m - 1) : words[j].kind = "options"
      BY <1>1, <3>2
    <3>4. /\ op \in DOMAIN words /\ words[op].kind # "options"
          /\ \A j \in 1..(op - 1) : words[j].kind = "options"
      BY <3>2, <3>3 DEF Operand
    <3>5. words[op].kind # "invalid"
      BY <2>2 DEF OnlyOptions
    <3>6. words[op] \in SetWord
      BY <3>4
    <3>7. words[op].kind \in {"end", "word"}
      BY <3>4, <3>5, <3>6 DEF SetWord
    <3>8. first = op + (IF words[op].kind = "end" THEN 1 ELSE 0)
      BY <2>2
    <3> HIDE DEF op, first
    <3>9. CASE words[op].kind = "end"
      <4>1. first = op + 1 /\ first - 1 = op
        BY <1>1, <3>4, <3>8, <3>9
      <4>2. \A i \in 1..(first - 1) :
              words[i].kind = "options" \/ (i = first - 1 /\ words[i].kind = "end")
        BY <1>1, <3>4, <3>9, <4>1
      <4>3. first > 1
        BY <1>1, <3>4, <4>1
      <4> QED
        BY <1>1, <3>4, <3>9, <4>1, <4>2, <4>3 DEF Promised!OperandsFrom
    <3>10. CASE words[op].kind = "word"
      <4>1. first = op
        BY <1>1, <3>4, <3>8, <3>10
      <4> QED
        BY <1>1, <3>4, <3>10, <4>1 DEF Promised!OperandsFrom
    <3> QED
      BY <3>7, <3>9, <3>10
  <2> QED
    BY <2>1, <2>2
<1>3. Kept(words) = SubSeq(words, from, Len(words))
  BY DEF Kept
<1> HIDE DEF first
<1>4. from \in 1..(Len(words) + 1) /\ n \in 0..Len(words) /\ Len(words) - from + 1 = n
  <2>1. CASE Len(words) - first + 1 >= MaxArgs
    <3>1. n = MaxArgs - 1
      BY <1>1, <1>2, <2>1 DEF NumberKept
    <3>2. from = first + (Len(words) - first + 1) - MaxArgs + 1
      BY <2>1
    <3> HIDE DEF n, from
    <3> QED
      BY <1>1, <1>2, <2>1, <3>1, <3>2
  <2>2. CASE ~(Len(words) - first + 1 >= MaxArgs)
    <3>1. n = Len(words) - first + 1
      BY <1>1, <1>2, <2>2 DEF NumberKept
    <3>2. from = first
      BY <2>2
    <3> HIDE DEF n, from
    <3> QED
      BY <1>1, <1>2, <2>2, <3>1, <3>2
  <2> QED
    BY <2>1, <2>2
<1> HIDE DEF from
<1>5. Len(Kept(words)) = n /\ \A i \in 1..n : Kept(words)[i] = words[from + i - 1]
  BY <1>1, <1>3, <1>4
<1>6. ASSUME NEW i \in 1..n PROVE Kept(words)[i] = words[Len(words) - n + i]
  <2>1. Len(words) - n + i = from + i - 1
    BY <1>1, <1>4
  <2> QED
    BY <1>5, <2>1
<1>7. n = NumberKept(words, first)
  OBVIOUS
<1> HIDE DEF n
<1> QED
  BY <1>2, <1>4, <1>5, <1>6, <1>7

ArgType ==
  /\ menu \in Menus
  /\ argc \in Nat /\ argv \in Pointer /\ argv0 \in Word
  /\ arrays \in [ArrayId -> Seq(Word \cup {Nil})]
  /\ Len(arrays[Static]) = MaxArgs
  /\ calls \in Seq(Call)

LEMMA ArgTypeInit == Init => ArgType
<1> SUFFICES ASSUME Init PROVE ArgType
  OBVIOUS
<1>1. argc \in Nat /\ argv0 \in Word /\ calls \in Seq(Call) /\ menu \in Menus
  BY StartedAssumption DEF Init
<1>2. argv \in Pointer
  BY ArgsAssumption DEF Init, Pointer, ArrayId, Static, Main
<1> DEFINE blank == [i \in 1..MaxArgs |-> Nil]
           given == Append(Started, Nil)
<1>3. blank \in Seq(Word \cup {Nil}) /\ Len(blank) = MaxArgs
  BY ArgsAssumption
<1>4. given \in Seq(Word \cup {Nil})
  BY StartedAssumption
<1>5. arrays = [a \in ArrayId |-> CASE a = Static -> blank
                                   [] a = Main   -> given
                                   [] OTHER      -> <<>>]
  BY DEF Init
<1> HIDE DEF blank, given
<1>6. arrays \in [ArrayId -> Seq(Word \cup {Nil})]
  BY <1>3, <1>4, <1>5
<1>7. Static \in ArrayId
  BY ArgsAssumption DEF ArrayId, Static
<1>8. Len(arrays[Static]) = MaxArgs
  BY <1>3, <1>5, <1>7 DEF Static, Main
<1> QED
  BY <1>1, <1>2, <1>6, <1>8 DEF ArgType

\* A function or a script is entered with its words as parameters.
LEMMA Entered ==
  ASSUME ArgType, NEW kind \in {"func", "source"}, NEW node \in Body \cup {Nil},
         NEW name \in Name \cup {Nil}, NEW words \in Seq(Word), NEW zero \in Word,
         Enter(kind, node, name, words, zero)
  PROVE  ArgType'
<1> DEFINE call == [kind |-> kind, node |-> node, name |-> name, argc |-> argc,
                    argv |-> argv, argv0 |-> argv0]
<1>1. call \in Call
  BY DEF ArgType, Call
<1>2. calls' = <<call>> \o calls
  BY DEF Enter
<1> HIDE DEF call
<1>3. calls' \in Seq(Call)
  BY <1>1, <1>2 DEF ArgType
<1>4. Len(calls) + 1 \in ArrayId /\ Len(calls) + 1 # Static /\ Static \in ArrayId
  BY ArgsAssumption DEF Enter, ArgType, ArrayId, Static
<1>5. argv' \in Pointer
  BY <1>4 DEF Enter, Pointer
<1>6. Append(words, Nil) \in Seq(Word \cup {Nil})
  OBVIOUS
<1>7. arrays' \in [ArrayId -> Seq(Word \cup {Nil})] /\ Len(arrays'[Static]) = MaxArgs
  BY <1>4, <1>6 DEF Enter, ArgType
<1>8. argc' \in Nat /\ argv0' \in Word /\ menu' \in Menus
  BY DEF Enter, ArgType
<1> QED
  BY <1>3, <1>5, <1>7, <1>8 DEF ArgType

LEMMA ArgTypeSet ==
  ASSUME ArgType, NEW c \in menu, Set(c)
  PROVE  ArgType'
<1>1. c.words \in Seq(SetWord)
  BY Carried DEF ArgType, Set, Runs
<1>2. CASE OnlyOptions(c.words)
  BY <1>2 DEF Set, ArgType
<1>3. CASE ~OnlyOptions(c.words)
  <2> DEFINE kept == Kept(c.words)
             old == arrays[Static]
             new == [i \in DOMAIN old |-> CASE i <= Len(kept)     -> kept[i].word
                                            [] i = Len(kept) + 1 -> Nil
                                            [] OTHER             -> old[i]]
  <2>1. kept \in Seq(SetWord)
    BY <1>1, <1>3, KeptFits
  <2>2. argc' = Len(kept) /\ argv' = [array |-> Static, at |-> 0]
        /\ arrays' = [arrays EXCEPT ![Static] = new]
        /\ UNCHANGED <<menu, argv0, calls>>
    BY <1>3 DEF Set
  <2> HIDE DEF kept
  <2>3. Static \in ArrayId /\ old \in Seq(Word \cup {Nil}) /\ DOMAIN old = 1..Len(old)
        /\ Len(old) = MaxArgs /\ MaxArgs \in Nat
    BY ArgsAssumption DEF ArgType, ArrayId, Static
  <2>4. \A i \in DOMAIN old : i <= Len(kept) => kept[i].word \in Word
    <3>1. \A i \in 1..Len(kept) : kept[i] \in SetWord
      BY <2>1
    <3> QED
      BY <2>1, <2>3, <3>1 DEF SetWord
  <2>5. \A i \in DOMAIN old : new[i] \in Word \cup {Nil}
    BY <2>1, <2>3, <2>4
  <2>6. new \in Seq(Word \cup {Nil}) /\ Len(new) = MaxArgs
    BY <2>3, <2>5
  <2> HIDE DEF new
  <2>7. arrays' \in [ArrayId -> Seq(Word \cup {Nil})] /\ Len(arrays'[Static]) = MaxArgs
    BY <2>2, <2>3, <2>6 DEF ArgType
  <2>8. argc' \in Nat /\ argv' \in Pointer
    BY <2>1, <2>2, <2>3 DEF Pointer
  <2> QED
    BY <2>2, <2>7, <2>8 DEF ArgType
<1> QED
  BY <1>2, <1>3

LEMMA ArgTypeStep == VarInv /\ FuncInv /\ ArgType /\ [Next]_vars => ArgType'
<1> SUFFICES ASSUME VarInv, FuncInv, ArgType, [Next]_vars PROVE ArgType'
  OBVIOUS
<1> USE DEF args
<1>1. ASSUME NEW c \in menu, Assign(c) \/ Update(c) \/ Program(c) \/ Define(c)
      PROVE  ArgType'
  BY <1>1 DEF Assign, Update, Program, Define, ArgType
<1>2. ASSUME NEW c \in menu, CallFunc(c) PROVE ArgType'
  <2> DEFINE f == funcs[IndexOf(funcs, c.name)]
  <2>1. c.name \in Name /\ c.words \in Seq(Word) /\ Has(funcs, c.name)
    BY <1>2, Carried DEF CallFunc, Runs, ArgType
  <2>2. IndexOf(funcs, c.name) \in DOMAIN funcs
    BY <2>1, IndexFound DEF FuncInv
  <2>3. f \in Func
    BY <2>2 DEF FuncInv
  <2>4. f.node \in Body \cup {Nil}
    BY <2>3 DEF Func
  <2>5. Enter("func", f.node, c.name, c.words, argv0)
    BY <1>2 DEF CallFunc
  <2>6. argv0 \in Word
    BY DEF ArgType
  <2> HIDE DEF f
  <2> QED
    BY <2>1, <2>4, <2>5, <2>6, Entered
<1>3. ASSUME NEW c \in menu, Source(c) PROVE ArgType'
  <2>1. c.file \in Word /\ c.words \in Seq(Word)
    BY <1>3, Carried DEF Source, Runs, ArgType
  <2>2. Enter("source", Nil, Nil, c.words, c.file)
    BY <1>3 DEF Source
  <2> QED
    BY <2>1, <2>2, Entered
<1>4. ASSUME NEW c \in menu, Set(c) PROVE ArgType'
  BY <1>4, ArgTypeSet
<1>5. ASSUME NEW c \in menu, Shift(c) PROVE ArgType'
  <2>1. c.amount \in Int
    BY <1>5, Carried DEF Shift, Runs, ArgType
  <2>2. argc' \in Nat /\ argv' \in Pointer
    BY <1>5, <2>1 DEF Shift, ArgType, Pointer
  <2> QED
    BY <1>5, <2>2 DEF Shift, ArgType
<1>6. CASE Leave
  <2>1. Head(calls) \in Call /\ Tail(calls) \in Seq(Call)
    BY <1>6 DEF Leave, ArgType
  <2>2. Head(calls).argc \in Nat /\ Head(calls).argv \in Pointer /\ Head(calls).argv0 \in Word
    BY <2>1 DEF Call
  <2> QED
    BY <1>6, <2>1, <2>2 DEF Leave, ArgType
<1>7. CASE Turn \/ StartsProgram \/ UNCHANGED vars
  BY <1>7 DEF Turn, StartsProgram, vars, ArgType
<1> QED
  BY <1>1, <1>2, <1>3, <1>4, <1>5, <1>6, <1>7 DEF Next

-----------------------------------------------------------------------------
(***************************************************************************)
(* The invariant of every script.                                          *)
(***************************************************************************)
Inv == VarInv /\ FuncInv /\ ArgType

LEMMA InvHolds == Spec => []Inv
<1>1. Init => Inv
  BY VarInit, FuncInit, ArgTypeInit DEF Inv
<1>2. Inv /\ [Next]_vars => Inv'
  BY VarStep, FuncStep, ArgTypeStep DEF Inv, ArgType
<1> QED
  BY <1>1, <1>2, PTL DEF Spec

\* Whatever the script does, the vectors, the pointer to the parameters and what
\* calls save of it have the types the code relies on: _argc is never negative
\* and every node in the table is a stolen body or the null pointer.
THEOREM TypeCorrect == Spec => []TypeOK
<1>1. Inv => TypeOK
  BY DEF Inv, VarInv, FuncInv, ArgType, TypeOK, Environs
<1> QED
  BY <1>1, InvHolds, PTL

\* putvar, export_var and register_func look before they add, and the swap with last
\* of unset_var and unregister_func adds nothing: one entry per name.
THEOREM OneEach == Spec => []OneEntryPerName
<1>1. Inv => OneEntryPerName
  BY DEF Inv, VarInv, FuncInv, Distinct, OneEntryPerName
<1> QED
  BY <1>1, InvHolds, PTL

\* A function in the table has its body for itself, and it has not been freed:
\* execute_func never starts on a freed tree.
THEOREM Owns == Spec => []BodiesOwned
<1>1. Inv => BodiesOwned
  BY DEF Inv, FuncInv
<1> QED
  BY <1>1, InvHolds, PTL

-----------------------------------------------------------------------------
(***************************************************************************)
(* Bodies of functions in progress.                                        *)
(***************************************************************************)
\* A body is registered once, so that as long as the table has the body of a call
\* in progress, it has it under the name that was called.
CallInv ==
  \A k \in DOMAIN calls : calls[k].node # Nil =>
    /\ calls[k].node \in stolen
    /\ \A i \in DOMAIN funcs : funcs[i].node = calls[k].node => funcs[i].name = calls[k].name

\* The functions there are after a step: each entry was there, with its name, or its
\* body is new.
LEMMA EntriesStep ==
  ASSUME menu \in Menus, FuncInv, [Next]_vars, NEW i \in DOMAIN funcs', funcs'[i].node # Nil,
         funcs'[i].node \in stolen
  PROVE  \E j \in DOMAIN funcs : funcs[j].node = funcs'[i].node /\ funcs[j].name = funcs'[i].name
<1>1. CASE UNCHANGED funcs
  BY <1>1
<1>2. ASSUME NEW n, funcs' = Without(funcs, n)
      PROVE  \E j \in DOMAIN funcs : funcs[j] = funcs'[i]
  BY <1>2, WithoutDistinct DEF FuncInv
<1>3. CASE Turn
  BY <1>1, <1>2, <1>3 DEF Turn
<1>4. ASSUME NEW c \in menu, Define(c)
      PROVE  \E j \in DOMAIN funcs : funcs[j].node = funcs'[i].node /\ funcs[j].name = funcs'[i].name
  <2>1. Stolen(c) \notin stolen \/ Stolen(c) = Nil
    BY DEF Stolen
  <2>2. CASE Has(funcs, c.name)
    <3> DEFINE m == IndexOf(funcs, c.name)
               e == [funcs[m] EXCEPT !.node = Stolen(c)]
    <3>1. m \in DOMAIN funcs /\ funcs[m] \in Func
      BY <2>2, IndexFound DEF FuncInv
    <3>2. e.node = Stolen(c)
      BY <3>1 DEF Func
    <3>3. funcs' = [funcs EXCEPT ![m] = e]
      BY <1>4, <2>2 DEF Define
    <3> HIDE DEF m, e
    <3>4. i \in DOMAIN funcs /\ funcs'[i] = IF i = m THEN e ELSE funcs[i]
      BY <3>1, <3>3 DEF FuncInv
    <3> QED
      BY <2>1, <3>2, <3>4
  <2>3. CASE ~Has(funcs, c.name)
    <3> DEFINE e == [name |-> c.name, node |-> Stolen(c)]
    <3>1. funcs' = Append(funcs, e) /\ e.node = Stolen(c)
      BY <1>4, <2>3 DEF Define
    <3> HIDE DEF e
    <3>2. IF i = Len(funcs) + 1 THEN funcs'[i] = e ELSE i \in DOMAIN funcs /\ funcs'[i] = funcs[i]
      BY <3>1 DEF FuncInv
    <3> QED
      BY <2>1, <3>1, <3>2
  <2> QED
    BY <2>2, <2>3
<1>5. ASSUME NEW c \in menu, \/ Assign(c) \/ Update(c) \/ Program(c) \/ CallFunc(c)
                             \/ Source(c) \/ Set(c) \/ Shift(c)
      PROVE  UNCHANGED funcs
  BY <1>5 DEF Assign, Update, Program, CallFunc, Source, Enter, Set, Shift
<1>6. CASE StartsProgram \/ Leave \/ UNCHANGED vars
  BY <1>1, <1>6 DEF StartsProgram, Leave, vars
<1> QED
  BY <1>1, <1>3, <1>4, <1>5, <1>6 DEF Next

LEMMA CallStep == Inv /\ CallInv /\ [Next]_vars => CallInv'
<1> SUFFICES ASSUME Inv, CallInv, [Next]_vars PROVE CallInv'
  OBVIOUS
<1>1. menu \in Menus /\ FuncInv /\ ArgType /\ calls \in Seq(Call) /\ stolen \subseteq stolen'
  <2>1. menu \in Menus /\ FuncInv /\ ArgType /\ calls \in Seq(Call)
    BY DEF Inv, ArgType
  <2>2. stolen' = stolen \/ \E c \in menu : stolen' = stolen \cup {c.body}
    BY DEF Next, Assign, Update, Program, Define, CallFunc, Source, Enter, Set, Shift, Turn,
           StartsProgram, Leave, vars
  <2> QED
    BY <2>1, <2>2
\* a call that was in progress before the step
<1>2. ASSUME NEW k \in DOMAIN calls, calls[k].node # Nil
      PROVE  /\ calls[k].node \in stolen'
             /\ \A i \in DOMAIN funcs' : funcs'[i].node = calls[k].node =>
                                           funcs'[i].name = calls[k].name
  BY <1>1, <1>2, EntriesStep DEF CallInv
<1>3. CASE UNCHANGED calls
  BY <1>2, <1>3 DEF CallInv
<1>4. ASSUME NEW c \in menu, \/ Assign(c) \/ Update(c) \/ Program(c) \/ Define(c)
                             \/ Set(c) \/ Shift(c)
      PROVE  UNCHANGED calls
  BY <1>4 DEF Assign, Update, Program, Define, Set, Shift, args
<1>5. CASE Turn \/ StartsProgram \/ UNCHANGED vars
  BY <1>3, <1>5 DEF Turn, StartsProgram, vars, args
<1>6. CASE Leave
  <2>1. calls # <<>> /\ calls' = Tail(calls)
    BY <1>6 DEF Leave
  <2>2. \A k \in DOMAIN calls' : k + 1 \in DOMAIN calls /\ calls'[k] = calls[k + 1]
    BY <1>1, <2>1
  <2> QED
    BY <1>2, <2>2 DEF CallInv
<1>7. ASSUME NEW e \in Call, calls' = <<e>> \o calls, UNCHANGED <<funcs, stolen>>,
             e.node # Nil => /\ e.node \in stolen
                             /\ \A i \in DOMAIN funcs : funcs[i].node = e.node =>
                                                          funcs[i].name = e.name
      PROVE  CallInv'
  <2>1. /\ calls'[1] = e
        /\ \A k \in DOMAIN calls' : k # 1 => k - 1 \in DOMAIN calls /\ calls'[k] = calls[k - 1]
    BY <1>1, <1>7
  <2> QED
    BY <1>7, <2>1 DEF CallInv
<1>8. ASSUME NEW c \in menu, CallFunc(c) PROVE CallInv'
  <2> DEFINE f == funcs[IndexOf(funcs, c.name)]
             e == [kind |-> "func", node |-> f.node, name |-> c.name, argc |-> argc,
                   argv |-> argv, argv0 |-> argv0]
  <2>1. e.node = f.node /\ e.name = c.name
    OBVIOUS
  <2>2. calls' = <<e>> \o calls /\ UNCHANGED <<funcs, stolen>> /\ Has(funcs, c.name)
    BY <1>8 DEF CallFunc, Enter
  <2>3. IndexOf(funcs, c.name) \in DOMAIN funcs /\ f.name = c.name
    BY <1>1, <2>2, IndexFound DEF FuncInv
  <2>5. f \in Func
    BY <1>1, <2>3 DEF FuncInv
  <2>6. e \in Call
    BY <1>1, <2>3, <2>5 DEF ArgType, Call, Func
  <2> HIDE DEF e
  <2>4. f.node # Nil => f.node \in stolen /\ \A i \in DOMAIN funcs : funcs[i].node = f.node =>
                                                                   funcs[i].name = c.name
    BY <1>1, <2>3 DEF FuncInv, BodiesOwned
  <2> QED
    BY <1>7, <2>1, <2>2, <2>4, <2>6
<1>9. ASSUME NEW c \in menu, Source(c) PROVE CallInv'
  <2> DEFINE e == [kind |-> "source", node |-> Nil, name |-> Nil, argc |-> argc,
                   argv |-> argv, argv0 |-> argv0]
  <2>1. e.node = Nil /\ e \in Call
    BY <1>1 DEF ArgType, Call
  <2>2. calls' = <<e>> \o calls /\ UNCHANGED <<funcs, stolen>>
    BY <1>9 DEF Source, Enter
  <2> HIDE DEF e
  <2> QED
    BY <1>7, <2>1, <2>2
<1> QED
  BY <1>3, <1>4, <1>5, <1>6, <1>8, <1>9 DEF Next

\* Only register_func frees a body, the one it replaces: a function in progress loses
\* its body to a definition of the same name, and to nothing else a script can do.
THEOREM FreedByRedefinition == Spec => FreedOnlyWhenRedefined
<1>1. Init => CallInv
  BY DEF Init, CallInv
<1>2. Inv /\ CallInv /\ [Next]_vars =>
        [\A k \in DOMAIN calls :
           calls[k].node \in freed' \ freed =>
             \E i \in DOMAIN funcs' :
               funcs'[i].name = calls[k].name /\ funcs'[i].node # calls[k].node]_vars
  <2> SUFFICES ASSUME Inv, CallInv, Next, NEW k \in DOMAIN calls, calls[k].node \in freed' \ freed
               PROVE  \E i \in DOMAIN funcs' :
                        funcs'[i].name = calls[k].name /\ funcs'[i].node # calls[k].node
    OBVIOUS
  <2>1. PICK c \in menu : Define(c) /\ freed' # freed
    BY DEF Next, Assign, Update, Program, CallFunc, Source, Enter, Set, Shift, Turn,
           StartsProgram, Leave
  <2> DEFINE m == IndexOf(funcs, c.name)
             e == [funcs[m] EXCEPT !.node = Stolen(c)]
  <2>2. /\ Has(funcs, c.name) /\ funcs' = [funcs EXCEPT ![m] = e]
        /\ freed' = freed \cup ({funcs[m].node} \ {Nil})
    BY <2>1 DEF Define
  <2>3. m \in DOMAIN funcs /\ funcs[m] \in Func
    BY <2>2, IndexFound DEF Inv, FuncInv
  <2>4. e.name = funcs[m].name /\ e.node = Stolen(c)
    BY <2>3 DEF Func
  <2>5. calls[k].node = funcs[m].node /\ calls[k].node # Nil
    BY <2>2
  <2> HIDE DEF m, e
  <2>6. m \in DOMAIN funcs' /\ funcs'[m] = e
    BY <2>2, <2>3 DEF Inv, FuncInv
  <2>7. calls[k].node \in stolen /\ funcs[m].name = calls[k].name
    BY <2>3, <2>5 DEF CallInv
  <2>8. Stolen(c) # calls[k].node
    BY <2>5, <2>7 DEF Stolen
  <2> QED
    BY <2>4, <2>6, <2>7, <2>8
<1> QED
  BY <1>1, <1>2, CallStep, InvHolds, PTL DEF Spec, FreedOnlyWhenRedefined

-----------------------------------------------------------------------------
(***************************************************************************)
(* Saved pointers.                                                         *)
(***************************************************************************)
\* n arguments and a null pointer, at p.
Readable(n, p) ==
  /\ p.at + n < Len(arrays[p.array])
  /\ \A i \in (p.at + 1)..(p.at + n) : arrays[p.array][i] \in Word

\* A pointer never leads to the words of a call deeper than the scope it belongs to,
\* so the words of the next call overwrite nothing that is still in use.
ReadInv ==
  /\ Readable(argc, argv) /\ argv.array <= Len(calls)
  /\ \A k \in DOMAIN calls :
       Readable(calls[k].argc, calls[k].argv) /\ calls[k].argv.array <= Len(calls) - k

LEMMA LevelsAre ==
  ASSUME ArgType
  PROVE  /\ DOMAIN Levels = 1..(Len(calls) + 1)
         /\ Levels[1] = [argc |-> argc, argv |-> argv]
         /\ \A k \in DOMAIN calls :
              Levels[k + 1] = [argc |-> calls[k].argc, argv |-> calls[k].argv]
<1> DEFINE top == [argc |-> argc, argv |-> argv]
           S == [argc : Nat, argv : Pointer]
           below == [k \in DOMAIN calls |-> [argc |-> calls[k].argc, argv |-> calls[k].argv]]
<1>1. DOMAIN calls = 1..Len(calls) /\ Len(calls) \in Nat
  BY DEF ArgType
<1>2. top \in S
  BY DEF ArgType
<1>3. \A k \in DOMAIN calls : calls[k].argc \in Nat /\ calls[k].argv \in Pointer
  <2>1. \A k \in DOMAIN calls : calls[k] \in Call
    BY DEF ArgType
  <2> QED
    BY <2>1 DEF Call
<1>4. below \in Seq(S) /\ Len(below) = Len(calls)
  BY <1>1, <1>3
<1>5. Levels = <<top>> \o below
  BY DEF Levels
<1>6. \A k \in DOMAIN calls : below[k] = [argc |-> calls[k].argc, argv |-> calls[k].argv]
  OBVIOUS
<1> HIDE DEF top, below, S
<1>7. /\ DOMAIN Levels = 1..(Len(calls) + 1) /\ Levels[1] = top
      /\ \A k \in DOMAIN calls : Levels[k + 1] = below[k]
  BY <1>1, <1>2, <1>4, <1>5
<1> QED
  BY <1>6, <1>7 DEF top

LEMMA ReadInit == Init => ReadInv
<1> SUFFICES ASSUME Init PROVE ReadInv
  OBVIOUS
<1>1. calls = <<>> /\ argc = Len(Started) /\ argv = [array |-> Main, at |-> 0]
  BY DEF Init
<1>2. Main \in ArrayId /\ Main # Static
  BY ArgsAssumption DEF ArrayId, Static, Main
<1>3. arrays[Main] = Append(Started, Nil)
  BY <1>2 DEF Init
<1>4. Readable(argc, argv)
  BY <1>1, <1>3, StartedAssumption DEF Readable
<1> QED
  BY <1>1, <1>4 DEF ReadInv, Main

LEMMA ReadEnter ==
  ASSUME ArgType, ReadInv, NEW kind, NEW node, NEW name, NEW words \in Seq(Word), NEW zero,
         Enter(kind, node, name, words, zero)
  PROVE  ReadInv'
<1> DEFINE call == [kind |-> kind, node |-> node, name |-> name, argc |-> argc,
                    argv |-> argv, argv0 |-> argv0]
           d == Len(calls) + 1
<1>1. calls' = <<call>> \o calls
  BY DEF Enter
<1>2. call.argc = argc /\ call.argv = argv
  OBVIOUS
<1> HIDE DEF call
<1>3. calls \in Seq(Call) /\ Len(calls) \in Nat
  BY DEF ArgType
<1>4. /\ Len(calls') = d /\ calls'[1] = call /\ DOMAIN calls' = 1..d
      /\ \A k \in DOMAIN calls : calls'[k + 1] = calls[k]
      /\ \A k \in DOMAIN calls' : k # 1 => k - 1 \in DOMAIN calls /\ calls'[k] = calls[k - 1]
  BY <1>1, <1>3
<1>5. argc' = Len(words) /\ argv' = [array |-> d, at |-> 0]
      /\ arrays' = [arrays EXCEPT ![d] = Append(words, Nil)]
  BY DEF Enter
<1>6. d \in ArrayId
  BY <1>3, ArgsAssumption DEF Enter, ArrayId, Static
<1>7. arrays'[d] = Append(words, Nil) /\ \A a \in ArrayId \ {d} : arrays'[a] = arrays[a]
  BY <1>5, <1>6 DEF ArgType
<1>8. Readable(argc, argv)'
  BY <1>5, <1>7 DEF Readable
<1>9. \A k \in DOMAIN calls : calls[k].argv \in Pointer
  <2>1. \A k \in DOMAIN calls : calls[k] \in Call
    BY <1>3
  <2> QED
    BY <2>1 DEF Call
<1>10. ASSUME NEW n, NEW p \in Pointer, Readable(n, p), p.array <= Len(calls)
       PROVE  p.at + n < Len(arrays'[p.array])
              /\ \A i \in (p.at + 1)..(p.at + n) : arrays'[p.array][i] \in Word
  <2>1. p.array \in ArrayId \ {d}
    BY <1>3, <1>10 DEF Pointer, ArrayId, Static
  <2> QED
    BY <1>7, <1>10, <2>1 DEF Readable
<1>11. ASSUME NEW k \in DOMAIN calls'
       PROVE  Readable(calls[k].argc, calls[k].argv)' /\ calls'[k].argv.array <= d - k
  <2>1. CASE k = 1
    <3>1. argv \in Pointer /\ Readable(argc, argv) /\ argv.array <= Len(calls)
      BY DEF ReadInv, ArgType
    <3>2. calls'[k].argc = argc /\ calls'[k].argv = argv
      BY <1>2, <1>4, <2>1
    <3> QED
      BY <1>10, <2>1, <3>1, <3>2 DEF Readable
  <2>2. CASE k # 1
    <3>1. k - 1 \in DOMAIN calls /\ calls'[k] = calls[k - 1] /\ k \in Nat
      BY <1>4, <2>2
    <3>2. /\ calls[k - 1].argv \in Pointer
          /\ Readable(calls[k - 1].argc, calls[k - 1].argv)
          /\ calls[k - 1].argv.array <= Len(calls) - (k - 1)
      BY <1>9, <3>1 DEF ReadInv
    <3>3. calls[k - 1].argv.array \in Int /\ k - 1 >= 1
      BY <1>3, <3>1, <3>2 DEF Pointer, ArrayId, Static
    <3>4. calls[k - 1].argv.array <= Len(calls) /\ calls[k - 1].argv.array <= d - k
      BY <1>3, <3>1, <3>2, <3>3
    <3> QED
      BY <1>10, <3>1, <3>2, <3>4 DEF Readable
  <2> QED
    BY <2>1, <2>2
<1>12. argv'.array <= Len(calls')
  BY <1>3, <1>4, <1>5
<1> QED
  BY <1>4, <1>8, <1>11, <1>12 DEF ReadInv

\* Where the array of set is the innermost scope's, no call has saved a pointer to it.
LEMMA StaticOnly ==
  ArgType /\ StaticOnce =>
    (argv.array = Static => \A k \in DOMAIN calls : calls[k].argv.array # Static)
<1> SUFFICES ASSUME ArgType, StaticOnce, argv.array = Static, NEW k \in DOMAIN calls,
                    calls[k].argv.array = Static
             PROVE  FALSE
  OBVIOUS
<1>1. k \in 1..Len(calls) /\ Len(calls) \in Nat
  BY DEF ArgType
<1>2. 1 \in DOMAIN Levels /\ k + 1 \in DOMAIN Levels /\ k + 1 # 1
  BY <1>1, LevelsAre
<1>3. /\ Levels[1] = [argc |-> argc, argv |-> argv]
      /\ Levels[k + 1] = [argc |-> calls[k].argc, argv |-> calls[k].argv]
  BY LevelsAre, Zenon
<1>4. [argc |-> argc, argv |-> argv].argv = argv
      /\ [argc |-> calls[k].argc, argv |-> calls[k].argv].argv = calls[k].argv
  OBVIOUS
<1>5. Levels[1].argv = argv /\ Levels[k + 1].argv = calls[k].argv
  BY <1>3, <1>4, Zenon
<1> QED
  BY <1>2, <1>5 DEF StaticOnce

\* What set writes is read by nobody outside its scope.
LEMMA ReadSet ==
  ASSUME ArgType, ReadInv, NEW c \in menu, Set(c),
         argv'.array = Static => \A k \in DOMAIN calls' : calls'[k].argv.array # Static
  PROVE  ReadInv'
<1>1. c.words \in Seq(SetWord)
  BY Carried DEF ArgType, Set, Runs
<1>2. CASE OnlyOptions(c.words)
  BY <1>2 DEF Set, ReadInv, Readable
<1>3. CASE ~OnlyOptions(c.words)
  <2> DEFINE kept == Kept(c.words)
             old == arrays[Static]
             new == [i \in DOMAIN old |-> CASE i <= Len(kept)     -> kept[i].word
                                            [] i = Len(kept) + 1 -> Nil
                                            [] OTHER             -> old[i]]
  <2>1. kept \in Seq(SetWord) /\ Len(kept) < MaxArgs
    BY <1>1, <1>3, KeptFits
  <2>2. argc' = Len(kept) /\ argv' = [array |-> Static, at |-> 0]
        /\ arrays' = [arrays EXCEPT ![Static] = new] /\ calls' = calls
    BY <1>3 DEF Set
  <2> HIDE DEF kept
  <2>3. Static \in ArrayId /\ DOMAIN old = 1..MaxArgs /\ MaxArgs \in Nat
    BY ArgsAssumption DEF ArgType, ArrayId, Static
  <2>4. \A i \in 1..Len(kept) : kept[i].word \in Word
    <3>1. \A i \in 1..Len(kept) : kept[i] \in SetWord
      BY <2>1
    <3> QED
      BY <3>1 DEF SetWord
  <2>5. Len(new) = MaxArgs /\ \A i \in 1..Len(kept) : new[i] \in Word
    BY <2>1, <2>3, <2>4
  <2> HIDE DEF new
  <2>6. arrays'[Static] = new /\ \A a \in ArrayId \ {Static} : arrays'[a] = arrays[a]
    BY <2>2, <2>3 DEF ArgType
  <2>7. Readable(argc, argv)'
    BY <2>1, <2>2, <2>5, <2>6 DEF Readable
  <2>8. argv'.array <= Len(calls')
    BY <2>2 DEF Static, ArgType
  <2>9. ASSUME NEW k \in DOMAIN calls
        PROVE  Readable(calls[k].argc, calls[k].argv)' /\ calls'[k].argv.array <= Len(calls') - k
    <3>1. calls[k] \in Call
      BY DEF ArgType
    <3>2. calls[k].argv.array \in ArrayId \ {Static}
      BY <2>2, <3>1 DEF Call, Pointer
    <3> QED
      BY <2>2, <2>6, <3>2 DEF ReadInv, Readable
  <2> QED
    BY <2>2, <2>7, <2>8, <2>9 DEF ReadInv
<1> QED
  BY <1>2, <1>3

LEMMA ReadShift ==
  ASSUME ArgType, ReadInv, NEW c \in menu, Shift(c)
  PROVE  ReadInv'
<1>1. c.amount \in Int
  BY Carried DEF Shift, Runs, ArgType
<1>2. UNCHANGED <<arrays, calls>>
  BY DEF Shift
<1>3. argc \in Nat /\ argv.at \in Nat /\ argv \in Pointer
      /\ Len(arrays[argv.array]) \in Nat
  BY DEF ArgType, Pointer
<1>4. argv'.array = argv.array /\ argv'.at \in Nat /\ argc' \in Nat
      /\ argv'.at + argc' <= argv.at + argc /\ argv'.at >= argv.at
  BY <1>1, <1>3 DEF Shift, Pointer
<1>5. Readable(argc, argv)'
  BY <1>2, <1>3, <1>4 DEF ReadInv, Readable
<1> QED
  BY <1>2, <1>4, <1>5 DEF ReadInv, Readable

\* load_args finds what it saved.
LEMMA ReadLeave == ArgType /\ ReadInv /\ Leave => ReadInv'
<1> SUFFICES ASSUME ArgType, ReadInv, Leave PROVE ReadInv'
  OBVIOUS
<1>1. calls \in Seq(Call) /\ calls # <<>>
  BY DEF ArgType, Leave
<1>2. /\ 1 \in DOMAIN calls /\ Head(calls) = calls[1]
      /\ Len(calls) \in Nat \ {0} /\ Len(Tail(calls)) = Len(calls) - 1
      /\ \A k \in DOMAIN Tail(calls) :
           k \in Nat /\ k + 1 \in DOMAIN calls /\ Tail(calls)[k] = calls[k + 1]
  BY <1>1
<1>3. argc' = calls[1].argc /\ argv' = calls[1].argv /\ calls' = Tail(calls)
      /\ arrays' = arrays
  BY <1>2 DEF Leave
<1>4. Readable(argc, argv)' /\ argv'.array <= Len(calls')
  BY <1>2, <1>3 DEF ReadInv, Readable
<1>5. ASSUME NEW k \in DOMAIN calls'
      PROVE  Readable(calls[k].argc, calls[k].argv)' /\ calls'[k].argv.array <= Len(calls') - k
  <2>1. k \in Nat /\ k + 1 \in DOMAIN calls /\ calls'[k] = calls[k + 1]
    BY <1>2, <1>3
  <2>2. calls[k + 1] \in Call
    BY <1>1, <2>1
  <2>3. calls[k + 1].argv.array \in Int
    BY <2>2 DEF Call, Pointer, ArrayId, Static
  <2> QED
    BY <1>2, <1>3, <2>1, <2>3 DEF ReadInv, Readable
<1> QED
  BY <1>4, <1>5 DEF ReadInv

LEMMA ReadStep == Inv /\ ReadInv /\ [Next /\ StaticOnce']_vars /\ ArgType' => ReadInv'
<1> SUFFICES ASSUME Inv, ReadInv, [Next /\ StaticOnce']_vars, ArgType' PROVE ReadInv'
  OBVIOUS
<1> USE DEF args
<1>1. CASE UNCHANGED args
  BY <1>1 DEF ReadInv, Readable
<1>2. ASSUME NEW c \in menu, Assign(c) \/ Update(c) \/ Program(c) \/ Define(c)
      PROVE  UNCHANGED args
  BY <1>2 DEF Assign, Update, Program, Define
<1>3. ASSUME NEW c \in menu, CallFunc(c) \/ Source(c) PROVE ReadInv'
  BY <1>3, Carried, ReadEnter DEF CallFunc, Source, Runs, Inv, ArgType
<1>4. ASSUME NEW c \in menu, Set(c), StaticOnce' PROVE ReadInv'
  <2>1. (ArgType /\ StaticOnce =>
          (argv.array = Static => \A k \in DOMAIN calls : calls[k].argv.array # Static))'
    BY StaticOnly, PTL
  <2>2. argv'.array = Static => \A k \in DOMAIN calls' : calls'[k].argv.array # Static
    BY <1>4, <2>1
  <2> QED
    BY <1>4, <2>2, ReadSet DEF Inv
<1>5. ASSUME NEW c \in menu, Shift(c) PROVE ReadInv'
  BY <1>5, ReadShift DEF Inv
<1>6. CASE Leave
  BY <1>6, ReadLeave DEF Inv
<1>7. CASE Turn \/ StartsProgram \/ UNCHANGED vars
  BY <1>1, <1>7 DEF Turn, StartsProgram, vars
<1> QED
  BY <1>1, <1>2, <1>3, <1>4, <1>5, <1>6, <1>7 DEF Next

\* As long as set is not used both in a call and around it, every pointer that is in
\* use or saved leads to as many arguments as its count says, and a null pointer:
\* for any scripts, any nesting, and any length of the array of set.
THEOREM ParametersStayReadable == SetOnceSpec => []ParametersReadable
<1>1. SetOnceSpec => Spec
  <2>1. [Next /\ StaticOnce']_vars => [Next]_vars
    OBVIOUS
  <2> QED
    BY <2>1, PTL DEF SetOnceSpec, Spec
<1>2. Init => ReadInv
  BY ReadInit
<1>3. Inv /\ Inv' /\ ReadInv /\ [Next /\ StaticOnce']_vars => ReadInv'
  BY ReadStep DEF Inv
<1>4. Inv /\ ReadInv => ParametersReadable
  <2> SUFFICES ASSUME Inv, ReadInv, NEW k \in DOMAIN Levels
               PROVE  Readable(Levels[k].argc, Levels[k].argv)
    BY DEF Readable, ParametersReadable
  <2>1. CASE k = 1
    BY <2>1, LevelsAre DEF Inv, ReadInv
  <2>2. CASE k # 1
    <3>1. k - 1 \in DOMAIN calls /\ k = (k - 1) + 1
      BY <2>2, LevelsAre DEF Inv, ArgType
    <3>2. Levels[k] = [argc |-> calls[k - 1].argc, argv |-> calls[k - 1].argv]
      BY <3>1, LevelsAre, Zenon DEF Inv
    <3> QED
      BY <3>1, <3>2 DEF ReadInv
  <2> QED
    BY <2>1, <2>2
<1> QED
  BY <1>1, <1>2, <1>3, <1>4, InvHolds, PTL DEF SetOnceSpec
-----------------------------------------------------------------------------
(***************************************************************************)
(* The refinement of ShellState by TashState, for any names, values, bodies*)
(* and menus of commands: vectors are maps from names, saved pointers are  *)
(* the parameters of the scopes outside, and a forked child is a set of    *)
(* assignments that nobody else sees.                                      *)
(***************************************************************************)

\* What a vector means: the value of each name, and whether it is exported.
Unset == [value |-> Nil, exported |-> FALSE]
Entry(t, n) ==
  IF Has(t, n) THEN [value |-> t[IndexOf(t, n)].value, exported |-> t[IndexOf(t, n)].exported]
  ELSE Unset

\* An entry of a vector without duplicates is the entry of its name.
LEMMA EntryAt ==
  ASSUME NEW S, NEW t \in Seq(S), Distinct(t), NEW i \in DOMAIN t
  PROVE  Has(t, t[i].name) /\ IndexOf(t, t[i].name) = i
<1>1. Has(t, t[i].name)
  BY DEF Has
<1> QED
  BY <1>1, IndexFound DEF Distinct

\* What a name can stand for.
LEMMA EntryType ==
  ASSUME NEW t \in Seq(Var), Distinct(t), NEW n
  PROVE  /\ Entry(t, n) \in [value : Value, exported : BOOLEAN] \cup {Unset}
         /\ Has(t, n) <=> Entry(t, n).value # Nil
         /\ Has(t, n) <=> Entry(t, n) # Unset
<1>1. CASE Has(t, n)
  <2>1. IndexOf(t, n) \in DOMAIN t
    BY <1>1, IndexFound
  <2>2. t[IndexOf(t, n)] \in Var
    BY <2>1
  <2>3. t[IndexOf(t, n)].value \in Value /\ t[IndexOf(t, n)].exported \in BOOLEAN
    BY <2>2 DEF Var
  <2> QED
    BY <1>1, <2>3, NilAssumption DEF Entry, Unset
<1>2. CASE ~Has(t, n)
  BY <1>2 DEF Entry, Unset
<1> QED
  BY <1>1, <1>2

\* Two vectors with the same entries of a name agree on it.
LEMMA EntrySame ==
  ASSUME NEW S, NEW t \in Seq(S), NEW a \in Seq(S), Distinct(t), Distinct(a), NEW n,
         \A i \in DOMAIN a : a[i].name = n => \E k \in DOMAIN t : t[k] = a[i],
         \A k \in DOMAIN t : t[k].name = n => \E i \in DOMAIN a : a[i] = t[k]
  PROVE  Entry(a, n) = Entry(t, n)
<1>1. CASE Has(t, n)
  <2> DEFINE k == IndexOf(t, n)
  <2>1. k \in DOMAIN t /\ t[k].name = n
    BY <1>1, IndexFound
  <2>2. PICK i \in DOMAIN a : a[i] = t[k]
    BY <2>1
  <2>3. Has(a, n) /\ IndexOf(a, n) = i
    BY <2>1, <2>2, EntryAt
  <2> QED
    BY <1>1, <2>2, <2>3 DEF Entry
<1>2. CASE ~Has(t, n)
  <2>1. ~Has(a, n)
    BY <1>2 DEF Has
  <2> QED
    BY <1>2, <2>1 DEF Entry
<1> QED
  BY <1>1, <1>2

\* One entry is changed and keeps its name.
LEMMA EntryReplaced ==
  ASSUME NEW S, NEW t \in Seq(S), Distinct(t), NEW k \in DOMAIN t, NEW e \in S,
         e.name = t[k].name, NEW m
  PROVE  Entry([t EXCEPT ![k] = e], m) =
           IF m = t[k].name THEN [value |-> e.value, exported |-> e.exported] ELSE Entry(t, m)
<1> DEFINE a == [t EXCEPT ![k] = e]
<1>1. a \in Seq(S) /\ Distinct(a)
  BY ReplaceDistinct, Zenon
<1>2. DOMAIN a = DOMAIN t /\ a[k] = e /\ \A i \in DOMAIN t : i # k => a[i] = t[i]
  OBVIOUS
<1> HIDE DEF a
<1>3. CASE m = t[k].name
  <2>1. Has(a, m) /\ IndexOf(a, m) = k
    BY <1>1, <1>2, <1>3, EntryAt
  <2> QED
    BY <1>2, <1>3, <2>1 DEF Entry, a
<1>4. CASE m # t[k].name
  <2>1. Entry(a, m) = Entry(t, m)
    BY <1>1, <1>2, <1>4, EntrySame
  <2> QED
    BY <1>4, <2>1 DEF a
<1> QED
  BY <1>3, <1>4

\* One entry is added.
LEMMA EntryAppended ==
  ASSUME NEW S, NEW t \in Seq(S), Distinct(t), NEW e \in S, ~Has(t, e.name), NEW m
  PROVE  Entry(Append(t, e), m) =
           IF m = e.name THEN [value |-> e.value, exported |-> e.exported] ELSE Entry(t, m)
<1> DEFINE a == Append(t, e)
<1>1. a \in Seq(S) /\ Distinct(a)
  BY AppendDistinct
<1>2. /\ Len(t) + 1 \in DOMAIN a /\ a[Len(t) + 1] = e
      /\ \A i \in DOMAIN t : i \in DOMAIN a /\ a[i] = t[i]
      /\ \A i \in DOMAIN a : i = Len(t) + 1 \/ (i \in DOMAIN t /\ a[i] = t[i])
  OBVIOUS
<1> HIDE DEF a
<1>3. CASE m = e.name
  <2>1. Has(a, m) /\ IndexOf(a, m) = Len(t) + 1
    BY <1>1, <1>2, <1>3, EntryAt
  <2> QED
    BY <1>2, <1>3, <2>1 DEF Entry, a
<1>4. CASE m # e.name
  <2>1. Entry(a, m) = Entry(t, m)
    BY <1>1, <1>2, <1>4, EntrySame
  <2> QED
    BY <1>4, <2>1 DEF a
<1> QED
  BY <1>3, <1>4

LEMMA NotLast == ASSUME NEW n \in Nat, NEW m \in 1..n, m # n PROVE m \in 1..(n - 1)
  OBVIOUS

\* The swap with last trick takes out the entry of one name, and loses no other.
LEMMA WithoutKeeps ==
  ASSUME NEW S, NEW t \in Seq(S), NEW n, Distinct(t)
  PROVE  /\ \A k \in DOMAIN t : t[k].name # n =>
                \E i \in DOMAIN Without(t, n) : Without(t, n)[i] = t[k]
         /\ \A i \in DOMAIN Without(t, n) : \E k \in DOMAIN t : t[k] = Without(t, n)[i]
         /\ \A i \in DOMAIN Without(t, n) : Without(t, n)[i].name # n
<1> DEFINE a == Without(t, n)
           m == IndexOf(t, n)
<1>1. \A i \in DOMAIN a : (\E k \in DOMAIN t : t[k] = a[i]) /\ a[i].name # n
  BY WithoutDistinct DEF Has
<1>2. ASSUME NEW k \in DOMAIN t, t[k].name # n
      PROVE  \E i \in DOMAIN a : a[i] = t[k]
  <2>1. CASE ~Has(t, n)
    BY <2>1 DEF Without
  <2>2. CASE Has(t, n)
    <3>1. m \in 1..Len(t) /\ t[m].name = n /\ DOMAIN t = 1..Len(t) /\ Len(t) \in Nat
      BY <2>2, IndexFound
    <3>2. a = [i \in 1..(Len(t) - 1) |-> IF i = m THEN t[Len(t)] ELSE t[i]]
      BY <2>2 DEF Without
    <3> HIDE DEF a, m
    <3>3. k # m
      BY <1>2, <3>1
    <3>4. CASE k = Len(t)
      <4>1. m \in 1..(Len(t) - 1)
        BY <3>1, <3>3, <3>4, NotLast
      <4> QED
        BY <3>2, <3>4, <4>1
    <3>5. CASE k # Len(t)
      <4>1. k \in 1..(Len(t) - 1)
        BY <3>1, <3>5, NotLast
      <4> QED
        BY <3>2, <3>3, <4>1
    <3> QED
      BY <3>4, <3>5
  <2> QED
    BY <2>1, <2>2
<1> QED
  BY <1>1, <1>2

LEMMA EntryWithout ==
  ASSUME NEW t \in Seq(Var), Distinct(t), NEW n, NEW m
  PROVE  Entry(Without(t, n), m) = IF m = n THEN Unset ELSE Entry(t, m)
<1>1. Without(t, n) \in Seq(Var) /\ Distinct(Without(t, n)) /\ ~Has(Without(t, n), n)
  BY WithoutDistinct
<1>2. CASE m = n
  BY <1>1, <1>2 DEF Entry
<1>3. CASE m # n
  <2>1. Entry(Without(t, n), m) = Entry(t, m)
    BY <1>1, <1>3, WithoutKeeps, EntrySame
  <2> QED
    BY <1>3, <2>1
<1> QED
  BY <1>2, <1>3

LEMMA EntryPut ==
  ASSUME NEW t \in Seq(Var), NEW n \in Name, NEW v \in Value, Distinct(t), NEW m
  PROVE  Entry(PutVar(t, n, v), m) = IF m = n THEN [value |-> v, exported |-> Entry(t, n).exported] ELSE Entry(t, m)
<1>1. CASE Has(t, n)
  <2> DEFINE k == IndexOf(t, n)
             e == [t[k] EXCEPT !.value = v]
  <2>1. k \in DOMAIN t /\ t[k].name = n
    BY <1>1, IndexFound
  <2>2. t[k] \in Var
    BY <2>1
  <2>3. e \in Var /\ e.name = t[k].name /\ e.value = v /\ e.exported = t[k].exported
    BY <2>2 DEF Var
  <2>4. PutVar(t, n, v) = [t EXCEPT ![k] = e]
    BY <1>1 DEF PutVar
  <2>5. Entry(t, n).exported = t[k].exported
    BY <1>1 DEF Entry
  <2> HIDE DEF k, e
  <2>6. Entry([t EXCEPT ![k] = e], m) =
           IF m = t[k].name THEN [value |-> e.value, exported |-> e.exported] ELSE Entry(t, m)
    BY <2>1, <2>3, EntryReplaced
  <2> QED
    BY <2>1, <2>3, <2>4, <2>5, <2>6
<1>2. CASE ~Has(t, n)
  <2> DEFINE e == [name |-> n, value |-> v, exported |-> FALSE]
  <2>1. e \in Var /\ e.name = n /\ e.value = v /\ e.exported = FALSE
    BY DEF Var
  <2>2. PutVar(t, n, v) = Append(t, e)
    BY <1>2 DEF PutVar
  <2>3. Entry(t, n).exported = FALSE
    BY <1>2 DEF Entry, Unset
  <2> HIDE DEF e
  <2>4. Entry(Append(t, e), m) =
          IF m = e.name THEN [value |-> e.value, exported |-> e.exported] ELSE Entry(t, m)
    <3>1. e \in Var /\ ~Has(t, e.name)
      BY <1>2, <2>1, Zenon
    <3> QED
      BY <3>1, EntryAppended
  <2>5. CASE m = n
    BY <2>1, <2>2, <2>3, <2>4, <2>5, Zenon
  <2>6. CASE m # n
    BY <2>1, <2>2, <2>4, <2>6, Zenon
  <2> QED
    BY <2>5, <2>6, Zenon
<1> QED
  BY <1>1, <1>2

LEMMA EntryExport ==
  ASSUME NEW t \in Seq(Var), NEW n \in Name, Distinct(t), NEW m
  PROVE  Entry(ExportVar(t, n), m) =
           IF m = n THEN [value |-> IF Entry(t, n).value = Nil THEN Empty ELSE Entry(t, n).value,
                          exported |-> TRUE]
           ELSE Entry(t, m)
<1>1. CASE Has(t, n)
  <2> DEFINE k == IndexOf(t, n)
             e == [t[k] EXCEPT !.exported = TRUE]
  <2>1. k \in DOMAIN t /\ t[k].name = n
    BY <1>1, IndexFound
  <2>2. t[k] \in Var
    BY <2>1
  <2>3. e \in Var /\ e.name = t[k].name /\ e.value = t[k].value /\ e.exported = TRUE
    BY <2>2 DEF Var
  <2>4. ExportVar(t, n) = [t EXCEPT ![k] = e]
    BY <1>1 DEF ExportVar
  <2>5. Entry(t, n).value = t[k].value /\ Entry(t, n).value # Nil
    BY <1>1, EntryType DEF Entry
  <2> HIDE DEF k, e
  <2>6. Entry([t EXCEPT ![k] = e], m) =
           IF m = t[k].name THEN [value |-> e.value, exported |-> e.exported] ELSE Entry(t, m)
    BY <2>1, <2>3, EntryReplaced
  <2> QED
    BY <2>1, <2>3, <2>4, <2>5, <2>6
<1>2. CASE ~Has(t, n)
  <2> DEFINE e == [name |-> n, value |-> Empty, exported |-> TRUE]
  <2>1. e \in Var /\ e.name = n /\ e.value = Empty /\ e.exported = TRUE
    BY NilAssumption DEF Var
  <2>2. ExportVar(t, n) = Append(t, e)
    BY <1>2 DEF ExportVar
  <2>3. Entry(t, n).value = Nil
    BY <1>2 DEF Entry, Unset
  <2> HIDE DEF e
  <2> QED
    BY <1>2, <2>1, <2>2, <2>3, EntryAppended
<1> QED
  BY <1>1, <1>2

\* setup_environ hands out what is exported, with its value.
LEMMA EnvironEntries ==
  ASSUME NEW t \in Seq(Var), Distinct(t)
  PROVE  Environ(t) = [n \in {m \in Name : Entry(t, m).exported} |-> Entry(t, n).value]
<1> DEFINE exported == {i \in DOMAIN t : t[i].exported}
           names == {t[i].name : i \in exported}
           Last(n) == CHOOSE i \in exported :
                        t[i].name = n /\ \A j \in exported : t[j].name = n => j <= i
<1>1. Environ(t) = [n \in names |-> t[Last(n)].value]
  BY DEF Environ
<1>2. \A i \in DOMAIN t : /\ t[i] \in Var /\ t[i].name \in Name /\ i \in Nat
                          /\ Has(t, t[i].name) /\ IndexOf(t, t[i].name) = i
  <2>1. \A i \in DOMAIN t : t[i] \in Var /\ i \in Nat
    OBVIOUS
  <2> QED
    BY <2>1, EntryAt DEF Var
<1>3. names = {m \in Name : Entry(t, m).exported}
  <2>1. ASSUME NEW m \in names PROVE m \in Name /\ Entry(t, m).exported
    <3>1. PICK i \in exported : t[i].name = m
      OBVIOUS
    <3> QED
      BY <1>2, <3>1 DEF Entry
  <2>2. ASSUME NEW m \in Name, Entry(t, m).exported PROVE m \in names
    <3>1. Has(t, m)
      BY <2>2 DEF Entry, Unset
    <3>2. IndexOf(t, m) \in DOMAIN t /\ t[IndexOf(t, m)].name = m
      BY <3>1, IndexFound
    <3> QED
      BY <2>2, <3>1, <3>2 DEF Entry
  <2> QED
    BY <2>1, <2>2
<1>4. ASSUME NEW n \in names PROVE t[Last(n)].value = Entry(t, n).value
  <2>1. PICK i \in exported : t[i].name = n
    OBVIOUS
  <2>2. \A j \in exported : t[j].name = n => j = i
    BY <2>1 DEF Distinct
  <2>3. Last(n) = i
    BY <1>2, <2>1, <2>2
  <2> QED
    BY <1>2, <2>1, <2>3 DEF Entry
<1> HIDE DEF names, Last
<1> QED
  BY <1>1, <1>3, <1>4
-----------------------------------------------------------------------------
(***************************************************************************)
(* What a shell promises.                                                  *)
(***************************************************************************)
LEMMA SameSeq ==
  ASSUME NEW S, NEW s \in Seq(S), NEW t \in Seq(S), Len(s) = Len(t),
         \A i \in 1..Len(s) : s[i] = t[i]
  PROVE  s = t
  OBVIOUS

\* What the mapping leaves alone when a step does.
LEMMA SameVariables == ASSUME Variables' = Variables PROVE VarMap' = VarMap
  BY DEF VarMap

LEMMA SameFunctions == ASSUME funcs' = funcs PROVE FuncMap' = FuncMap
  BY DEF FuncMap

LEMMA SameScopes == ASSUME UNCHANGED args PROVE Scopes' = Scopes
  BY DEF args, Scopes, Parameters, Levels, Read

LEMMA VarMapIs == VarMap = [n \in Name |-> Entry(Variables, n)]
  BY DEF VarMap, Entry, Unset

ParamSet == [zero : Word, args : Seq(Word)]

\* The n arguments that p leads to.
Arguments(a, n, p) == [i \in 1..n |-> a[p.array][p.at + i]]

LEMMA ArgumentsType ==
  ASSUME ArgType, NEW n \in Nat, NEW p \in Pointer, Readable(n, p)
  PROVE  Arguments(arrays, n, p) \in Seq(Word)
<1>1. \A i \in 1..n : arrays[p.array][p.at + i] \in Word
  BY DEF Readable, Pointer
<1> QED
  BY <1>1 DEF Arguments

LEMMA SameArguments ==
  ASSUME NEW a, NEW b, NEW n, NEW p, a[p.array] = b[p.array]
  PROVE  Arguments(a, n, p) = Arguments(b, n, p)
  BY DEF Arguments

\* The scopes as the pointers have them.
ScopesFit ==
  /\ calls \in Seq(Call)
  /\ Scopes \in Seq(ParamSet) /\ Len(Scopes) = Len(calls) + 1
  /\ Scopes[1] = [zero |-> argv0, args |-> Arguments(arrays, argc, argv)]
  /\ \A k \in DOMAIN calls :
       Scopes[k + 1] = [zero |-> calls[k].argv0,
                        args |-> Arguments(arrays, calls[k].argc, calls[k].argv)]

LEMMA ScopesAre == ArgType /\ ReadInv => ScopesFit
<1> SUFFICES ASSUME ArgType, ReadInv PROVE ScopesFit
  OBVIOUS
<1>1. DOMAIN calls = 1..Len(calls) /\ Len(calls) \in Nat
  BY DEF ArgType
<1>2. \A k \in DOMAIN calls :
         calls[k].argc \in Nat /\ calls[k].argv \in Pointer /\ calls[k].argv0 \in Word
  <2>1. \A k \in DOMAIN calls : calls[k] \in Call
    BY DEF ArgType
  <2> QED
    BY <2>1 DEF Call
<1>3. Scopes = [k \in 1..(Len(calls) + 1) |->
                  [zero |-> IF k = 1 THEN argv0 ELSE calls[k - 1].argv0,
                   args |-> Arguments(arrays, Levels[k].argc, Levels[k].argv)]]
  BY LevelsAre DEF Scopes, Parameters, Read, Arguments
<1>4. Levels[1].argc = argc /\ Levels[1].argv = argv
  BY LevelsAre
<1>5. ASSUME NEW k \in DOMAIN calls
      PROVE  Levels[k + 1].argc = calls[k].argc /\ Levels[k + 1].argv = calls[k].argv
  <2>1. Levels[k + 1] = [argc |-> calls[k].argc, argv |-> calls[k].argv]
    BY LevelsAre, Zenon
  <2> QED
    BY <2>1
<1>6. Arguments(arrays, argc, argv) \in Seq(Word)
  BY ArgumentsType DEF ArgType, ReadInv
<1>7. \A k \in DOMAIN calls : Arguments(arrays, calls[k].argc, calls[k].argv) \in Seq(Word)
  BY <1>2, ArgumentsType DEF ReadInv
<1>8. Scopes[1] = [zero |-> argv0, args |-> Arguments(arrays, argc, argv)]
  BY <1>1, <1>3, <1>4
<1>9. ASSUME NEW k \in DOMAIN calls
      PROVE  Scopes[k + 1] = [zero |-> calls[k].argv0,
                              args |-> Arguments(arrays, calls[k].argc, calls[k].argv)]
  <2>1. k + 1 \in 1..(Len(calls) + 1) /\ k + 1 # 1 /\ (k + 1) - 1 = k
    BY <1>1
  <2> QED
    BY <1>3, <1>5, <2>1
<1>10. ASSUME NEW k \in 1..(Len(calls) + 1) PROVE Scopes[k] \in ParamSet
  <2>1. CASE k = 1
    BY <1>6, <1>8, <2>1 DEF ParamSet, ArgType
  <2>2. CASE k # 1
    <3>1. k - 1 \in DOMAIN calls /\ k = (k - 1) + 1
      BY <1>1, <2>2
    <3>2. Scopes[k] = [zero |-> calls[k - 1].argv0,
                       args |-> Arguments(arrays, calls[k - 1].argc, calls[k - 1].argv)]
      BY <1>9, <3>1, Zenon
    <3>3. /\ calls[k - 1].argv0 \in Word
          /\ Arguments(arrays, calls[k - 1].argc, calls[k - 1].argv) \in Seq(Word)
      BY <1>2, <1>7, <3>1
    <3> QED
      BY <3>2, <3>3 DEF ParamSet
  <2> QED
    BY <2>1, <2>2
<1>11. Scopes \in Seq(ParamSet) /\ Len(Scopes) = Len(calls) + 1 /\ calls \in Seq(Call)
  BY <1>1, <1>3, <1>10 DEF ArgType
<1> QED
  BY <1>8, <1>9, <1>11 DEF ScopesFit

LEMMA PromisedInit == Init => Promised!Init
<1> SUFFICES ASSUME Init PROVE Promised!Init
  OBVIOUS
<1>1. /\ child = <<>> /\ todo = <<>> /\ funcs = <<>> /\ stolen = {}
      /\ env = [n \in {} |-> Empty]
  BY DEF Init
<1>2. shvars \in Seq(Var) /\ Distinct(shvars)
  BY VarInit DEF VarInv
<1>3. VarMap \in [Name -> [value : Value, exported : BOOLEAN] \cup {Unset}]
  BY <1>1, <1>2, EntryType, VarMapIs DEF Variables
<1>4. FuncMap = [n \in Name |-> {}]
  BY <1>1 DEF FuncMap
<1>5. Len(Scopes) = 1
  <2>1. Len(Scopes) = Len(calls) + 1 /\ calls = <<>>
    BY ArgTypeInit, ReadInit, ScopesAre DEF Init, ScopesFit
  <2> QED
    BY <2>1
<1> QED
  BY <1>1, <1>3, <1>4, <1>5 DEF Promised!Init, Promised!NonePending, Promised!Unset, Unset

LEMMA PromisedBegin ==
  ASSUME Inv, NEW c \in menu, Assign(c) \/ Update(c)
  PROVE  Promised!Begin(c)
<1>1. c.turns \in Seq(Turns) /\ c.type \in {"assign", "update"}
  BY Carried DEF Assign, Update, Runs, Inv, ArgType
<1>2. child = <<>> /\ child' = <<>> /\ todo = <<>> /\ menu' = menu /\ env' = env
      /\ Variables' = Variables /\ funcs' = funcs /\ stolen' = stolen /\ UNCHANGED args
  BY DEF Assign, Update, Runs, Variables
<1>3. \E k \in 0..Len(c.turns) : /\ c.type = "update" => k = Len(c.turns)
                                 /\ todo' = SubSeq(c.turns, 1, k)
  <2>1. CASE Assign(c)
    BY <2>1 DEF Assign, Runs
  <2>2. CASE Update(c)
    <3>1. todo' = SubSeq(c.turns, 1, Len(c.turns)) /\ Len(c.turns) \in 0..Len(c.turns)
      BY <1>1, <2>2 DEF Update
    <3> QED
      BY <3>1
  <2> QED
    BY <2>1, <2>2
<1>4. VarMap' = VarMap /\ FuncMap' = FuncMap /\ Scopes' = Scopes
  BY <1>2, SameVariables, SameFunctions, SameScopes
<1> QED
  BY <1>1, <1>2, <1>3, <1>4 DEF Promised!Begin

\* A turn changes what its name stands for, as it says.
LEMMA TurnEntry ==
  ASSUME NEW t \in Seq(Var), Distinct(t), NEW turn \in Turns, NEW m
  PROVE  /\ m # turn.name => Entry(ChangedVars(t, turn), m) = Entry(t, m)
         /\ turn.do = "put" =>
              Entry(ChangedVars(t, turn), turn.name) =
                [value |-> turn.value, exported |-> Entry(t, turn.name).exported]
         /\ turn.do = "export" =>
              Entry(ChangedVars(t, turn), turn.name) = Promised!Exported(Entry(t, turn.name))
         /\ turn.do = "putexport" =>
              Entry(ChangedVars(t, turn), turn.name) = [value |-> turn.value, exported |-> TRUE]
         /\ turn.do \in {"unset", "unsetvar"} => Entry(ChangedVars(t, turn), turn.name) = Unset
<1>1. turn.name \in Name /\ turn.value \in Value
  BY DEF Turns
<1>2. CASE turn.do = "put"
  BY <1>1, <1>2, EntryPut DEF ChangedVars
<1>3. CASE turn.do = "export"
  BY <1>1, <1>3, EntryExport DEF ChangedVars, Promised!Exported
<1>4. CASE turn.do = "putexport"
  <2> DEFINE u == PutVar(t, turn.name, turn.value)
  <2>1. u \in Seq(Var) /\ Distinct(u)
    BY <1>1, PutDistinct
  <2>2. Entry(u, m) = IF m = turn.name
                      THEN [value |-> turn.value, exported |-> Entry(t, turn.name).exported]
                      ELSE Entry(t, m)
    BY <1>1, EntryPut
  <2>3. Entry(u, turn.name).value = turn.value
    BY <1>1, EntryPut
  <2>4. ChangedVars(t, turn) = ExportVar(u, turn.name)
    BY <1>4 DEF ChangedVars
  <2> HIDE DEF u
  <2>5. m # turn.name => Entry(ExportVar(u, turn.name), m) = Entry(t, m)
    BY <1>1, <2>1, <2>2, EntryExport
  <2>6. turn.value # Nil
    BY <1>1, NilAssumption
  <2>7. Entry(ExportVar(u, turn.name), turn.name) = [value |-> turn.value, exported |-> TRUE]
    <3>1. Entry(ExportVar(u, turn.name), turn.name) =
            [value |-> IF Entry(u, turn.name).value = Nil THEN Empty ELSE Entry(u, turn.name).value,
             exported |-> TRUE]
      BY <1>1, <2>1, EntryExport, Zenon
    <3> QED
      BY <2>3, <2>6, <3>1, Zenon
  <2> QED
    BY <1>4, <2>4, <2>5, <2>7
<1>5. CASE turn.do \in {"unset", "unsetvar"}
  <2>1. ChangedVars(t, turn) = Without(t, turn.name)
    BY <1>5 DEF ChangedVars
  <2> QED
    BY <1>5, <2>1, EntryWithout
<1>6. CASE turn.do = "unsetfunc"
  BY <1>6 DEF ChangedVars
<1> QED
  BY <1>2, <1>3, <1>4, <1>5, <1>6 DEF Turns

\* unset_func takes out what the name has, register_func puts something there.
LEMMA FuncWithout ==
  ASSUME FuncInv, NEW n \in Name, funcs' = Without(funcs, n)
  PROVE  FuncMap' = [FuncMap EXCEPT ![n] = {}]
<1> DEFINE At(m) == {funcs[i].node : i \in {j \in DOMAIN funcs : funcs[j].name = m}}
           Now(m) == {funcs'[i].node : i \in {j \in DOMAIN funcs' : funcs'[j].name = m}}
<1>1. funcs \in Seq(Func) /\ Distinct(funcs)
  BY DEF FuncInv
<1>2. /\ \A k \in DOMAIN funcs : funcs[k].name # n => \E i \in DOMAIN funcs' : funcs'[i] = funcs[k]
      /\ \A i \in DOMAIN funcs' : \E k \in DOMAIN funcs : funcs[k] = funcs'[i]
      /\ \A i \in DOMAIN funcs' : funcs'[i].name # n
  BY <1>1, WithoutKeeps
<1>3. Now(n) = {}
  BY <1>2
<1>4. \A m \in Name : m # n => Now(m) = At(m)
  BY <1>2
<1>5. FuncMap = [m \in Name |-> At(m)] /\ FuncMap' = [m \in Name |-> Now(m)]
  BY DEF FuncMap
<1> HIDE DEF At, Now
<1> QED
  BY <1>3, <1>4, <1>5

LEMMA FuncPut ==
  ASSUME menu \in Menus, FuncInv, NEW c \in menu, Define(c)
  PROVE  FuncMap' = [FuncMap EXCEPT ![c.name] = {Stolen(c)}]
<1> DEFINE n == c.name
           At(m) == {funcs[i].node : i \in {j \in DOMAIN funcs : funcs[j].name = m}}
           Now(m) == {funcs'[i].node : i \in {j \in DOMAIN funcs' : funcs'[j].name = m}}
<1>1. funcs \in Seq(Func) /\ Distinct(funcs) /\ n \in Name
  BY Carried DEF FuncInv, Define, Runs
<1>2. Now(n) = {Stolen(c)} /\ \A m \in Name : m # n => Now(m) = At(m)
  <2>1. CASE Has(funcs, n)
    <3> DEFINE k == IndexOf(funcs, n)
               e == [funcs[k] EXCEPT !.node = Stolen(c)]
    <3>1. k \in DOMAIN funcs /\ funcs[k] \in Func /\ funcs[k].name = n
      BY <1>1, <2>1, IndexFound
    <3>2. e.name = n /\ e.node = Stolen(c)
      BY <3>1 DEF Func
    <3>3. funcs' = [funcs EXCEPT ![k] = e]
      BY <2>1 DEF Define
    <3> HIDE DEF k, e, n
    <3>4. DOMAIN funcs' = DOMAIN funcs
          /\ \A i \in DOMAIN funcs : funcs'[i] = IF i = k THEN e ELSE funcs[i]
      BY <1>1, <3>1, <3>3
    <3>5. \A i \in DOMAIN funcs : funcs[i].name = n => i = k
      BY <3>1, <1>1 DEF Distinct
    <3> QED
      BY <3>1, <3>2, <3>4, <3>5
  <2>2. CASE ~Has(funcs, n)
    <3> DEFINE e == [name |-> n, node |-> Stolen(c)]
    <3>1. funcs' = Append(funcs, e) /\ e.name = n /\ e.node = Stolen(c)
      BY <2>2 DEF Define
    <3> HIDE DEF e, n
    <3>2. /\ Len(funcs) + 1 \in DOMAIN funcs' /\ funcs'[Len(funcs) + 1] = e
          /\ \A i \in DOMAIN funcs : i \in DOMAIN funcs' /\ funcs'[i] = funcs[i]
          /\ \A i \in DOMAIN funcs' : i = Len(funcs) + 1 \/ (i \in DOMAIN funcs /\ funcs'[i] = funcs[i])
      BY <1>1, <3>1
    <3>3. \A i \in DOMAIN funcs : funcs[i].name # n
      BY <2>2 DEF Has
    <3> QED
      BY <3>1, <3>2, <3>3
  <2> QED
    BY <2>1, <2>2
<1>3. FuncMap = [m \in Name |-> At(m)] /\ FuncMap' = [m \in Name |-> Now(m)]
  BY DEF FuncMap
<1> HIDE DEF At, Now, n
<1>4. FuncMap' = [FuncMap EXCEPT ![n] = {Stolen(c)}]
  BY <1>1, <1>2, <1>3
<1> QED
  BY <1>4 DEF n

LEMMA PromisedDefine ==
  ASSUME Inv, NEW c \in menu, Define(c)
  PROVE  Promised!Define(c)
<1>1. FuncMap' = [FuncMap EXCEPT ![c.name] = {Stolen(c)}]
  BY FuncPut DEF Inv, ArgType
<1>2. Stolen(c) = (IF c.body \in stolen THEN Nil ELSE c.body) /\ stolen' = stolen \cup {c.body}
  BY DEF Define, Stolen
<1>3. c.type = "define" /\ UNCHANGED <<menu, shvars, args, todo, child, env>>
  BY DEF Define, Runs
<1>4. VarMap' = VarMap /\ Scopes' = Scopes
  BY <1>3, SameVariables, SameScopes DEF Variables
<1> QED
  BY <1>1, <1>2, <1>3, <1>4 DEF Promised!Define

LEMMA PromisedTurn ==
  ASSUME Inv, Turn, child = <<>>
  PROVE  Promised!Turn
<1> DEFINE turn == Head(todo)
           n == turn.name
<1>1. turn \in Turns /\ n \in Name /\ turn.value \in Value /\ todo # <<>> /\ todo' = Tail(todo)
  <2>1. todo \in Seq(Turns) /\ todo # <<>> /\ todo' = Tail(todo)
    BY DEF Turn, Inv, VarInv
  <2>2. Head(todo) \in Turns
    BY <2>1
  <2> QED
    BY <2>1, <2>2 DEF Turns
<1>2. child' = <<>> /\ menu' = menu /\ env' = env /\ stolen' = stolen /\ UNCHANGED args
  BY DEF Turn
<1>3. shvars' = ChangedVars(shvars, turn) /\ Variables = shvars /\ Variables' = shvars'
      /\ funcs' = IF UnsetsFunc(turn) THEN Without(funcs, n) ELSE funcs
  BY <1>2 DEF Turn, Variables
<1>4. shvars \in Seq(Var) /\ Distinct(shvars) /\ FuncInv
  BY DEF Inv, VarInv
<1> HIDE DEF turn
<1>5. /\ VarMap = [m \in Name |-> Entry(shvars, m)]
      /\ VarMap' = [m \in Name |-> Entry(ChangedVars(shvars, turn), m)]
  <2>1. VarMap' = [m \in Name |-> Entry(Variables', m)]
    BY DEF VarMap, Entry, Unset
  <2> QED
    BY <1>3, <2>1, VarMapIs
<1>6. VarMap' = [VarMap EXCEPT ![n] = Entry(ChangedVars(shvars, turn), n)]
  BY <1>1, <1>4, <1>5, TurnEntry
<1>7. VarMap[n] = Entry(shvars, n) /\ (VarMap[n] = Unset <=> ~Has(shvars, n))
  BY <1>1, <1>4, <1>5, EntryType
<1>8. Scopes' = Scopes
  BY <1>2, SameScopes
<1>9. UnsetsFunc(turn) => FuncMap' = [FuncMap EXCEPT ![n] = {}]
  BY <1>1, <1>3, <1>4, FuncWithout
<1>10. ~UnsetsFunc(turn) => FuncMap' = FuncMap
  BY <1>3, SameFunctions
<1>11. Unset = Promised!Unset
  BY DEF Unset, Promised!Unset
<1> DEFINE Change ==
         \/ /\ turn.do = "put"
            /\ VarMap' = [VarMap EXCEPT ![n] = [value |-> turn.value, exported |-> @.exported]]
            /\ FuncMap' = FuncMap
         \/ /\ turn.do = "export" /\ VarMap' = [VarMap EXCEPT ![n] = Promised!Exported(@)]
            /\ FuncMap' = FuncMap
         \/ /\ turn.do = "putexport"
            /\ VarMap' = [VarMap EXCEPT ![n] = [value |-> turn.value, exported |-> TRUE]]
            /\ FuncMap' = FuncMap
         \/ /\ turn.do = "unsetvar" \/ (turn.do = "unset" /\ VarMap[n] # Unset)
            /\ VarMap' = [VarMap EXCEPT ![n] = Unset] /\ FuncMap' = FuncMap
         \/ /\ turn.do = "unsetfunc" \/ (turn.do = "unset" /\ VarMap[n] = Unset)
            /\ FuncMap' = [FuncMap EXCEPT ![n] = {}] /\ VarMap' = VarMap
<1>12. Change
  <2>1. CASE turn.do \in {"put", "export", "putexport"}
    <3>1. FuncMap' = FuncMap
      BY <1>10, <2>1 DEF UnsetsFunc
    <3> QED
      BY <1>4, <1>6, <1>7, <1>1, <2>1, <3>1, TurnEntry
  <2>2. CASE turn.do = "unsetvar" \/ (turn.do = "unset" /\ Has(shvars, n))
    <3>1. FuncMap' = FuncMap
      BY <1>10, <2>2 DEF UnsetsFunc
    <3>2. Entry(ChangedVars(shvars, turn), n) = Unset
      BY <1>1, <1>4, <2>2, TurnEntry
    <3> QED
      BY <1>6, <1>7, <2>2, <3>1, <3>2
  <2>3. CASE turn.do = "unsetfunc" \/ (turn.do = "unset" /\ ~Has(shvars, n))
    <3>1. FuncMap' = [FuncMap EXCEPT ![n] = {}]
      BY <1>9, <2>3 DEF UnsetsFunc
    <3>2. ChangedVars(shvars, turn) = shvars
      BY <2>3 DEF ChangedVars, Without
    <3> QED
      BY <1>5, <1>7, <2>3, <3>1, <3>2
  <2> QED
    BY <1>1, <2>1, <2>2, <2>3 DEF Turns
<1> HIDE DEF Change
<1>13. Promised!Turn
  <2>1. /\ (IF child = <<>> THEN todo ELSE <<>>) = todo
        /\ (IF child = <<>> THEN todo ELSE <<>>)' = Tail(todo)
        /\ (IF child = <<>> THEN [m \in Name |-> Nil] ELSE Given(Head(child).given))'
             = (IF child = <<>> THEN [m \in Name |-> Nil] ELSE Given(Head(child).given))
    BY <1>1, <1>2
  <2> QED
    BY <1>1, <1>2, <1>8, <1>11, <1>12, <2>1, Zenon DEF Promised!Turn, Change, turn
<1> QED
  BY <1>13

\* A call that is in progress keeps its $0: a function has that of its caller.
ZeroInv ==
  \A k \in DOMAIN calls :
    calls[k].kind = "func" => calls[k].argv0 = IF k = 1 THEN argv0 ELSE calls[k - 1].argv0

LEMMA PushedCall ==
  ASSUME NEW e \in Call, calls \in Seq(Call), calls' = <<e>> \o calls
  PROVE  /\ Len(calls) \in Nat /\ Len(calls') = Len(calls) + 1 /\ calls'[1] = e
         /\ DOMAIN calls = 1..Len(calls)
         /\ \A k \in DOMAIN calls : calls'[k + 1] = calls[k]
         /\ \A k \in DOMAIN calls' :
              k # 1 => k - 1 \in DOMAIN calls /\ calls'[k] = calls[k - 1] /\ k \in Nat
  OBVIOUS

LEMMA PoppedCall ==
  ASSUME calls \in Seq(Call), calls # <<>>
  PROVE  /\ Len(calls) \in Nat \ {0} /\ Head(calls) = calls[1] /\ 1 \in DOMAIN calls
         /\ DOMAIN calls = 1..Len(calls)
         /\ Tail(calls) \in Seq(Call) /\ Len(Tail(calls)) = Len(calls) - 1
         /\ \A k \in DOMAIN Tail(calls) :
              k \in Nat \ {0} /\ k + 1 \in DOMAIN calls /\ Tail(calls)[k] = calls[k + 1]
  OBVIOUS

\* A record of a call, as Enter makes it.
LEMMA EnterCall ==
  ASSUME Inv, NEW c \in menu, CallFunc(c) \/ Source(c)
  PROVE  \E e \in Call :
           /\ calls' = <<e>> \o calls
           /\ e.argc = argc /\ e.argv = argv /\ e.argv0 = argv0
           /\ e.kind = "func" => c.type = "call"
           /\ argv0' = IF c.type = "source" THEN c.file ELSE argv0
           /\ c.type \in {"call", "source"} /\ c.words \in Seq(Word)
           /\ Len(calls) < MaxDepth
           /\ arrays' = [arrays EXCEPT ![Len(calls) + 1] = Append(c.words, Nil)]
           /\ argc' = Len(c.words)
           /\ argv' = [array |-> Len(calls) + 1, at |-> 0]
           /\ UNCHANGED <<menu, shvars, funcs, stolen, todo, child, env>>
<1>1. c.type = "call" => c.name \in Name /\ c.words \in Seq(Word)
  BY Carried DEF Inv, ArgType
<1>2. CASE CallFunc(c)
  <2> DEFINE f == funcs[IndexOf(funcs, c.name)]
             e == [kind |-> "func", node |-> f.node, name |-> c.name, argc |-> argc,
                   argv |-> argv, argv0 |-> argv0]
  <2>1. c.type = "call" /\ Has(funcs, c.name) /\ Enter("func", f.node, c.name, c.words, argv0)
    BY <1>2 DEF CallFunc, Runs
  <2>2. IndexOf(funcs, c.name) \in DOMAIN funcs
    BY <2>1, IndexFound DEF Inv, FuncInv
  <2>3. f \in Func
    BY <2>2 DEF Inv, FuncInv
  <2>4. f.node \in Body \cup {Nil}
    BY <2>3 DEF Func
  <2> HIDE DEF f
  <2>5. e \in Call /\ e.argc = argc /\ e.argv = argv /\ e.argv0 = argv0
    BY <1>1, <2>1, <2>4 DEF Inv, ArgType, Call
  <2>6. calls' = <<e>> \o calls
    BY <2>1 DEF Enter
  <2> HIDE DEF e
  <2> QED
    BY <1>1, <2>1, <2>5, <2>6 DEF Enter
<1>3. CASE Source(c)
  <2> DEFINE e == [kind |-> "source", node |-> Nil, name |-> Nil, argc |-> argc,
                   argv |-> argv, argv0 |-> argv0]
  <2>1. c.type = "source" /\ Enter("source", Nil, Nil, c.words, c.file)
    BY <1>3 DEF Source, Runs
  <2>2. c.words \in Seq(Word)
    BY <2>1, Carried DEF Inv, ArgType
  <2>3. e \in Call /\ e.argc = argc /\ e.argv = argv /\ e.argv0 = argv0 /\ e.kind # "func"
    BY DEF Inv, ArgType, Call
  <2>4. calls' = <<e>> \o calls
    BY <2>1 DEF Enter
  <2> HIDE DEF e
  <2> QED
    BY <2>1, <2>2, <2>3, <2>4 DEF Enter
<1> QED
  BY <1>2, <1>3

LEMMA ZeroStep == Inv /\ ZeroInv /\ [Next]_vars => ZeroInv'
<1> SUFFICES ASSUME Inv, ZeroInv, [Next]_vars PROVE ZeroInv'
  OBVIOUS
<1>1. CASE UNCHANGED <<calls, argv0>>
  BY <1>1 DEF ZeroInv
<1>2. ASSUME NEW c \in menu, \/ Assign(c) \/ Update(c) \/ Program(c) \/ Define(c)
                             \/ Set(c) \/ Shift(c)
      PROVE  UNCHANGED <<calls, argv0>>
  BY <1>2 DEF Assign, Update, Program, Define, Set, Shift, args
<1>3. CASE Turn \/ StartsProgram \/ UNCHANGED vars
  BY <1>1, <1>3 DEF Turn, StartsProgram, vars, args
<1>4. ASSUME NEW c \in menu, CallFunc(c) \/ Source(c) PROVE ZeroInv'
  <2>1. PICK e \in Call : /\ calls' = <<e>> \o calls
                          /\ e.argv0 = argv0 /\ (e.kind = "func" => c.type = "call")
                          /\ argv0' = IF c.type = "source" THEN c.file ELSE argv0
    BY <1>4, EnterCall
  <2>2. /\ calls'[1] = e /\ DOMAIN calls = 1..Len(calls) /\ Len(calls) \in Nat
        /\ \A k \in DOMAIN calls : calls'[k + 1] = calls[k]
        /\ \A k \in DOMAIN calls' :
             k # 1 => k - 1 \in DOMAIN calls /\ calls'[k] = calls[k - 1] /\ k \in Nat
    BY <2>1, PushedCall DEF Inv, ArgType
  <2>3. ASSUME NEW k \in DOMAIN calls', calls'[k].kind = "func"
        PROVE  calls'[k].argv0 = IF k = 1 THEN argv0' ELSE calls'[k - 1].argv0
    <3>1. CASE k = 1
      BY <2>1, <2>2, <2>3, <3>1
    <3>2. CASE k = 2
      BY <2>1, <2>2, <2>3, <3>2 DEF ZeroInv
    <3>3. CASE k # 1 /\ k # 2
      <4>1. k - 1 \in DOMAIN calls /\ k - 1 # 1 /\ (k - 1) - 1 \in DOMAIN calls
            /\ calls'[k] = calls[k - 1] /\ calls'[k - 1] = calls[(k - 1) - 1]
        BY <2>2, <3>3
      <4> QED
        BY <2>3, <3>3, <4>1 DEF ZeroInv
    <3> QED
      BY <3>1, <3>2, <3>3
  <2> QED
    BY <2>3 DEF ZeroInv
<1>5. CASE Leave
  <2>1. calls # <<>> /\ calls' = Tail(calls)
        /\ argv0' = IF Head(calls).kind = "source" THEN Head(calls).argv0 ELSE argv0
    BY <1>5 DEF Leave
  <2>2. /\ Head(calls) = calls[1] /\ 1 \in DOMAIN calls
        /\ \A k \in DOMAIN calls' :
             k \in Nat \ {0} /\ k + 1 \in DOMAIN calls /\ calls'[k] = calls[k + 1]
    BY <2>1, PoppedCall DEF Inv, ArgType
  <2>3. argv0' = calls[1].argv0
    <3>1. calls[1] \in Call
      BY <2>2 DEF Inv, ArgType
    <3>2. calls[1].kind \in {"func", "source"}
      BY <3>1 DEF Call
    <3> QED
      BY <2>1, <2>2, <3>2 DEF ZeroInv
  <2>4. ASSUME NEW k \in DOMAIN calls', calls'[k].kind = "func"
        PROVE  calls'[k].argv0 = IF k = 1 THEN argv0' ELSE calls'[k - 1].argv0
    <3>1. k \in Nat \ {0} /\ k + 1 \in DOMAIN calls /\ calls'[k] = calls[k + 1] /\ k + 1 # 1
          /\ (k + 1) - 1 = k
      BY <2>2
    <3>2. calls'[k].argv0 = calls[k].argv0
      BY <2>4, <3>1 DEF ZeroInv
    <3>3. k # 1 => k - 1 \in DOMAIN calls' /\ calls'[k - 1] = calls[k]
      <4>1. ASSUME k # 1 PROVE k - 1 \in DOMAIN calls' /\ (k - 1) + 1 = k
        <5>1. calls \in Seq(Call) /\ calls' \in Seq(Call)
          BY <2>1, PoppedCall DEF Inv, ArgType
        <5>2. DOMAIN calls' = 1..Len(calls') /\ Len(calls') \in Nat
          BY <5>1
        <5> QED
          BY <4>1, <3>1, <5>2
      <4> QED
        BY <2>2, <4>1
    <3> QED
      BY <2>3, <3>2, <3>3
  <2> QED
    BY <2>4 DEF ZeroInv
<1> QED
  BY <1>1, <1>2, <1>3, <1>4, <1>5 DEF Next

\* A function or a script opens a scope, and finds the others as they were.
LEMMA PromisedEnter ==
  ASSUME Inv, ReadInv, ScopesFit, ScopesFit', NEW c \in menu, CallFunc(c) \/ Source(c)
  PROVE  Promised!Enter(c)
<1>1. PICK e \in Call :
        /\ calls' = <<e>> \o calls
        /\ e.argc = argc /\ e.argv = argv /\ e.argv0 = argv0
        /\ e.kind = "func" => c.type = "call"
        /\ argv0' = IF c.type = "source" THEN c.file ELSE argv0
        /\ c.type \in {"call", "source"} /\ c.words \in Seq(Word)
        /\ Len(calls) < MaxDepth
        /\ arrays' = [arrays EXCEPT ![Len(calls) + 1] = Append(c.words, Nil)]
        /\ argc' = Len(c.words)
        /\ argv' = [array |-> Len(calls) + 1, at |-> 0]
        /\ UNCHANGED <<menu, shvars, funcs, stolen, todo, child, env>>
  BY EnterCall
<1> DEFINE d == Len(calls) + 1
           new == [zero |-> argv0', args |-> c.words]
<1>2. /\ Len(calls) \in Nat /\ Len(calls') = d /\ calls'[1] = e /\ DOMAIN calls = 1..Len(calls)
      /\ \A k \in DOMAIN calls : calls'[k + 1] = calls[k]
      /\ \A k \in DOMAIN calls' :
           k # 1 => k - 1 \in DOMAIN calls /\ calls'[k] = calls[k - 1] /\ k \in Nat
  BY <1>1, PushedCall DEF Inv, ArgType
<1>3. d \in ArrayId
  BY <1>1, <1>2, ArgsAssumption DEF ArrayId, Static
<1>4. arrays'[d] = Append(c.words, Nil) /\ \A a \in ArrayId \ {d} : arrays'[a] = arrays[a]
  BY <1>1, <1>3 DEF Inv, ArgType
<1>5. argv.array \in ArrayId \ {d}
      /\ \A k \in DOMAIN calls : calls[k].argv.array \in ArrayId \ {d}
  <2>1. argv \in Pointer /\ \A k \in DOMAIN calls : calls[k] \in Call
    BY DEF Inv, ArgType
  <2>2. argv.array \in ArrayId /\ \A k \in DOMAIN calls : calls[k].argv.array \in ArrayId
    BY <2>1 DEF Call, Pointer
  <2> QED
    BY <1>2, <2>2 DEF ReadInv, ArrayId, Static
<1>6. Arguments(arrays', argc', argv') = c.words
  <2>1. Arguments(arrays', argc', argv') = [i \in 1..Len(c.words) |-> Append(c.words, Nil)[0 + i]]
    BY <1>1, <1>4 DEF Arguments
  <2>2. [i \in 1..Len(c.words) |-> Append(c.words, Nil)[0 + i]] = c.words
    <3>1. \A i \in 1..Len(c.words) : Append(c.words, Nil)[0 + i] = c.words[i]
      BY <1>1
    <3>2. c.words = [i \in 1..Len(c.words) |-> c.words[i]]
      BY <1>1
    <3> QED
      BY <3>1, <3>2
  <2> QED
    BY <2>1, <2>2
<1>7. /\ Arguments(arrays', argc, argv) = Arguments(arrays, argc, argv)
      /\ \A k \in DOMAIN calls : Arguments(arrays', calls[k].argc, calls[k].argv)
                                   = Arguments(arrays, calls[k].argc, calls[k].argv)
  BY <1>4, <1>5, SameArguments
<1>8. /\ Scopes' \in Seq(ParamSet) /\ Len(Scopes') = Len(calls') + 1
      /\ Scopes'[1] = [zero |-> argv0', args |-> Arguments(arrays', argc', argv')]
      /\ \A k \in DOMAIN calls' :
           Scopes'[k + 1] = [zero |-> calls'[k].argv0,
                             args |-> Arguments(arrays', calls'[k].argc, calls'[k].argv)]
      /\ calls' \in Seq(Call)
  BY DEF ScopesFit
<1>9. Scopes'[1] = new
  BY <1>6, <1>8
<1>10. ASSUME NEW k \in 1..d PROVE Scopes'[k + 1] = Scopes[k]
  <2>1. k \in DOMAIN calls'
    BY <1>2, <1>8
  <2>2. CASE k = 1
    <3>1. Scopes'[k + 1] = [zero |-> argv0, args |-> Arguments(arrays', argc, argv)]
      BY <1>1, <1>2, <1>8, <2>1, <2>2
    <3>2. Scopes[k] = [zero |-> argv0, args |-> Arguments(arrays, argc, argv)]
      BY <2>2 DEF ScopesFit
    <3> QED
      BY <1>7, <3>1, <3>2, Zenon
  <2>3. CASE k # 1
    <3>1. k - 1 \in DOMAIN calls /\ calls'[k] = calls[k - 1] /\ (k - 1) + 1 = k
      BY <1>2, <2>1, <2>3
    <3>2. Scopes[k] = [zero |-> calls[k - 1].argv0,
                       args |-> Arguments(arrays, calls[k - 1].argc, calls[k - 1].argv)]
      BY <3>1, Zenon DEF ScopesFit
    <3>3. Scopes'[k + 1] = [zero |-> calls[k - 1].argv0,
                            args |-> Arguments(arrays', calls[k - 1].argc, calls[k - 1].argv)]
      BY <1>8, <2>1, <3>1, Zenon
    <3> QED
      BY <1>7, <3>1, <3>2, <3>3, Zenon
  <2> QED
    BY <2>2, <2>3
<1>11. Scopes' = <<new>> \o Scopes
  <2>1. Scopes \in Seq(ParamSet) /\ Len(Scopes) = d
    BY DEF ScopesFit
  <2>2. new \in ParamSet
    BY <1>2, <1>8, <1>9
  <2> HIDE DEF new
  <2>3. /\ <<new>> \o Scopes \in Seq(ParamSet) /\ Len(<<new>> \o Scopes) = d + 1
        /\ (<<new>> \o Scopes)[1] = new
        /\ \A k \in 1..d : (<<new>> \o Scopes)[k + 1] = Scopes[k]
    BY <1>2, <2>1, <2>2
  <2>4. \A i \in 1..(d + 1) : i = 1 \/ (i - 1 \in 1..d /\ i = (i - 1) + 1)
    BY <1>2
  <2>5. \A i \in 1..(d + 1) : Scopes'[i] = (<<new>> \o Scopes)[i]
    BY <1>9, <1>10, <2>3, <2>4
  <2> QED
    BY <1>2, <1>8, <2>3, <2>5, SameSeq
<1>12. Head(Scopes).zero = argv0
  BY <1>2 DEF ScopesFit
<1>13. VarMap' = VarMap /\ FuncMap' = FuncMap
  BY <1>1, SameVariables, SameFunctions DEF Variables
<1> QED
  BY <1>1, <1>11, <1>12, <1>13 DEF Promised!Enter

\* load_args, and the $0 of source: the outer scopes are there again.
LEMMA PromisedLeave ==
  ASSUME Inv, ZeroInv, ScopesFit, ScopesFit', Leave
  PROVE  Promised!Leave
<1>1. /\ calls # <<>> /\ calls' = Tail(calls)
      /\ argc' = Head(calls).argc /\ argv' = Head(calls).argv
      /\ argv0' = IF Head(calls).kind = "source" THEN Head(calls).argv0 ELSE argv0
      /\ UNCHANGED <<menu, shvars, funcs, stolen, arrays, todo, child, env>>
  BY DEF Leave
<1>2. /\ Len(calls) \in Nat \ {0} /\ Head(calls) = calls[1] /\ 1 \in DOMAIN calls
      /\ DOMAIN calls = 1..Len(calls)
      /\ calls' \in Seq(Call) /\ Len(calls') = Len(calls) - 1
      /\ \A k \in DOMAIN calls' :
           k \in Nat \ {0} /\ k + 1 \in DOMAIN calls /\ calls'[k] = calls[k + 1]
  BY <1>1, PoppedCall DEF Inv, ArgType
<1>3. argv0' = calls[1].argv0
  <2>1. calls[1] \in Call
    BY <1>2 DEF Inv, ArgType
  <2>2. calls[1].kind \in {"func", "source"}
    BY <2>1 DEF Call
  <2> QED
    BY <1>1, <1>2, <2>2 DEF ZeroInv
<1>4. /\ Scopes' \in Seq(ParamSet) /\ Len(Scopes') = Len(calls') + 1
      /\ Scopes'[1] = [zero |-> argv0', args |-> Arguments(arrays', argc', argv')]
      /\ \A k \in DOMAIN calls' :
           Scopes'[k + 1] = [zero |-> calls'[k].argv0,
                             args |-> Arguments(arrays', calls'[k].argc, calls'[k].argv)]
  BY DEF ScopesFit
<1>5. /\ Scopes \in Seq(ParamSet) /\ Len(Scopes) = Len(calls) + 1
      /\ \A k \in DOMAIN calls :
           Scopes[k + 1] = [zero |-> calls[k].argv0,
                            args |-> Arguments(arrays, calls[k].argc, calls[k].argv)]
  BY DEF ScopesFit
<1>6. Tail(Scopes) \in Seq(ParamSet) /\ Len(Tail(Scopes)) = Len(calls)
      /\ \A i \in 1..Len(calls) : Tail(Scopes)[i] = Scopes[i + 1]
  BY <1>2, <1>5
<1>7. ASSUME NEW i \in 1..Len(calls) PROVE Scopes'[i] = Scopes[i + 1]
  <2>1. Scopes[i + 1] = [zero |-> calls[i].argv0,
                         args |-> Arguments(arrays, calls[i].argc, calls[i].argv)]
    BY <1>2, <1>5
  <2>2. CASE i = 1
    <3>1. argc' = calls[1].argc /\ argv' = calls[1].argv /\ arrays' = arrays
      BY <1>1, <1>2
    <3> QED
      BY <1>3, <1>4, <2>1, <2>2, <3>1, Zenon
  <2>3. CASE i # 1
    <3>1. i - 1 \in DOMAIN calls' /\ (i - 1) + 1 = i
      BY <1>2, <2>3
    <3>2. calls'[i - 1] = calls[i]
      BY <1>2, <3>1
    <3>3. Scopes'[i] = [zero |-> calls[i].argv0,
                        args |-> Arguments(arrays', calls[i].argc, calls[i].argv)]
      BY <1>4, <3>1, <3>2, Zenon
    <3> QED
      BY <1>1, <2>1, <3>3, Zenon
  <2> QED
    BY <2>2, <2>3
<1>8. Scopes' = Tail(Scopes)
  <2>1. Len(Scopes') = Len(calls)
    BY <1>2, <1>4
  <2>2. \A i \in 1..Len(calls) : Scopes'[i] = Tail(Scopes)[i]
    BY <1>6, <1>7
  <2> QED
    BY <1>4, <1>6, <2>1, <2>2, SameSeq
<1>9. Len(Scopes) > 1
  BY <1>2, <1>5
<1>10. VarMap' = VarMap /\ FuncMap' = FuncMap
  BY <1>1, SameVariables, SameFunctions DEF Variables
<1> QED
  BY <1>1, <1>8, <1>9, <1>10 DEF Promised!Leave

LEMMA OtherArgs ==
  ASSUME NEW h, NEW zero, NEW old, NEW new, h = [zero |-> zero, args |-> old]
  PROVE  [h EXCEPT !.args = new] = [zero |-> zero, args |-> new]
  OBVIOUS

\* set and shift: the innermost scope has other arguments, and no other scope has.
LEMMA NewScope ==
  ASSUME ScopesFit, ScopesFit', UNCHANGED <<argv0, calls>>,
         \A k \in DOMAIN calls : arrays'[calls[k].argv.array] = arrays[calls[k].argv.array]
  PROVE  Scopes' = <<[Head(Scopes) EXCEPT !.args = Arguments(arrays', argc', argv')]>>
                     \o Tail(Scopes)
<1> DEFINE d == Len(calls) + 1
           new == [zero |-> argv0, args |-> Arguments(arrays', argc', argv')]
<1>1. /\ Scopes' \in Seq(ParamSet) /\ Len(Scopes') = d /\ Scopes'[1] = new
      /\ \A k \in DOMAIN calls :
           Scopes'[k + 1] = [zero |-> calls[k].argv0,
                             args |-> Arguments(arrays', calls[k].argc, calls[k].argv)]
  BY DEF ScopesFit
<1>2. /\ Scopes \in Seq(ParamSet) /\ Len(Scopes) = d
      /\ Scopes[1] = [zero |-> argv0, args |-> Arguments(arrays, argc, argv)]
      /\ \A k \in DOMAIN calls :
           Scopes[k + 1] = [zero |-> calls[k].argv0,
                            args |-> Arguments(arrays, calls[k].argc, calls[k].argv)]
      /\ calls \in Seq(Call)
  BY DEF ScopesFit
<1>3. \A k \in DOMAIN calls : Scopes'[k + 1] = Scopes[k + 1]
  <2> SUFFICES ASSUME NEW k \in DOMAIN calls PROVE Scopes'[k + 1] = Scopes[k + 1]
    OBVIOUS
  <2>1. Arguments(arrays', calls[k].argc, calls[k].argv)
          = Arguments(arrays, calls[k].argc, calls[k].argv)
    BY SameArguments
  <2> QED
    BY <1>1, <1>2, <2>1, Zenon
<1>4. [Head(Scopes) EXCEPT !.args = Arguments(arrays', argc', argv')] = new
  <2>1. Head(Scopes) = [zero |-> argv0, args |-> Arguments(arrays, argc, argv)]
    BY <1>2
  <2> QED
    BY <2>1, OtherArgs, Zenon
<1>5. Len(calls) \in Nat /\ DOMAIN calls = 1..Len(calls)
  BY <1>2
<1>6. new \in ParamSet
  BY <1>1, <1>5
<1> HIDE DEF new
<1>7. /\ <<new>> \o Tail(Scopes) \in Seq(ParamSet) /\ Len(<<new>> \o Tail(Scopes)) = d
      /\ (<<new>> \o Tail(Scopes))[1] = new
      /\ \A k \in 1..Len(calls) : (<<new>> \o Tail(Scopes))[k + 1] = Scopes[k + 1]
  BY <1>2, <1>5, <1>6
<1>8. \A i \in 1..d : i = 1 \/ (i - 1 \in 1..Len(calls) /\ i = (i - 1) + 1)
  BY <1>5
<1>9. \A i \in 1..d : Scopes'[i] = (<<new>> \o Tail(Scopes))[i]
  BY <1>1, <1>3, <1>5, <1>7, <1>8
<1>10. Scopes' = <<new>> \o Tail(Scopes)
  BY <1>1, <1>7, <1>9, SameSeq
<1> QED
  BY <1>4, <1>10

LEMMA PromisedSet ==
  ASSUME Inv, ScopesFit, ScopesFit', NEW c \in menu, Set(c),
         argv'.array = Static => \A k \in DOMAIN calls' : calls'[k].argv.array # Static
  PROVE  Promised!Set(c) \/ UNCHANGED Promised!vars
<1>1. c.words \in Seq(SetWord) /\ c.type = "set"
  BY Carried DEF Inv, ArgType, Set, Runs
<1>2. UNCHANGED <<menu, shvars, funcs, stolen, argv0, calls, todo, child, env>>
  BY DEF Set
<1>3. VarMap' = VarMap /\ FuncMap' = FuncMap
  BY <1>2, SameVariables, SameFunctions DEF Variables
<1>4. CASE OnlyOptions(c.words)
  <2>1. UNCHANGED args
    BY <1>2, <1>4 DEF Set, args
  <2>2. Scopes' = Scopes
    BY <2>1, SameScopes
  <2> QED
    BY <1>2, <1>3, <2>2 DEF Promised!vars
<1>5. CASE ~OnlyOptions(c.words)
  <2> DEFINE kept == Kept(c.words)
             old == arrays[Static]
             new == [i \in DOMAIN old |-> CASE i <= Len(kept)     -> kept[i].word
                                            [] i = Len(kept) + 1 -> Nil
                                            [] OTHER             -> old[i]]
  <2>1. /\ kept \in Seq(SetWord) /\ Len(kept) < MaxArgs
        /\ \E from \in 1..(Len(c.words) + 1) : kept = SubSeq(c.words, from, Len(c.words))
    BY <1>1, <1>5, KeptFits
  <2>2. argc' = Len(kept) /\ argv' = [array |-> Static, at |-> 0]
        /\ arrays' = [arrays EXCEPT ![Static] = new]
    BY <1>5 DEF Set
  <2> HIDE DEF kept
  <2>3. Static \in ArrayId /\ DOMAIN old = 1..MaxArgs /\ MaxArgs \in Nat
    BY ArgsAssumption DEF Inv, ArgType, ArrayId, Static
  <2>4. \A i \in 1..Len(kept) : new[i] = kept[i].word
    BY <2>1, <2>3
  <2> HIDE DEF new
  <2>5. arrays'[Static] = new /\ \A a \in ArrayId \ {Static} : arrays'[a] = arrays[a]
    BY <2>2, <2>3 DEF Inv, ArgType
  <2>6. \A k \in DOMAIN calls : arrays'[calls[k].argv.array] = arrays[calls[k].argv.array]
    <3>1. \A k \in DOMAIN calls : calls[k] \in Call
      BY DEF Inv, ArgType
    <3>2. \A k \in DOMAIN calls : calls[k].argv.array \in ArrayId \ {Static}
      BY <1>2, <2>2, <3>1 DEF Call, Pointer
    <3> QED
      BY <2>5, <3>2
  <2>7. Scopes' = <<[Head(Scopes) EXCEPT !.args = Arguments(arrays', argc', argv')]>>
                    \o Tail(Scopes)
    BY <1>2, <2>6, NewScope
  <2>8. Arguments(arrays', argc', argv') = [i \in 1..Len(kept) |-> kept[i].word]
    <3>1. Arguments(arrays', argc', argv') = [i \in 1..Len(kept) |-> new[0 + i]]
      BY <2>2, <2>5 DEF Arguments
    <3>2. \A i \in 1..Len(kept) : new[0 + i] = kept[i].word
      BY <2>4
    <3> QED
      BY <3>1, <3>2
  <2>9. PICK k \in 1..(Len(c.words) + 1), n \in 0..Len(c.words) :
               /\ Promised!OperandsFrom(c.words, k)
               /\ n = NumberKept(c.words, k)
               /\ Len(kept) = n
               /\ \A i \in 1..n : kept[i] = c.words[Len(c.words) - n + i]
    BY <1>1, <1>5, KeptOperands DEF kept
  <2>10. Arguments(arrays', argc', argv')
           = [i \in 1..n |-> c.words[Len(c.words) - n + i].word]
    BY <2>8, <2>9
  <2>11. Promised!NewArgs([i \in 1..n |-> c.words[Len(c.words) - n + i].word])
    BY <1>2, <1>3, <2>7, <2>10 DEF Promised!NewArgs
  <2> QED
    BY <1>1, <2>9, <2>11, Zenon DEF Promised!Set, NumberKept
<1> QED
  BY <1>4, <1>5

LEMMA PromisedShift ==
  ASSUME Inv, ReadInv, ScopesFit, ScopesFit', NEW c \in menu, Shift(c)
  PROVE  Promised!Shift(c) \/ UNCHANGED Promised!vars
<1>1. c.amount \in Int /\ c.type = "shift"
  BY Carried DEF Inv, ArgType, Shift, Runs
<1>2. UNCHANGED <<menu, shvars, funcs, stolen, argv0, arrays, calls, todo, child, env>>
  BY DEF Shift
<1>3. VarMap' = VarMap /\ FuncMap' = FuncMap
  BY <1>2, SameVariables, SameFunctions DEF Variables
<1>4. argc \in Nat /\ argv.at \in Nat /\ argv \in Pointer
  BY DEF Inv, ArgType, Pointer
<1>5. Scopes' = <<[Head(Scopes) EXCEPT !.args = Arguments(arrays', argc', argv')]>>
                  \o Tail(Scopes)
  BY <1>2, NewScope
<1> DEFINE as == Arguments(arrays, argc, argv)
<1>6. as = Head(Scopes).args
  BY DEF ScopesFit
<1>7. as \in Seq(Word) /\ Len(as) = argc
  <2>1. as \in Seq(Word)
    BY <1>4, ArgumentsType DEF Inv, ReadInv
  <2> QED
    BY <1>4, <2>1 DEF Arguments
<1>8. CASE c.amount > argc
  <2>1. argc' = 0
    BY <1>8 DEF Shift
  <2>2. Arguments(arrays', argc', argv') = <<>>
    BY <2>1 DEF Arguments
  <2>3. SubSeq(as, argc + 1, argc) = <<>>
    BY <1>4, <1>7
  <2>4. Promised!NewArgs(SubSeq(as, Len(as) + 1, Len(as)))
    BY <1>2, <1>3, <1>5, <1>7, <2>2, <2>3 DEF Promised!NewArgs
  <2>5. c.amount >= 0 /\ Len(as) = IF c.amount > Len(as) THEN Len(as) ELSE c.amount
    BY <1>1, <1>4, <1>7, <1>8
  <2> HIDE DEF as
  <2> QED
    BY <1>1, <1>6, <2>4, <2>5, Zenon DEF Promised!Shift
<1>9. CASE c.amount \in 0..argc
  <2>1. argc' = argc - c.amount /\ argv' = [argv EXCEPT !.at = @ + c.amount]
    BY <1>1, <1>4, <1>9 DEF Shift
  <2>2. argv'.array = argv.array /\ argv'.at = argv.at + c.amount
    BY <1>4, <2>1 DEF Pointer
  <2>3. Arguments(arrays', argc', argv')
          = [i \in 1..(argc - c.amount) |-> arrays[argv.array][argv.at + c.amount + i]]
    BY <1>2, <2>1, <2>2 DEF Arguments
  <2>4. SubSeq(as, c.amount + 1, argc) = [i \in 1..(argc - c.amount) |-> as[i + c.amount]]
    BY <1>4, <1>7, <1>9
  <2>5. \A i \in 1..(argc - c.amount) : as[i + c.amount] = arrays[argv.array][argv.at + c.amount + i]
    <3> SUFFICES ASSUME NEW i \in 1..(argc - c.amount)
                 PROVE  as[i + c.amount] = arrays[argv.array][argv.at + c.amount + i]
      OBVIOUS
    <3>1. i + c.amount \in 1..argc /\ argv.at + (i + c.amount) = argv.at + c.amount + i
      BY <1>1, <1>4, <1>9
    <3> QED
      BY <3>1 DEF Arguments
  <2>6. Arguments(arrays', argc', argv') = SubSeq(as, c.amount + 1, argc)
    BY <2>3, <2>4, <2>5
  <2>7. Promised!NewArgs(SubSeq(as, c.amount + 1, Len(as)))
    BY <1>2, <1>3, <1>5, <1>7, <2>6 DEF Promised!NewArgs
  <2>8. c.amount >= 0 /\ c.amount = IF c.amount > Len(as) THEN Len(as) ELSE c.amount
    BY <1>4, <1>7, <1>9
  <2> HIDE DEF as
  <2> QED
    BY <1>1, <1>6, <2>7, <2>8, Zenon DEF Promised!Shift
<1>10. CASE c.amount < 0
  <2>1. UNCHANGED args
    BY <1>1, <1>2, <1>4, <1>10 DEF Shift, args
  <2>2. Scopes' = Scopes
    BY <2>1, SameScopes
  <2> QED
    BY <1>2, <1>3, <2>2 DEF Promised!vars
<1> QED
  BY <1>1, <1>4, <1>8, <1>9, <1>10

\* The last assignment of a name.
LEMMA LastTurn ==
  ASSUME NEW turns \in Seq(Turns), NEW n, NEW k \in DOMAIN turns, turns[k].name = n
  PROVE  \E i \in DOMAIN turns :
           turns[i].name = n /\ \A j \in DOMAIN turns : turns[j].name = n => j <= i
<1> DEFINE behind == {Len(turns) - i : i \in {j \in DOMAIN turns : turns[j].name = n}}
<1>1. DOMAIN turns = 1..Len(turns) /\ Len(turns) \in Nat
  OBVIOUS
<1>2. behind \subseteq Nat /\ behind # {}
  BY <1>1
<1>3. PICK m \in behind : \A b \in behind : m <= b
  BY <1>2, LeastNat
<1>4. PICK i \in DOMAIN turns : turns[i].name = n /\ m = Len(turns) - i
  BY <1>3
<1>5. ASSUME NEW j \in DOMAIN turns, turns[j].name = n PROVE j <= i
  <2>1. m <= Len(turns) - j
    BY <1>3, <1>5
  <2> QED
    BY <1>1, <1>4, <2>1
<1> QED
  BY <1>4, <1>5

LEMMA GivenIs ==
  ASSUME NEW turns \in Seq(Turns), NEW n \in Name
  PROVE  /\ (\A i \in DOMAIN turns : turns[i].name # n) => Given(turns)[n] = Nil
         /\ \A i \in DOMAIN turns :
              turns[i].name = n /\ (\A j \in DOMAIN turns : turns[j].name = n => j <= i) =>
                Given(turns)[n] = turns[i].value
<1>1. ASSUME NEW i \in DOMAIN turns, turns[i].name = n,
             \A j \in DOMAIN turns : turns[j].name = n => j <= i
      PROVE  Given(turns)[n] = turns[i].value
  <2> DEFINE Last(k) == turns[k].name = n /\ \A j \in (k + 1)..Len(turns) : turns[j].name # n
  <2>1. DOMAIN turns = 1..Len(turns) /\ Len(turns) \in Nat
    OBVIOUS
  <2>2. Last(i)
    BY <1>1, <2>1
  <2>3. ASSUME NEW k \in DOMAIN turns, Last(k) PROVE k = i
    <3>1. k <= i
      BY <1>1, <2>3
    <3>2. ~(k < i)
      <4> SUFFICES ASSUME k < i PROVE FALSE
        OBVIOUS
      <4>1. i \in (k + 1)..Len(turns)
        BY <2>1
      <4> QED
        BY <1>1, <2>3, <4>1
    <3> QED
      BY <2>1, <3>1, <3>2
  <2>4. (CHOOSE k \in DOMAIN turns : Last(k)) = i
    BY <2>2, <2>3
  <2> QED
    BY <1>1, <2>4 DEF Given
<1> QED
  BY <1>1 DEF Given

LEMMA PromisedProgram ==
  ASSUME Inv, NEW c \in menu, Program(c)
  PROVE  Promised!Prepare(c)
<1>1. c.type = "program" /\ c.turns \in Seq(Turns)
  BY Carried DEF Program, Runs, Inv, ArgType
<1>2. /\ todo = <<>> /\ child = <<>> /\ child' = <<[vars |-> shvars, given |-> c.turns]>>
      /\ UNCHANGED <<menu, shvars, funcs, stolen, args, env>>
  BY DEF Program, Runs
<1>3. child' # <<>> /\ Head(child').vars = shvars /\ Head(child').given = c.turns
  BY <1>2
<1>4. Variables' = Variables
  BY <1>2, <1>3 DEF Variables
<1>5. VarMap' = VarMap /\ FuncMap' = FuncMap /\ Scopes' = Scopes
  BY <1>2, <1>4, SameVariables, SameFunctions, SameScopes
<1> DEFINE at(n) == {i \in DOMAIN c.turns : c.turns[i].name = n}
           value(n) == IF at(n) = {} THEN Nil
                       ELSE c.turns[CHOOSE i \in at(n) : \A j \in at(n) : j <= i].value
<1>6. ASSUME NEW n \in Name PROVE Given(c.turns)[n] = value(n)
  <2>1. CASE at(n) = {}
    BY <1>1, <2>1, GivenIs
  <2>2. CASE at(n) # {}
    <3>1. PICK i \in DOMAIN c.turns :
            c.turns[i].name = n /\ \A j \in DOMAIN c.turns : c.turns[j].name = n => j <= i
      BY <1>1, <2>2, LastTurn
    <3>2. \A k \in at(n) : (\A j \in at(n) : j <= k) => k = i
      <4> SUFFICES ASSUME NEW k \in at(n), \A j \in at(n) : j <= k PROVE k = i
        OBVIOUS
      <4>1. i <= k /\ k <= i
        BY <3>1
      <4> QED
        BY <1>1, <4>1
    <3>3. (CHOOSE k \in at(n) : \A j \in at(n) : j <= k) = i
      BY <3>1, <3>2
    <3> QED
      BY <1>1, <2>2, <3>1, <3>3, GivenIs
  <2> QED
    BY <2>1, <2>2
<1>7. Given(c.turns) = [n \in Name |-> value(n)]
  <2>1. Given(c.turns) = [n \in Name |-> Given(c.turns)[n]]
    BY DEF Given
  <2> HIDE DEF value
  <2> QED
    BY <1>6, <2>1
<1>8. /\ (IF child = <<>> THEN [n \in Name |-> Nil] ELSE Given(Head(child).given))'
           = [n \in Name |-> value(n)]
      /\ (IF child = <<>> THEN todo ELSE <<>>)' = (IF child = <<>> THEN todo ELSE <<>>)
  BY <1>2, <1>3, <1>7
<1> QED
  BY <1>1, <1>2, <1>5, <1>8, Zenon DEF Promised!Prepare

-----------------------------------------------------------------------------
(***************************************************************************)
(* What a child has done of the assignments in front of its program.       *)
(***************************************************************************)
Passed == Assignments("putexport")

\* After d of the assignments the others are left, and the variables are as they were
\* before, but for the names assigned so far.
Applied(rest, now, given, before, d) ==
  /\ rest = SubSeq(given, d + 1, Len(given))
  /\ \A n \in Name :
       /\ (\A i \in 1..d : given[i].name # n) => Entry(now, n) = Entry(before, n)
       /\ \A i \in 1..d :
            given[i].name = n /\ (\A j \in 1..d : given[j].name = n => j <= i) =>
              Entry(now, n) = [value |-> given[i].value, exported |-> TRUE]

ChildInv ==
  child # <<>> =>
    /\ Head(child).given \in Seq(Passed)
    /\ \E d \in 0..Len(Head(child).given) :
         Applied(todo, shvars, Head(child).given, Head(child).vars, d)

LEMMA ChildTurn ==
  ASSUME Inv, ChildInv, Turn, child # <<>>
  PROVE  ChildInv' /\ funcs' = funcs
<1> DEFINE given == Head(child).given
           before == Head(child).vars
           turn == Head(todo)
<1>1. given \in Seq(Passed) /\ child' = child
  BY DEF ChildInv, Turn
<1>2. PICK d \in 0..Len(given) : Applied(todo, shvars, given, before, d)
  BY DEF ChildInv
<1>3. todo # <<>> /\ todo = SubSeq(given, d + 1, Len(given))
  BY <1>2 DEF Turn, Applied
<1> HIDE DEF given, before
<1>4. /\ d \in Nat /\ d + 1 \in 1..Len(given) /\ turn = given[d + 1]
      /\ Tail(todo) = SubSeq(given, (d + 1) + 1, Len(given))
  <2>1. Len(given) \in Nat /\ d \in Nat /\ d <= Len(given)
    BY <1>1, <1>2
  <2>2. d < Len(given)
    BY <1>1, <1>3, <2>1
  <2>3. turn = given[d + 1]
    BY <1>1, <1>3, <2>1, <2>2
  <2>4. Tail(todo) = SubSeq(given, (d + 1) + 1, Len(given))
    BY <1>1, <1>3, <2>1, <2>2
  <2> QED
    BY <2>1, <2>2, <2>3, <2>4
<1>5. turn \in Passed
  BY <1>1, <1>4
<1>6. turn \in Turns /\ turn.do = "putexport" /\ turn.name \in Name /\ turn.value \in Value
  BY <1>5 DEF Passed, Assignments, Turns
<1>7. shvars' = ChangedVars(shvars, turn) /\ todo' = Tail(todo) /\ funcs' = funcs
  BY <1>6 DEF Turn, UnsetsFunc
<1>8. shvars \in Seq(Var) /\ Distinct(shvars)
  BY DEF Inv, VarInv
<1> HIDE DEF turn
<1>9. ASSUME NEW n \in Name
      PROVE  /\ (\A i \in 1..(d + 1) : given[i].name # n) => Entry(shvars', n) = Entry(before, n)
             /\ \A i \in 1..(d + 1) :
                  given[i].name = n /\ (\A j \in 1..(d + 1) : given[j].name = n => j <= i) =>
                    Entry(shvars', n) = [value |-> given[i].value, exported |-> TRUE]
  <2>1. CASE n = turn.name
    <3>1. Entry(shvars', n) = [value |-> turn.value, exported |-> TRUE]
      BY <1>6, <1>7, <1>8, <2>1, TurnEntry
    <3>2. ASSUME NEW i \in 1..(d + 1), \A j \in 1..(d + 1) : given[j].name = n => j <= i
          PROVE  i = d + 1
      BY <1>4, <2>1, <3>2
    <3>3. given[d + 1].name = n /\ d + 1 \in 1..(d + 1)
      BY <1>4, <2>1
    <3> QED
      BY <1>4, <3>1, <3>2, <3>3
  <2>2. CASE n # turn.name
    <3>1. Entry(shvars', n) = Entry(shvars, n)
      BY <1>6, <1>7, <1>8, <2>2, TurnEntry
    <3>2. \A i \in 1..(d + 1) : given[i].name = n => i \in 1..d
      BY <1>4, <2>2
    <3>3. 1..d \subseteq 1..(d + 1)
      BY <1>4
    <3>4. /\ (\A i \in 1..d : given[i].name # n) => Entry(shvars, n) = Entry(before, n)
          /\ \A i \in 1..d :
               given[i].name = n /\ (\A j \in 1..d : given[j].name = n => j <= i) =>
                 Entry(shvars, n) = [value |-> given[i].value, exported |-> TRUE]
      BY <1>2 DEF Applied
    <3> QED
      BY <3>1, <3>2, <3>3, <3>4
  <2> QED
    BY <2>1, <2>2
<1>10. /\ todo' = SubSeq(given, (d + 1) + 1, Len(given))
       /\ d + 1 \in 0..Len(given)
  BY <1>1, <1>4, <1>7
<1>11. \E k \in 0..Len(given) : Applied(todo', shvars', given, before, k)
  <2>1. Applied(todo', shvars', given, before, d + 1)
    BY <1>9, <1>10, Zenon DEF Applied
  <2> QED
    BY <1>10, <2>1
<1>12. given = Head(child').given /\ before = Head(child').vars
  BY <1>1 DEF given, before
<1>13. ChildInv'
  BY <1>1, <1>11, <1>12, Zenon DEF ChildInv
<1> QED
  BY <1>7, <1>13

LEMMA ChildStep == Inv /\ ChildInv /\ [Next]_vars => ChildInv'
<1> SUFFICES ASSUME Inv, ChildInv, [Next]_vars PROVE ChildInv'
  OBVIOUS
<1>1. ASSUME NEW c \in menu, \/ Assign(c) \/ Update(c) \/ Define(c) \/ CallFunc(c)
                             \/ Source(c) \/ Set(c) \/ Shift(c)
      PROVE  child' = <<>>
  BY <1>1 DEF Assign, Update, Define, CallFunc, Source, Enter, Set, Shift, Runs
<1>2. ASSUME NEW c \in menu, Program(c) PROVE ChildInv'
  <2>1. c.turns \in Seq(Passed)
    BY <1>2, Carried DEF Program, Runs, Inv, ArgType, Passed
  <2>2. /\ child' = <<[vars |-> shvars, given |-> c.turns]>> /\ todo' = c.turns
        /\ shvars' = shvars
    BY <1>2 DEF Program
  <2>3. Head(child').given = c.turns /\ Head(child').vars = shvars
    BY <2>2
  <2>4. todo' = SubSeq(c.turns, 0 + 1, Len(c.turns)) /\ 0 \in 0..Len(c.turns)
    BY <2>1, <2>2
  <2>5. \A i \in 1..0 : FALSE
    OBVIOUS
  <2> QED
    BY <2>1, <2>2, <2>3, <2>4, <2>5 DEF ChildInv, Applied
<1>3. CASE Turn
  <2>1. CASE child = <<>>
    BY <1>3, <2>1 DEF Turn, ChildInv
  <2> QED
    BY <1>3, <2>1, ChildTurn
<1>4. CASE StartsProgram \/ Leave
  BY <1>4 DEF StartsProgram, Leave, ChildInv
<1>5. CASE UNCHANGED vars
  BY <1>5 DEF vars, ChildInv
<1> QED
  BY <1>1, <1>2, <1>3, <1>4, <1>5 DEF Next, ChildInv

\* The program gets what is exported and what is in front of it, and the shell has its
\* variables as they were.
LEMMA PromisedRun ==
  ASSUME Inv, ChildInv, StartsProgram
  PROVE  Promised!Run
<1> DEFINE given == Head(child).given
           before == Head(child).vars
<1>1. /\ todo = <<>> /\ child # <<>> /\ env' = Environ(shvars) /\ shvars' = before
      /\ child' = <<>> /\ UNCHANGED <<menu, funcs, stolen, args, todo>>
  BY DEF StartsProgram
<1>2. given \in Seq(Passed) /\ shvars \in Seq(Var) /\ Distinct(shvars)
  BY <1>1 DEF ChildInv, Inv, VarInv
<1>3. PICK d \in 0..Len(given) : Applied(todo, shvars, given, before, d)
  BY <1>1 DEF ChildInv
<1>4. VarMap = [n \in Name |-> Entry(before, n)] /\ Variables' = Variables
  BY <1>1, VarMapIs DEF Variables
<1>5. VarMap' = VarMap /\ FuncMap' = FuncMap /\ Scopes' = Scopes
  BY <1>1, <1>4, SameVariables, SameFunctions, SameScopes
<1> HIDE DEF given, before
<1>6. d = Len(given) /\ DOMAIN given = 1..d
  <2>1. SubSeq(given, d + 1, Len(given)) = <<>> /\ Len(given) \in Nat /\ d \in Nat
    BY <1>1, <1>2, <1>3 DEF Applied
  <2>2. Len(given) <= d
    <3> SUFFICES ASSUME d < Len(given) PROVE FALSE
      BY <2>1
    <3>1. Len(SubSeq(given, d + 1, Len(given))) = Len(given) - d
      BY <1>2, <2>1
    <3>2. todo = SubSeq(given, d + 1, Len(given)) /\ Len(todo) = 0
      BY <1>1, <1>3 DEF Applied
    <3>3. Len(given) - d = 0
      BY <3>1, <3>2, Zenon
    <3> QED
      BY <2>1, <3>3
  <2> QED
    BY <1>2, <1>3, <2>1, <2>2
<1>7. given \in Seq(Turns)
  <2>1. Passed \subseteq Turns
    BY DEF Passed, Assignments, Turns
  <2> QED
    BY <1>2, <2>1
<1> DEFINE pend == Given(given)
<1>8. ASSUME NEW n \in Name
      PROVE  /\ Entry(shvars, n).exported <=> pend[n] # Nil \/ VarMap[n].exported
             /\ Entry(shvars, n).exported =>
                  Entry(shvars, n).value = IF pend[n] # Nil THEN pend[n] ELSE VarMap[n].value
  <2>1. VarMap[n] = Entry(before, n)
    BY <1>4
  <2>2. CASE \A i \in DOMAIN given : given[i].name # n
    <3>1. pend[n] = Nil
      BY <1>7, <2>2, GivenIs
    <3>2. Entry(shvars, n) = Entry(before, n)
      BY <1>3, <1>6, <2>2 DEF Applied
    <3> QED
      BY <2>1, <3>1, <3>2
  <2>3. CASE \E i \in DOMAIN given : given[i].name = n
    <3>1. PICK i \in DOMAIN given :
            given[i].name = n /\ \A j \in DOMAIN given : given[j].name = n => j <= i
      BY <1>7, <2>3, LastTurn
    <3>2. pend[n] = given[i].value
      BY <1>7, <3>1, GivenIs
    <3>3. Entry(shvars, n) = [value |-> given[i].value, exported |-> TRUE]
      BY <1>3, <1>6, <3>1 DEF Applied
    <3>4. given[i] \in Turns
      BY <1>7
    <3>5. given[i].value # Nil
      BY <3>4, NilAssumption DEF Turns
    <3> QED
      BY <3>2, <3>3, <3>5
  <2> QED
    BY <2>2, <2>3
<1>9. Environ(shvars) = [n \in {m \in Name : Entry(shvars, m).exported} |-> Entry(shvars, n).value]
  BY <1>2, EnvironEntries
<1> HIDE DEF pend
<1>10. {m \in Name : Entry(shvars, m).exported}
         = {m \in Name : pend[m] # Nil \/ VarMap[m].exported}
  BY <1>8
<1>11. env' = [n \in {m \in Name : pend[m] # Nil \/ VarMap[m].exported} |->
                 IF pend[n] # Nil THEN pend[n] ELSE VarMap[n].value]
  BY <1>1, <1>8, <1>9, <1>10
<1>12. /\ pend = (IF child = <<>> THEN [n \in Name |-> Nil] ELSE Given(Head(child).given))
       /\ (IF child = <<>> THEN [n \in Name |-> Nil] ELSE Given(Head(child).given))'
            = [n \in Name |-> Nil]
       /\ (IF child = <<>> THEN todo ELSE <<>>)' = (IF child = <<>> THEN todo ELSE <<>>)
  BY <1>1 DEF pend, given
<1> QED
  BY <1>1, <1>5, <1>11, <1>12, Zenon DEF Promised!Run, Promised!NonePending

LEMMA PromisedStep ==
  Inv /\ ReadInv /\ ZeroInv /\ ChildInv /\ ScopesFit /\ ScopesFit'
    /\ [Next /\ StaticOnce']_vars /\ ArgType' => [Promised!Next]_(Promised!vars)
<1> SUFFICES ASSUME Inv, ReadInv, ZeroInv, ChildInv, ScopesFit, ScopesFit',
                    [Next /\ StaticOnce']_vars, ArgType'
             PROVE  Promised!Next \/ UNCHANGED Promised!vars
  OBVIOUS
<1>1. ASSUME NEW c \in menu, Assign(c) \/ Update(c) PROVE Promised!Next
  BY <1>1, PromisedBegin DEF Promised!Next
<1>2. ASSUME NEW c \in menu, Program(c) PROVE Promised!Next
  BY <1>2, PromisedProgram DEF Promised!Next
<1>3. ASSUME NEW c \in menu, Define(c) PROVE Promised!Next
  BY <1>3, PromisedDefine DEF Promised!Next
<1>4. ASSUME NEW c \in menu, CallFunc(c) \/ Source(c) PROVE Promised!Next
  BY <1>4, PromisedEnter DEF Promised!Next
<1>5. ASSUME NEW c \in menu, Set(c), StaticOnce' PROVE Promised!Next \/ UNCHANGED Promised!vars
  <2>1. (ArgType /\ StaticOnce =>
          (argv.array = Static => \A k \in DOMAIN calls : calls[k].argv.array # Static))'
    BY StaticOnly, PTL
  <2>2. argv'.array = Static => \A k \in DOMAIN calls' : calls'[k].argv.array # Static
    BY <1>5, <2>1
  <2>3. Promised!Set(c) \/ UNCHANGED Promised!vars
    BY <1>5, <2>2, PromisedSet
  <2> QED
    BY <2>3 DEF Promised!Next
<1>6. ASSUME NEW c \in menu, Shift(c) PROVE Promised!Next \/ UNCHANGED Promised!vars
  BY <1>6, PromisedShift DEF Promised!Next
<1>7. CASE Turn
  <2>1. CASE child = <<>>
    BY <1>7, <2>1, PromisedTurn DEF Promised!Next
  <2>2. CASE child # <<>>
    <3>1. child' = child /\ funcs' = funcs /\ UNCHANGED <<menu, stolen, args, env>>
      BY <1>7, <2>2, ChildTurn DEF Turn
    <3>2. Variables' = Variables
      BY <2>2, <3>1 DEF Variables
    <3>3. VarMap' = VarMap /\ FuncMap' = FuncMap /\ Scopes' = Scopes
      BY <3>1, <3>2, SameVariables, SameFunctions, SameScopes
    <3> QED
      BY <2>2, <3>1, <3>3 DEF Promised!vars
  <2> QED
    BY <2>1, <2>2
<1>8. CASE StartsProgram
  BY <1>8, PromisedRun DEF Promised!Next
<1>9. CASE Leave
  BY <1>9, PromisedLeave DEF Promised!Next
<1>10. CASE UNCHANGED vars
  <2>1. UNCHANGED <<menu, shvars, funcs, stolen, args, todo, child, env>>
    BY <1>10 DEF vars
  <2>2. VarMap' = VarMap /\ FuncMap' = FuncMap /\ Scopes' = Scopes
    BY <2>1, SameVariables, SameFunctions, SameScopes DEF Variables
  <2> QED
    BY <2>1, <2>2 DEF Promised!vars
<1> QED
  BY <1>1, <1>2, <1>3, <1>4, <1>5, <1>6, <1>7, <1>8, <1>9, <1>10 DEF Next

\* Vectors, a pointer into arrays, saved pointers and the copy that a child works on
\* are, for every script that does not use set both in a call and around it, a map
\* from names to values, a table of functions and a stack of scopes: no command of
\* var.c, func.c or of the builtins changes a name, a function or a scope it does
\* not mean, and a program gets the environment it should.
THEOREM PromisesKept == SetOnceSpec => KeepsPromises
<1>1. SetOnceSpec => Spec
  <2>1. [Next /\ StaticOnce']_vars => [Next]_vars
    OBVIOUS
  <2> QED
    BY <2>1, PTL DEF SetOnceSpec, Spec
<1>2. Init => ReadInv /\ ZeroInv /\ ChildInv
  <2>1. Init => ZeroInv /\ ChildInv
    BY DEF Init, ZeroInv, ChildInv
  <2> QED
    BY <2>1, ReadInit
<1>3. Inv /\ Inv' /\ ReadInv /\ ZeroInv /\ ChildInv /\ [Next /\ StaticOnce']_vars
        => ReadInv' /\ ZeroInv' /\ ChildInv'
  <2>1. [Next /\ StaticOnce']_vars => [Next]_vars
    OBVIOUS
  <2> QED
    BY <2>1, ReadStep, ZeroStep, ChildStep DEF Inv
<1>4. Inv /\ ReadInv => ScopesFit
  BY ScopesAre DEF Inv
<1>5. Inv /\ Inv' /\ ReadInv /\ ZeroInv /\ ChildInv /\ ScopesFit /\ ScopesFit'
        /\ [Next /\ StaticOnce']_vars => [Promised!Next]_(Promised!vars)
  BY PromisedStep DEF Inv
<1> QED
  BY <1>1, <1>2, <1>3, <1>4, <1>5, InvHolds, PromisedInit, PTL
  DEF SetOnceSpec, KeepsPromises, Promised!Spec
=============================================================================
