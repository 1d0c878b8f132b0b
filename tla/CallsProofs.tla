------------------------------ MODULE CallsProofs ------------------------------
(***************************************************************************)
(* Theorems about Calls, for any programs, of any length.                  *)
(*                                                                         *)
(* The typechecker's pass is kept in the invariant as the types of the     *)
(* arguments evaluated so far, before every item of a body (Replays).  The *)
(* code generator's pass is at one of these items, with the same types     *)
(* (Followed); that its LLVM types agree with them (Agreed) follows item   *)
(* by item, from the instructions of every builtin (BuiltinInPlace).       *)
(***************************************************************************)
EXTENDS Calls, TLAPS, WellFoundedInduction, FiniteSetTheorems

-----------------------------------------------------------------------------
(* What the builtins are. *)

Arith == {"+", "-", "*", "/"}
Compare == {"==", "!=", "<", "<=", ">", ">="}
Logic == {"&&", "||"}
BuiltIn == Arith \cup {"%", "!", "bool", "int", "float", "print"} \cup Compare \cup Logic
Names == BuiltIn \cup {""} \cup UNION {p.names \cup p.called : p \in Programs}

Items ==
    [k : {"lit", "call", "end"}, ty : AllTypes, name : Names, args : Seq(AllTypes), target : Nat]
FuncDefs ==
    [name : Names, params : Seq(AllTypes), ret : AllTypes, body : BOOLEAN, code : Seq(Items)]

Numeric == {<<"int", "int">>, <<"float", "float">>, <<"int", "float">>, <<"float", "int">>}
Signature(name, params, ret) ==
    \/ name \in Arith \cup {"%"} /\ params = <<"int", "int">> /\ ret = "int"
    \/ name \in Arith /\ params \in Numeric \ {<<"int", "int">>} /\ ret = "float"
    \/ name \in Compare /\ params \in Numeric /\ ret = "bool"
    \/ name \in Logic /\ params = <<"bool", "bool">> /\ ret = "bool"
    \/ name = "!" /\ params = <<"bool">> /\ ret = "bool"
    \/ name = "-" /\ params = <<"int">> /\ ret = "int"
    \/ name = "-" /\ params = <<"float">> /\ ret = "float"
    \/ name = "bool" /\ params \in {<<"int">>, <<"float">>} /\ ret = "bool"
    \/ name = "int" /\ params \in {<<"bool">>, <<"float">>} /\ ret = "int"
    \/ name = "float" /\ params \in {<<"bool">>, <<"int">>} /\ ret = "float"
    \/ name = "print" /\ params \in {<<"bool">>, <<"int">>, <<"float">>} /\ ret = "int"
BuiltinDefs ==
    {b \in FuncDefs : b.body = FALSE /\ b.code = <<>> /\ Signature(b.name, b.params, b.ret)}

NamesOf(s) == {s[i].name : i \in DOMAIN s}

\* The elements of a concatenation.
LEMMA RangeOfBoth ==
    ASSUME NEW S, NEW s \in Seq(S), NEW t \in Seq(S)
    PROVE  s \o t \in Seq(S) /\ Range(s \o t) = Range(s) \cup Range(t)
<1>1. s \o t \in Seq(S) /\ DOMAIN (s \o t) = 1 .. Len(s) + Len(t)
  OBVIOUS
<1>2. \A i \in DOMAIN s : i \in DOMAIN (s \o t) /\ (s \o t)[i] = s[i]
  BY <1>1
<1>3. \A i \in DOMAIN t : Len(s) + i \in DOMAIN (s \o t) /\ (s \o t)[Len(s) + i] = t[i]
  BY <1>1
<1>4. ASSUME NEW i \in DOMAIN (s \o t) PROVE (s \o t)[i] \in Range(s) \cup Range(t)
  <2>1. CASE i <= Len(s)
    <3>1. i \in DOMAIN s
      BY <1>1, <2>1
    <3> QED  BY <1>2, <3>1 DEF Range
  <2>2. CASE i > Len(s)
    <3>1. i - Len(s) \in DOMAIN t /\ i = Len(s) + (i - Len(s))
      BY <1>1, <2>2
    <3>2. (s \o t)[i] = t[i - Len(s)]
      BY <1>3, <3>1
    <3> QED  BY <3>1, <3>2 DEF Range
  <2>3. i <= Len(s) \/ i > Len(s)
    BY <1>1
  <2> QED  BY <2>1, <2>2, <2>3
<1> QED  BY <1>1, <1>2, <1>3, <1>4 DEF Range

\* The lists of operator names.
LEMMA ListNames ==
    /\ ArithNames \in Seq(Names) /\ Range(ArithNames) = Arith
    /\ CompareNames \in Seq(Names) /\ Range(CompareNames) = Compare
    /\ LogicNames \in Seq(Names) /\ Range(LogicNames) = Logic
    /\ ArithNames \o <<"%">> \in Seq(Names) /\ Range(ArithNames \o <<"%">>) = Arith \cup {"%"}
<1>1. ArithNames \in Seq(Names) /\ Range(ArithNames) = Arith
  BY DEF ArithNames, Arith, Range, Names, BuiltIn
<1>2. CompareNames \in Seq(Names) /\ Range(CompareNames) = Compare
  BY DEF CompareNames, Compare, Range, Names, BuiltIn
<1>3. LogicNames \in Seq(Names) /\ Range(LogicNames) = Logic
  BY DEF LogicNames, Logic, Range, Names, BuiltIn
<1> DEFINE modulo == <<"%">>
<1>4. modulo \in Seq(Names) /\ Range(modulo) = {"%"}
  BY DEF Range, Names, BuiltIn
<1> HIDE DEF modulo
<1>5. ArithNames \o <<"%">> \in Seq(Names) /\ Range(ArithNames \o <<"%">>) = Arith \cup {"%"}
  <2>1. ArithNames \o modulo \in Seq(Names) /\ Range(ArithNames \o modulo) = Arith \cup {"%"}
    BY <1>1, <1>4, RangeOfBoth
  <2> QED  BY <2>1 DEF modulo
<1> QED  BY <1>1, <1>2, <1>3, <1>5

\* The entries of the table of builtins, list by list.
LEMMA BuiltinType ==
    ASSUME NEW name \in Names, NEW params \in Seq(AllTypes), NEW ret \in AllTypes,
           Signature(name, params, ret)
    PROVE  Builtin(ret, name, params) \in BuiltinDefs /\ Builtin(ret, name, params).name = name
BY DEF Builtin, FuncDef, BuiltinDefs, FuncDefs

\* A list of builtins with the same parameters.
LEMMA EachType ==
    ASSUME NEW names \in Seq(Names), NEW params \in Seq(AllTypes), NEW ret \in AllTypes,
           \A name \in Range(names) : Signature(name, params, ret)
    PROVE  /\ Each(ret, names, params) \in Seq(BuiltinDefs)
           /\ NamesOf(Each(ret, names, params)) = Range(names)
<1> DEFINE s == Each(ret, names, params)
<1>1. DOMAIN s = 1 .. Len(names) /\ DOMAIN names = 1 .. Len(names) /\ Len(names) \in Nat
  BY DEF Each
<1>2. \A i \in 1 .. Len(names) : names[i] \in Names /\ names[i] \in Range(names)
  BY DEF Range
<1>3. \A i \in 1 .. Len(names) : s[i] \in BuiltinDefs /\ s[i].name = names[i]
  BY <1>1, <1>2, BuiltinType DEF Each
<1>4. s \in Seq(BuiltinDefs)
  BY <1>1, <1>3 DEF Each
<1>5. NamesOf(s) = Range(names)
  BY <1>1, <1>3 DEF NamesOf, Range
<1> QED  BY <1>4, <1>5

\* A list of builtins with one int and one float.
LEMMA EachMixedType ==
    ASSUME NEW names \in Seq(Names), NEW ret \in AllTypes,
           \A name \in Range(names) : /\ Signature(name, <<"int", "float">>, ret)
                                      /\ Signature(name, <<"float", "int">>, ret)
    PROVE  EachMixed(ret, names) \in Seq(BuiltinDefs)
<1> DEFINE s == EachMixed(ret, names)
<1>1. Len(names) \in Nat /\ 2 * Len(names) \in Nat
  OBVIOUS
<1>2. \A i \in 1 .. 2 * Len(names) : (i + 1) \div 2 \in 1 .. Len(names)
  BY <1>1
<1>3. \A i \in 1 .. Len(names) : names[i] \in Names /\ names[i] \in Range(names)
  BY DEF Range
<1>4. <<"int", "float">> \in Seq(AllTypes) /\ <<"float", "int">> \in Seq(AllTypes)
  BY DEF AllTypes
<1>5. \A i \in 1 .. 2 * Len(names) : s[i] \in BuiltinDefs
  BY <1>2, <1>3, <1>4, BuiltinType DEF EachMixed
<1> QED  BY <1>1, <1>5 DEF EachMixed

\* The builtins listed one by one.
LEMMA OneType ==
    /\ Builtin("bool", "!", <<"bool">>) \in BuiltinDefs
    /\ Builtin("bool", "!", <<"bool">>).name = "!"
    /\ \A t \in {"int", "float"} :
          /\ Builtin(t, "-", <<t>>) \in BuiltinDefs
          /\ Builtin("bool", "bool", <<t>>) \in BuiltinDefs
    /\ \A t \in {"bool", "float"} : Builtin("int", "int", <<t>>) \in BuiltinDefs
    /\ \A t \in {"bool", "int"} : Builtin("float", "float", <<t>>) \in BuiltinDefs
    /\ \A t \in AllTypes : Builtin("int", "print", <<t>>) \in BuiltinDefs
<1>1. AllTypes = {"bool", "int", "float"} /\ \A t \in AllTypes : <<t>> \in Seq(AllTypes)
  BY DEF AllTypes
<1>2. \A name \in Names : \A t, ret \in AllTypes :
         Signature(name, <<t>>, ret) =>
            Builtin(ret, name, <<t>>) \in BuiltinDefs /\ Builtin(ret, name, <<t>>).name = name
  BY <1>1, BuiltinType
<1>3. /\ Signature("!", <<"bool">>, "bool")
      /\ \A t \in {"int", "float"} : Signature("-", <<t>>, t) /\ Signature("bool", <<t>>, "bool")
      /\ \A t \in {"bool", "float"} : Signature("int", <<t>>, "int")
      /\ \A t \in {"bool", "int"} : Signature("float", <<t>>, "float")
      /\ \A t \in {"bool", "int", "float"} : Signature("print", <<t>>, "int")
  BY DEF Signature
<1>4. {"int", "float"} \subseteq AllTypes /\ {"bool", "float"} \subseteq AllTypes /\ {"bool", "int"} \subseteq AllTypes
      /\ "!" \in Names /\ "-" \in Names /\ "bool" \in Names /\ "int" \in Names
      /\ "float" \in Names /\ "print" \in Names
  BY <1>1 DEF Names, BuiltIn, Arith
<1> QED  BY <1>1, <1>2, <1>3, <1>4

\* The names of two lists.
LEMMA NamesOfBoth ==
    ASSUME NEW S, NEW s \in Seq(S), NEW t \in Seq(S)
    PROVE  s \o t \in Seq(S) /\ NamesOf(s) \subseteq NamesOf(s \o t) /\ NamesOf(t) \subseteq NamesOf(s \o t)
<1>1. s \o t \in Seq(S) /\ DOMAIN (s \o t) = 1 .. Len(s) + Len(t)
  OBVIOUS
<1>2. \A i \in DOMAIN s : i \in DOMAIN (s \o t) /\ (s \o t)[i] = s[i]
  BY <1>1
<1>3. \A i \in DOMAIN t : Len(s) + i \in DOMAIN (s \o t) /\ (s \o t)[Len(s) + i] = t[i]
  BY <1>1
<1> QED  BY <1>1, <1>2, <1>3 DEF NamesOf

\* Builtins.h: the overloads there are, by name.
LEMMA BuiltinsAre ==
    /\ Builtins \in Seq(BuiltinDefs) /\ NB \in Nat
    /\ BuiltIn \subseteq BuiltinNames
<1> DEFINE a == Each("int", ArithNames \o <<"%">>, <<"int", "int">>)
           b == Each("float", ArithNames, <<"float", "float">>)
           c == EachMixed("float", ArithNames)
           d == Each("bool", CompareNames, <<"int", "int">>)
           e == Each("bool", CompareNames, <<"float", "float">>)
           f == EachMixed("bool", CompareNames)
           g == <<Builtin("bool", "!", <<"bool">>), Builtin("int", "-", <<"int">>),
                  Builtin("float", "-", <<"float">>)>>
           h == Each("bool", LogicNames, <<"bool", "bool">>)
           i == <<Builtin("bool", "bool", <<"int">>), Builtin("int", "int", <<"bool">>),
                  Builtin("bool", "bool", <<"float">>), Builtin("float", "float", <<"bool">>),
                  Builtin("int", "int", <<"float">>), Builtin("float", "float", <<"int">>),
                  Builtin("int", "print", <<"int">>), Builtin("int", "print", <<"float">>),
                  Builtin("int", "print", <<"bool">>)>>
<1>1. AllTypes = {"bool", "int", "float"}
  BY DEF AllTypes
<1>2. /\ <<"int", "int">> \in Seq(AllTypes) /\ <<"float", "float">> \in Seq(AllTypes)
      /\ <<"bool", "bool">> \in Seq(AllTypes) /\ <<"int">> \in Seq(AllTypes)
      /\ <<"float">> \in Seq(AllTypes) /\ <<"bool">> \in Seq(AllTypes)
  BY <1>1
<1>3. a \in Seq(BuiltinDefs) /\ NamesOf(a) = Arith \cup {"%"}
  BY <1>1, <1>2, ListNames, EachType DEF Signature
<1>4. b \in Seq(BuiltinDefs)
  BY <1>1, <1>2, ListNames, EachType DEF Signature, Numeric
<1>5. c \in Seq(BuiltinDefs)
  BY <1>1, ListNames, EachMixedType DEF Signature, Numeric
<1>6. d \in Seq(BuiltinDefs) /\ NamesOf(d) = Compare
  BY <1>1, <1>2, ListNames, EachType DEF Signature, Numeric
<1>7. e \in Seq(BuiltinDefs)
  BY <1>1, <1>2, ListNames, EachType DEF Signature, Numeric
<1>8. f \in Seq(BuiltinDefs)
  BY <1>1, ListNames, EachMixedType DEF Signature, Numeric
<1>9. g \in Seq(BuiltinDefs) /\ "!" \in NamesOf(g)
  <2>1. /\ Builtin("bool", "!", <<"bool">>) \in BuiltinDefs
        /\ Builtin("int", "-", <<"int">>) \in BuiltinDefs
        /\ Builtin("float", "-", <<"float">>) \in BuiltinDefs
        /\ Builtin("bool", "!", <<"bool">>).name = "!"
    BY <1>2, OneType
  <2> QED  BY <2>1 DEF NamesOf
<1>10. h \in Seq(BuiltinDefs) /\ NamesOf(h) = Logic
  BY <1>1, <1>2, ListNames, EachType DEF Signature
<1>11. i \in Seq(BuiltinDefs) /\ {"bool", "int", "float", "print"} \subseteq NamesOf(i)
  <2>1. /\ Builtin("bool", "bool", <<"int">>) \in BuiltinDefs
        /\ Builtin("int", "int", <<"bool">>) \in BuiltinDefs
        /\ Builtin("bool", "bool", <<"float">>) \in BuiltinDefs
        /\ Builtin("float", "float", <<"bool">>) \in BuiltinDefs
        /\ Builtin("int", "int", <<"float">>) \in BuiltinDefs
        /\ Builtin("float", "float", <<"int">>) \in BuiltinDefs
        /\ Builtin("int", "print", <<"int">>) \in BuiltinDefs
        /\ Builtin("int", "print", <<"float">>) \in BuiltinDefs
        /\ Builtin("int", "print", <<"bool">>) \in BuiltinDefs
    BY <1>1, OneType
  <2>2. /\ i[1].name = "bool" /\ i[2].name = "int" /\ i[4].name = "float" /\ i[7].name = "print"
    BY DEF Builtin, FuncDef
  <2>3. DOMAIN i = 1 .. 9
    OBVIOUS
  <2>4. i \in Seq(BuiltinDefs)
    BY <2>1
  <2> HIDE DEF i
  <2> QED  BY <2>2, <2>3, <2>4 DEF NamesOf
<1> HIDE DEF a, b, c, d, e, f, g, h, i
<1>12. Builtins = a \o b \o c \o d \o e \o f \o g \o h \o i
  BY DEF Builtins, a, b, c, d, e, f, g, h, i
<1> DEFINE ab == a \o b
           ac == ab \o c
           ad == ac \o d
           ae == ad \o e
           af == ae \o f
           ag == af \o g
           ah == ag \o h
           ai == ah \o i
<1>13. ai \in Seq(BuiltinDefs)
       /\ BuiltIn \subseteq NamesOf(ai)
  <2>1. ab \in Seq(BuiltinDefs) /\ Arith \cup {"%"} \subseteq NamesOf(ab)
    BY <1>3, <1>4, NamesOfBoth
  <2> HIDE DEF ab
  <2>2. ac \in Seq(BuiltinDefs) /\ Arith \cup {"%"} \subseteq NamesOf(ac)
    BY <2>1, <1>5, NamesOfBoth
  <2> HIDE DEF ac
  <2>3. ad \in Seq(BuiltinDefs) /\ Arith \cup {"%"} \cup Compare \subseteq NamesOf(ad)
    BY <2>2, <1>6, NamesOfBoth
  <2> HIDE DEF ad
  <2>4. ae \in Seq(BuiltinDefs) /\ Arith \cup {"%"} \cup Compare \subseteq NamesOf(ae)
    BY <2>3, <1>7, NamesOfBoth
  <2> HIDE DEF ae
  <2>5. af \in Seq(BuiltinDefs) /\ Arith \cup {"%"} \cup Compare \subseteq NamesOf(af)
    BY <2>4, <1>8, NamesOfBoth
  <2> HIDE DEF af
  <2>6. ag \in Seq(BuiltinDefs) /\ Arith \cup {"%", "!"} \cup Compare \subseteq NamesOf(ag)
    BY <2>5, <1>9, NamesOfBoth
  <2> HIDE DEF ag
  <2>7. ah \in Seq(BuiltinDefs) /\ Arith \cup {"%", "!"} \cup Compare \cup Logic \subseteq NamesOf(ah)
    BY <2>6, <1>10, NamesOfBoth
  <2> HIDE DEF ah
  <2> QED  BY <2>7, <1>11, NamesOfBoth DEF BuiltIn
<1>14. Builtins = ai
  BY <1>12
<1> HIDE DEF ai
<1>15. BuiltinNames = NamesOf(Builtins)
  <2>1. DOMAIN Builtins = 1 .. NB
    BY <1>13, <1>14 DEF NB
  <2> QED  BY <2>1 DEF BuiltinNames, NamesOf
<1> QED  BY <1>13, <1>14, <1>15 DEF NB

-----------------------------------------------------------------------------
(* The search for a function. *)

\* Min of a nonempty set of naturals.
LEMMA Least ==
    ASSUME NEW S \in SUBSET Nat, S # {}
    PROVE  Min(S) \in S /\ \A n \in S : Min(S) <= n
<1> DEFINE R == {ss \in Nat \X Nat : ss[1] < ss[2]}
<1>1. IsWellFoundedOn(R, Nat)
  BY NatLessThanWellFounded DEF OpToRel
<1> HIDE DEF R
<1>2. PICK m \in S : \A n \in S : <<n, m>> \notin R
  BY <1>1, WFMin
<1>3. \A n \in S : m <= n
  <2> SUFFICES ASSUME NEW n \in S PROVE m <= n
    OBVIOUS
  <2>1. n \in Nat /\ m \in Nat /\ <<n, m>> \notin R
    BY <1>2
  <2> QED  BY <2>1 DEF R
<1> QED  BY <1>3 DEF Min

\* What Min is.
LEMMA LeastIs ==
    ASSUME NEW S \in SUBSET Nat, NEW m \in S, \A n \in S : m <= n
    PROVE  Min(S) = m
<1>1. Min(S) \in S /\ Min(S) <= m
  BY Least
<1>2. m <= Min(S) /\ m \in Nat /\ Min(S) \in Nat
  BY <1>1
<1> QED  BY <1>1, <1>2

\* FuncTable::findFunc: the first function of all with that name and parameters.
LEMMA Finds ==
    ASSUME funcs \in Seq(FuncDefs), table = [i \in 1 .. Len(funcs) |-> NB + i],
           NEW name, NEW args
    PROVE  LET f == findFunc(name, args) IN
           \/ f = 0 /\ Meant(name, args) = {}
           \/ f \in Meant(name, args) /\ \A m \in Meant(name, args) : f <= m
<1> DEFINE first == [i \in 1 .. NB |-> i]
           entries == first \o table
           hits == {i \in DOMAIN entries : /\ Func(entries[i]).name = name
                                           /\ argsMatch(entries[i], args)}
<1>1. NB \in Nat /\ Len(funcs) \in Nat /\ LastFunc \in Nat
  BY BuiltinsAre DEF LastFunc
<1>2. entries = [i \in 1 .. LastFunc |-> i]
  <2>1. first \in Seq(Nat) /\ Len(first) = NB /\ \A i \in 1 .. NB : first[i] = i
    BY <1>1
  <2>2. table \in Seq(Nat) /\ Len(table) = Len(funcs)
    BY <1>1
  <2>6. \A i \in 1 .. Len(funcs) : table[i] = NB + i
    OBVIOUS
  <2> HIDE DEF first
  <2>3. entries \in Seq(Nat) /\ Len(entries) = NB + Len(funcs)
    BY <1>1, <2>1, <2>2
  <2>4. \A i \in 1 .. LastFunc : entries[i] = i
    <3> TAKE i \in 1 .. LastFunc
    <3>1. CASE i <= NB
      BY <1>1, <2>1, <2>2, <3>1 DEF LastFunc
    <3>2. CASE i > NB
      <4>1. i - NB \in 1 .. Len(funcs)
        BY <1>1, <3>2 DEF LastFunc
      <4>2. entries[i] = table[i - NB]
        BY <1>1, <2>1, <2>2, <3>2, <4>1 DEF LastFunc
      <4>3. table[i - NB] = i
        BY <1>1, <2>6, <4>1
      <4> QED  BY <4>2, <4>3
    <3>3. i <= NB \/ i > NB
      BY <1>1
    <3> QED  BY <3>1, <3>2, <3>3
  <2> HIDE DEF entries
  <2>5. entries = [i \in 1 .. Len(entries) |-> entries[i]]
    BY <2>3
  <2> QED  BY <2>3, <2>4, <2>5 DEF LastFunc
<1>3. hits = Meant(name, args)
  BY <1>2 DEF Meant
<1>4. findFunc(name, args) = IF hits = {} THEN 0 ELSE entries[Min(hits)]
  BY DEF findFunc
<1> HIDE DEF hits, entries
<1>5. CASE hits = {}
  BY <1>3, <1>4, <1>5
<1>6. CASE hits # {}
  <2>1. hits \in SUBSET Nat
    BY <1>1, <1>3 DEF Meant
  <2>2. Min(hits) \in hits /\ \A n \in hits : Min(hits) <= n
    BY <1>6, <2>1, Least
  <2>3. entries[Min(hits)] = Min(hits)
    BY <1>2, <1>3, <2>2 DEF Meant
  <2> QED  BY <1>3, <1>4, <1>6, <2>2, <2>3
<1> QED  BY <1>5, <1>6

-----------------------------------------------------------------------------
(* The instructions for a call. *)

\* Elements of a concatenation.
LEMMA Concat ==
    ASSUME NEW S, NEW s \in Seq(S), NEW t \in Seq(S)
    PROVE  /\ s \o t \in Seq(S) /\ Len(s \o t) = Len(s) + Len(t)
           /\ \A i \in 1 .. Len(s) : (s \o t)[i] = s[i]
           /\ \A i \in 1 .. Len(t) : (s \o t)[Len(s) + i] = t[i]
<1>1. /\ s \o t \in Seq(S) /\ DOMAIN (s \o t) = 1 .. Len(s) + Len(t)
      /\ Len(s) \in Nat /\ Len(t) \in Nat
  OBVIOUS
<1> QED  BY <1>1

\* Sequences of one and of two elements.
LEMMA Joined ==
    ASSUME NEW x, NEW y
    PROVE  /\ <<>> \o <<x>> = <<x>> /\ <<y>> \o <<x>> = <<y, x>>
           /\ Last(<<x>>) = x /\ Last(<<y, x>>) = x
           /\ Range(<<x>>) = {x} /\ Range(<<y, x>>) = {x, y}
           /\ <<x>> # <<>> /\ <<y, x>> # <<>>
<1> DEFINE s == <<y>>
           t == <<x>>
           S == {x, y}
           u == <<y, x>>
<1>1. s \in Seq(S) /\ t \in Seq(S) /\ Len(s) = 1 /\ Len(t) = 1 /\ s[1] = y /\ t[1] = x
  OBVIOUS
<1>2. u \in Seq(S) /\ Len(u) = 2 /\ u[1] = y /\ u[2] = x
  OBVIOUS
<1> HIDE DEF s, t, S, u
<1>3. s \o t \in Seq(S) /\ Len(s \o t) = Len(s) + Len(t)
  BY <1>1, Concat
<1>4. (s \o t)[1] = s[1] /\ (s \o t)[Len(s) + 1] = t[1]
  BY <1>1, Concat
<1>5. s \o t = u
  BY <1>1, <1>2, <1>3, <1>4
<1>6. <<y>> \o <<x>> = <<y, x>>
  BY <1>5 DEF s, t, u
<1>7. Last(<<x>>) = x /\ Last(<<y, x>>) = x /\ <<>> \o <<x>> = <<x>>
  BY DEF Last
<1>8. Range(<<x>>) = {x} /\ <<x>> # <<>> /\ <<y, x>> # <<>>
  BY DEF Range
<1>9. Range(<<y, x>>) = {x, y}
  BY DEF Range
<1> QED  BY <1>6, <1>7, <1>8, <1>9

\* The chain of tests on the name, undone: each name has an instruction of its own.
ArithInstr(name, ret, a) ==
    LET type == IF ret = "float" THEN "f32" ELSE IF IsInteger(a[1]) THEN a[1] ELSE "i32"
    IN  Instr(IF ret = "float" THEN "f" \o name ELSE name, a, [i \in DOMAIN a |-> type], a[1])
CompareInstr(name, a) ==
    Instr(IF a[1] = "f32" THEN FCmp(name) ELSE name, a, <<a[1], a[1]>>, "i1")
FloatInstr(v) == Instr("sitofp", <<v>>, <<v>>, "f32")
BoolInstr(v) ==
    IF IsInteger(v) THEN Instr("nonzero", <<v>>, <<"i32">>, "i1")
    ELSE Instr("une0", <<v>>, <<"f32">>, "i1")
IntInstr(v) ==
    IF v = "f32" THEN Instr("fptosi", <<v>>, <<"f32">>, "i32") ELSE Instr("zext", <<v>>, <<v>>, "i32")
PrintInstr(v) == Instr("printf", <<Widened(v)>>, <<Widened(v)>>, "i32")

\* The chain of tests on the name, for each kind of name.
LEMMA Operations ==
    ASSUME NEW name, NEW ret, NEW a
    PROVE  /\ name \in Logic =>
                 Operation(name, ret, a) = <<Instr(name, a, <<"i1", "i1">>, "i1")>>
           /\ name \in Arith \cup {"%"} => Operation(name, ret, a) = <<ArithInstr(name, ret, a)>>
           /\ name \in Compare => Operation(name, ret, a) = <<CompareInstr(name, a)>>
           /\ name = "!" => Operation(name, ret, a) = <<Instr("zero", <<a[1]>>, <<"i1">>, "i1")>>
           /\ name = "float" =>
                 Operation(name, ret, a) = IF IsInteger(a[1]) THEN <<FloatInstr(a[1])>> ELSE <<>>
           /\ name = "bool" => Operation(name, ret, a) = <<BoolInstr(a[1])>>
           /\ name = "int" => Operation(name, ret, a) = <<IntInstr(a[1])>>
           /\ name = "print" => Operation(name, ret, a) = <<PrintInstr(a[1])>>
           /\ name \notin BuiltIn => Operation(name, ret, a) = <<>>
<1> DEFINE x1 == <<Instr(name, a, <<"i1", "i1">>, "i1")>>
           x2 == <<ArithInstr(name, ret, a)>>
           x3 == <<CompareInstr(name, a)>>
           x4 == <<Instr("zero", <<a[1]>>, <<"i1">>, "i1")>>
           x5 == IF IsInteger(a[1]) THEN <<FloatInstr(a[1])>> ELSE <<>>
           x6 == <<BoolInstr(a[1])>>
           x6a == IF IsInteger(a[1]) THEN <<Instr("nonzero", <<a[1]>>, <<"i32">>, "i1")>>
                  ELSE <<Instr("une0", <<a[1]>>, <<"f32">>, "i1")>>
           x7 == <<IntInstr(a[1])>>
           x7a == IF a[1] = "f32" THEN <<Instr("fptosi", <<a[1]>>, <<"f32">>, "i32")>>
                  ELSE <<Instr("zext", <<a[1]>>, <<a[1]>>, "i32")>>
           x8 == <<PrintInstr(a[1])>>
           op == Operation(name, ret, a)
<1>1. op = CASE name \in Range(LogicNames) -> x1
             [] name \in Range(ArithNames) \cup {"%"} -> x2
             [] name \in Range(CompareNames) -> x3
             [] name = "!" -> x4
             [] name = "float" -> x5
             [] name = "bool" -> x6a
             [] name = "int" -> x7a
             [] name = "print" -> x8
             [] OTHER -> <<>>
  BY DEF Operation, ArithInstr, CompareInstr, FloatInstr, PrintInstr
<1>2. x6a = x6 /\ x7a = x7
  BY DEF BoolInstr, IntInstr
<1> HIDE DEF x1, x2, x3, x4, x5, x6, x6a, x7, x7a, x8, op
<1>3. op = CASE name \in Logic -> x1
             [] name \in Arith \cup {"%"} -> x2
             [] name \in Compare -> x3
             [] name = "!" -> x4
             [] name = "float" -> x5
             [] name = "bool" -> x6
             [] name = "int" -> x7
             [] name = "print" -> x8
             [] OTHER -> <<>>
  BY <1>1, <1>2, ListNames
<1>4. name \in Logic => op = x1
  BY <1>3 DEF Logic, Arith, Compare
<1>5. name \in Arith \cup {"%"} => op = x2
  BY <1>3 DEF Logic, Arith, Compare
<1>6. name \in Compare => op = x3
  BY <1>3 DEF Logic, Arith, Compare
<1>7. /\ name = "!" => op = x4
      /\ name = "float" => op = x5
      /\ name = "bool" => op = x6
      /\ name = "int" => op = x7
      /\ name = "print" => op = x8
  BY <1>3 DEF Logic, Arith, Compare
<1>8. name \notin BuiltIn => op = <<>>
  BY <1>3 DEF BuiltIn
<1> QED  BY <1>4, <1>5, <1>6, <1>7, <1>8 DEF op, x1, x2, x3, x4, x5, x6, x7, x8

\* What Operation gives, whatever its arguments are.
LEMMA OperationShape ==
    ASSUME NEW name, NEW ret, NEW a, a[1] \in Values
    PROVE  \/ Operation(name, ret, a) = <<>>
           \/ \E x : Operation(name, ret, a) = <<x>> /\ x.gives \in Values
<1>1. "i1" \in Values /\ "i32" \in Values /\ "f32" \in Values
  BY DEF Values
<1>2. \A op, uses, needs, gives : Instr(op, uses, needs, gives).gives = gives
  BY DEF Instr
<1>3. /\ ArithInstr(name, ret, a).gives = a[1] /\ CompareInstr(name, a).gives = "i1"
      /\ FloatInstr(a[1]).gives = "f32" /\ BoolInstr(a[1]).gives = "i1"
      /\ IntInstr(a[1]).gives = "i32" /\ PrintInstr(a[1]).gives = "i32"
  BY <1>2 DEF ArithInstr, CompareInstr, FloatInstr, BoolInstr, IntInstr, PrintInstr
<1>4. name \in BuiltIn => \/ name \in Logic \/ name \in Arith \cup {"%"} \/ name \in Compare
                          \/ name = "!" \/ name = "float" \/ name = "bool" \/ name = "int"
                          \/ name = "print"
  BY DEF BuiltIn
<1>5. CASE name \in BuiltIn
  <2>1. CASE name \in Logic
    <3> DEFINE x == Instr(name, a, <<"i1", "i1">>, "i1")
    <3>1. Operation(name, ret, a) = <<x>>
      BY <2>1, Operations
    <3>2. x.gives = "i1"
      BY <1>2
    <3> HIDE DEF x
    <3> QED  BY <1>1, <3>1, <3>2
  <2>2. CASE name \in Arith \cup {"%"}
    BY <1>3, <2>2, Operations
  <2>3. CASE name \in Compare
    BY <1>1, <1>3, <2>3, Operations
  <2>4. CASE name = "!"
    <3> DEFINE x == Instr("zero", <<a[1]>>, <<"i1">>, "i1")
    <3>1. Operation(name, ret, a) = <<x>>
      BY <2>4, Operations
    <3>2. x.gives = "i1"
      BY <1>2
    <3> HIDE DEF x
    <3> QED  BY <1>1, <3>1, <3>2
  <2>5. CASE name \in {"float", "bool", "int", "print"}
    BY <1>1, <1>3, <2>5, Operations
  <2> QED  BY <1>4, <1>5, <2>1, <2>2, <2>3, <2>4, <2>5
<1>6. CASE name \notin BuiltIn
  BY <1>6, Operations
<1> QED  BY <1>5, <1>6

\* EnsureSameType leaves alone what is of one type, or of one type ID.
LEMMA Conversions ==
    ASSUME NEW name, NEW a
    PROVE  \/ Converted(name, a).args = a /\ Converted(name, a).pre = <<>>
           \/ /\ Len(a) = 2 /\ IsInteger(a[1]) # IsInteger(a[2])
              /\ Converted(name, a).args \in {<<"f32", "f32">>, <<"i1", "i1">>}
              /\ \E x : Converted(name, a).pre = <<x>>
<1>1. CASE Len(a) = 2 /\ name \notin Logic
  <2> DEFINE sitofp == Instr("sitofp", <<"i32">>, <<"i32">>, "f32")
             one == Instr("one", <<"i1", "f32">>, <<"f32", "f32">>, "i1")
  <2>1. Converted(name, a) = EnsureSameType(a)
    BY <1>1, ListNames DEF Converted
  <2>2. CASE IsInteger(a[1]) = IsInteger(a[2])
    BY <2>1, <2>2 DEF EnsureSameType
  <2>3. CASE IsInteger(a[1]) # IsInteger(a[2]) /\ "i32" \in {a[1], a[2]}
    <3>1. EnsureSameType(a) = [args |-> <<"f32", "f32">>, pre |-> <<sitofp>>]
      BY <2>3 DEF EnsureSameType
    <3> HIDE DEF sitofp
    <3> QED  BY <1>1, <2>1, <2>3, <3>1
  <2>4. CASE IsInteger(a[1]) # IsInteger(a[2]) /\ "i32" \notin {a[1], a[2]}
    <3>1. EnsureSameType(a) = [args |-> <<"i1", "i1">>, pre |-> <<one>>]
      BY <2>4 DEF EnsureSameType
    <3> HIDE DEF one
    <3> QED  BY <1>1, <2>1, <2>4, <3>1
  <2> QED  BY <2>2, <2>3, <2>4
<1>2. CASE ~(Len(a) = 2 /\ name \notin Logic)
  BY <1>2, ListNames DEF Converted
<1> QED  BY <1>1, <1>2

LLVM(types) == [i \in DOMAIN types |-> ConvertType(types[i])]
Generated(name, ret, a) ==
    LET call == Converted(name, a)
    IN  call.pre \o Operation(name, ret, call.args)
RightFor(instrs, ret) ==
    instrs # <<>> /\ (\A x \in Range(instrs) : WellFormed(x)) /\ Last(instrs).gives = ConvertType(ret)
Sitofp == Instr("sitofp", <<"i32">>, <<"i32">>, "f32")
InPlace(name, ret, a) ==
    /\ Operation(name, ret, Converted(name, a).args) # <<>>
    /\ RightFor(Generated(name, ret, a), ret)

\* A builtin whose one instruction is right, perhaps after a conversion to float.
LEMMA OneInstruction ==
    ASSUME NEW name, NEW ret, NEW a, NEW b, NEW op, NEW uses, NEW gives,
           Converted(name, a).args = b, Converted(name, a).pre \in {<<>>, <<Sitofp>>},
           Operation(name, ret, b) = <<Instr(op, uses, uses, gives)>>,
           gives = ConvertType(ret)
    PROVE  InPlace(name, ret, a)
<1> DEFINE x == Instr(op, uses, uses, gives)
<1>1. WellFormed(x) /\ x.gives = ConvertType(ret)
  BY DEF WellFormed, Instr
<1>2. WellFormed(Sitofp)
  BY DEF WellFormed, Instr, Sitofp
<1>3. Operation(name, ret, b) = <<x>>
  OBVIOUS
<1> HIDE DEF x
<1>4. Generated(name, ret, a) \in {<<x>>, <<Sitofp, x>>}
  <2>1. Converted(name, a).pre \o <<x>> \in {<<x>>, <<Sitofp, x>>}
    BY Joined
  <2> QED  BY <1>3, <2>1 DEF Generated
<1>5. RightFor(<<x>>, ret) /\ RightFor(<<Sitofp, x>>, ret)
  <2>1. \A y \in {x, Sitofp} : WellFormed(y)
    BY <1>1, <1>2
  <2>2. Range(<<x>>) = {x} /\ Range(<<Sitofp, x>>) = {x, Sitofp}
    BY Joined
  <2>3. Last(<<x>>).gives = ConvertType(ret) /\ Last(<<Sitofp, x>>).gives = ConvertType(ret)
    BY <1>1, Joined
  <2>4. <<x>> # <<>> /\ <<Sitofp, x>> # <<>>
    BY Joined
  <2>5. RightFor(<<x>>, ret)
    BY <2>1, <2>2, <2>3, <2>4 DEF RightFor
  <2>6. RightFor(<<Sitofp, x>>, ret)
    BY <2>1, <2>2, <2>3, <2>4 DEF RightFor
  <2> QED  BY <2>5, <2>6
<1>6. Operation(name, ret, Converted(name, a).args) # <<>>
  BY <1>3, Joined
<1> QED  BY <1>4, <1>5, <1>6 DEF InPlace

\* A builtin is generated in place, with instructions that have the operands they
\* need, for arguments of the types it was found for.
LEMMA BuiltinInPlace ==
    ASSUME NEW name, NEW params, NEW ret, Signature(name, params, ret)
    PROVE  InPlace(name, ret, LLVM(params))
<1> DEFINE a == LLVM(params)
           i32s == <<"i32", "i32">>
           f32s == <<"f32", "f32">>
<1>1. /\ ConvertType("bool") = "i1" /\ ConvertType("int") = "i32" /\ ConvertType("float") = "f32"
  BY DEF ConvertType
<1>2. /\ params = <<"int", "int">> => a = i32s
      /\ params = <<"float", "float">> => a = f32s
      /\ params = <<"int", "float">> => a = <<"i32", "f32">>
      /\ params = <<"float", "int">> => a = <<"f32", "i32">>
      /\ params = <<"bool", "bool">> => a = <<"i1", "i1">>
      /\ params = <<"bool">> => a = <<"i1">>
      /\ params = <<"int">> => a = <<"i32">>
      /\ params = <<"float">> => a = <<"f32">>
  BY <1>1 DEF LLVM
<1>3. IsInteger("i1") /\ IsInteger("i32") /\ ~IsInteger("f32")
  BY DEF IsInteger
<1>4. /\ Len(i32s) = 2 /\ Len(f32s) = 2 /\ i32s[1] = "i32" /\ f32s[1] = "f32"
      /\ [i \in DOMAIN i32s |-> "i32"] = i32s /\ [i \in DOMAIN f32s |-> "f32"] = f32s
      /\ <<i32s[1], i32s[1]>> = i32s /\ <<f32s[1], f32s[1]>> = f32s
  OBVIOUS
<1>5. SUFFICES InPlace(name, ret, a)
  OBVIOUS
<1> HIDE DEF a
\* The arguments of an operation on numbers.
<1>6. ASSUME params \in Numeric, name \notin Logic
      PROVE  /\ Converted(name, a).args = IF params = <<"int", "int">> THEN i32s ELSE f32s
             /\ Converted(name, a).pre \in {<<>>, <<Sitofp>>}
  <2>1. Len(a) = 2 => Converted(name, a) = EnsureSameType(a)
    BY <1>6, ListNames DEF Converted
  <2>2. CASE params = <<"int", "int">>
    BY <1>2, <1>3, <2>1, <2>2 DEF EnsureSameType
  <2>3. CASE params = <<"float", "float">>
    BY <1>2, <1>3, <2>1, <2>3 DEF EnsureSameType
  <2>4. CASE params = <<"int", "float">>
    BY <1>2, <1>3, <2>1, <2>4 DEF EnsureSameType, Sitofp
  <2>5. CASE params = <<"float", "int">>
    BY <1>2, <1>3, <2>1, <2>5 DEF EnsureSameType, Sitofp
  <2> QED  BY <1>6, <2>2, <2>3, <2>4, <2>5 DEF Numeric
\* The one argument of an operator, a conversion or print.
<1>7. ASSUME NEW v, a = <<v>>
      PROVE  /\ Converted(name, a).args = a /\ Converted(name, a).pre \in {<<>>, <<Sitofp>>}
             /\ a[1] = v /\ [i \in DOMAIN a |-> v] = a
  BY <1>7 DEF Converted
<1> HIDE DEF i32s, f32s
<1>8. CASE name \in Arith \cup {"%"} /\ params \in Numeric
  <2>1. name \notin Logic
    BY <1>8 DEF Arith, Logic
  <2>2. CASE params = <<"int", "int">> /\ ret = "int"
    <3>1. Operation(name, ret, i32s) = <<Instr(name, i32s, [i \in DOMAIN i32s |-> "i32"], "i32")>>
      <4>1. ArithInstr(name, ret, i32s) = Instr(name, i32s, [i \in DOMAIN i32s |-> "i32"], "i32")
        BY <1>3, <1>4, <2>2 DEF ArithInstr
      <4> QED  BY <1>8, <4>1, Operations
    <3>2. Operation(name, ret, i32s) = <<Instr(name, i32s, i32s, "i32")>>
      BY <1>4, <3>1
    <3>3. Converted(name, a).args = i32s /\ Converted(name, a).pre \in {<<>>, <<Sitofp>>}
      BY <1>6, <1>8, <2>1, <2>2
    <3> QED  BY <1>1, <2>2, <3>2, <3>3, OneInstruction
  <2>3. CASE params # <<"int", "int">> /\ ret = "float"
    <3>1. Operation(name, ret, f32s) = <<Instr("f" \o name, f32s, [i \in DOMAIN f32s |-> "f32"], "f32")>>
      <4>1. ArithInstr(name, ret, f32s)
               = Instr("f" \o name, f32s, [i \in DOMAIN f32s |-> "f32"], "f32")
        BY <1>4, <2>3 DEF ArithInstr
      <4> QED  BY <1>8, <4>1, Operations
    <3>2. Operation(name, ret, f32s) = <<Instr("f" \o name, f32s, f32s, "f32")>>
      BY <1>4, <3>1
    <3>3. Converted(name, a).args = f32s /\ Converted(name, a).pre \in {<<>>, <<Sitofp>>}
      BY <1>6, <1>8, <2>1, <2>3
    <3> QED  BY <1>1, <2>3, <3>2, <3>3, OneInstruction
  <2>4. params # <<"int">> /\ params # <<"float">>
    BY <1>8 DEF Numeric
  <2> QED  BY <1>8, <2>1, <2>2, <2>3, <2>4 DEF Signature, Arith, Compare, Logic
<1>9. CASE name \in Compare
  <2>1. name \notin Logic /\ name \notin Arith \cup {"%"}
    BY <1>9 DEF Arith, Logic, Compare
  <2>2. params \in Numeric /\ ret = "bool"
    BY <1>9 DEF Signature, Arith, Logic, Compare
  <2> DEFINE b == IF params = <<"int", "int">> THEN i32s ELSE f32s
             op == IF b[1] = "f32" THEN FCmp(name) ELSE name
  <2>3. Operation(name, ret, b) = <<Instr(op, b, <<b[1], b[1]>>, "i1")>>
    BY <1>9, Operations DEF CompareInstr
  <2>4. <<b[1], b[1]>> = b
    BY <1>4
  <2>5. Converted(name, a).args = b /\ Converted(name, a).pre \in {<<>>, <<Sitofp>>}
    BY <1>6, <2>1, <2>2
  <2> HIDE DEF b, op
  <2>6. Operation(name, ret, b) = <<Instr(op, b, b, "i1")>>
    BY <2>3, <2>4
  <2> QED  BY <1>1, <2>2, <2>5, <2>6, OneInstruction
<1>10. CASE name \in Logic
  <2>1. params = <<"bool", "bool">> /\ ret = "bool"
    BY <1>10 DEF Signature, Arith, Logic, Compare
  <2>2. Operation(name, ret, a) = <<Instr(name, a, a, "i1")>>
    BY <1>2, <1>10, <2>1, Operations
  <2>3. Converted(name, a).args = a /\ Converted(name, a).pre \in {<<>>, <<Sitofp>>}
    BY <1>10, ListNames DEF Converted
  <2> QED  BY <1>1, <2>1, <2>2, <2>3, OneInstruction
<1>11. CASE name = "-" /\ params \in {<<"int">>, <<"float">>}
  <2>1. ret = params[1] /\ (params = <<"int">> \/ params = <<"float">>)
    BY <1>11 DEF Signature, Arith, Logic, Compare, Numeric
  <2> DEFINE op == IF ret = "float" THEN "f" \o name ELSE name
  <2>2. PICK v \in {"i32", "f32"} : a = <<v>> /\ v = ConvertType(ret) /\ (v = "f32" <=> ret = "float")
    BY <1>1, <1>2, <2>1
  <2>3. Operation(name, ret, a) = <<Instr(op, a, [i \in DOMAIN a |-> v], a[1])>>
    <3>1. name \in Arith \cup {"%"}
      BY <1>11 DEF Arith
    <3>2. a[1] = v
      BY <1>7, <2>2
    <3>3. v = IF ret = "float" THEN "f32" ELSE IF IsInteger(a[1]) THEN a[1] ELSE "i32"
      BY <1>3, <2>2, <3>2
    <3>4. ArithInstr(name, ret, a) = Instr(op, a, [i \in DOMAIN a |-> v], a[1])
      BY <3>3 DEF ArithInstr
    <3> QED  BY <3>1, <3>4, Operations
  <2> HIDE DEF op
  <2>4. /\ Converted(name, a).args = a /\ Converted(name, a).pre \in {<<>>, <<Sitofp>>}
        /\ a[1] = v /\ [i \in DOMAIN a |-> v] = a
    BY <1>7, <2>2
  <2>5. Operation(name, ret, a) = <<Instr(op, a, a, v)>>
    BY <2>3, <2>4
  <2> QED  BY <2>2, <2>4, <2>5, OneInstruction
<1>12. CASE name \in {"!", "bool", "int", "float", "print"}
  <2>1. name \notin Logic /\ name \notin Arith \cup {"%"} /\ name \notin Compare
    BY <1>12 DEF Arith, Logic, Compare
  <2>2. PICK v : a = <<v>>
    BY <1>2, <1>12 DEF Signature, Arith, Logic, Compare
  <2>3. /\ Converted(name, a).args = a /\ Converted(name, a).pre \in {<<>>, <<Sitofp>>}
        /\ a[1] = v
    BY <1>7, <2>2
  <2>4. CASE name = "!"
    <3>1. ret = "bool" /\ v = "i1"
      BY <1>2, <2>1, <2>2, <2>4 DEF Signature
    <3>2. Operation(name, ret, a) = <<Instr("zero", <<v>>, <<v>>, "i1")>>
      BY <2>3, <2>4, <3>1, Operations
    <3> QED  BY <1>1, <2>3, <3>1, <3>2, OneInstruction
  <2>5. CASE name = "bool"
    <3>1. ret = "bool" /\ v \in {"i32", "f32"}
      BY <1>2, <2>1, <2>2, <2>5 DEF Signature
    <3> DEFINE op == IF v = "i32" THEN "nonzero" ELSE "une0"
    <3>2. Operation(name, ret, a) = <<Instr(op, <<v>>, <<v>>, "i1")>>
      BY <1>3, <2>3, <2>5, <3>1, Operations DEF BoolInstr
    <3> HIDE DEF op
    <3> QED  BY <1>1, <2>3, <3>1, <3>2, OneInstruction
  <2>6. CASE name = "int"
    <3>1. ret = "int" /\ v \in {"i1", "f32"}
      BY <1>2, <2>1, <2>2, <2>6 DEF Signature
    <3> DEFINE op == IF v = "f32" THEN "fptosi" ELSE "zext"
    <3>2. Operation(name, ret, a) = <<Instr(op, <<v>>, <<v>>, "i32")>>
      BY <2>3, <2>6, <3>1, Operations DEF IntInstr
    <3> HIDE DEF op
    <3> QED  BY <1>1, <2>3, <3>1, <3>2, OneInstruction
  <2>7. CASE name = "float"
    <3>1. ret = "float" /\ v \in {"i1", "i32"}
      BY <1>2, <2>1, <2>2, <2>7 DEF Signature
    <3>2. Operation(name, ret, a) = <<Instr("sitofp", <<v>>, <<v>>, "f32")>>
      BY <1>3, <2>3, <2>7, <3>1, Operations DEF FloatInstr
    <3> QED  BY <1>1, <2>3, <3>1, <3>2, OneInstruction
  <2>8. CASE name = "print"
    <3>1. ret = "int"
      BY <2>1, <2>8 DEF Signature
    <3> DEFINE u == <<Widened(v)>>
    <3>2. Operation(name, ret, a) = <<Instr("printf", u, u, "i32")>>
      BY <2>3, <2>8, Operations DEF PrintInstr
    <3> HIDE DEF u
    <3> QED  BY <1>1, <2>3, <3>1, <3>2, OneInstruction
  <2> QED  BY <1>12, <2>4, <2>5, <2>6, <2>7, <2>8
<1> QED  BY <1>8, <1>9, <1>10, <1>11, <1>12 DEF Signature, Arith, Numeric

-----------------------------------------------------------------------------
(* The program and its functions, as the typechecker leaves them. *)

FuncIn(fs, f) == IF f <= NB THEN Builtins[f] ELSE fs[f - NB]
MeantIn(fs, name, args) ==
    {f \in 1 .. NB + Len(fs) : FuncIn(fs, f).name = name /\ FuncIn(fs, f).params = args}
Means(fs, t, name, args) ==
    t \in MeantIn(fs, name, args) /\ \A m \in MeantIn(fs, name, args) : t <= m

\* An item of the body of the program's function f.
Resolves(fs, f, item) ==
    IF item.k = "call"
      THEN /\ Means(fs, item.target, item.name, item.args)
           /\ item.target <= NB + f
           /\ Callable(item.name, Len(item.args))
      ELSE item.target = 0

\* What an item does to the types of the arguments evaluated so far.
Does(fs, item, b, c) ==
    \/ item.k = "lit" /\ c = Append(b, item.ty)
    \/ item.k = "end" /\ c = <<>>
    \/ /\ item.k = "call"
       /\ Len(item.args) <= Len(b)
       /\ \A i \in 1 .. Len(item.args) : item.args[i] = b[Len(b) - Len(item.args) + i]
       /\ c = Append(SubSeq(b, 1, Len(b) - Len(item.args)), FuncIn(fs, item.target).ret)

\* h has these types before every item of the body of the program's function f and
\* at its end.
Replays(fs, f, h) ==
    /\ h \in Seq(Seq(AllTypes)) /\ Len(h) = Len(fs[f].code) + 1 /\ h[1] = <<>>
    /\ \A i \in 1 .. Len(fs[f].code) : Does(fs, fs[f].code[i], h[i], h[i + 1])

Grows(fs, gs) ==
    /\ Len(gs) \in {Len(fs), Len(fs) + 1}
    /\ \A f \in 1 .. Len(fs) : /\ gs[f].name = fs[f].name /\ gs[f].params = fs[f].params
                               /\ gs[f].ret = fs[f].ret /\ gs[f].body = fs[f].body

\* One more element.
LEMMA Appended ==
    ASSUME NEW S, NEW s \in Seq(S), NEW x \in S
    PROVE  /\ Append(s, x) \in Seq(S) /\ Len(Append(s, x)) = Len(s) + 1 /\ Len(s) \in Nat
           /\ Append(s, x)[Len(s) + 1] = x
           /\ \A i \in 1 .. Len(s) : Append(s, x)[i] = s[i]
OBVIOUS

\* The fields of functions, items and builtins.
LEMMA Fields ==
    /\ \A f \in FuncDefs : /\ f.name \in Names /\ f.params \in Seq(AllTypes) /\ f.ret \in AllTypes
                           /\ f.body \in BOOLEAN /\ f.code \in Seq(Items)
    /\ \A x \in Items : /\ x.k \in {"lit", "call", "end"} /\ x.ty \in AllTypes /\ x.name \in Names
                        /\ x.args \in Seq(AllTypes) /\ x.target \in Nat
    /\ \A b \in BuiltinDefs : b \in FuncDefs /\ ~b.body /\ Signature(b.name, b.params, b.ret)
BY DEF FuncDefs, Items, BuiltinDefs

\* A function is a builtin or one of the program.
LEMMA FuncsAre ==
    ASSUME NEW fs \in Seq(FuncDefs)
    PROVE  /\ NB \in Nat /\ Len(fs) \in Nat
           /\ \A f \in 1 .. NB : FuncIn(fs, f) = Builtins[f] /\ Builtins[f] \in BuiltinDefs
           /\ \A f \in 1 .. NB : Builtins[f].name \in BuiltinNames
           /\ \A f \in NB + 1 .. NB + Len(fs) : FuncIn(fs, f) = fs[f - NB] /\ f - NB \in 1 .. Len(fs)
           /\ \A f \in 1 .. Len(fs) : FuncIn(fs, NB + f) = fs[f] /\ NB + f \in NB + 1 .. NB + Len(fs)
           /\ \A f \in 1 .. NB + Len(fs) : FuncIn(fs, f) \in FuncDefs
<1>1. NB \in Nat /\ Len(fs) \in Nat /\ Builtins \in Seq(BuiltinDefs) /\ NB = Len(Builtins)
  BY BuiltinsAre DEF NB
<1>2. \A f \in 1 .. NB : FuncIn(fs, f) = Builtins[f] /\ Builtins[f] \in BuiltinDefs
  BY <1>1 DEF FuncIn
<1>3. \A f \in 1 .. NB : Builtins[f].name \in BuiltinNames
  BY DEF BuiltinNames
<1>4. \A f \in NB + 1 .. NB + Len(fs) : FuncIn(fs, f) = fs[f - NB] /\ f - NB \in 1 .. Len(fs)
  BY <1>1 DEF FuncIn
<1>5. \A f \in 1 .. Len(fs) : FuncIn(fs, NB + f) = fs[f] /\ NB + f \in NB + 1 .. NB + Len(fs)
  BY <1>1 DEF FuncIn
<1>6. \A f \in 1 .. NB + Len(fs) : FuncIn(fs, f) \in FuncDefs
  <2> TAKE f \in 1 .. NB + Len(fs)
  <2>1. CASE f <= NB
    BY <1>1, <1>2, <2>1 DEF BuiltinDefs
  <2>2. CASE f > NB
    BY <1>1, <1>4, <2>2
  <2> QED  BY <1>1, <2>1, <2>2
<1> QED  BY <1>1, <1>2, <1>3, <1>4, <1>5, <1>6

\* A program that grows keeps the functions it has.
LEMMA GrownFuncs ==
    ASSUME NEW fs \in Seq(FuncDefs), NEW gs \in Seq(FuncDefs), Grows(fs, gs)
    PROVE  \A f \in 1 .. NB + Len(fs) :
              /\ f \in 1 .. NB + Len(gs)
              /\ FuncIn(gs, f).name = FuncIn(fs, f).name /\ FuncIn(gs, f).params = FuncIn(fs, f).params
              /\ FuncIn(gs, f).ret = FuncIn(fs, f).ret /\ FuncIn(gs, f).body = FuncIn(fs, f).body
<1>1. NB \in Nat /\ Len(fs) \in Nat /\ Len(gs) \in {Len(fs), Len(fs) + 1}
  BY FuncsAre DEF Grows
<1> TAKE f \in 1 .. NB + Len(fs)
<1>2. CASE f <= NB
  BY <1>1, <1>2 DEF FuncIn
<1>3. CASE f > NB
  <2>1. f - NB \in 1 .. Len(fs)
    BY <1>1, <1>3
  <2>2. FuncIn(fs, f) = fs[f - NB] /\ FuncIn(gs, f) = gs[f - NB]
    BY <1>1, <1>3 DEF FuncIn
  <2> QED  BY <1>1, <2>1, <2>2 DEF Grows
<1> QED  BY <1>1, <1>2, <1>3

\* "A call never changes its meaning with a later definition."
LEMMA GrownMeans ==
    ASSUME NEW fs \in Seq(FuncDefs), NEW gs \in Seq(FuncDefs), Grows(fs, gs),
           NEW t, NEW name, NEW args, Means(fs, t, name, args)
    PROVE  Means(gs, t, name, args)
<1>1. NB \in Nat /\ Len(fs) \in Nat /\ Len(gs) \in {Len(fs), Len(fs) + 1}
  BY FuncsAre DEF Grows
<1>2. t \in 1 .. NB + Len(fs) /\ FuncIn(fs, t).name = name /\ FuncIn(fs, t).params = args
  BY DEF Means, MeantIn
<1>3. t \in MeantIn(gs, name, args)
  BY <1>2, GrownFuncs DEF MeantIn
<1>4. ASSUME NEW m \in MeantIn(gs, name, args) PROVE t <= m
  <2>1. m \in 1 .. NB + Len(gs) /\ FuncIn(gs, m).name = name /\ FuncIn(gs, m).params = args
    BY <1>4 DEF MeantIn
  <2>2. CASE m <= NB + Len(fs)
    <3>1. m \in 1 .. NB + Len(fs)
      BY <1>1, <2>1, <2>2
    <3>2. m \in MeantIn(fs, name, args)
      BY <2>1, <3>1, GrownFuncs DEF MeantIn
    <3> QED  BY <3>2 DEF Means
  <2>3. CASE m > NB + Len(fs)
    BY <1>1, <1>2, <2>1, <2>3
  <2> QED  BY <1>1, <2>1, <2>2, <2>3
<1> QED  BY <1>3, <1>4 DEF Means

\* Nor does any other item.
LEMMA GrownResolves ==
    ASSUME NEW fs \in Seq(FuncDefs), NEW gs \in Seq(FuncDefs), Grows(fs, gs),
           NEW f, NEW item, Resolves(fs, f, item)
    PROVE  Resolves(gs, f, item)
BY GrownMeans DEF Resolves

\* Calls have targets among the functions.
LEMMA Targets ==
    ASSUME NEW fs, NEW f, NEW item, Resolves(fs, f, item)
    PROVE  IF item.k = "call" THEN item.target \in 1 .. NB + Len(fs) ELSE item.target = 0
BY DEF Resolves, Means, MeantIn

\* An item does the same in a program that has grown.
LEMMA GrownDoes ==
    ASSUME NEW fs \in Seq(FuncDefs), NEW gs \in Seq(FuncDefs), Grows(fs, gs),
           NEW item, NEW b, NEW c, Does(fs, item, b, c),
           item.k = "call" => item.target \in 1 .. NB + Len(fs)
    PROVE  Does(gs, item, b, c)
<1>1. item.k = "call" => FuncIn(gs, item.target).ret = FuncIn(fs, item.target).ret
  BY GrownFuncs
<1> QED  BY <1>1 DEF Does

\* A body that has not changed is gone through as before.
LEMMA GrownReplays ==
    ASSUME NEW fs \in Seq(FuncDefs), NEW gs \in Seq(FuncDefs), Grows(fs, gs),
           NEW f, NEW h, Replays(fs, f, h), gs[f].code = fs[f].code,
           \A i \in 1 .. Len(fs[f].code) : Resolves(fs, f, fs[f].code[i])
    PROVE  Replays(gs, f, h)
<1>1. ASSUME NEW i \in 1 .. Len(fs[f].code) PROVE Does(gs, gs[f].code[i], h[i], h[i + 1])
  <2>1. Does(fs, fs[f].code[i], h[i], h[i + 1])
    BY DEF Replays
  <2>2. fs[f].code[i].k = "call" => fs[f].code[i].target \in 1 .. NB + Len(fs)
    BY Targets
  <2> QED  BY <2>1, <2>2, GrownDoes
<1> QED  BY <1>1 DEF Replays

Longer(fs, gs, f, h, item, c) ==
    /\ fs \in Seq(FuncDefs) /\ gs \in Seq(FuncDefs) /\ Grows(fs, gs)
    /\ f \in 1 .. Len(fs) /\ Replays(fs, f, h)
    /\ \A i \in 1 .. Len(fs[f].code) : Resolves(fs, f, fs[f].code[i])
    /\ item \in Items /\ gs[f].code = Append(fs[f].code, item)
    /\ c \in Seq(AllTypes) /\ Does(gs, item, h[Len(h)], c)

\* One more item in a body: one more step of going through it.
LEMMA LongerReplays ==
    ASSUME NEW fs, NEW gs, NEW f, NEW h, NEW item, NEW c, Longer(fs, gs, f, h, item, c)
    PROVE  \E hh : Replays(gs, f, hh) /\ hh[Len(gs[f].code) + 1] = c
<1> USE DEF Longer
<1> DEFINE code == fs[f].code
           longer == gs[f].code
           n == Len(code)
           hh == Append(h, c)
<1>1. code \in Seq(Items) /\ n \in Nat /\ h \in Seq(Seq(AllTypes)) /\ Len(h) = n + 1 /\ h[1] = <<>>
  <2>1. code \in Seq(Items)
    <3>1. fs[f] \in FuncDefs
      OBVIOUS
    <3> QED  BY <3>1, Fields
  <2>2. h \in Seq(Seq(AllTypes)) /\ Len(h) = n + 1 /\ h[1] = <<>>
    BY DEF Replays
  <2> HIDE DEF code
  <2> QED  BY <2>1, <2>2
<1>2. longer = Append(code, item)
  OBVIOUS
<1>3. \A i \in 1 .. n : Does(fs, code[i], h[i], h[i + 1]) /\ Resolves(fs, f, code[i])
  BY DEF Replays
<1>4. Does(gs, item, h[n + 1], c)
  BY <1>1
<1> HIDE DEF code, n
<1>5. Len(longer) = n + 1 /\ longer[n + 1] = item /\ \A i \in 1 .. n : longer[i] = code[i]
  BY <1>1, <1>2, Appended DEF n
<1>6. hh \in Seq(Seq(AllTypes)) /\ Len(hh) = n + 2 /\ hh[n + 2] = c
      /\ \A i \in 1 .. n + 1 : hh[i] = h[i]
  <2>1. Len(h) + 1 = n + 2
    BY <1>1
  <2> QED  BY <1>1, <2>1, Appended
<1> HIDE DEF longer, hh
<1>7. ASSUME NEW i \in 1 .. n + 1 PROVE Does(gs, longer[i], hh[i], hh[i + 1])
  <2>1. CASE i = n + 1
    <3>1. i + 1 = n + 2 /\ n + 1 \in 1 .. n + 1
      BY <1>1, <2>1
    <3> QED  BY <1>4, <1>5, <1>6, <2>1, <3>1
  <2>2. CASE i # n + 1
    <3>1. i \in 1 .. n /\ i \in 1 .. n + 1 /\ i + 1 \in 1 .. n + 1
      BY <1>1, <2>2
    <3>2. Does(fs, code[i], h[i], h[i + 1]) /\ Resolves(fs, f, code[i])
      BY <1>3, <3>1
    <3>3. longer[i] = code[i] /\ hh[i] = h[i] /\ hh[i + 1] = h[i + 1]
      BY <1>5, <1>6, <3>1
    <3>4. code[i].k = "call" => code[i].target \in 1 .. NB + Len(fs)
      BY <3>2, Targets
    <3> QED  BY <3>2, <3>3, <3>4, GrownDoes
  <2> QED  BY <2>1, <2>2
<1>8. Replays(gs, f, hh)
  <2>1. hh[1] = <<>> /\ Len(hh) = n + 1 + 1
    BY <1>1, <1>6
  <2> QED  BY <1>5, <1>6, <1>7, <2>1 DEF Replays, longer
<1>9. n + 1 + 1 = n + 2
  BY <1>1
<1> QED  BY <1>5, <1>6, <1>8, <1>9 DEF hh, longer

-----------------------------------------------------------------------------
(* The arguments evaluated so far. *)

Slots == [ty : AllTypes, v : Values]
TypesOf(s) == [i \in 1 .. Len(s) |-> s[i].ty]
Agreeing(s) == \A i \in 1 .. Len(s) : s[i].v = ConvertType(s[i].ty)
Top(s, n) == [i \in 1 .. n |-> s[Len(s) - n + i].v]

\* Arguments on the stack.
LEMMA SlotFields ==
    /\ \A x \in Slots : x.ty \in AllTypes /\ x.v \in Values
    /\ \A t \in AllTypes, v \in Values :
          Value(t, v) \in Slots /\ Value(t, v).ty = t /\ Value(t, v).v = v
BY DEF Slots, Value

\* The types of the arguments evaluated.
LEMMA TypesAre ==
    ASSUME NEW s \in Seq(Slots)
    PROVE  /\ TypesOf(s) \in Seq(AllTypes) /\ Len(TypesOf(s)) = Len(s) /\ Len(s) \in Nat
           /\ \A i \in 1 .. Len(s) : TypesOf(s)[i] = s[i].ty
           /\ TypesOf(s) = <<>> <=> s = <<>>
<1>1. Len(s) \in Nat /\ \A i \in 1 .. Len(s) : s[i].ty \in AllTypes
  BY SlotFields
<1>2. TypesOf(s) \in Seq(AllTypes) /\ Len(TypesOf(s)) = Len(s)
      /\ \A i \in 1 .. Len(s) : TypesOf(s)[i] = s[i].ty
  BY <1>1 DEF TypesOf
<1>3. TypesOf(s) = <<>> <=> s = <<>>
  BY <1>1, <1>2
<1> QED  BY <1>1, <1>2, <1>3

\* The last arguments give way to the value of a call.
LEMMA Replaced ==
    ASSUME NEW s \in Seq(Slots), NEW n \in 0 .. Len(s), NEW x \in Slots
    PROVE  LET r == Append(SubSeq(s, 1, Len(s) - n), x) IN
           /\ r \in Seq(Slots) /\ Len(r) = Len(s) - n + 1
           /\ r[Len(s) - n + 1] = x /\ \A i \in 1 .. Len(s) - n : r[i] = s[i]
           /\ TypesOf(r) = Append(SubSeq(TypesOf(s), 1, Len(TypesOf(s)) - n), x.ty)
           /\ Agreeing(s) /\ x.v = ConvertType(x.ty) => Agreeing(r)
<1> DEFINE k == Len(s) - n
           p == SubSeq(s, 1, k)
           r == Append(p, x)
           ts == TypesOf(s)
           q == SubSeq(ts, 1, k)
           rr == Append(q, x.ty)
<1>1. Len(s) \in Nat /\ k \in 0 .. Len(s) /\ ts \in Seq(AllTypes) /\ Len(ts) = Len(s)
      /\ (\A i \in 1 .. Len(s) : ts[i] = s[i].ty) /\ x.ty \in AllTypes
  BY TypesAre, SlotFields
<1> HIDE DEF k, ts
<1>2. p \in Seq(Slots) /\ Len(p) = k /\ \A i \in 1 .. k : p[i] = s[i]
  BY <1>1
<1>3. q \in Seq(AllTypes) /\ Len(q) = k /\ \A i \in 1 .. k : q[i] = ts[i]
  BY <1>1
<1> HIDE DEF p, q
<1>4. r \in Seq(Slots) /\ Len(r) = k + 1 /\ r[k + 1] = x /\ \A i \in 1 .. k : r[i] = p[i]
  BY <1>2, Appended
<1>5. rr \in Seq(AllTypes) /\ Len(rr) = k + 1 /\ rr[k + 1] = x.ty /\ \A i \in 1 .. k : rr[i] = q[i]
  BY <1>1, <1>3, Appended
<1> HIDE DEF r, rr
<1>6. \A i \in 1 .. k : r[i] = s[i] /\ rr[i] = s[i].ty
  <2> TAKE i \in 1 .. k
  <2>1. i \in 1 .. Len(s)
    BY <1>1
  <2> QED  BY <1>1, <1>2, <1>3, <1>4, <1>5, <2>1
<1>7. TypesOf(r) = rr
  <2>1. TypesOf(r) \in Seq(AllTypes) /\ Len(TypesOf(r)) = k + 1
        /\ \A i \in 1 .. k + 1 : TypesOf(r)[i] = r[i].ty
    BY <1>4, TypesAre
  <2>2. \A i \in 1 .. k + 1 : rr[i] = r[i].ty
    <3> TAKE i \in 1 .. k + 1
    <3>1. i = k + 1 \/ i \in 1 .. k
      BY <1>1
    <3> QED  BY <1>4, <1>5, <1>6, <3>1
  <2> HIDE DEF rr
  <2> QED  BY <1>1, <1>5, <2>1, <2>2
<1>8. ASSUME Agreeing(s), x.v = ConvertType(x.ty) PROVE Agreeing(r)
  <2> SUFFICES ASSUME NEW i \in 1 .. k + 1 PROVE r[i].v = ConvertType(r[i].ty)
    BY <1>4 DEF Agreeing
  <2>1. i = k + 1 \/ (i \in 1 .. k /\ i \in 1 .. Len(s))
    BY <1>1
  <2> QED  BY <1>4, <1>6, <1>8, <2>1 DEF Agreeing
<1> QED  BY <1>1, <1>4, <1>6, <1>7, <1>8 DEF r, rr, p, q, k, ts

\* One more argument.
LEMMA Pushed ==
    ASSUME NEW s \in Seq(Slots), NEW x \in Slots
    PROVE  LET r == Append(s, x) IN
           /\ r \in Seq(Slots) /\ TypesOf(r) = Append(TypesOf(s), x.ty)
           /\ Agreeing(s) /\ x.v = ConvertType(x.ty) => Agreeing(r)
<1>1. 0 \in 0 .. Len(s) /\ Len(s) \in Nat /\ Len(TypesOf(s)) \in Nat /\ TypesOf(s) \in Seq(AllTypes)
  BY TypesAre
<1>2. \A S : \A q \in Seq(S) : SubSeq(q, 1, Len(q)) = q
  OBVIOUS
<1>3. SubSeq(s, 1, Len(s) - 0) = s /\ SubSeq(TypesOf(s), 1, Len(TypesOf(s)) - 0) = TypesOf(s)
  BY <1>1, <1>2
<1>4. LET r == Append(SubSeq(s, 1, Len(s) - 0), x) IN
      /\ r \in Seq(Slots)
      /\ TypesOf(r) = Append(SubSeq(TypesOf(s), 1, Len(TypesOf(s)) - 0), x.ty)
      /\ Agreeing(s) /\ x.v = ConvertType(x.ty) => Agreeing(r)
  BY <1>1, Replaced
<1> QED  BY <1>3, <1>4

\* The arguments of a call have the types it was found for, and their instructions'
\* types are LLVM's for these where the two agree.
LEMMA TopIs ==
    ASSUME NEW fs, NEW item, item.k = "call", item.args \in Seq(AllTypes),
           NEW s \in Seq(Slots), NEW c, Does(fs, item, TypesOf(s), c)
    PROVE  /\ Len(item.args) \in 0 .. Len(s)
           /\ Top(s, Len(item.args)) \in Seq(Values) /\ Len(Top(s, Len(item.args))) = Len(item.args)
           /\ Agreeing(s) => Top(s, Len(item.args)) = LLVM(item.args)
<1> DEFINE n == Len(item.args)
           a == Top(s, n)
           ts == TypesOf(s)
<1>1. n \in Nat /\ Len(s) \in Nat /\ n <= Len(s)
      /\ \A i \in 1 .. n : item.args[i] = ts[Len(s) - n + i]
  <2>1. Len(ts) = Len(s) /\ Len(s) \in Nat /\ n \in Nat
    BY TypesAre
  <2>2. n <= Len(ts) /\ \A i \in 1 .. n : item.args[i] = ts[Len(ts) - n + i]
    BY DEF Does
  <2> HIDE DEF n, ts
  <2> QED  BY <2>1, <2>2
<1>2. \A i \in 1 .. n : Len(s) - n + i \in 1 .. Len(s)
  BY <1>1
<1>3. a = [i \in 1 .. n |-> s[Len(s) - n + i].v]
  BY DEF Top
<1>4. LLVM(item.args) = [i \in 1 .. n |-> ConvertType(item.args[i])]
  BY DEF LLVM
<1>5. \A i \in 1 .. Len(s) : ts[i] = s[i].ty
  BY TypesAre
<1> HIDE DEF n, a, ts
<1>6. \A i \in 1 .. n : a[i] = s[Len(s) - n + i].v /\ a[i] \in Values
  <2> TAKE i \in 1 .. n
  <2>1. s[Len(s) - n + i] \in Slots
    BY <1>2
  <2> QED  BY <1>3, <2>1, SlotFields
<1>7. a \in Seq(Values) /\ Len(a) = n
  BY <1>1, <1>3, <1>6
<1>8. ASSUME Agreeing(s) PROVE a = LLVM(item.args)
  <2>1. \A i \in 1 .. n : a[i] = ConvertType(item.args[i])
    <3> TAKE i \in 1 .. n
    <3>1. Len(s) - n + i \in 1 .. Len(s)
      BY <1>2
    <3>2. a[i] = ConvertType(s[Len(s) - n + i].ty)
      BY <1>6, <1>8, <3>1 DEF Agreeing
    <3>3. item.args[i] = s[Len(s) - n + i].ty
      BY <1>1, <1>5, <3>1
    <3> QED  BY <3>2, <3>3
  <2> QED  BY <1>3, <1>4, <1>6, <2>1
<1> QED  BY <1>1, <1>7, <1>8 DEF a, n

-----------------------------------------------------------------------------
(* The inductive invariant. *)

Phases == {"check", "gen", "done", "rejected", "asserted", "thrown", "undefined"}
Failures == {"asserted", "thrown", "undefined"}
Checked == phase \notin {"check", "rejected"}
Code == funcs[at - NB].code

\* "check" and "gen" know the same functions, in the order of the source.
Typed ==
    /\ shape \in Programs
    /\ funcs \in Seq(FuncDefs)
    /\ \A f \in 1 .. Len(funcs) :
          /\ funcs[f].params \in Seq(shape.types) /\ funcs[f].ret \in shape.types
          /\ ~funcs[f].body => funcs[f].code = <<>>
    /\ fuel \in 0 .. shape.items
    /\ phase \in Phases
    /\ table = [i \in 1 .. Len(funcs) |-> NB + i]
    /\ inside \in BOOLEAN
    /\ stack \in Seq(Slots)

\* Where the two passes are.
Control ==
    /\ at \in NB .. NB + Len(funcs) + 1
    /\ inside => at \in NB + 1 .. NB + Len(funcs) /\ funcs[at - NB].body
    /\ ~inside => stack = <<>>
    /\ phase = "check" => at = NB + Len(funcs)
    /\ phase = "rejected" => inside
    /\ Checked => at >= NB + 1
    /\ Checked /\ inside => pc \in 1 .. Len(Code) + 1
    /\ phase \in Failures => inside /\ pc <= Len(Code) /\ Item.k = "call"

\* The code generator has the bodies it has gone through or is in.
Definitions ==
    /\ ~Checked => defined = {}
    /\ Checked =>
          defined = {f \in NB + 1 .. NB + Len(funcs) :
                        FuncIn(funcs, f).body /\ (f < at \/ (f = at /\ inside))}

Resolved ==
    \A f \in 1 .. Len(funcs) : \A i \in 1 .. Len(funcs[f].code) :
        \/ Resolves(funcs, f, funcs[f].code[i])
        \/ /\ phase = "rejected" /\ funcs[f].code[i].target = 0
           /\ MeantIn(funcs, funcs[f].code[i].name, funcs[f].code[i].args) = {}

\* Every body can be gone through again, up to where the typechecker is.
Replayed ==
    phase # "rejected" =>
        \A f \in 1 .. Len(funcs) : \E h :
            /\ Replays(funcs, f, h)
            /\ h[Len(funcs[f].code) + 1] =
                  IF phase = "check" /\ inside /\ f = at - NB THEN TypesOf(stack) ELSE <<>>

\* The generator goes through it as the typechecker did.
Followed ==
    Checked /\ inside =>
        \E h : /\ Replays(funcs, at - NB, h) /\ h[Len(Code) + 1] = <<>>
               /\ h[pc] = TypesOf(stack)

Undiverted == \A i \in 1 .. pc - 1 : ~Diverted(Code[i])
Agreed == Checked /\ inside /\ Undiverted => Agreeing(stack)

MixedCall(item) == item.target > NB /\ IsMixed(FuncIn(funcs, item.target).params)
Emissions ==
    emitted # <<>> =>
        /\ Checked /\ inside /\ pc > 1 /\ Code[pc - 1].k = "call"
        /\ Undiverted => \A i \in DOMAIN emitted : WellFormed(emitted[i]) \/ MixedCall(Code[pc - 1])

Failing ==
    /\ phase = "asserted" =>
          IF Item.target > NB THEN ~FuncIn(funcs, Item.target).body ELSE ~Undiverted
    /\ phase \in {"thrown", "undefined"} =>
          Item.target > NB /\ FuncIn(funcs, Item.target).params = <<>>

Inv ==
    /\ Typed /\ Control /\ Definitions /\ Resolved
    /\ Replayed /\ Followed /\ Agreed /\ Emissions /\ Failing

\* The types of what the invariant speaks of.
LEMMA Known ==
    ASSUME Typed, Control
    PROVE  /\ NB \in Nat /\ Len(funcs) \in Nat /\ at \in Int /\ LastFunc = NB + Len(funcs)
           /\ \A f : Func(f) = FuncIn(funcs, f)
           /\ \A f \in 1 .. Len(funcs) : funcs[f] \in FuncDefs /\ funcs[f].code \in Seq(Items)
           /\ inside => /\ at - NB \in 1 .. Len(funcs) /\ Code \in Seq(Items) /\ Len(Code) \in Nat
                        /\ FuncIn(funcs, at) = funcs[at - NB]
<1>1. NB \in Nat /\ Len(funcs) \in Nat /\ at \in Int
  BY FuncsAre DEF Typed, Control
<1>2. \A f \in 1 .. Len(funcs) : funcs[f] \in FuncDefs /\ funcs[f].code \in Seq(Items)
  BY <1>1, Fields DEF Typed
<1>3. \A f : Func(f) = FuncIn(funcs, f)
  BY DEF Func, FuncIn
<1>4. ASSUME inside
      PROVE  /\ at - NB \in 1 .. Len(funcs) /\ Code \in Seq(Items) /\ Len(Code) \in Nat
             /\ FuncIn(funcs, at) = funcs[at - NB]
  <2>1. at - NB \in 1 .. Len(funcs)
    BY <1>1, <1>4 DEF Control
  <2>2. FuncIn(funcs, at) = funcs[at - NB]
    BY <1>1, <1>4 DEF Control, FuncIn
  <2> QED  BY <1>2, <2>1, <2>2 DEF Code
<1> QED  BY <1>1, <1>2, <1>3, <1>4 DEF LastFunc

\* The invariant holds initially.
LEMMA Begins == Init => Inv
<1> SUFFICES ASSUME Init PROVE Inv
  OBVIOUS
<1>1. NB \in Nat /\ Len(funcs) = 0 /\ shape.items \in Nat
  BY BuiltinsAre, ProgramsAssumption DEF Init
<1>2. Typed
  <2>1. funcs \in Seq(FuncDefs) /\ stack \in Seq(Slots)
    BY DEF Init
  <2>2. table = [i \in 1 .. Len(funcs) |-> NB + i]
    BY <1>1 DEF Init
  <2>3. shape \in Programs /\ phase \in Phases /\ inside \in BOOLEAN
    BY DEF Init, Phases
  <2>4. \A f \in 1 .. Len(funcs) : FALSE
    BY <1>1
  <2>5. fuel \in 0 .. shape.items
    <3>1. fuel = shape.items
      BY DEF Init
    <3> QED  BY <1>1, <3>1
  <2> QED  BY <2>1, <2>2, <2>3, <2>4, <2>5 DEF Typed
<1>3. Control /\ Definitions
  BY <1>1 DEF Init, Control, Definitions, Checked, Failures
<1>4. Resolved /\ Replayed
  BY <1>1 DEF Init, Resolved, Replayed
<1>5. Followed /\ Agreed /\ Emissions /\ Failing
  BY DEF Init, Followed, Agreed, Emissions, Failing, Checked
<1> QED  BY <1>2, <1>3, <1>4, <1>5 DEF Inv

\* What an item does is determined by its kind.
LEMMA DoesLit ==
    ASSUME NEW fs, NEW item, NEW b, NEW c, Does(fs, item, b, c), item.k = "lit"
    PROVE  c = Append(b, item.ty)
BY DEF Does
LEMMA DoesEnd ==
    ASSUME NEW fs, NEW item, NEW b, NEW c, Does(fs, item, b, c), item.k = "end"
    PROVE  c = <<>>
BY DEF Does
LEMMA DoesCall ==
    ASSUME NEW fs, NEW item, NEW b, NEW c, Does(fs, item, b, c), item.k = "call"
    PROVE  c = Append(SubSeq(b, 1, Len(b) - Len(item.args)), FuncIn(fs, item.target).ret)
BY DEF Does
LEMMA DoesKind ==
    ASSUME NEW fs, NEW item, NEW b, NEW c, Does(fs, item, b, c)
    PROVE  item.k \in {"lit", "end", "call"}
BY DEF Does
\* An item does one thing only.
LEMMA Unique ==
    ASSUME NEW fs, NEW item, NEW b, NEW c, NEW d, Does(fs, item, b, c), Does(fs, item, b, d)
    PROVE  c = d
<1>1. item.k = "lit" => c = d
  BY DoesLit
<1>2. item.k = "end" => c = d
  BY DoesEnd
<1>3. item.k = "call" => c = d
  BY DoesCall
<1> QED BY <1>1, <1>2, <1>3, DoesKind

\* Items written for the body that is being checked.
LEMMA WrittenFuncs ==
    ASSUME Inv, inside, NEW item \in Items, Written(item)
    PROVE  /\ funcs' \in Seq(FuncDefs) /\ Len(funcs') = Len(funcs) /\ Grows(funcs, funcs')
           /\ funcs'[at - NB].code = Append(Code, item)
           /\ \A f \in 1 .. Len(funcs) : f # at - NB => funcs'[f].code = funcs[f].code
<1> DEFINE n == at - NB
           new == [funcs[n] EXCEPT !.code = Append(Code, item)]
<1>1. /\ n \in 1 .. Len(funcs) /\ funcs[n] \in FuncDefs /\ Code \in Seq(Items) /\ Len(funcs) \in Nat
      /\ funcs \in Seq(FuncDefs) /\ Code = funcs[n].code
  BY Known DEF Inv, Typed, Code
<1>2. Append(Code, item) \in Seq(Items)
  BY <1>1, Appended
<1>3. /\ new.name = funcs[n].name /\ new.params = funcs[n].params /\ new.ret = funcs[n].ret
      /\ new.body = funcs[n].body /\ new.code = Append(Code, item) /\ new \in FuncDefs
  BY <1>1, <1>2 DEF FuncDefs
<1>4. funcs' = [funcs EXCEPT ![n] = new]
  BY <1>1 DEF Written
<1> HIDE DEF n, new
<1>5. funcs' \in Seq(FuncDefs) /\ Len(funcs') = Len(funcs)
      /\ \A f \in 1 .. Len(funcs) : funcs'[f] = IF f = n THEN new ELSE funcs[f]
  BY <1>1, <1>3, <1>4
<1>6. Grows(funcs, funcs')
  BY <1>3, <1>5 DEF Grows
<1> QED  BY <1>1, <1>3, <1>5, <1>6 DEF n

\* The typechecker goes on by one item, or rejects the program at it.
LEMMA WrittenKeeps ==
    ASSUME Inv, phase = "check", inside, NEW item \in Items, Written(item),
           UNCHANGED <<shape, defined, pc, emitted, table, at, inside>>,
           fuel' \in 0 .. shape.items, stack' \in Seq(Slots),
           \/ /\ phase' = "check" /\ Resolves(funcs, at - NB, item)
              /\ Does(funcs, item, TypesOf(stack), TypesOf(stack'))
           \/ /\ phase' = "rejected" /\ item.k = "call" /\ item.target = 0
              /\ MeantIn(funcs, item.name, item.args) = {}
    PROVE  Inv'
<1> DEFINE n == at - NB
<1>1. /\ funcs' \in Seq(FuncDefs) /\ Len(funcs') = Len(funcs) /\ Grows(funcs, funcs')
      /\ funcs'[n].code = Append(Code, item)
      /\ \A f \in 1 .. Len(funcs) : f # n => funcs'[f].code = funcs[f].code
  BY WrittenFuncs
<1>2. /\ NB \in Nat /\ Len(funcs) \in Nat /\ n \in 1 .. Len(funcs) /\ Code \in Seq(Items)
      /\ Len(Code) \in Nat /\ Code = funcs[n].code /\ funcs \in Seq(FuncDefs) /\ NB + n = at
  BY Known DEF Inv, Typed, Code, Control
<1>3. /\ Len(funcs'[n].code) = Len(Code) + 1 /\ funcs'[n].code[Len(Code) + 1] = item
      /\ \A i \in 1 .. Len(Code) : funcs'[n].code[i] = Code[i]
  BY <1>1, <1>2, Appended
<1>4. \A f \in 1 .. Len(funcs) : /\ funcs'[f].params = funcs[f].params /\ funcs'[f].ret = funcs[f].ret
                                 /\ funcs'[f].body = funcs[f].body
  BY <1>1 DEF Grows
<1>5. funcs[n].body
  BY DEF Inv, Control
<1>6. \A f \in 1 .. Len(funcs) : \A i \in 1 .. Len(funcs[f].code) : Resolves(funcs, f, funcs[f].code[i])
  BY DEF Inv, Resolved
<1>7. Typed'
  <2>1. \A f \in 1 .. Len(funcs') :
           /\ funcs'[f].params \in Seq(shape'.types) /\ funcs'[f].ret \in shape'.types
           /\ ~funcs'[f].body => funcs'[f].code = <<>>
    BY <1>1, <1>2, <1>4, <1>5 DEF Inv, Typed
  <2>2. table' = [i \in 1 .. Len(funcs') |-> NB + i]
    BY <1>1 DEF Inv, Typed
  <2> QED  BY <1>1, <2>1, <2>2 DEF Inv, Typed, Phases
<1>8. Control'
  BY <1>1, <1>2, <1>4 DEF Inv, Control, Checked, Failures
<1>9. Definitions'
  BY DEF Inv, Definitions, Checked
<1>10. Resolved'
  <2> SUFFICES ASSUME NEW f \in 1 .. Len(funcs), NEW i \in 1 .. Len(funcs'[f].code)
               PROVE  \/ Resolves(funcs', f, funcs'[f].code[i])
                      \/ /\ phase' = "rejected" /\ funcs'[f].code[i].target = 0
                         /\ MeantIn(funcs', funcs'[f].code[i].name, funcs'[f].code[i].args) = {}
    BY <1>1 DEF Resolved
  <2>1. CASE f # n
    <3>1. Resolves(funcs, f, funcs[f].code[i])
      BY <1>1, <1>6, <2>1
    <3> QED  BY <1>1, <1>2, <2>1, <3>1, GrownResolves
  <2>2. CASE f = n /\ i # Len(Code) + 1
    <3>1. i \in 1 .. Len(Code)
      BY <1>2, <1>3, <2>2
    <3>2. Resolves(funcs, n, Code[i])
      BY <1>2, <1>6, <3>1
    <3> QED  BY <1>1, <1>2, <1>3, <2>2, <3>1, <3>2, GrownResolves
  <2>3. CASE f = n /\ i = Len(Code) + 1
    <3>1. funcs'[f].code[i] = item
      BY <1>3, <2>3
    <3>2. CASE phase' = "check"
      <4>1. Resolves(funcs, n, item)
        BY <3>2
      <4> QED  BY <1>1, <1>2, <2>3, <3>1, <4>1, GrownResolves
    <3>3. CASE phase' = "rejected"
      <4>1. MeantIn(funcs, item.name, item.args) = {} /\ item.target = 0
        BY <3>3
      <4>2. MeantIn(funcs', item.name, item.args) \subseteq MeantIn(funcs, item.name, item.args)
        BY <1>1, <1>2, GrownFuncs DEF MeantIn
      <4> QED  BY <3>1, <3>3, <4>1, <4>2
    <3> QED  BY <3>2, <3>3
  <2> QED  BY <2>1, <2>2, <2>3
<1>11. Replayed'
  <2> SUFFICES ASSUME phase' = "check", NEW f \in 1 .. Len(funcs)
               PROVE  \E h : /\ Replays(funcs', f, h)
                             /\ h[Len(funcs'[f].code) + 1] =
                                   IF f = n THEN TypesOf(stack') ELSE <<>>
    BY <1>1 DEF Replayed
  <2>1. PICK h : /\ Replays(funcs, f, h)
                 /\ h[Len(funcs[f].code) + 1] = IF f = n THEN TypesOf(stack) ELSE <<>>
    BY DEF Inv, Replayed
  <2>2. CASE f # n
    <3>1. Replays(funcs', f, h)
      BY <1>1, <1>2, <1>6, <2>1, <2>2, GrownReplays
    <3> QED  BY <1>1, <2>1, <2>2, <3>1
  <2>3. CASE f = n
    <3>1. Does(funcs, item, TypesOf(stack), TypesOf(stack')) /\ Resolves(funcs, n, item)
      OBVIOUS
    <3>2. item.k = "call" => item.target \in 1 .. NB + Len(funcs)
      BY <3>1, Targets
    <3>3. Does(funcs', item, TypesOf(stack), TypesOf(stack'))
      BY <1>1, <1>2, <3>1, <3>2, GrownDoes
    <3>4. h[Len(h)] = TypesOf(stack)
      BY <2>1, <2>3 DEF Replays
    <3>5. TypesOf(stack') \in Seq(AllTypes)
      BY TypesAre
    <3>6. \E hh : Replays(funcs', n, hh) /\ hh[Len(funcs'[n].code) + 1] = TypesOf(stack')
      <4>1. funcs'[n].code = Append(funcs[n].code, item) /\ Does(funcs', item, h[Len(h)], TypesOf(stack'))
        BY <1>1, <1>2, <3>3, <3>4
      <4>2. Replays(funcs, n, h) /\ n \in 1 .. Len(funcs)
        BY <1>2, <2>1, <2>3
      <4>3. \A i \in 1 .. Len(funcs[n].code) : Resolves(funcs, n, funcs[n].code[i])
        BY <1>2, <1>6
      <4>4. funcs \in Seq(FuncDefs) /\ funcs' \in Seq(FuncDefs) /\ Grows(funcs, funcs')
        BY <1>1, <1>2
      <4> DEFINE types == TypesOf(stack')
                 new == funcs'
      <4> HIDE DEF n, types, new
      <4>5. /\ new \in Seq(FuncDefs) /\ Grows(funcs, new) /\ types \in Seq(AllTypes)
            /\ new[n].code = Append(funcs[n].code, item) /\ Does(new, item, h[Len(h)], types)
        BY <3>5, <4>1, <4>4 DEF new, types
      <4>6. \E hh : Replays(new, n, hh) /\ hh[Len(new[n].code) + 1] = types
        <5>1. Longer(funcs, new, n, h, item, types)
          BY <4>2, <4>3, <4>4, <4>5 DEF Longer
        <5> QED  BY <5>1, LongerReplays
      <4> QED  BY <4>6 DEF new, types
    <3> QED  BY <2>3, <3>6
  <2> QED  BY <2>2, <2>3
<1>12. emitted = <<>>
  BY DEF Inv, Emissions, Checked
<1>13. Followed' /\ Agreed' /\ Emissions' /\ Failing'
  BY <1>12 DEF Followed, Agreed, Emissions, Failing, Checked
<1> QED  BY <1>7, <1>8, <1>9, <1>10, <1>11, <1>13 DEF Inv

\* The types and names a program may use.
LEMMA ShapeIs ==
    ASSUME Typed
    PROVE  /\ shape.types \subseteq AllTypes /\ shape.names \subseteq Names /\ shape.called \subseteq Names
           /\ shape.items \in Nat /\ shape.params \in Nat
           /\ \A s \in BoundedSeq(shape.types, shape.params) : s \in Seq(shape.types) /\ s \in Seq(AllTypes)
<1>1. shape \in Programs /\ shape.types \subseteq AllTypes /\ shape.items \in Nat /\ shape.params \in Nat
  BY ProgramsAssumption DEF Typed
<1>2. shape.names \subseteq Names /\ shape.called \subseteq Names
  BY <1>1 DEF Names
<1>3. ASSUME NEW s \in BoundedSeq(shape.types, shape.params)
      PROVE  s \in Seq(shape.types) /\ s \in Seq(AllTypes)
  <2>1. PICK m \in 0 .. shape.params : s \in [1 .. m -> shape.types]
    BY <1>1 DEF BoundedSeq, SeqOf
  <2>2. m \in Nat
    BY <1>1
  <2>3. s \in Seq(shape.types)
    BY <2>1, <2>2
  <2>4. s \in Seq(AllTypes)
    BY <1>1, <2>3
  <2> QED  BY <2>3, <2>4
<1> QED  BY <1>1, <1>2, <1>3

\* A new function has an empty body, and takes no call from those before it.
LEMMA CheckFunctionKeeps ==
    ASSUME Inv, CheckFunction
    PROVE  Inv'
<1>1. PICK ret \in shape.types, name \in shape.names,
           params \in BoundedSeq(shape.types, shape.params), body \in BOOLEAN :
         funcs' = Append(funcs, FuncDef(ret, name, params, body)) /\ inside' = body
  BY DEF CheckFunction
<1> DEFINE new == FuncDef(ret, name, params, body)
           n == Len(funcs)
<1>2. /\ phase = "check" /\ ~inside /\ at' = LastFunc + 1 /\ table' = Append(table, LastFunc + 1)
      /\ UNCHANGED <<shape, defined, pc, emitted, fuel, phase, stack>>
  BY DEF CheckFunction, Checking
<1>3. Typed /\ Control /\ Resolved /\ NB \in Nat /\ n \in Nat /\ LastFunc = NB + n /\ funcs \in Seq(FuncDefs)
      /\ stack = <<>> /\ at = NB + n
  BY <1>2, Known DEF Inv, Typed, Control
<1>4. ret \in AllTypes /\ name \in Names /\ params \in Seq(AllTypes) /\ params \in Seq(shape.types)
  BY <1>3, ShapeIs
<1>5. new \in FuncDefs /\ new.ret = ret /\ new.params = params /\ new.body = body /\ new.code = <<>>
      /\ new.name = name
  <2>1. <<>> \in Seq(Items)
    OBVIOUS
  <2> QED  BY <1>4, <2>1 DEF FuncDef, FuncDefs
<1> HIDE DEF new
<1>6. /\ funcs' \in Seq(FuncDefs) /\ Len(funcs') = n + 1 /\ funcs'[n + 1] = new
      /\ \A f \in 1 .. n : funcs'[f] = funcs[f]
  <2>1. funcs' = Append(funcs, new)
    BY <1>1 DEF new
  <2> QED  BY <1>3, <1>5, <2>1, Appended
<1> HIDE DEF n
<1>7. Grows(funcs, funcs') /\ Len(funcs) = n
  BY <1>6 DEF Grows, n
<1>8. Typed'
  <2>1. ASSUME NEW f \in 1 .. n + 1
        PROVE  /\ funcs'[f].params \in Seq(shape.types) /\ funcs'[f].ret \in shape.types
               /\ ~funcs'[f].body => funcs'[f].code = <<>>
    <3>1. f \in 1 .. n \/ f = n + 1
      BY <1>3
    <3> QED  BY <1>3, <1>4, <1>5, <1>6, <1>7, <3>1 DEF Typed
  <2>2. table' = [f \in 1 .. n + 1 |-> NB + f]
    <3> DEFINE longer == [f \in 1 .. n + 1 |-> NB + f]
    <3>1. table = [f \in 1 .. n |-> NB + f] /\ table' = Append(table, NB + (n + 1))
      BY <1>2, <1>3, <1>7 DEF Typed
    <3>2. table \in Seq(Nat) /\ Len(table) = n
      BY <1>3, <3>1
    <3>3. table' \in Seq(Nat) /\ Len(table') = n + 1 /\ table'[n + 1] = NB + (n + 1)
          /\ \A f \in 1 .. n : table'[f] = table[f]
      BY <1>3, <3>1, <3>2, Appended
    <3>4. \A f \in 1 .. n + 1 : table'[f] = NB + f
      <4> TAKE f \in 1 .. n + 1
      <4>1. f \in 1 .. n \/ f = n + 1
        BY <1>3
      <4> QED  BY <3>1, <3>3, <4>1
    <3> QED  BY <3>3, <3>4
  <2> QED  BY <1>1, <1>2, <1>3, <1>6, <2>1, <2>2 DEF Typed, Phases
<1>9. Control'
  <2>1. at' = NB + n + 1 /\ at' - NB = n + 1
    BY <1>2, <1>3
  <2>2. at' \in NB .. NB + (n + 1) + 1 /\ at' = NB + (n + 1) /\ at' \in NB + 1 .. NB + (n + 1)
    BY <1>3, <2>1
  <2>3. inside' => funcs'[at' - NB].body
    BY <1>1, <1>5, <1>6, <2>1
  <2> QED  BY <1>2, <1>3, <1>6, <2>2, <2>3 DEF Control, Checked, Failures
<1>10. Definitions'
  BY <1>2 DEF Inv, Definitions, Checked
<1>11. Resolved'
  <2> SUFFICES ASSUME NEW f \in 1 .. n + 1, NEW i \in 1 .. Len(funcs'[f].code)
               PROVE  Resolves(funcs', f, funcs'[f].code[i])
    BY <1>6 DEF Resolved
  <2>1. f # n + 1
    BY <1>5, <1>6
  <2>2. f \in 1 .. n
    BY <1>3, <2>1
  <2>3. Resolves(funcs, f, funcs[f].code[i])
    BY <1>2, <1>3, <1>6, <1>7, <2>2 DEF Resolved
  <2> QED  BY <1>3, <1>6, <1>7, <2>2, <2>3, GrownResolves
<1>12. Replayed'
  <2> SUFFICES ASSUME NEW f \in 1 .. n + 1
               PROVE  \E h : Replays(funcs', f, h) /\ h[Len(funcs'[f].code) + 1] = <<>>
    <3>1. TypesOf(stack') = <<>>
      BY <1>2, <1>3, TypesAre DEF Typed
    <3> QED  BY <1>6, <3>1 DEF Replayed
  <2>1. CASE f \in 1 .. n
    <3>1. PICK h : Replays(funcs, f, h) /\ h[Len(funcs[f].code) + 1] = <<>>
      BY <1>2, <1>7, <2>1 DEF Inv, Replayed
    <3>2. \A i \in 1 .. Len(funcs[f].code) : Resolves(funcs, f, funcs[f].code[i])
      BY <1>2, <1>3, <1>7, <2>1 DEF Resolved
    <3>3. Replays(funcs', f, h)
      BY <1>3, <1>6, <1>7, <2>1, <3>1, <3>2, GrownReplays
    <3> QED  BY <1>6, <2>1, <3>1, <3>3
  <2>2. CASE f = n + 1
    <3> DEFINE h == << <<>> >>
    <3>1. h \in Seq(Seq(AllTypes)) /\ Len(h) = 1 /\ h[1] = <<>>
      OBVIOUS
    <3>2. funcs'[f].code = <<>> /\ Len(funcs'[f].code) = 0
      BY <1>5, <1>6, <2>2
    <3> HIDE DEF h
    <3>3. Replays(funcs', f, h) /\ h[Len(funcs'[f].code) + 1] = <<>>
      BY <3>1, <3>2 DEF Replays
    <3> QED  BY <3>3
  <2> QED  BY <1>3, <2>1, <2>2
<1>13. emitted = <<>>
  BY <1>2 DEF Inv, Emissions, Checked
<1>14. Followed' /\ Agreed' /\ Emissions' /\ Failing'
  BY <1>2, <1>13 DEF Followed, Agreed, Emissions, Failing, Checked
<1> QED  BY <1>8, <1>9, <1>10, <1>11, <1>12, <1>14 DEF Inv

LEMMA CheckLiteralKeeps ==
    ASSUME Inv, CheckLiteral
    PROVE  Inv'
<1>1. PICK t \in shape.types : Written(Literal(t)) /\ stack' = Append(stack, Value(t, ""))
  BY DEF CheckLiteral
<1>2. /\ phase = "check" /\ phase' = "check" /\ inside /\ fuel > 0 /\ fuel' = fuel - 1
      /\ UNCHANGED <<shape, defined, pc, emitted, table, at, inside>>
  BY DEF CheckLiteral, Checking
<1>3. t \in AllTypes /\ stack \in Seq(Slots) /\ shape.items \in Nat /\ fuel \in 0 .. shape.items
  BY ShapeIs DEF Inv, Typed
<1>4. fuel' \in 0 .. shape.items
  BY <1>2, <1>3
<1> DEFINE item == Literal(t)
           x == Value(t, "")
<1>5. item \in Items /\ item.k = "lit" /\ item.ty = t /\ item.target = 0
  <2>1. "" \in Names /\ <<>> \in Seq(AllTypes)
    BY DEF Names
  <2> QED  BY <1>3, <2>1 DEF Literal, Items
<1>6. x \in Slots /\ x.ty = t
  BY <1>3, SlotFields DEF Values
<1> HIDE DEF item, x
<1>7. stack' \in Seq(Slots) /\ TypesOf(stack') = Append(TypesOf(stack), t)
  <2>1. stack' = Append(stack, x)
    BY <1>1 DEF x
  <2> QED  BY <1>3, <1>6, <2>1, Pushed
<1>8. Resolves(funcs, at - NB, item) /\ Does(funcs, item, TypesOf(stack), TypesOf(stack'))
  BY <1>5, <1>7 DEF Resolves, Does
<1>9. Written(item)
  BY <1>1 DEF item
<1> QED  BY <1>2, <1>4, <1>5, <1>7, <1>8, <1>9, WrittenKeeps

LEMMA CheckStmtEndKeeps ==
    ASSUME Inv, CheckStmtEnd
    PROVE  Inv'
<1>1. /\ phase = "check" /\ phase' = "check" /\ inside /\ Written(StmtEnd) /\ stack' = <<>>
      /\ UNCHANGED <<shape, defined, pc, emitted, table, at, inside, fuel>>
  BY DEF CheckStmtEnd, Checking
<1>2. stack \in Seq(Slots) /\ fuel' \in 0 .. shape.items
  BY <1>1 DEF Inv, Typed
<1> DEFINE item == StmtEnd
<1>3. item \in Items /\ item.k = "end" /\ item.target = 0
  <2>1. "" \in Names /\ <<>> \in Seq(AllTypes) /\ "int" \in AllTypes
    BY DEF Names, AllTypes
  <2> QED  BY <2>1 DEF StmtEnd, Items
<1>4. stack' \in Seq(Slots) /\ TypesOf(stack') = <<>>
  <2>1. stack' \in Seq(Slots)
    BY <1>1
  <2> QED  BY <1>1, <2>1, TypesAre
<1>5. Written(item)
  BY <1>1
<1> HIDE DEF item
<1>6. Resolves(funcs, at - NB, item) /\ Does(funcs, item, TypesOf(stack), TypesOf(stack'))
  BY <1>3, <1>4 DEF Resolves, Does
<1> QED  BY <1>1, <1>2, <1>3, <1>4, <1>5, <1>6, WrittenKeeps

LEMMA CheckBodyEndKeeps ==
    ASSUME Inv, CheckBodyEnd
    PROVE  Inv'
<1>1. /\ phase = "check" /\ inside /\ stack = <<>> /\ inside' = FALSE
      /\ UNCHANGED <<funcs, fuel, phase, table, at, stack, shape, defined, pc, emitted>>
  BY DEF CheckBodyEnd, Checking
<1>2. Typed' /\ Control' /\ Definitions' /\ Resolved'
  BY <1>1 DEF Inv, Typed, Control, Definitions, Resolved, Checked, Failures
<1>3. Replayed'
  <2>1. TypesOf(stack) = <<>>
    BY <1>1, TypesAre DEF Inv, Typed
  <2> QED  BY <1>1, <2>1 DEF Inv, Replayed
<1>4. Followed' /\ Agreed' /\ Emissions' /\ Failing'
  BY <1>1 DEF Inv, Followed, Agreed, Emissions, Failing, Checked
<1> QED  BY <1>2, <1>3, <1>4 DEF Inv

\* The code generator starts with nothing gone through.
LEMMA CheckEndKeeps ==
    ASSUME Inv, CheckEnd
    PROVE  Inv'
<1>1. /\ phase = "check" /\ phase' = "gen" /\ ~inside /\ at' = NB + 1
      /\ UNCHANGED <<shape, funcs, fuel, table, defined, inside, pc, stack, emitted>>
  BY DEF CheckEnd
<1>2. NB \in Nat /\ Len(funcs) \in Nat
  BY Known DEF Inv
<1>3. Typed' /\ Resolved'
  BY <1>1 DEF Inv, Typed, Resolved, Phases
<1>4. Control'
  BY <1>1, <1>2 DEF Inv, Control, Checked, Failures
<1>5. Definitions'
  BY <1>1, <1>2 DEF Inv, Definitions, Checked
<1>6. Replayed' /\ Followed' /\ Agreed' /\ Emissions' /\ Failing'
  BY <1>1 DEF Inv, Replayed, Followed, Agreed, Emissions, Failing, Checked
<1> QED  BY <1>3, <1>4, <1>5, <1>6 DEF Inv

\* A function on 1 .. n is a sequence.
LEMMA SeqIs ==
    ASSUME NEW S, NEW n \in Nat, NEW s, s = [i \in 1 .. n |-> s[i]], \A i \in 1 .. n : s[i] \in S
    PROVE  s \in Seq(S) /\ Len(s) = n
OBVIOUS

\* A call means the first match or the program is rejected.
LEMMA CheckCallKeeps ==
    ASSUME Inv, CheckCall
    PROVE  Inv'
<1>1. PICK name \in shape.called, n \in 0 .. Len(stack) :
         LET args == [i \in 1 .. n |-> stack[Len(stack) - n + i].ty]
             f == findFunc(name, args)
         IN  /\ Callable(name, n)
             /\ Written(Call(name, args, f))
             /\ IF f = 0
                  THEN phase' = "rejected" /\ UNCHANGED stack
                  ELSE /\ stack' = Append(Popped(n), Value(Func(f).ret, ""))
                       /\ UNCHANGED phase
  BY DEF CheckCall
<1>2. /\ phase = "check" /\ inside /\ fuel > 0 /\ fuel' = fuel - 1
      /\ UNCHANGED <<shape, defined, pc, emitted, table, at, inside>>
  BY DEF CheckCall, Checking
<1>3. /\ Typed /\ Control /\ stack \in Seq(Slots) /\ shape.items \in Nat /\ fuel \in 0 .. shape.items
      /\ name \in Names /\ funcs \in Seq(FuncDefs) /\ Len(stack) \in Nat /\ n \in Nat
      /\ NB \in Nat /\ Len(funcs) \in Nat /\ LastFunc = NB + Len(funcs)
  BY ShapeIs, Known DEF Inv, Typed
<1>4. fuel' \in 0 .. shape.items
  BY <1>2, <1>3
<1> DEFINE args == [i \in 1 .. n |-> stack[Len(stack) - n + i].ty]
           f == findFunc(name, args)
           item == Call(name, args, f)
<1>5. args \in Seq(AllTypes) /\ Len(args) = n
      /\ \A i \in 1 .. n : args[i] = TypesOf(stack)[Len(stack) - n + i]
  <2>1. ASSUME NEW i \in 1 .. n
        PROVE  /\ stack[Len(stack) - n + i].ty \in AllTypes
               /\ stack[Len(stack) - n + i].ty = TypesOf(stack)[Len(stack) - n + i]
    <3>1. Len(stack) - n + i \in 1 .. Len(stack)
      BY <1>3
    <3>2. stack[Len(stack) - n + i] \in Slots
      BY <1>3, <3>1
    <3> QED  BY <1>3, <3>1, <3>2, SlotFields, TypesAre
  <2>2. \A i \in 1 .. n : args[i] \in AllTypes
    BY <2>1
  <2>3. \A i \in 1 .. n : args[i] = TypesOf(stack)[Len(stack) - n + i]
    BY <2>1
  <2>4. args = [i \in 1 .. n |-> args[i]]
    OBVIOUS
  <2> HIDE DEF args
  <2>5. args \in Seq(AllTypes) /\ Len(args) = n
    <3>1. n \in Nat
      BY <1>3
    <3> QED  BY <2>2, <2>4, <3>1, SeqIs
  <2> QED  BY <2>3, <2>5
<1> HIDE DEF args
<1>6. /\ Callable(name, n) /\ Written(item)
      /\ IF f = 0
           THEN phase' = "rejected" /\ UNCHANGED stack
           ELSE stack' = Append(Popped(n), Value(Func(f).ret, "")) /\ UNCHANGED phase
  BY <1>1 DEF args
<1>7. \/ f = 0 /\ MeantIn(funcs, name, args) = {}
      \/ f # 0 /\ Means(funcs, f, name, args)
  <2>1. Meant(name, args) = MeantIn(funcs, name, args)
    BY <1>3 DEF Meant, MeantIn, Func, FuncIn, argsMatch
  <2>2. \/ f = 0 /\ Meant(name, args) = {}
        \/ f \in Meant(name, args) /\ \A m \in Meant(name, args) : f <= m
    BY <1>3, Finds DEF Typed
  <2>3. \A m \in MeantIn(funcs, name, args) : m # 0
    BY <1>3 DEF MeantIn
  <2> QED  BY <2>1, <2>2, <2>3 DEF Means
<1> HIDE DEF f
<1>8. f \in Nat
  BY <1>3, <1>7 DEF Means, MeantIn
<1>9. item \in Items /\ item.k = "call" /\ item.name = name /\ item.args = args /\ item.target = f
  <2>1. "int" \in AllTypes
    BY DEF AllTypes
  <2> QED  BY <1>3, <1>5, <1>8, <2>1 DEF Call, Items
<1> HIDE DEF item
<1>10. CASE f = 0
  <2>1. stack' \in Seq(Slots) /\ phase' = "rejected" /\ MeantIn(funcs, item.name, item.args) = {}
    BY <1>3, <1>6, <1>7, <1>9, <1>10 DEF Means
  <2> QED  BY <1>2, <1>4, <1>6, <1>9, <1>10, <2>1, WrittenKeeps
<1>11. CASE f # 0
  <2>1. Means(funcs, f, name, args) /\ f \in 1 .. NB + Len(funcs)
    BY <1>7, <1>11 DEF Means, MeantIn
  <2>2. Func(f).ret = FuncIn(funcs, f).ret /\ FuncIn(funcs, f).ret \in AllTypes
    <3>1. FuncIn(funcs, f) \in FuncDefs
      BY <1>3, <2>1, FuncsAre
    <3> QED  BY <1>3, <3>1, Known, Fields
  <2> DEFINE x == Value(Func(f).ret, "")
             r == Append(SubSeq(stack, 1, Len(stack) - n), x)
  <2>3. x \in Slots /\ x.ty = FuncIn(funcs, f).ret
    BY <2>2, SlotFields DEF Values
  <2>4. stack' = r
    BY <1>6, <1>11 DEF Popped
  <2> HIDE DEF x
  <2>5. r \in Seq(Slots) /\ TypesOf(r) = Append(SubSeq(TypesOf(stack), 1, Len(TypesOf(stack)) - n), x.ty)
    BY <1>3, <2>3, Replaced
  <2>6. Does(funcs, item, TypesOf(stack), TypesOf(stack'))
    <3>1. Len(TypesOf(stack)) = Len(stack) /\ n <= Len(stack)
      BY <1>3, TypesAre
    <3>2. TypesOf(stack') = Append(SubSeq(TypesOf(stack), 1, Len(TypesOf(stack)) - Len(item.args)),
                                   FuncIn(funcs, item.target).ret)
      BY <1>5, <1>9, <2>3, <2>4, <2>5
    <3>3. Len(item.args) <= Len(TypesOf(stack))
          /\ \A i \in 1 .. Len(item.args) :
                item.args[i] = TypesOf(stack)[Len(TypesOf(stack)) - Len(item.args) + i]
      BY <1>5, <1>9, <3>1
    <3> QED  BY <1>9, <3>2, <3>3 DEF Does
  <2>7. Resolves(funcs, at - NB, item)
    <3>1. item.target <= NB + (at - NB)
      BY <1>2, <1>3, <1>9, <2>1 DEF Control
    <3> QED  BY <1>5, <1>6, <1>9, <2>1, <3>1 DEF Resolves
  <2>8. phase' = "check" /\ stack' \in Seq(Slots)
    BY <1>2, <1>6, <1>11, <2>4, <2>5
  <2> QED  BY <1>2, <1>4, <1>6, <1>9, <2>6, <2>7, <2>8, WrittenKeeps
<1> QED  BY <1>10, <1>11

-----------------------------------------------------------------------------
(* The code generator. *)

\* The code generator changes nothing that the typechecker has found.
LEMMA GenKeeps ==
    ASSUME Inv, phase = "gen", UNCHANGED GenVars, phase' \in Phases \ {"check", "rejected"},
           inside' \in BOOLEAN, stack' \in Seq(Slots)
    PROVE  Typed' /\ Resolved' /\ Replayed'
<1>1. UNCHANGED <<shape, funcs, fuel, table>>
  BY DEF GenVars
<1> QED  BY <1>1 DEF Inv, Typed, Resolved, Replayed

\* The item to generate does to the types what it did in the typechecker.
LEMMA ItemIs ==
    ASSUME Inv, Checked, inside, pc <= Len(Code)
    PROVE  /\ pc \in 1 .. Len(Code) /\ Item = Code[pc] /\ Item \in Items
           /\ Resolves(funcs, at - NB, Item)
           /\ \E h : /\ Replays(funcs, at - NB, h) /\ h[Len(Code) + 1] = <<>>
                     /\ h[pc] = TypesOf(stack) /\ Does(funcs, Item, TypesOf(stack), h[pc + 1])
<1>1. /\ at - NB \in 1 .. Len(funcs) /\ Code \in Seq(Items) /\ Len(Code) \in Nat
      /\ Code = funcs[at - NB].code /\ pc \in 1 .. Len(Code) + 1
  BY Known DEF Inv, Control, Code
<1>2. pc \in 1 .. Len(Code) /\ Item = Code[pc]
  BY <1>1 DEF Item
<1>3. Resolves(funcs, at - NB, Code[pc])
  BY <1>1, <1>2 DEF Inv, Resolved, Checked
<1>4. PICK h : /\ Replays(funcs, at - NB, h) /\ h[Len(Code) + 1] = <<>>
               /\ h[pc] = TypesOf(stack)
  BY DEF Inv, Followed
<1>5. Does(funcs, Code[pc], h[pc], h[pc + 1])
  BY <1>1, <1>2, <1>4 DEF Replays
<1> QED  BY <1>1, <1>2, <1>3, <1>4, <1>5

\* An item has been gone through.
LEMMA Advances ==
    ASSUME Inv, phase = "gen", inside, pc <= Len(Code),
           UNCHANGED GenVars, UNCHANGED <<phase, defined, at, inside>>, pc' = pc + 1,
           stack' \in Seq(Slots), Does(funcs, Item, TypesOf(stack), TypesOf(stack')),
           Undiverted /\ ~Diverted(Item) => Agreeing(stack'),
           \/ emitted' = <<>>
           \/ /\ Item.k = "call"
              /\ Undiverted /\ ~Diverted(Item) =>
                    \A i \in DOMAIN emitted' : WellFormed(emitted'[i]) \/ MixedCall(Item)
    PROVE  Inv'
<1>1. UNCHANGED <<shape, funcs, fuel, table>> /\ Code' = Code
  BY DEF GenVars, Code
<1>2. Checked /\ Checked' /\ phase \in Phases
  BY DEF Checked, Phases
<1>3. Typed' /\ Resolved' /\ Replayed'
  BY GenKeeps DEF Phases, Inv, Typed
<1>4. /\ pc \in 1 .. Len(Code) /\ Item = Code[pc] /\ Len(Code) \in Nat
  BY <1>2, ItemIs, Known DEF Inv
<1>5. Control'
  BY <1>1, <1>2, <1>4 DEF Inv, Control, Failures
<1>6. Definitions'
  BY <1>1, <1>2 DEF Inv, Definitions
<1>7. Followed'
  <2>1. PICK h : /\ Replays(funcs, at - NB, h) /\ h[Len(Code) + 1] = <<>>
                 /\ h[pc] = TypesOf(stack) /\ Does(funcs, Item, TypesOf(stack), h[pc + 1])
    BY <1>2, ItemIs
  <2>2. h[pc + 1] = TypesOf(stack')
    BY <2>1, Unique
  <2> QED  BY <1>1, <2>1, <2>2 DEF Followed
<1>8. pc' - 1 = pc /\ (Undiverted' => Undiverted /\ ~Diverted(Item))
  <2>1. pc' - 1 = pc /\ \A i \in 1 .. pc - 1 : i \in 1 .. pc
    BY <1>4
  <2>2. pc \in 1 .. pc
    BY <1>4
  <2>3. \A i : Diverted(Code[i])' <=> Diverted(Code[i])
    BY <1>1 DEF Diverted
  <2> QED  BY <1>4, <2>1, <2>2, <2>3 DEF Undiverted
<1>9. Agreed'
  BY <1>8 DEF Agreed
<1>10. Emissions'
  <2> SUFFICES ASSUME emitted' # <<>> PROVE Emissions'
    BY DEF Emissions
  <2>1. pc' > 1 /\ Code'[pc' - 1] = Item
    BY <1>1, <1>4
  <2>2. MixedCall(Item) => MixedCall(Code[pc - 1])'
    BY <1>1, <2>1 DEF MixedCall
  <2> QED  BY <1>2, <1>8, <2>1, <2>2 DEF Emissions
<1>11. Failing'
  BY DEF Failing
<1> QED  BY <1>3, <1>5, <1>6, <1>7, <1>9, <1>10, <1>11 DEF Inv

\* The operators.
LEMMA InfixIs == Infix = Arith \cup Compare \cup Logic \cup {"%"}
<1> DEFINE ac == ArithNames \o CompareNames
<1>1. ac \in Seq(Names) /\ Range(ac) = Arith \cup Compare
  BY ListNames, RangeOfBoth
<1> HIDE DEF ac
<1>2. Range(ac \o LogicNames) = Arith \cup Compare \cup Logic
  BY <1>1, ListNames, RangeOfBoth
<1> QED  BY <1>2 DEF Infix, ac

\* One float and one other: the conversion of the arguments.
LEMMA MixedIs ==
    ASSUME NEW params \in Seq(AllTypes), NEW a, a = LLVM(params), Len(a) = 2,
           IsInteger(a[1]) # IsInteger(a[2])
    PROVE  IsMixed(params)
<1>1. DOMAIN params = 1 .. Len(params) /\ Len(params) \in Nat
  OBVIOUS
<1>2. Len(params) = 2 /\ params[1] \in AllTypes /\ params[2] \in AllTypes
      /\ a[1] = ConvertType(params[1]) /\ a[2] = ConvertType(params[2])
  <2>1. a = [i \in 1 .. Len(params) |-> ConvertType(params[i])]
    BY <1>1 DEF LLVM
  <2>2. Len(params) = 2
    BY <1>1, <2>1
  <2> QED  BY <2>1, <2>2
<1>3. \A t \in AllTypes : IsInteger(ConvertType(t)) <=> t # "float"
  BY DEF AllTypes, ConvertType, IsInteger
<1>4. (params[1] = "float") # (params[2] = "float")
  <2>1. \A v : IsInteger(v) \in BOOLEAN
    BY DEF IsInteger
  <2>2. IsInteger(a[1]) <=> params[1] # "float"
    BY <1>2, <1>3
  <2>3. IsInteger(a[2]) <=> params[2] # "float"
    BY <1>2, <1>3
  <2> QED  BY <2>1, <2>2, <2>3
<1> DEFINE S == {p = "float" : p \in Range(params)}
<1>5. Range(params) = {params[1], params[2]}
  BY <1>1, <1>2 DEF Range
<1>6. S = {TRUE} \cup {FALSE}
  BY <1>4, <1>5
<1>7. Cardinality({TRUE} \cup {FALSE}) = 2
  <2>1. \A x, y : x # y => Cardinality({x} \cup {y}) = 2
    <3> SUFFICES ASSUME NEW x, NEW y, x # y PROVE Cardinality({x} \cup {y}) = 2
      OBVIOUS
    <3>1. IsFiniteSet({x}) /\ Cardinality({x}) = 1 /\ y \notin {x}
      BY FS_Singleton
    <3>2. Cardinality({x} \cup {y}) = Cardinality({x}) + 1
      BY <3>1, FS_AddElement
    <3>3. 1 + 1 = 2
      OBVIOUS
    <3> QED  BY <3>1, <3>2, <3>3, Zenon
  <2>2. TRUE # FALSE
    OBVIOUS
  <2> QED  BY <2>1, <2>2, Zenon
<1> QED  BY <1>2, <1>6, <1>7 DEF IsMixed

\* The call to generate, its function and its arguments.
LEMMA CallIs ==
    ASSUME Inv, Checked, inside, pc <= Len(Code), Item.k = "call"
    PROVE  /\ Item \in Items /\ Item.target \in 1 .. NB + Len(funcs) /\ Item.target <= at
           /\ Func(Item.target) = FuncIn(funcs, Item.target) /\ Func(Item.target) \in FuncDefs
           /\ Func(Item.target).name = Item.name /\ Func(Item.target).params = Item.args
           /\ Callable(Item.name, Len(Item.args))
           /\ Args \in Seq(Values) /\ Len(Args) = Len(Item.args)
           /\ Agreeing(stack) => Args = LLVM(Item.args)
<1>1. NB \in Nat /\ Len(funcs) \in Nat /\ funcs \in Seq(FuncDefs) /\ at \in Int /\ stack \in Seq(Slots)
      /\ \A f : Func(f) = FuncIn(funcs, f)
  BY Known DEF Inv, Typed
<1>2. Item \in Items /\ Resolves(funcs, at - NB, Item)
  BY ItemIs
<1>3. /\ Item.target \in 1 .. NB + Len(funcs) /\ Item.target <= at /\ Callable(Item.name, Len(Item.args))
      /\ FuncIn(funcs, Item.target).name = Item.name /\ FuncIn(funcs, Item.target).params = Item.args
  BY <1>1, <1>2 DEF Resolves, Means, MeantIn
<1>4. FuncIn(funcs, Item.target) \in FuncDefs
  BY <1>1, <1>3, FuncsAre
<1>5. PICK c : Does(funcs, Item, TypesOf(stack), c)
  BY ItemIs
<1>6. Item.args \in Seq(AllTypes)
  BY <1>2, Fields
<1> DEFINE a == Top(stack, Len(Item.args))
<1>7. a \in Seq(Values) /\ Len(a) = Len(Item.args) /\ (Agreeing(stack) => a = LLVM(Item.args))
  BY <1>1, <1>5, <1>6, TopIs
<1>8. Args = a
  BY <1>6 DEF Args, Top
<1> QED  BY <1>1, <1>2, <1>3, <1>4, <1>7, <1>8

\* A builtin is generated in place for the arguments it was found for.
LEMMA Applied ==
    ASSUME Inv, Checked, inside, pc <= Len(Code), Item.k = "call", Item.target <= NB
    PROVE  /\ Signature(Item.name, Item.args, Func(Item.target).ret)
           /\ Item.args # <<>>
           /\ Agreeing(stack) => InPlace(Item.name, Func(Item.target).ret, Args)
<1>1. /\ Item.target \in 1 .. NB /\ Func(Item.target) = FuncIn(funcs, Item.target)
      /\ Func(Item.target).name = Item.name /\ Func(Item.target).params = Item.args
      /\ (Agreeing(stack) => Args = LLVM(Item.args))
  BY CallIs, BuiltinsAre
<1>2. Func(Item.target) \in BuiltinDefs
  BY <1>1, FuncsAre DEF Inv, Typed
<1>3. Signature(Item.name, Item.args, Func(Item.target).ret)
  BY <1>1, <1>2, Fields
<1>4. Item.args # <<>>
  <2>1. \/ \E t : Item.args = <<t>>
        \/ \E t, u : Item.args = <<t, u>>
    BY <1>3 DEF Signature, Numeric
  <2>2. \A t, u : <<t>> # <<>> /\ <<t, u>> # <<>>
    OBVIOUS
  <2> QED  BY <2>1, <2>2
<1>5. InPlace(Item.name, Func(Item.target).ret, LLVM(Item.args))
  BY <1>3, BuiltinInPlace
<1> QED  BY <1>1, <1>3, <1>4, <1>5

\* What is generated in place has a first argument.
LEMMA Sound ==
    ASSUME Inv, Checked, inside, pc <= Len(Code), Item.k = "call", ~NoArgument,
           Operation(Item.name, Func(Item.target).ret, Converted(Item.name, Args).args) # <<>>
    PROVE  \E x : /\ Operation(Item.name, Func(Item.target).ret, Converted(Item.name, Args).args) = <<x>>
                  /\ x.gives \in Values
<1> DEFINE name == Item.name
           call == Converted(name, Args)
<1>1. Args \in Seq(Values) /\ Len(Args) = Len(Item.args) /\ Callable(name, Len(Item.args))
      /\ Item.args \in Seq(AllTypes)
  BY CallIs, Fields
<1>2. name \in BuiltIn
  BY Operations
<1>3. Len(Item.args) # 0
  <2>1. CASE name \in FirstArgNames
    BY <1>1, <2>1 DEF NoArgument
  <2>2. CASE name \in Infix
    <3>1. \A m : Callable(name, m) /\ name \in Infix => m \in {1, 2}
      BY DEF Callable
    <3>2. Len(Item.args) \in {1, 2}
      BY <1>1, <2>2, <3>1
    <3> QED  BY <3>2
  <2>3. name # "!"
    BY <1>1 DEF Callable
  <2> QED  BY <1>2, <2>1, <2>2, <2>3, InfixIs DEF BuiltIn, FirstArgNames
<1>4. Args[1] \in Values
  BY <1>1, <1>3
<1>5. call.args \in {Args, <<"f32", "f32">>, <<"i1", "i1">>}
  BY <1>1, Conversions
<1>6. call.args[1] \in Values
  <2>1. \A t : <<t, t>>[1] = t
    OBVIOUS
  <2>2. call.args[1] \in {Args[1], "f32", "i1"}
    BY <1>5, <2>1
  <2>3. {"f32", "i1"} \subseteq Values
    BY DEF Values
  <2> QED  BY <1>4, <2>2, <2>3
<1> QED  BY <1>6, OperationShape

\* Where the generator is.
LEMMA GeneratingIs ==
    ASSUME Inv, NEW k, Generating(k)
    PROVE  phase = "gen" /\ inside /\ Checked /\ pc <= Len(Code) /\ Item.k = k
BY DEF Generating, Checked, Code

LEMMA GenLiteralKeeps ==
    ASSUME Inv, GenLiteral
    PROVE  Inv'
<1> DEFINE x == Value(Item.ty, ConvertType(Item.ty))
<1>1. phase = "gen" /\ inside /\ Checked /\ pc <= Len(Code) /\ Item.k = "lit"
  BY GeneratingIs DEF GenLiteral
<1>2. /\ stack' = Append(stack, x) /\ pc' = pc + 1 /\ emitted' = <<>>
      /\ UNCHANGED GenVars /\ UNCHANGED <<phase, defined, at, inside>>
  BY DEF GenLiteral
<1>3. Item \in Items /\ Item.ty \in AllTypes /\ stack \in Seq(Slots)
  BY <1>1, ItemIs, Fields DEF Inv, Typed
<1>4. x \in Slots /\ x.ty = Item.ty /\ x.v = ConvertType(x.ty)
  <2>1. \A t \in AllTypes : ConvertType(t) \in Values
    BY DEF AllTypes, ConvertType, Values
  <2> QED  BY <1>3, <2>1, SlotFields
<1> HIDE DEF x
<1>5. stack' \in Seq(Slots) /\ TypesOf(stack') = Append(TypesOf(stack), Item.ty)
      /\ (Agreeing(stack) => Agreeing(stack'))
  BY <1>2, <1>3, <1>4, Pushed
<1>6. Does(funcs, Item, TypesOf(stack), TypesOf(stack'))
  BY <1>1, <1>5 DEF Does
<1>7. Undiverted /\ ~Diverted(Item) => Agreeing(stack')
  BY <1>1, <1>5 DEF Inv, Agreed
<1> QED  BY <1>1, <1>2, <1>5, <1>6, <1>7, Advances

LEMMA GenStmtEndKeeps ==
    ASSUME Inv, GenStmtEnd
    PROVE  Inv'
<1>1. phase = "gen" /\ inside /\ Checked /\ pc <= Len(Code) /\ Item.k = "end"
  BY GeneratingIs DEF GenStmtEnd
<1>2. /\ stack' = <<>> /\ pc' = pc + 1 /\ emitted' = <<>>
      /\ UNCHANGED GenVars /\ UNCHANGED <<phase, defined, at, inside>>
  BY DEF GenStmtEnd
<1>3. stack' \in Seq(Slots) /\ TypesOf(stack') = <<>> /\ Agreeing(stack')
  <2>1. stack' \in Seq(Slots)
    BY <1>2
  <2>2. TypesOf(stack') = <<>>
    BY <1>2, <2>1, TypesAre
  <2>3. Agreeing(stack')
    <3>1. \A i \in 1 .. Len(<<>>) : FALSE
      OBVIOUS
    <3> QED  BY <1>2, <3>1 DEF Agreeing
  <2> QED  BY <2>1, <2>2, <2>3
<1>4. Does(funcs, Item, TypesOf(stack), TypesOf(stack'))
  BY <1>1, <1>3 DEF Does
<1> QED  BY <1>1, <1>2, <1>3, <1>4, Advances

\* The last instruction of a call.
LEMMA LastOf ==
    ASSUME NEW pre, NEW x, pre = <<>> \/ \E y : pre = <<y>>
    PROVE  Last(pre \o <<x>>) = x
<1>1. CASE pre = <<>>
  <2>1. pre \o <<x>> = <<x>>
    BY <1>1, Joined
  <2> QED  BY <2>1, Joined
<1>2. ASSUME NEW y, pre = <<y>> PROVE Last(pre \o <<x>>) = x
  <2>1. pre \o <<x>> = <<y, x>>
    BY <1>2, Joined
  <2> QED  BY <2>1, Joined
<1> QED  BY <1>1, <1>2

\* The value of a call, whatever its instructions are.
LEMMA EmitKeeps ==
    ASSUME Inv, Generating("call"), UNCHANGED GenVars, UNCHANGED <<defined, at, inside>>,
           NEW instrs, Emit(instrs), Last(instrs).gives \in Values,
           Undiverted /\ ~Diverted(Item) /\ Agreeing(stack) =>
              /\ Last(instrs).gives = ConvertType(Func(Item.target).ret)
              /\ \A i \in DOMAIN instrs : WellFormed(instrs[i]) \/ MixedCall(Item)
    PROVE  Inv'
<1> DEFINE f == Func(Item.target)
           n == Len(Item.args)
           x == Value(f.ret, Last(instrs).gives)
<1>1. phase = "gen" /\ inside /\ Checked /\ pc <= Len(Code) /\ Item.k = "call"
  BY GeneratingIs
<1>2. /\ emitted' = instrs /\ stack' = Append(SubSeq(stack, 1, Len(stack) - n), x) /\ pc' = pc + 1
      /\ phase' = phase
  BY DEF Emit, Popped
<1>3. /\ f = FuncIn(funcs, Item.target) /\ f.ret \in AllTypes /\ stack \in Seq(Slots)
      /\ Item \in Items /\ Item.args \in Seq(AllTypes) /\ n \in Nat
  <2>1. f = FuncIn(funcs, Item.target) /\ f \in FuncDefs /\ Item \in Items
    BY <1>1, CallIs
  <2>2. f.ret \in AllTypes /\ Item.args \in Seq(AllTypes)
    BY <2>1, Fields
  <2>3. stack \in Seq(Slots)
    BY DEF Inv, Typed
  <2>4. n \in Nat
    BY <2>2
  <2> HIDE DEF f, n
  <2> QED  BY <2>1, <2>2, <2>3, <2>4
<1>4. x \in Slots /\ x.ty = f.ret /\ x.v = Last(instrs).gives
  <2>1. f.ret \in AllTypes /\ Last(instrs).gives \in Values
    BY <1>3
  <2> HIDE DEF f
  <2> QED  BY <2>1, SlotFields
<1>5. PICK c : Does(funcs, Item, TypesOf(stack), c)
  BY <1>1, ItemIs
<1>6. n \in 0 .. Len(stack)
  BY <1>1, <1>3, <1>5, TopIs
<1> HIDE DEF f, x
<1> DEFINE r == Append(SubSeq(stack, 1, Len(stack) - n), x)
<1>7. /\ r \in Seq(Slots)
      /\ TypesOf(r) = Append(SubSeq(TypesOf(stack), 1, Len(TypesOf(stack)) - n), x.ty)
      /\ Agreeing(stack) /\ x.v = ConvertType(x.ty) => Agreeing(r)
  BY <1>3, <1>4, <1>6, Replaced
<1>8. stack' = r
  BY <1>2
<1> HIDE DEF r
<1>9. Does(funcs, Item, TypesOf(stack), TypesOf(stack'))
  <2>1. TypesOf(stack') = Append(SubSeq(TypesOf(stack), 1, Len(TypesOf(stack)) - Len(Item.args)),
                                 FuncIn(funcs, Item.target).ret)
    BY <1>3, <1>4, <1>7, <1>8
  <2> QED  BY <1>1, <1>5, <2>1 DEF Does
<1>10. Undiverted => Agreeing(stack)
  BY <1>1 DEF Inv, Agreed
<1>11. Undiverted /\ ~Diverted(Item) => Agreeing(stack')
  BY <1>4, <1>7, <1>8, <1>10 DEF f
<1>12. Undiverted /\ ~Diverted(Item) =>
          \A i \in DOMAIN emitted' : WellFormed(emitted'[i]) \/ MixedCall(Item)
  BY <1>2, <1>10
<1>13. stack' \in Seq(Slots)
  BY <1>7, <1>8
<1> QED  BY <1>1, <1>2, <1>9, <1>11, <1>12, <1>13, Advances

\* Builtins are generated in place, unless a call of another function has their name.
LEMMA GenOperationKeeps ==
    ASSUME Inv, GenOperation
    PROVE  Inv'
<1> DEFINE name == Item.name
           ret == Func(Item.target).ret
           call == Converted(name, Args)
           op == Operation(name, ret, call.args)
           instrs == call.pre \o op
<1>1. /\ Generating("call") /\ ~NoArgument /\ op # <<>> /\ Emit(instrs)
      /\ UNCHANGED GenVars /\ UNCHANGED <<defined, at, inside>>
  BY DEF GenOperation
<1>2. phase = "gen" /\ inside /\ Checked /\ pc <= Len(Code) /\ Item.k = "call"
  BY <1>1, GeneratingIs
<1>3. PICK x : op = <<x>> /\ x.gives \in Values
  BY <1>1, <1>2, Sound
<1>4. Last(instrs) = x
  <2>1. call.pre = <<>> \/ \E y : call.pre = <<y>>
    BY Conversions
  <2> HIDE DEF op, call
  <2> QED  BY <1>3, <2>1, LastOf
<1>5. ASSUME ~Diverted(Item), Agreeing(stack)
      PROVE  /\ Last(instrs).gives = ConvertType(ret)
             /\ \A i \in DOMAIN instrs : WellFormed(instrs[i])
  <2>1. Item.target <= NB
    <3> SUFFICES ASSUME Item.target > NB PROVE FALSE
      <4>1. Item.target \in Nat /\ NB \in Nat
        BY <1>2, ItemIs, Fields, BuiltinsAre
      <4> QED  BY <4>1
    <3>1. name \notin BuiltIn
      BY <1>2, <1>5, BuiltinsAre DEF Diverted
    <3>2. op = <<>>
      BY <3>1, Operations
    <3> QED  BY <1>1, <3>2
  <2>2. InPlace(name, ret, Args)
    BY <1>2, <1>5, <2>1, Applied
  <2>3. Generated(name, ret, Args) = instrs
    BY DEF Generated
  <2>4. RightFor(instrs, ret)
    BY <2>2, <2>3 DEF InPlace
  <2> HIDE DEF instrs
  <2> QED  BY <2>4 DEF RightFor, Range
<1> HIDE DEF instrs
<1>6. Last(instrs).gives \in Values
  BY <1>3, <1>4
<1> QED  BY <1>1, <1>5, <1>6, EmitKeeps

\* The generator stops in the body.
LEMMA Stops ==
    ASSUME Inv, phase = "gen", inside, pc <= Len(Code), Item.k = "call", UNCHANGED GenVars,
           UNCHANGED <<defined, at, inside, pc, stack, emitted>>, phase' \in Failures,
           phase' = "asserted" =>
              IF Item.target > NB THEN ~FuncIn(funcs, Item.target).body ELSE ~Undiverted,
           phase' \in {"thrown", "undefined"} =>
              Item.target > NB /\ FuncIn(funcs, Item.target).params = <<>>
    PROVE  Inv'
<1>1. /\ UNCHANGED <<shape, funcs, fuel, table>> /\ Code' = Code /\ Item' = Item
      /\ Checked /\ Checked' /\ phase' \in Phases \ {"check", "rejected"}
  BY DEF GenVars, Code, Item, Checked, Phases, Failures
<1>2. Typed' /\ Resolved' /\ Replayed'
  <2>1. inside' \in BOOLEAN /\ stack' \in Seq(Slots)
    BY DEF Inv, Typed
  <2> QED  BY <1>1, <2>1, GenKeeps
<1>3. Undiverted' <=> Undiverted
  BY <1>1 DEF Undiverted, Diverted
<1>4. Control' /\ Definitions'
  BY <1>1 DEF Inv, Control, Definitions
<1>5. Followed' /\ Agreed'
  BY <1>1, <1>3 DEF Inv, Followed, Agreed
<1>6. Emissions'
  BY <1>1, <1>3 DEF Inv, Emissions, MixedCall
<1>7. Failing'
  BY <1>1, <1>3 DEF Failing
<1> QED  BY <1>2, <1>4, <1>5, <1>6, <1>7 DEF Inv

\* Where a function of the program has been generated.
LEMMA DefinedIs ==
    ASSUME Inv, Checked, inside, pc <= Len(Code), Item.k = "call"
    PROVE  /\ Item.target \in defined => Item.target > NB
           /\ Item.target \notin defined /\ Item.target > NB => ~FuncIn(funcs, Item.target).body
<1>1. Item.target \in 1 .. NB + Len(funcs) /\ Item.target <= at /\ NB \in Nat /\ Len(funcs) \in Nat
      /\ at \in Int
  BY CallIs, Known DEF Inv
<1>2. defined = {f \in NB + 1 .. NB + Len(funcs) : FuncIn(funcs, f).body /\ (f < at \/ (f = at /\ inside))}
  BY DEF Inv, Definitions
<1> QED  BY <1>1, <1>2

\* The call instruction has the types of the function.
LEMMA Jumps ==
    ASSUME NEW f, NEW args
    PROVE  /\ Jump(f, args).gives = ConvertType(Func(f).ret)
           /\ args = LLVM(Func(f).params) => WellFormed(Jump(f, args))
<1>1. Jump(f, args).gives = ConvertType(Func(f).ret) /\ Jump(f, args).uses = args
      /\ Jump(f, args).needs = LLVM(Func(f).params)
  BY DEF Jump, LLVM
<1> QED  BY <1>1 DEF WellFormed

\* A function of the program is called if it has been generated.
LEMMA GenFunctionCallKeeps ==
    ASSUME Inv, GenFunctionCall
    PROVE  Inv'
<1> DEFINE name == Item.name
           f == Func(Item.target)
           call == Converted(name, Args)
           x == Jump(Item.target, call.args)
           instrs == call.pre \o <<x>>
<1>1. /\ Generating("call") /\ Operation(name, f.ret, call.args) = <<>>
      /\ IF Item.target \in defined
           THEN Emit(instrs)
           ELSE phase' = "asserted" /\ UNCHANGED <<pc, stack, emitted>>
      /\ UNCHANGED GenVars /\ UNCHANGED <<defined, at, inside>>
  BY DEF GenFunctionCall
<1>2. phase = "gen" /\ inside /\ Checked /\ pc <= Len(Code) /\ Item.k = "call"
  BY <1>1, GeneratingIs
<1>3. /\ f = FuncIn(funcs, Item.target) /\ f \in FuncDefs /\ f.params = Item.args
      /\ (Agreeing(stack) => Args = LLVM(Item.args)) /\ f.ret \in AllTypes /\ Item.args \in Seq(AllTypes)
  BY <1>2, CallIs, Fields
<1>4. CASE Item.target \in defined
  <2>1. Item.target > NB
    BY <1>2, <1>4, DefinedIs
  <2>2. x.gives = ConvertType(f.ret) /\ x.gives \in Values
    <3>1. \A t \in AllTypes : ConvertType(t) \in Values
      BY DEF AllTypes, ConvertType, Values
    <3> QED  BY <1>3, <3>1, Jumps
  <2>3. Last(instrs) = x
    <3>1. call.pre = <<>> \/ \E y : call.pre = <<y>>
      BY Conversions
    <3> HIDE DEF x, call
    <3> QED  BY <3>1, LastOf
  <2>4. ASSUME Agreeing(stack), NEW i \in DOMAIN instrs
        PROVE  WellFormed(instrs[i]) \/ MixedCall(Item)
    <3>1. CASE call.args = Args /\ call.pre = <<>>
      <4>1. WellFormed(x)
        BY <1>3, <2>4, <3>1, Jumps
      <4> HIDE DEF x
      <4>2. instrs = <<x>>
        BY <3>1, Joined
      <4>3. instrs[i] = x
        <5> HIDE DEF instrs
        <5> QED  BY <4>2
      <4> QED  BY <4>1, <4>3
    <3>2. CASE Len(Args) = 2 /\ IsInteger(Args[1]) # IsInteger(Args[2])
      <4>1. IsMixed(Item.args)
        BY <1>3, <2>4, <3>2, MixedIs
      <4> QED  BY <1>3, <2>1, <4>1 DEF MixedCall
    <3> QED  BY <3>1, <3>2, Conversions
  <2> HIDE DEF instrs
  <2> QED  BY <1>1, <1>4, <2>2, <2>3, <2>4, EmitKeeps
<1>5. CASE Item.target \notin defined
  <2>1. phase' = "asserted" /\ UNCHANGED <<defined, at, inside, pc, stack, emitted>>
    BY <1>1, <1>5
  <2>2. Item.target \in Nat /\ NB \in Nat
    BY <1>2, ItemIs, Fields, BuiltinsAre
  <2>3. Item.target > NB => ~FuncIn(funcs, Item.target).body
    BY <1>2, <1>5, DefinedIs
  <2>4. ASSUME Item.target <= NB, Undiverted PROVE FALSE
    <3>1. Agreeing(stack)
      BY <1>2, <2>4 DEF Inv, Agreed
    <3>2. InPlace(name, f.ret, Args)
      BY <1>2, <2>4, <3>1, Applied
    <3> QED  BY <1>1, <3>2 DEF InPlace
  <2>5. IF Item.target > NB THEN ~FuncIn(funcs, Item.target).body ELSE ~Undiverted
    BY <2>2, <2>3, <2>4
  <2>6. phase' \in Failures /\ phase' \notin {"thrown", "undefined"}
    BY <2>1 DEF Failures
  <2> QED  BY <1>1, <1>2, <2>1, <2>5, <2>6, Stops
<1> QED  BY <1>4, <1>5

\* No arguments.
LEMMA Nothing == /\ \A i \in 1 .. Len(<<>>) : FALSE
                 /\ Agreeing(<<>>) /\ TypesOf(<<>>) = <<>>
<1>1. \A i \in 1 .. Len(<<>>) : FALSE
  OBVIOUS
<1>2. <<>> \in Seq(Slots)
  OBVIOUS
<1> QED  BY <1>1, <1>2, TypesAre DEF Agreeing

\* Between two functions nothing has been evaluated or emitted.
LEMMA Between ==
    ASSUME Inv, phase = "gen", ~inside
    PROVE  /\ stack = <<>> /\ emitted = <<>> /\ Checked /\ phase \in Phases
           /\ NB \in Nat /\ Len(funcs) \in Nat /\ LastFunc = NB + Len(funcs)
           /\ at \in NB + 1 .. NB + Len(funcs) + 1 /\ Func(at) = FuncIn(funcs, at)
           /\ at <= LastFunc => /\ at - NB \in 1 .. Len(funcs) /\ FuncIn(funcs, at) = funcs[at - NB]
                                /\ Code \in Seq(Items)
<1>1. /\ NB \in Nat /\ Len(funcs) \in Nat /\ LastFunc = NB + Len(funcs) /\ Func(at) = FuncIn(funcs, at)
      /\ \A f \in 1 .. Len(funcs) : funcs[f].code \in Seq(Items)
  BY Known DEF Inv
<1>2. stack = <<>> /\ emitted = <<>> /\ Checked /\ phase \in Phases
  BY DEF Inv, Control, Emissions, Checked, Phases
<1>3. at \in NB + 1 .. NB + Len(funcs) + 1
  BY <1>1, <1>2 DEF Inv, Control
<1>4. ASSUME at <= LastFunc
      PROVE  at - NB \in 1 .. Len(funcs) /\ FuncIn(funcs, at) = funcs[at - NB] /\ Code \in Seq(Items)
  <2>1. at - NB \in 1 .. Len(funcs) /\ ~(at <= NB)
    BY <1>1, <1>3, <1>4
  <2> QED  BY <1>1, <2>1 DEF FuncIn, Code
<1> QED  BY <1>1, <1>2, <1>3, <1>4

\* A body is begun as the typechecker began it.
LEMMA GenFunctionKeeps ==
    ASSUME Inv, GenFunction
    PROVE  Inv'
<1>1. /\ phase = "gen" /\ ~inside /\ at <= LastFunc /\ Func(at).body /\ defined' = defined \cup {at}
      /\ inside' = TRUE /\ pc' = 1 /\ UNCHANGED GenVars /\ UNCHANGED <<phase, at, stack, emitted>>
      /\ UNCHANGED <<shape, funcs, fuel, table>> /\ Code' = Code
  BY DEF GenFunction, GenVars, Code
<1>2. /\ stack = <<>> /\ emitted = <<>> /\ Checked /\ Checked' /\ phase \in Phases
      /\ NB \in Nat /\ Len(funcs) \in Nat /\ at \in NB + 1 .. NB + Len(funcs)
      /\ Func(at) = FuncIn(funcs, at) /\ FuncIn(funcs, at) = funcs[at - NB]
      /\ at - NB \in 1 .. Len(funcs) /\ Code \in Seq(Items) /\ Len(Code) \in Nat
  <2>1. Code \in Seq(Items) => Len(Code) \in Nat
    OBVIOUS
  <2>2. Checked' <=> Checked
    BY <1>1 DEF Checked
  <2> QED  BY <1>1, <2>1, <2>2, Between
<1>3. Typed' /\ Resolved' /\ Replayed'
  <2>1. phase' \in Phases \ {"check", "rejected"} /\ inside' \in BOOLEAN /\ stack' \in Seq(Slots)
    BY <1>1, <1>2
  <2> QED  BY <1>1, <2>1, GenKeeps
<1>4. Control'
  BY <1>1, <1>2 DEF Control, Failures
<1>5. Definitions'
  <2>1. defined = {f \in NB + 1 .. NB + Len(funcs) : FuncIn(funcs, f).body /\ (f < at \/ (f = at /\ inside))}
    BY <1>2 DEF Inv, Definitions
  <2>2. defined' = {f \in NB + 1 .. NB + Len(funcs) : FuncIn(funcs, f).body /\ (f < at \/ f = at)}
    <3>1. FuncIn(funcs, at).body
      BY <1>1, <1>2
    <3> QED  BY <1>1, <1>2, <2>1, <3>1
  <2> QED  BY <1>1, <1>2, <2>2 DEF Definitions
<1>6. Followed'
  <2>1. PICK h : Replays(funcs, at - NB, h) /\ h[Len(funcs[at - NB].code) + 1] = <<>>
    BY <1>1, <1>2 DEF Inv, Replayed
  <2>2. h[1] = TypesOf(stack)
    BY <1>2, <2>1, Nothing DEF Replays
  <2> QED  BY <1>1, <2>1, <2>2 DEF Followed, Code
<1>7. Agreed' /\ Emissions' /\ Failing'
  BY <1>1, <1>2, Nothing DEF Agreed, Emissions, Failing
<1> QED  BY <1>3, <1>4, <1>5, <1>6, <1>7 DEF Inv

\* Going on to the next function.
LEMMA GoesOn ==
    ASSUME Inv, phase = "gen", UNCHANGED GenVars, UNCHANGED <<phase, defined>>,
           inside' = FALSE, at' = at + 1, stack' = <<>>, emitted' = <<>>,
           at \in NB + 1 .. NB + Len(funcs), FuncIn(funcs, at).body <=> inside
    PROVE  Inv'
<1>1. /\ NB \in Nat /\ Len(funcs) \in Nat /\ UNCHANGED <<shape, funcs, fuel, table>>
      /\ Checked /\ Checked' /\ phase \in Phases
  BY Known DEF Inv, GenVars, Checked, Phases
<1>2. Typed' /\ Resolved' /\ Replayed'
  <2>1. phase' \in Phases \ {"check", "rejected"} /\ inside' \in BOOLEAN
    BY DEF Phases
  <2>2. stack' \in Seq(Slots)
    <3>1. <<>> \in Seq(Slots)
      OBVIOUS
    <3> QED  BY <3>1
  <2> QED  BY <1>1, <2>1, <2>2, GenKeeps
<1>3. Control'
  BY <1>1 DEF Control, Failures
<1>4. Definitions'
  <2>1. defined = {f \in NB + 1 .. NB + Len(funcs) : FuncIn(funcs, f).body /\ (f < at \/ (f = at /\ inside))}
    BY <1>1 DEF Inv, Definitions
  <2>2. defined = {f \in NB + 1 .. NB + Len(funcs) : FuncIn(funcs, f).body /\ (f < at + 1 \/ (f = at + 1 /\ FALSE))}
    <3>1. \A f \in NB + 1 .. NB + Len(funcs) : f < at + 1 <=> f < at \/ f = at
      BY <1>1
    <3>2. \A f \in NB + 1 .. NB + Len(funcs) :
             (FuncIn(funcs, f).body /\ (f < at \/ (f = at /\ inside)))
             <=> (FuncIn(funcs, f).body /\ (f < at + 1 \/ (f = at + 1 /\ FALSE)))
      BY <3>1
    <3> QED  BY <2>1, <3>2
  <2> QED  BY <1>1, <2>2 DEF Definitions
<1>5. Followed' /\ Agreed' /\ Emissions' /\ Failing'
  BY DEF Followed, Agreed, Emissions, Failing
<1> QED  BY <1>2, <1>3, <1>4, <1>5 DEF Inv

LEMMA SkipDeclarationKeeps ==
    ASSUME Inv, SkipDeclaration
    PROVE  Inv'
<1>1. /\ phase = "gen" /\ ~inside /\ at <= LastFunc /\ ~Func(at).body /\ at' = at + 1
      /\ UNCHANGED GenVars /\ UNCHANGED <<phase, defined, inside, stack, emitted>>
  BY DEF SkipDeclaration
<1>2. stack = <<>> /\ emitted = <<>> /\ Func(at) = FuncIn(funcs, at)
      /\ at \in NB + 1 .. NB + Len(funcs)
  BY <1>1, Between
<1>3. inside' = FALSE
  BY <1>1 DEF Inv, Typed
<1> QED  BY <1>1, <1>2, <1>3, GoesOn

\* A body ends with a statement, and so with no arguments.
LEMMA GenBodyEndKeeps ==
    ASSUME Inv, GenBodyEnd
    PROVE  Inv'
<1>1. /\ phase = "gen" /\ inside /\ pc > Len(Code) /\ inside' = FALSE /\ at' = at + 1
      /\ UNCHANGED GenVars /\ UNCHANGED <<phase, defined, pc, stack, emitted>>
  BY DEF GenBodyEnd, Code
<1>2. /\ NB \in Nat /\ Len(funcs) \in Nat /\ at \in NB + 1 .. NB + Len(funcs) /\ Checked
      /\ FuncIn(funcs, at).body /\ Len(Code) \in Nat /\ Code = funcs[at - NB].code
      /\ stack \in Seq(Slots) /\ pc = Len(Code) + 1
  BY <1>1, Known DEF Inv, Control, Checked, Code, Typed
<1>3. PICK h : Replays(funcs, at - NB, h) /\ h[Len(Code) + 1] = <<>> /\ h[pc] = TypesOf(stack)
  BY <1>1, <1>2 DEF Inv, Followed
<1>4. stack = <<>>
  BY <1>2, <1>3, TypesAre
<1>5. emitted = <<>>
  <2> SUFFICES ASSUME emitted # <<>> PROVE FALSE
    OBVIOUS
  <2>1. pc > 1 /\ Code[pc - 1].k = "call"
    BY DEF Inv, Emissions
  <2>2. Len(Code) \in 1 .. Len(funcs[at - NB].code) /\ pc - 1 = Len(Code)
    BY <1>2, <2>1
  <2>3. Does(funcs, Code[Len(Code)], h[Len(Code)], h[Len(Code) + 1])
    BY <1>2, <1>3, <2>2 DEF Replays
  <2>4. h[Len(Code)] \in Seq(AllTypes)
    BY <1>2, <1>3, <2>2 DEF Replays
  <2>5. Code[Len(Code)].k = "call"
    BY <2>1, <2>2
  <2> DEFINE item == Code[Len(Code)]
             b == h[Len(Code)]
  <2>6. <<>> = Append(SubSeq(b, 1, Len(b) - Len(item.args)), FuncIn(funcs, item.target).ret)
    BY <1>3, <2>3, <2>5, DoesCall
  <2>7. \A s, x : Append(s, x) # <<>>
    OBVIOUS
  <2> QED  BY <2>6, <2>7
<1> QED  BY <1>1, <1>2, <1>4, <1>5, GoesOn

\* Builtins have a parameter.
LEMMA GenNoArgumentKeeps ==
    ASSUME Inv, GenNoArgument
    PROVE  Inv'
<1>1. /\ Generating("call") /\ NoArgument /\ phase' \in {"thrown", "undefined"}
      /\ UNCHANGED GenVars /\ UNCHANGED <<defined, at, inside, pc, stack, emitted>>
  BY DEF GenNoArgument
<1>2. phase = "gen" /\ inside /\ Checked /\ pc <= Len(Code) /\ Item.k = "call"
  BY <1>1, GeneratingIs
<1>3. Item.args = <<>> /\ ~(Item.target <= NB)
  BY <1>1, <1>2, Applied DEF NoArgument
<1>4. Item.target > NB /\ FuncIn(funcs, Item.target).params = <<>>
  <2>1. Item.target \in Nat /\ NB \in Nat
    BY <1>2, ItemIs, Fields, BuiltinsAre
  <2> QED  BY <1>2, <1>3, <2>1, CallIs
<1>5. phase' \in Failures /\ phase' # "asserted"
  BY <1>1 DEF Failures
<1> QED  BY <1>1, <1>2, <1>4, <1>5, Stops

\* Generation ends between two functions.
LEMMA GenEndKeeps ==
    ASSUME Inv, GenEnd
    PROVE  Inv'
<1>1. /\ phase = "gen" /\ ~inside /\ phase' = "done"
      /\ UNCHANGED GenVars /\ UNCHANGED <<shape, funcs, fuel, table, defined, at, inside, pc, stack, emitted>>
  BY DEF GenEnd, GenVars
<1>2. stack = <<>> /\ emitted = <<>> /\ Checked /\ Checked'
  BY <1>1, Between DEF Checked
<1>3. Typed' /\ Resolved' /\ Replayed'
  <2>1. phase' \in Phases \ {"check", "rejected"} /\ inside' \in BOOLEAN /\ stack' \in Seq(Slots)
    BY <1>1 DEF Phases, Inv, Typed
  <2> QED  BY <1>1, <2>1, GenKeeps
<1>4. Control' /\ Definitions'
  BY <1>1, <1>2 DEF Inv, Control, Definitions, Failures
<1>5. Followed' /\ Agreed' /\ Emissions' /\ Failing'
  BY <1>1, <1>2 DEF Followed, Agreed, Emissions, Failing
<1> QED  BY <1>3, <1>4, <1>5 DEF Inv

\* So does no step.
LEMMA StutterKeeps ==
    ASSUME Inv, UNCHANGED vars
    PROVE  Inv'
<1>1. UNCHANGED <<shape, funcs, fuel, phase, table, defined, at, inside, pc, stack, emitted>>
  BY DEF vars
<1>2. Code' = Code /\ Item' = Item /\ (Checked' <=> Checked)
  BY <1>1 DEF Code, Item, Checked
<1>3. Undiverted' <=> Undiverted
  BY <1>1, <1>2 DEF Undiverted, Diverted
<1>4. Typed' /\ Control' /\ Definitions'
  BY <1>1, <1>2 DEF Inv, Typed, Control, Definitions
<1>5. Resolved' /\ Replayed' /\ Followed' /\ Agreed'
  BY <1>1, <1>2, <1>3 DEF Inv, Resolved, Replayed, Followed, Agreed
<1>6. Emissions' /\ Failing'
  BY <1>1, <1>2, <1>3 DEF Inv, Emissions, Failing, MixedCall
<1> QED  BY <1>4, <1>5, <1>6 DEF Inv

\* Every step keeps the invariant.
LEMMA NextKeeps ==
    ASSUME Inv, [Next]_vars
    PROVE  Inv'
BY StutterKeeps, CheckFunctionKeeps, CheckLiteralKeeps, CheckCallKeeps, CheckStmtEndKeeps,
   CheckBodyEndKeeps, CheckEndKeeps, GenFunctionKeeps, SkipDeclarationKeeps, GenLiteralKeeps,
   GenNoArgumentKeeps, GenOperationKeeps, GenFunctionCallKeeps, GenStmtEndKeeps,
   GenBodyEndKeeps, GenEndKeeps DEF Next

\* Inv is invariant.
LEMMA Invariance == Spec => []Inv
BY Begins, NextKeeps, PTL DEF Spec

-----------------------------------------------------------------------------
(* What the invariant says of the properties. *)

\* The properties follow from the invariant.
LEMMA InvTypes == ASSUME Inv PROVE TypeOK
<1>1. /\ NB \in Nat /\ Len(funcs) \in Nat /\ at \in NB .. NB + Len(funcs) + 1
      /\ LastFunc = NB + Len(funcs) /\ \A f : Func(f) = FuncIn(funcs, f)
      /\ funcs \in Seq(FuncDefs) /\ DOMAIN funcs = 1 .. Len(funcs) /\ stack \in Seq(Slots)
      /\ \A f \in 1 .. Len(funcs) : funcs[f].code \in Seq(Items)
  BY Known DEF Inv, Typed, Control
<1>2. ASSUME NEW f \in DOMAIN funcs
      PROVE  /\ funcs[f].params \in Seq(shape.types) /\ funcs[f].ret \in shape.types
             /\ \A i \in DOMAIN funcs[f].code : funcs[f].code[i].target \in 0 .. LastFunc
             /\ ~funcs[f].body => funcs[f].code = <<>>
  <2>1. ASSUME NEW i \in DOMAIN funcs[f].code
        PROVE  funcs[f].code[i].target \in 0 .. LastFunc
    <3>1. i \in 1 .. Len(funcs[f].code)
      BY <1>1
    <3>2. CASE Resolves(funcs, f, funcs[f].code[i])
      <4>1. funcs[f].code[i].target \in 1 .. NB + Len(funcs) \/ funcs[f].code[i].target = 0
        BY <3>2, Targets
      <4> QED  BY <1>1, <4>1
    <3>3. CASE funcs[f].code[i].target = 0
      BY <1>1, <3>3
    <3> QED  BY <1>1, <3>1, <3>2, <3>3 DEF Inv, Resolved
  <2> QED  BY <1>1, <2>1 DEF Inv, Typed
<1>3. Range(table) = NB + 1 .. LastFunc
  <2>1. table = [i \in 1 .. Len(funcs) |-> NB + i]
    BY DEF Inv, Typed
  <2>2. Range(table) = {table[i] : i \in 1 .. Len(funcs)}
    BY <2>1 DEF Range
  <2>3. \A n \in NB + 1 .. NB + Len(funcs) : n - NB \in 1 .. Len(funcs) /\ table[n - NB] = n
    BY <1>1, <2>1
  <2>4. \A i \in 1 .. Len(funcs) : table[i] \in NB + 1 .. NB + Len(funcs)
    BY <1>1, <2>1
  <2> QED  BY <1>1, <2>2, <2>3, <2>4
<1>4. defined \subseteq {f \in NB + 1 .. LastFunc : Func(f).body}
  <2>1. CASE ~Checked
    BY <2>1 DEF Inv, Definitions
  <2>2. CASE Checked
    <3>1. defined = {f \in NB + 1 .. NB + Len(funcs) : FuncIn(funcs, f).body /\ (f < at \/ (f = at /\ inside))}
      BY <2>2 DEF Inv, Definitions
    <3> QED  BY <1>1, <3>1
  <2> QED  BY <2>1, <2>2
<1>5. inside => Func(at).body
  BY <1>1, Known DEF Inv, Control
<1>6. \A i \in DOMAIN stack : stack[i].ty \in AllTypes /\ stack[i].v \in Values
  BY <1>1, SlotFields
<1>7. at \in NB .. LastFunc + 1
  BY <1>1
<1> QED  BY <1>2, <1>3, <1>4, <1>5, <1>6, <1>7 DEF TypeOK, Inv, Typed, Phases

LEMMA InvMeans == ASSUME Inv PROVE CallsMeanTheFirst
<1>1. /\ NB \in Nat /\ Len(funcs) \in Nat /\ LastFunc = NB + Len(funcs)
      /\ \A f : Func(f) = FuncIn(funcs, f) /\ DOMAIN funcs = 1 .. Len(funcs)
      /\ \A f \in 1 .. Len(funcs) : funcs[f].code \in Seq(Items)
  BY Known DEF Inv, Typed
<1>2. \A name, args : Meant(name, args) = MeantIn(funcs, name, args)
  BY <1>1 DEF Meant, MeantIn, argsMatch
<1> SUFFICES ASSUME NEW f \in 1 .. Len(funcs), NEW c \in Calls(f)
             PROVE  IF c.target = 0 THEN Meant(c.name, c.args) = {}
                    ELSE c.target <= NB + f /\ c.target = Min(Meant(c.name, c.args))
  BY <1>1 DEF CallsMeanTheFirst
<1>3. PICK i \in 1 .. Len(funcs[f].code) : c = funcs[f].code[i]
  BY <1>1 DEF Calls, Range
<1>4. c.k = "call"
  BY DEF Calls
<1>5. CASE Resolves(funcs, f, c)
  <2>1. Means(funcs, c.target, c.name, c.args) /\ c.target <= NB + f
    BY <1>4, <1>5 DEF Resolves
  <2> DEFINE S == MeantIn(funcs, c.name, c.args)
  <2>2. c.target \in S /\ (\A m \in S : c.target <= m) /\ S \in SUBSET Nat
    BY <1>1, <2>1 DEF Means, MeantIn
  <2>3. c.target # 0
    BY <1>1, <2>2 DEF MeantIn
  <2>4. Min(S) = c.target
    <3> HIDE DEF S
    <3> QED  BY <2>2, LeastIs
  <2> QED  BY <1>2, <2>1, <2>3, <2>4
<1>6. CASE c.target = 0 /\ MeantIn(funcs, c.name, c.args) = {}
  BY <1>2, <1>6
<1> QED  BY <1>3, <1>5, <1>6 DEF Inv, Resolved

\* What was generated of the body, in the words of the properties.
LEMMA SoFar ==
    ASSUME Inv, Checked, inside
    PROVE  /\ NoneDiverted <=> Undiverted
           /\ pc > 1 => Last(BodySoFar) = Code[pc - 1]
<1>1. Code \in Seq(Items) /\ Len(Code) \in Nat /\ pc \in 1 .. Len(Code) + 1
  BY Known DEF Inv, Control
<1> DEFINE s == SubSeq(Code, 1, pc - 1)
<1>2. BodySoFar = s
  BY DEF BodySoFar, Code
<1>3. Len(s) = pc - 1 /\ DOMAIN s = 1 .. pc - 1 /\ \A i \in 1 .. pc - 1 : s[i] = Code[i]
  BY <1>1
<1> HIDE DEF s
<1>4. Range(s) = {Code[i] : i \in 1 .. pc - 1}
  BY <1>3 DEF Range
<1>5. NoneDiverted <=> Undiverted
  BY <1>2, <1>4 DEF NoneDiverted, Undiverted
<1>6. ASSUME pc > 1 PROVE Last(s) = Code[pc - 1]
  <2>1. pc - 1 \in 1 .. pc - 1
    BY <1>1, <1>6
  <2> QED  BY <1>3, <2>1 DEF Last
<1> QED  BY <1>2, <1>5, <1>6

LEMMA InvFails == ASSUME Inv PROVE FailsOnlyAtOwnFunctions
<1>1. \A f : Func(f) = FuncIn(funcs, f)
  BY Known DEF Inv
<1>2. phase = "asserted" => (NoneDiverted <=> Undiverted)
  BY SoFar DEF Inv, Control, Failures, Checked
<1> QED  BY <1>1, <1>2 DEF Inv, Failing, FailsOnlyAtOwnFunctions

LEMMA InvFormed == ASSUME Inv PROVE MalformedOnlyMixed
<1> SUFFICES ASSUME NoneDiverted PROVE
        /\ \A i \in DOMAIN emitted :
              \/ WellFormed(emitted[i])
              \/ Last(BodySoFar).target > NB /\ IsMixed(Func(Last(BodySoFar).target).params)
        /\ phase = "gen" => \A i \in DOMAIN stack : stack[i].v = ConvertType(stack[i].ty)
  BY DEF MalformedOnlyMixed
<1>1. (\A f : Func(f) = FuncIn(funcs, f)) /\ stack \in Seq(Slots) /\ DOMAIN stack = 1 .. Len(stack)
  BY Known DEF Inv, Typed
<1>2. ASSUME NEW i \in DOMAIN emitted
      PROVE  \/ WellFormed(emitted[i])
             \/ Last(BodySoFar).target > NB /\ IsMixed(Func(Last(BodySoFar).target).params)
  <2>1. emitted # <<>>
    <3>1. DOMAIN <<>> = {}
      OBVIOUS
    <3> QED  BY <3>1
  <2>2. Checked /\ inside /\ pc > 1
        /\ (Undiverted => \A j \in DOMAIN emitted : WellFormed(emitted[j]) \/ MixedCall(Code[pc - 1]))
    BY <2>1 DEF Inv, Emissions
  <2>3. Undiverted /\ Last(BodySoFar) = Code[pc - 1]
    BY <2>2, SoFar
  <2> QED  BY <1>1, <2>2, <2>3 DEF MixedCall
<1>3. ASSUME phase = "gen" PROVE \A i \in DOMAIN stack : stack[i].v = ConvertType(stack[i].ty)
  <2>1. CASE inside
    <3>1. Undiverted
      BY <1>3, <2>1, SoFar DEF Checked
    <3> QED  BY <1>1, <1>3, <2>1, <3>1 DEF Inv, Agreed, Agreeing, Checked
  <2>2. CASE ~inside
    <3>1. stack = <<>> /\ DOMAIN <<>> = {}
      BY <2>2 DEF Inv, Control
    <3> QED  BY <3>1
  <2> QED  BY <2>1, <2>2
<1> QED  BY <1>2, <1>3

-----------------------------------------------------------------------------
(* The theorems. *)

\* Every state has the types of TypeOK: a call's target is a function of the program,
\* the two function tables have the functions gone through, and only bodies are under
\* way (FuncTable, m_functions).
THEOREM TypeCorrect == Spec => []TypeOK
BY Invariance, InvTypes, PTL

\* A call means the first function of the whole program with its name and argument
\* types, the caller or one before it, and no definition after it changes that
\* (FuncTable::findFunc, checkFunction).
THEOREM FirstIsMeant == Spec => []CallsMeanTheFirst
BY Invariance, InvMeans, PTL

\* The code generator fails only at calls of functions of the program, or after a call
\* that its name sent elsewhere: every call of a builtin finds its instructions, and
\* every call of a definition finds it generated (Visit(CallExp), m_functions).
THEOREM FailsAtOwn == Spec => []FailsOnlyAtOwnFunctions
BY Invariance, InvFails, PTL

\* The two passes agree on the type of every expression, and an instruction has an
\* operand that it does not need only for a call with one float and one other argument
\* to a function of the program (EnsureSameType, Visit(CallExp)).
THEOREM OnlyMixedIsMalformed == Spec => []MalformedOnlyMixed
BY Invariance, InvFormed, PTL
=============================================================================
