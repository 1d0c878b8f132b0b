-------------------------------- MODULE Calls --------------------------------
(***************************************************************************)
(* How calls are resolved to overloaded functions by the typechecker       *)
(* (Typechecker.cpp) and what the code generator emits for them            *)
(* (Codegen.cpp), with the functions every program starts with             *)
(* (Builtins.h).                                                           *)
(*                                                                         *)
(* Bodies are in evaluation order: literals and calls, arguments before    *)
(* their call, and the end of each statement.  The program is made up as   *)
(* the typechecker meets it; the code generator then goes through it       *)
(* again, with LLVM types in place of the language's.  It goes on after a  *)
(* malformed instruction, as it does where LLVM is built without its own   *)
(* assertions; the verifier then reports it.                               *)
(***************************************************************************)
EXTENDS Integers, Sequences, SequencesExt, FiniteSetsExt

CONSTANT
    Programs    \* the programs: the types they use (types), the names of their
                \* functions (names) and calls (called), and as bounds the
                \* number of their functions (funcs), of a function's parameters
                \* (params), and of their literals and calls (items)

AllTypes == {"bool", "int", "float"}
ArithNames == <<"+", "-", "*", "/">>
CompareNames == <<"==", "!=", "<", "<=", ">", ">=">>
LogicNames == <<"&&", "||">>
Infix == Range(ArithNames \o CompareNames \o LogicNames) \cup {"%"}

ASSUME ProgramsAssumption ==
    \A p \in Programs : /\ p.types \subseteq AllTypes
                        /\ p.names \subseteq STRING /\ p.called \subseteq STRING
                        /\ {p.funcs, p.params, p.items} \subseteq Nat

VARIABLES
    shape,      \* the member of Programs that the program has
    funcs,      \* the program's own functions, in source order
    fuel,       \* literals and calls the program may still have
    phase,      \* "check", "gen"; "done", "rejected" (TypeError), "asserted",
                \* "thrown" (std::out_of_range), "undefined" (args[0] of none)
    table,      \* the typechecker's FuncTable: insertion order, builtins apart
    defined,    \* the keys of the code generator's m_functions
    at,         \* the function under way
    inside,     \* is its body under way
    pc,         \* the next item of the body to generate
    stack,      \* the arguments evaluated so far: expression type, LLVM type
    emitted     \* the instructions the last step emitted

vars == <<shape, funcs, fuel, phase, table, defined, at, inside, pc, stack, emitted>>

-----------------------------------------------------------------------------
(* Function definitions; builtins are functions without a body. *)

FuncDef(ret, name, params, body) ==
    [name |-> name, params |-> params, ret |-> ret, body |-> body, code |-> <<>>]
Builtin(ret, name, params) == FuncDef(ret, name, params, FALSE)

Each(ret, names, params) == [i \in DOMAIN names |-> Builtin(ret, names[i], params)]
EachMixed(ret, names) ==
    [i \in 1 .. 2 * Len(names) |->
        Builtin(ret, names[(i + 1) \div 2],
                IF i % 2 = 1 THEN <<"int", "float">> ELSE <<"float", "int">>)]

Builtins ==
    Each("int", ArithNames \o <<"%">>, <<"int", "int">>)
    \o Each("float", ArithNames, <<"float", "float">>)
    \o EachMixed("float", ArithNames)
    \o Each("bool", CompareNames, <<"int", "int">>)
    \o Each("bool", CompareNames, <<"float", "float">>)
    \o EachMixed("bool", CompareNames)
    \o <<Builtin("bool", "!", <<"bool">>), Builtin("int", "-", <<"int">>),
         Builtin("float", "-", <<"float">>)>>
    \o Each("bool", LogicNames, <<"bool", "bool">>)
    \o <<Builtin("bool", "bool", <<"int">>), Builtin("int", "int", <<"bool">>),
         Builtin("bool", "bool", <<"float">>), Builtin("float", "float", <<"bool">>),
         Builtin("int", "int", <<"float">>), Builtin("float", "float", <<"int">>),
         Builtin("int", "print", <<"int">>), Builtin("int", "print", <<"float">>),
         Builtin("int", "print", <<"bool">>)>>

NB == Len(Builtins)
BuiltinNames == {Builtins[i].name : i \in 1 .. NB}

\* A program's functions follow the builtins.
Func(f) == IF f <= NB THEN Builtins[f] ELSE funcs[f - NB]
LastFunc == NB + Len(funcs)

\* An operator is called infix, except that minus may be a prefix; the parser
\* has no expression that calls "!".
Callable(name, n) ==
    /\ name # "!"
    /\ name \in Infix => n = 2 \/ (name = "-" /\ n = 1)

-----------------------------------------------------------------------------
(* Typechecking. *)

argsMatch(f, args) == Func(f).params = args

\* A mutant of the search: the latest match.
findFuncLatest(name, args) ==
    LET entries == [i \in 1 .. NB |-> i] \o table
        hits == {i \in DOMAIN entries : /\ Func(entries[i]).name = name
                                        /\ argsMatch(entries[i], args)}
    IN  IF hits = {} THEN 0 ELSE entries[Max(hits)]

\* The first match in the multimap's order for the name.
findFunc(name, args) ==
    LET entries == [i \in 1 .. NB |-> i] \o table
        hits == {i \in DOMAIN entries : /\ Func(entries[i]).name = name
                                        /\ argsMatch(entries[i], args)}
    IN  IF hits = {} THEN 0 ELSE entries[Min(hits)]

Literal(t) == [k |-> "lit", ty |-> t, name |-> "", args |-> <<>>, target |-> 0]
Call(name, args, f) ==
    [k |-> "call", ty |-> "int", name |-> name, args |-> args, target |-> f]
StmtEnd == [k |-> "end", ty |-> "int", name |-> "", args |-> <<>>, target |-> 0]

ConvertType(t) == CASE t = "bool" -> "i1" [] t = "int" -> "i32" [] t = "float" -> "f32"
Value(t, v) == [ty |-> t, v |-> v]

Init ==
    /\ shape \in Programs
    /\ funcs = <<>>
    /\ fuel = shape.items
    /\ phase = "check"
    /\ table = <<>>
    /\ defined = {}
    /\ at = NB
    /\ inside = FALSE
    /\ pc = 0
    /\ stack = <<>>
    /\ emitted = <<>>

Checking == phase = "check" /\ UNCHANGED <<shape, defined, pc, emitted>>
Written(item) == funcs' = [funcs EXCEPT ![at - NB].code = Append(@, item)]
Popped(n) == SubSeq(stack, 1, Len(stack) - n)

\* A mutant: functions without a body do not go into the table.
CheckFunctionDefined ==
    /\ Checking
    /\ ~inside
    /\ Len(funcs) < shape.funcs
    /\ \E ret \in shape.types, name \in shape.names,
          params \in BoundedSeq(shape.types, shape.params), body \in BOOLEAN :
          /\ funcs' = Append(funcs, FuncDef(ret, name, params, body))
          /\ inside' = body
          /\ table' = IF body THEN Append(table, LastFunc + 1) ELSE table
    /\ at' = LastFunc + 1
    /\ UNCHANGED <<fuel, phase, stack>>

\* checkFunction: the table has the function before its body is checked.
CheckFunction ==
    /\ Checking
    /\ ~inside
    /\ Len(funcs) < shape.funcs
    /\ \E ret \in shape.types, name \in shape.names,
          params \in BoundedSeq(shape.types, shape.params), body \in BOOLEAN :
          /\ funcs' = Append(funcs, FuncDef(ret, name, params, body))
          /\ inside' = body
    /\ table' = Append(table, LastFunc + 1)
    /\ at' = LastFunc + 1
    /\ UNCHANGED <<fuel, phase, stack>>

CheckLiteral ==
    /\ Checking
    /\ inside
    /\ fuel > 0
    /\ fuel' = fuel - 1
    /\ \E t \in shape.types :
          /\ Written(Literal(t))
          /\ stack' = Append(stack, Value(t, ""))
    /\ UNCHANGED <<phase, table, at, inside>>

\* Visit(CallExp), after its arguments.
CheckCall ==
    /\ Checking
    /\ inside
    /\ fuel > 0
    /\ fuel' = fuel - 1
    /\ \E name \in shape.called, n \in 0 .. Len(stack) :
          LET args == [i \in 1 .. n |-> stack[Len(stack) - n + i].ty]
              f == findFunc(name, args)
          IN  /\ Callable(name, n)
              /\ Written(Call(name, args, f))
              /\ IF f = 0
                   THEN phase' = "rejected" /\ UNCHANGED stack
                   ELSE /\ stack' = Append(Popped(n), Value(Func(f).ret, ""))
                        /\ UNCHANGED phase
    /\ UNCHANGED <<table, at, inside>>

CheckStmtEnd ==
    /\ Checking
    /\ inside
    /\ Len(stack) = 1
    /\ Written(StmtEnd)
    /\ stack' = <<>>
    /\ UNCHANGED <<fuel, phase, table, at, inside>>

CheckBodyEnd ==
    /\ Checking
    /\ inside
    /\ stack = <<>>
    /\ inside' = FALSE
    /\ UNCHANGED <<funcs, fuel, phase, table, at, stack>>

CheckEnd ==
    /\ phase = "check"
    /\ ~inside
    /\ phase' = "gen"
    /\ at' = NB + 1
    /\ UNCHANGED <<shape, funcs, fuel, table, defined, inside, pc, stack, emitted>>

-----------------------------------------------------------------------------
(* Instructions: what they do, the types of the operands they have and of     *)
(* those they need.                                                            *)

Instr(op, uses, needs, gives) ==
    [op |-> op, uses |-> uses, needs |-> needs, gives |-> gives, to |-> 0]
Jump(f, args) ==
    [op |-> "call", uses |-> args, needs |-> [i \in DOMAIN Func(f).params |-> ConvertType(Func(f).params[i])],
     gives |-> ConvertType(Func(f).ret), to |-> f]
WellFormed(instr) == instr.uses = instr.needs

IsInteger(v) == v \in {"i1", "i32"}

\* EnsureSameType: the arguments of every two-argument call.  i1 and i32 have
\* the same type ID, and the comparison for i1 and float takes the i1.
EnsureSameType(args) ==
    LET a == args[1]
        b == args[2]
    IN  IF IsInteger(a) = IsInteger(b)
          THEN [args |-> args, pre |-> <<>>]
        ELSE IF "i32" \in {a, b}
          THEN [args |-> <<"f32", "f32">>,
                pre |-> <<Instr("sitofp", <<"i32">>, <<"i32">>, "f32")>>]
        ELSE [args |-> <<"i1", "i1">>,
              pre |-> <<Instr("one", <<"i1", "f32">>, <<"f32", "f32">>, "i1")>>]

\* A mutant: arguments are used as they are.
ConvertedNot(name, args) == [args |-> args, pre |-> <<>>]

\* The arguments as the call uses them; && and || evaluate theirs on their own.
Converted(name, args) ==
    IF Len(args) = 2 /\ name \notin Range(LogicNames)
      THEN EnsureSameType(args)
      ELSE [args |-> args, pre |-> <<>>]

\* convertToTargetType, for print's float.
Widened(v) == IF v = "f32" THEN "double" ELSE v

\* A mutant: all predicates but that of != are unordered.
FCmpUnordered(name) ==
    CASE name = "==" -> "ueq" [] name = "!=" -> "une" [] name = "<" -> "ult"
      [] name = "<=" -> "ule" [] name = ">" -> "ugt" [] name = ">=" -> "uge"

\* The predicates for floats: ordered ones are false of NaN, unordered ones true.
FCmp(name) ==
    CASE name = "==" -> "ueq" [] name = "!=" -> "une" [] name = "<" -> "olt"
      [] name = "<=" -> "ule" [] name = ">" -> "ugt" [] name = ">=" -> "uge"

\* The chain of tests on the name, given the type of the call expression; the
\* empty sequence when the call falls through to the function table.
Operation(name, ret, a) ==
    LET arith == IF ret = "float" THEN "f32" ELSE IF IsInteger(a[1]) THEN a[1] ELSE "i32"
        one(op, needs, gives) == <<Instr(op, <<a[1]>>, <<needs>>, gives)>>
    IN  CASE name \in Range(LogicNames) -> <<Instr(name, a, <<"i1", "i1">>, "i1")>>
          [] name \in Range(ArithNames) \cup {"%"} ->
                <<Instr(IF ret = "float" THEN "f" \o name ELSE name,
                        a, [i \in DOMAIN a |-> arith], a[1])>>
          [] name \in Range(CompareNames) ->
                <<Instr(IF a[1] = "f32" THEN FCmp(name) ELSE name, a, <<a[1], a[1]>>, "i1")>>
          [] name = "!" -> one("zero", "i1", "i1")
          [] name = "float" -> IF IsInteger(a[1]) THEN one("sitofp", a[1], "f32") ELSE <<>>
          [] name = "bool" ->
                IF IsInteger(a[1]) THEN one("nonzero", "i32", "i1") ELSE one("une0", "f32", "i1")
          [] name = "int" ->
                IF a[1] = "f32" THEN one("fptosi", "f32", "i32") ELSE one("zext", a[1], "i32")
          [] name = "print" -> <<Instr("printf", <<Widened(a[1])>>, <<Widened(a[1])>>, "i32")>>
          [] OTHER -> <<>>

-----------------------------------------------------------------------------
(* Code generation. *)

GenVars == <<shape, funcs, fuel, table>>
Item == funcs[at - NB].code[pc]
Args == [i \in DOMAIN Item.args |-> stack[Len(stack) - Len(Item.args) + i].v]

Generating(k) ==
    /\ phase = "gen"
    /\ inside
    /\ pc <= Len(funcs[at - NB].code)
    /\ Item.k = k

\* A mutant: the function table gets the function when the next one starts.
GenFunctionLate ==
    /\ phase = "gen"
    /\ ~inside
    /\ at <= LastFunc
    /\ Func(at).body
    /\ defined' = {f \in NB + 1 .. at - 1 : Func(f).body}
    /\ inside' = TRUE
    /\ pc' = 1
    /\ UNCHANGED <<GenVars, phase, at, stack, emitted>>

\* The function table has the function before its body is generated.
GenFunction ==
    /\ phase = "gen"
    /\ ~inside
    /\ at <= LastFunc
    /\ Func(at).body
    /\ defined' = defined \cup {at}
    /\ inside' = TRUE
    /\ pc' = 1
    /\ UNCHANGED <<GenVars, phase, at, stack, emitted>>

\* "Don't generate code for builtin function declarations", nor for the user's.
SkipDeclaration ==
    /\ phase = "gen"
    /\ ~inside
    /\ at <= LastFunc
    /\ ~Func(at).body
    /\ at' = at + 1
    /\ UNCHANGED <<GenVars, phase, defined, inside, pc, stack, emitted>>

GenLiteral ==
    /\ Generating("lit")
    /\ stack' = Append(stack, Value(Item.ty, ConvertType(Item.ty)))
    /\ pc' = pc + 1
    /\ emitted' = <<>>
    /\ UNCHANGED <<GenVars, phase, defined, at, inside>>

\* The call is done with the given instructions.
Emit(instrs) ==
    /\ emitted' = instrs
    /\ stack' = Append(Popped(Len(Item.args)),
                       Value(Func(Item.target).ret, Last(instrs).gives))
    /\ pc' = pc + 1
    /\ UNCHANGED phase

\* The conversions and print use args[0] and args.at(0) unchecked.
FirstArgNames == {"float", "bool", "int", "print"}
NoArgument == Item.name \in FirstArgNames /\ Item.args = <<>>

GenNoArgument ==
    /\ Generating("call")
    /\ NoArgument
    /\ phase' = IF Item.name = "print" THEN "thrown" ELSE "undefined"
    /\ UNCHANGED <<GenVars, defined, at, inside, pc, stack, emitted>>

GenOperation ==
    /\ Generating("call")
    /\ ~NoArgument
    /\ LET call == Converted(Item.name, Args)
           op == Operation(Item.name, Func(Item.target).ret, call.args)
       IN  op # <<>> /\ Emit(call.pre \o op)
    /\ UNCHANGED <<GenVars, defined, at, inside>>

\* m_functions->find(funcDef), and the assertion on what it returns.
GenFunctionCall ==
    /\ Generating("call")
    /\ ~NoArgument
    /\ LET call == Converted(Item.name, Args)
       IN  /\ Operation(Item.name, Func(Item.target).ret, call.args) = <<>>
           /\ IF Item.target \in defined
                THEN Emit(call.pre \o <<Jump(Item.target, call.args)>>)
                ELSE phase' = "asserted" /\ UNCHANGED <<pc, stack, emitted>>
    /\ UNCHANGED <<GenVars, defined, at, inside>>

GenStmtEnd ==
    /\ Generating("end")
    /\ stack' = <<>>
    /\ pc' = pc + 1
    /\ emitted' = <<>>
    /\ UNCHANGED <<GenVars, phase, defined, at, inside>>

GenBodyEnd ==
    /\ phase = "gen"
    /\ inside
    /\ pc > Len(funcs[at - NB].code)
    /\ inside' = FALSE
    /\ at' = at + 1
    /\ UNCHANGED <<GenVars, phase, defined, pc, stack, emitted>>

GenEnd ==
    /\ phase = "gen"
    /\ ~inside
    /\ at > LastFunc
    /\ phase' = "done"
    /\ UNCHANGED <<GenVars, defined, at, inside, pc, stack, emitted>>

-----------------------------------------------------------------------------
Next ==
    \/ CheckFunction \/ CheckLiteral \/ CheckCall \/ CheckStmtEnd \/ CheckBodyEnd
    \/ CheckEnd
    \/ GenFunction \/ SkipDeclaration \/ GenLiteral \/ GenNoArgument
    \/ GenOperation \/ GenFunctionCall \/ GenStmtEnd \/ GenBodyEnd \/ GenEnd

Spec == Init /\ [][Next]_vars

-----------------------------------------------------------------------------
(* Properties. *)

Values == {"", "i1", "i32", "f32"}

\* The type invariant: targets are functions of the program, the arguments on
\* the stack have types, and only bodies are under way.
TypeOK ==
    /\ \A f \in DOMAIN funcs :
          /\ funcs[f].params \in Seq(shape.types) /\ funcs[f].ret \in shape.types
          /\ \A i \in DOMAIN funcs[f].code : funcs[f].code[i].target \in 0 .. LastFunc
          /\ ~funcs[f].body => funcs[f].code = <<>>
    /\ fuel \in 0 .. shape.items
    /\ phase \in {"check", "gen", "done", "rejected", "asserted", "thrown", "undefined"}
    /\ Range(table) = NB + 1 .. LastFunc
    /\ defined \subseteq {f \in NB + 1 .. LastFunc : Func(f).body}
    /\ at \in NB .. LastFunc + 1
    /\ inside => Func(at).body
    /\ \A i \in DOMAIN stack : stack[i].ty \in AllTypes /\ stack[i].v \in Values

Calls(f) == {c \in Range(funcs[f].code) : c.k = "call"}
Meant(name, args) ==
    {f \in 1 .. LastFunc : Func(f).name = name /\ argsMatch(f, args)}

\* A call means the first function of the whole program with its name and its
\* argument types, which is the caller itself or one before it; the program is
\* rejected only when none so far has them.  Recursion works, and a call never
\* changes its meaning with a later definition.
CallsMeanTheFirst ==
    \A f \in DOMAIN funcs : \A c \in Calls(f) :
        IF c.target = 0 THEN Meant(c.name, c.args) = {}
        ELSE c.target <= NB + f /\ c.target = Min(Meant(c.name, c.args))

\* A call to a function of the program that the name sends elsewhere.
Diverted(c) == c.k = "call" /\ c.target > NB /\ c.name \in BuiltinNames
BodySoFar == IF inside THEN SubSeq(funcs[at - NB].code, 1, pc - 1) ELSE <<>>
NoneDiverted == \A c \in Range(BodySoFar) : ~Diverted(c)

\* The generator fails only at calls of functions of the program, or in a body one
\* of whose calls was diverted.  The assertion that the function has been generated
\* fails for one declared without a body: every builtin that a call can mean is
\* generated in place, unless its argument does not have the type it was checked
\* with, and definitions are generated in time.  An argument is missing only for a
\* parameterless namesake of print or a conversion.
FailsOnlyAtOwnFunctions ==
    /\ phase = "asserted" =>
          IF Item.target > NB THEN ~Func(Item.target).body ELSE ~NoneDiverted
    /\ phase \in {"thrown", "undefined"} =>
          Item.target > NB /\ Func(Item.target).params = <<>>

\* The generator and the typechecker agree on types: every instruction has
\* operands of the types it needs, and the value of an expression has the type that
\* the typechecker gave it.  Operands are wrong only for calls with one float and one
\* other argument to functions of the program, in bodies none of whose calls is
\* diverted.
IsMixed(params) == Len(params) = 2 /\ Cardinality({p = "float" : p \in Range(params)}) = 2
MalformedOnlyMixed ==
    NoneDiverted =>
        /\ \A i \in DOMAIN emitted :
              \/ WellFormed(emitted[i])
              \/ LET f == Last(BodySoFar).target IN f > NB /\ IsMixed(Func(f).params)
        /\ phase = "gen" => \A i \in DOMAIN stack : stack[i].v = ConvertType(stack[i].ty)

(* What the code's own assertions say. *)

\* A function that the program defines has an LLVM function when a call of its name
\* and parameters looks it up: assert(it != m_functions->end()) (Codegen.cpp:438)
\* fails of functions without a definition only.
FunctionsAreGenerated ==
    phase = "asserted" =>
        ~ \E f \in NB + 1 .. LastFunc :
              /\ Func(f).body
              /\ Func(f).name = Func(Item.target).name
              /\ Func(f).params = Func(Item.target).params

\* The module verifies (main.cpp:123).
AllWellFormed == \A i \in DOMAIN emitted : WellFormed(emitted[i])

=============================================================================
