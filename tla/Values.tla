-------------------------------- MODULE Values --------------------------------
(***************************************************************************)
(* What the code that Calls generates for builtins computes, compared with *)
(* what they mean.  An int has few bits; a float is a number of halves or  *)
(* NaN, and represents whole numbers exactly up to a bound only, as a real *)
(* one does.  Arithmetic on two floats is left to the instruction.         *)
(***************************************************************************)
EXTENDS Calls

CONSTANTS
    Bits,       \* the width of an int
    Exact       \* whole numbers up to this one are exact as floats, beyond it
                \* only the even ones

ASSUME WidthAssumption == Bits \in Nat \ {0} /\ Exact \in Nat \ {0}

MinInt == -(2 ^ (Bits - 1))
MaxInt == 2 ^ (Bits - 1) - 1
Ints == MinInt .. MaxInt
Truths == {0, 1}

\* In halves: a float past the range of ints on both sides, and one in between.
NaN == 100 * MaxInt
Floats == {NaN, 3, -3} \cup {2 * n : n \in {MinInt - 2, MinInt, -1, 0, 1, Exact, Exact + 2}}

\* The outcome of undefined behaviour.
Undefined == 200 * MaxInt

Domain(t) == CASE t = "bool" -> Truths [] t = "int" -> Ints [] t = "float" -> Floats

-----------------------------------------------------------------------------
(* Instructions. *)

Bit(p) == IF p THEN 1 ELSE 0
Wrap(n) == ((n - MinInt) % (2 ^ Bits)) + MinInt

\* Division rounds to zero.
Quotient(a, b) ==
    LET abs(n) == IF n < 0 THEN -n ELSE n
        q == abs(a) \div abs(b)
    IN  IF (a < 0) = (b < 0) THEN q ELSE -q

\* The nearest float, in halves; of two, the one whose half is even.
Rounded(n) ==
    IF n \in -Exact .. Exact \/ n % 2 = 0 THEN 2 * n
    ELSE IF ((n - 1) \div 2) % 2 = 0 THEN 2 * (n - 1) ELSE 2 * (n + 1)

Compared(name, a, b) ==
    CASE name = "==" -> a = b [] name = "!=" -> a # b [] name = "<" -> a < b
      [] name = "<=" -> a <= b [] name = ">" -> a > b [] name = ">=" -> a >= b

\* int and float arithmetic; that of floats is not interpreted.
Arithmetic(name, a) ==
    IF Len(a) = 1 THEN Wrap(-a[1])
    ELSE CASE name = "+" -> Wrap(a[1] + a[2])
           [] name = "-" -> Wrap(a[1] - a[2])
           [] name = "*" -> Wrap(a[1] * a[2])
           [] OTHER ->
                IF a[2] = 0 \/ (a[1] = MinInt /\ a[2] = -1) THEN Undefined
                ELSE IF name = "/" THEN Quotient(a[1], a[2])
                ELSE a[1] - a[2] * Quotient(a[1], a[2])
FloatArithmetic(name, a) == <<name, a>>

IsNaN(a) == \E i \in DOMAIN a : a[i] = NaN

\* A one-bit integer is 0 or, signed, -1.
SIToFP(v, n) == IF v = "i1" THEN -2 * n ELSE Rounded(n)
FPToSI(f) ==
    IF f = NaN \/ Quotient(f, 2) \notin Ints THEN Undefined ELSE Quotient(f, 2)

Execute(instr, a) ==
    LET op == instr.op
    IN  CASE op = "sitofp" -> SIToFP(Head(instr.uses), a[1])
          [] op = "fptosi" -> FPToSI(a[1])
          [] op = "zext" -> a[1]
          [] op \in {"nonzero", "une0"} -> Bit(a[1] # 0)
          [] op = "zero" -> Bit(a[1] = 0)
          [] op = "&&" -> a[1] * a[2]
          [] op = "||" -> Bit(a[1] + a[2] > 0)
          [] op \in Range(CompareNames) -> Bit(Compared(op, a[1], a[2]))
          [] op \in {"ueq", "une", "ult", "olt", "ule", "ugt", "uge"} ->
                LET name == CHOOSE n \in Range(CompareNames) : FCmp(n) = op \/ (n = "<" /\ op = "ult")
                IN  Bit(IF IsNaN(a) THEN op # "olt" ELSE Compared(name, a[1], a[2]))
          [] op \in Range(ArithNames) \cup {"%"} -> Arithmetic(op, a)
          [] OTHER -> FloatArithmetic(op, a)

\* The instructions emitted for a call: at most a conversion of the operand that
\* is an i32, and the operation.
Computed(instrs, types, a) ==
    LET converted == [i \in DOMAIN a |->
            IF Len(instrs) = 2 /\ types[i] = "int" THEN Execute(instrs[1], <<a[i]>>) ELSE a[i]]
    IN  Execute(Last(instrs), converted)

-----------------------------------------------------------------------------
(* What a builtin means for arguments of the given types. *)

\* A number, in halves.
Number(t, v) == IF t = "float" THEN v ELSE 2 * v

Meaning(name, types, a) ==
    LET floating == "float" \in Range(types)
        numbers == [i \in DOMAIN a |-> Number(types[i], a[i])]
        arith == Range(ArithNames) \cup {"%"}
    IN  CASE name \in Range(CompareNames) ->
                Bit(IF IsNaN(numbers) THEN name = "!=" ELSE Compared(name, numbers[1], numbers[2]))
          [] name \in arith /\ floating -> FloatArithmetic("f" \o name, numbers)
          [] name \in arith /\ ~floating -> Arithmetic(name, a)
          [] name = "&&" -> Bit(a = <<1, 1>>)
          [] name = "||" -> Bit(a # <<0, 0>>)
          [] name = "bool" -> Bit(a[1] # 0)
          [] name = "float" -> numbers[1]
          [] name = "int" -> IF floating THEN FPToSI(a[1]) ELSE a[1]

\* Where the two may differ: floats that are no numbers, true as a float ...
NaNCompared(name, types, a) ==
    /\ name \in {"==", "<=", ">", ">="}
    /\ \E i \in DOMAIN a : types[i] = "float" /\ a[i] = NaN
TrueAsFloat(name, types, a) == name = "float" /\ types = <<"bool">> /\ a = <<1>>

\* ... and ints that no float represents, or undefined behaviour.
InexactInt(name, types, a) ==
    /\ name = "float" \/ "float" \in Range(types)
    /\ \E i \in DOMAIN a : types[i] = "int" /\ Rounded(a[i]) # 2 * a[i]

\* The first call of a body has just been generated, of a builtin with a value.
FirstCall ==
    /\ phase = "gen" /\ inside /\ pc > 1
    /\ \A i \in 1 .. pc - 2 : funcs[at - NB].code[i].k = "lit"
    /\ Last(BodySoFar).k = "call"
    /\ Last(BodySoFar).target <= NB
    /\ Last(BodySoFar).name # "print"

\* The generated code computes what a builtin means, for all operands; it differs
\* exactly for comparisons of NaN and for float(true), which is -1.  Only where an
\* int is not exact as a float may it round, and only undefined operations have no
\* meaning.
ComputesTheMeaning ==
    FirstCall =>
        LET c == Last(BodySoFar)
            typed == [i \in DOMAIN c.args |-> Domain(c.args[i])]
            arguments == IF Len(c.args) = 1 THEN {<<x>> : x \in typed[1]} ELSE typed[1] \X typed[2]
        IN  \A a \in arguments :
               \/ InexactInt(c.name, c.args, a)
               \/ (Computed(emitted, c.args, a) # Meaning(c.name, c.args, a))
                     = (NaNCompared(c.name, c.args, a) \/ TrueAsFloat(c.name, c.args, a))

=============================================================================
