---------------------------- MODULE CodegenBlocks ----------------------------
(***************************************************************************)
(* How the code generator lays one function out as basic blocks: the       *)
(* visitors CodegenStmt and CodegenExp and the driver CodegenFunc of       *)
(* src/Codegen.cpp.                                                        *)
(*                                                                         *)
(* The C++ code is a recursive walk over the syntax tree.  Its call stack  *)
(* is the variable stack: the head is what runs next, either a node that   *)
(* is about to be visited ("stmt", "exp") or the rest of a visitor that    *)
(* waits for a recursive call to return.  The tree itself is not a         *)
(* variable: whenever a node is visited the next-state relation picks its  *)
(* kind, so every tree of at most MaxNodes nodes over Forms is walked.     *)
(*                                                                         *)
(* Values, names and straight-line instructions are abstracted: a run of   *)
(* instructions that are neither terminators nor phis is one "plain".      *)
(***************************************************************************)
EXTENDS Integers, Sequences, FiniteSets, SequencesExt

CONSTANTS
    MaxNodes,   \* bound: nodes of the tree, apart from leaves and empty blocks
    FnType,     \* the LLVM return type of the function being generated
    Forms       \* the kinds of nodes the program uses; "diverted" if it defines
                \* functions with the names of builtins

Types == {"i1", "i32", "float"}

AllForms == {"call", "assign", "arrayassign", "decl", "arraydecl", "return",
             "if", "while", "for", "&&", "||", "callexp", "diverted", "arrayaccess"}

ASSUME MaxNodesAssumption == MaxNodes \in Nat
ASSUME FnTypeAssumption == FnType \in Types
ASSUME FormsAssumption == Forms \subseteq AllForms

VARIABLES
    nblocks,    \* blocks created so far, named 1 .. nblocks in creation order
    layout,     \* the blocks of the function's list, in list order
    code,       \* the instructions of each block
    at,         \* the builder's insertion block; instructions go to its end
    stack,      \* the walk's call stack, innermost first
    val,        \* what the last CodegenExp::Codegen call returned
    fuel,       \* nodes the tree may still have
    phase,      \* "emit", "done" (function generated) or "aborted" (exception)
    flow        \* history: did the source statement just left return, and did
                \* code ever follow such a statement ("overrun")?

vars == <<nblocks, layout, code, at, stack, val, fuel, phase, flow>>

Entry == 1
Blocks == 1 .. nblocks

-----------------------------------------------------------------------------
(* Instructions. *)

Instr(op, bs, ty) == [op |-> op, bs |-> bs, ty |-> ty]
Plain == Instr("plain", <<>>, "none")
Unreachable == Instr("unreachable", <<>>, "none")
Br(b) == Instr("br", <<b>>, "none")
CondBr(ty, b, c) == Instr("condbr", <<b, c>>, ty)
Ret(ty) == Instr("ret", <<>>, ty)
Phi(b, c, ty) == Instr("phi", <<b, c>>, ty)  \* ty: that of the second value

Terminators == {"br", "condbr", "ret", "unreachable"}

\* BasicBlock::getTerminator: the last instruction, if it is a terminator.
EndsBlock(s) == s # <<>> /\ s[Len(s)].op \in Terminators

\* The builder appends; consecutive plain instructions count as one.
Put(s, i) ==
    IF s # <<>> /\ i = Plain /\ s[Len(s)] = Plain THEN s ELSE Append(s, i)

\* An alloca goes to the front of the entry block.
PutFront(s) == IF s # <<>> /\ s[1] = Plain THEN s ELSE <<Plain>> \o s

\* The same code with n more blocks, still empty.
Grow(n) ==
    [b \in 1 .. (nblocks + n) |-> IF b <= nblocks THEN code[b] ELSE <<>>]

Emit(i) == [code EXCEPT ![at] = Put(@, i)]

-----------------------------------------------------------------------------
(* The call stack. *)

\* want: the types the typechecker admits here; open: blocks created but not
\* filled yet, in the order the insertion point will move to them; back: the
\* block a loop body branches back to.
Frame(k, want, open, back) ==
    [k |-> k, want |-> want, open |-> open, back |-> back]
Item(k) == Frame(k, {}, <<>>, 0)
Stmt == Item("stmt")
Exp(want) == Frame("exp", want, <<>>, 0)

Top(k) == phase = "emit" /\ stack # <<>> /\ stack[1].k = k

\* Replace the running frame by fs.
Become(fs) == stack' = fs \o Tail(stack)

\* Blocks that some suspended visitor still has to fill.
Held(f) == {f.open[j] : j \in DOMAIN f.open}
OpenIn(s) == UNION {Held(s[i]) : i \in DOMAIN s}

\* A value: its LLVM type, and the type that the typechecker gave its expression.
Value(ty, as, kind) == [ty |-> ty, as |-> as, kind |-> kind]
NoVal == Value("none", "none", "none")

\* Returns of statements, seen from the source text.
Left(f) == IF flow = "overrun" THEN flow ELSE f
Followed == IF flow = "returned" THEN "overrun" ELSE flow

\* One more node of the tree, of the given form.
Visit(k, form) ==
    /\ Top(k)
    /\ form \in Forms
    /\ fuel > 0
    /\ fuel' = fuel - 1

blockVars == <<nblocks, layout, at>>

-----------------------------------------------------------------------------
Init ==
    /\ nblocks = 1
    /\ layout = <<Entry>>
    /\ code = [b \in {Entry} |-> <<>>]
    /\ at = Entry
    /\ stack = <<Item("seq")>>
    /\ val = NoVal
    /\ fuel = MaxNodes
    /\ phase = "emit"
    /\ flow = "falls"

-----------------------------------------------------------------------------
(* Sequences, calls, assignments, returns. *)

VisitSeqStmt ==
    /\ Top("stmt")
    /\ fuel' = IF fuel = 0 THEN 0 ELSE fuel - 1
    /\ Become(<<Item("seq")>>)
    /\ UNCHANGED <<blockVars, code, val, phase, flow>>

SeqNext ==
    /\ Top("seq")
    /\ fuel > 0
    /\ Become(<<Stmt, Item("seq")>>)
    /\ flow' = Followed
    /\ UNCHANGED <<blockVars, code, val, fuel, phase>>

SeqEnd ==
    /\ Top("seq")
    /\ Become(<<>>)
    /\ UNCHANGED <<blockVars, code, val, fuel, phase, flow>>

\* A call's arguments, left to right, then the call itself.
Arguments(n) == [i \in 1 .. n |-> Exp(Types)]
MaxArgs == 2

VisitCallStmt ==
    /\ Visit("stmt", "call")
    /\ \E n \in 0 .. MaxArgs : Become(Arguments(n) \o <<Item("CallEnd")>>)
    /\ UNCHANGED <<blockVars, code, val, phase, flow>>

VisitAssignStmt ==
    /\ Visit("stmt", "assign")
    /\ Become(<<Exp(Types), Item("Store")>>)
    /\ UNCHANGED <<blockVars, code, val, phase, flow>>

\* The right-hand side is evaluated before the index.
VisitArrayAssignStmt ==
    /\ Visit("stmt", "arrayassign")
    /\ Become(<<Exp(Types), Exp({"i32"}), Item("Store")>>)
    /\ UNCHANGED <<blockVars, code, val, phase, flow>>

Store ==
    /\ Top("Store")
    /\ code' = Emit(Plain)
    /\ Become(<<>>)
    /\ val' = NoVal
    /\ UNCHANGED <<blockVars, fuel, phase, flow>>

\* Scalars: the alloca goes to the entry block, wherever the builder is.
VisitDeclStmt ==
    /\ Visit("stmt", "decl")
    /\ code' = [code EXCEPT ![Entry] = PutFront(@)]
    /\ \E hasInit \in BOOLEAN :
          Become(IF hasInit THEN <<Exp(Types), Item("Store")>> ELSE <<>>)
    /\ UNCHANGED <<blockVars, val, phase, flow>>

\* Mutant: the typechecker does not compare the type with the function's.
VisitReturnStmtUnchecked ==
    /\ Visit("stmt", "return")
    /\ Become(<<Exp(Types), Item("Ret")>>)
    /\ UNCHANGED <<blockVars, code, val, phase, flow>>

VisitReturnStmt ==
    /\ Visit("stmt", "return")
    /\ Become(<<Exp({FnType}), Item("Ret")>>)
    /\ UNCHANGED <<blockVars, code, val, phase, flow>>

ReturnEnd ==
    /\ Top("Ret")
    /\ code' = Emit(Ret(val.ty))
    /\ Become(<<>>)
    /\ val' = NoVal
    /\ flow' = Left("returned")
    /\ UNCHANGED <<blockVars, fuel, phase>>

-----------------------------------------------------------------------------
(* Array declarations. *)

VisitDeclArray ==
    /\ Visit("stmt", "arraydecl")
    /\ Become(<<Exp({"i32"}), Item("ArraySize")>>)
    /\ UNCHANGED <<blockVars, code, val, phase, flow>>

\* dyn_cast<ConstantInt> succeeded and the size is positive.
ArraySizeConst ==
    /\ Top("ArraySize")
    /\ val.kind = "const"
    /\ code' = Emit(Plain)
    /\ Become(<<>>)
    /\ val' = NoVal
    /\ UNCHANGED <<blockVars, fuel, phase, flow>>

\* ... or it is not: std::runtime_error, which nothing catches.
ArraySizeThrow ==
    /\ Top("ArraySize")
    /\ val.kind = "nonpos"
    /\ phase' = "aborted"
    /\ UNCHANGED <<blockVars, code, stack, val, fuel, flow>>

\* The size is known at run time only: test it, fill the error block at once
\* and go on in the continue block.
ArraySizeDynamic ==
    LET error == nblocks + 1
        continue == nblocks + 2
    IN  /\ Top("ArraySize")
        /\ val.kind = "instr"
        /\ nblocks' = nblocks + 2
        /\ layout' = layout \o <<error, continue>>
        /\ code' = [Grow(2) EXCEPT
                      ![at] = Put(Put(@, Plain), CondBr("i1", continue, error)),
                      ![error] = <<Plain, Unreachable>>,
                      ![continue] = <<Plain>>]
        /\ at' = continue
        /\ Become(<<>>)
        /\ val' = NoVal
        /\ UNCHANGED <<fuel, phase, flow>>

-----------------------------------------------------------------------------
(* Expressions.  A literal, or an operator the builder folds, is a constant  *)
(* and emits nothing; a parameter is a value already; a local is loaded.     *)

Leaf ==
    /\ Top("exp")
    /\ \E ty \in stack[1].want, leaf \in {"const", "nonpos", "param", "local"} :
          /\ leaf = "nonpos" => ty = "i32"
          /\ val' = Value(ty, ty, IF leaf \in {"param", "local"} THEN "instr" ELSE leaf)
          /\ code' = IF leaf = "local" THEN Emit(Plain) ELSE code
    /\ Become(<<>>)
    /\ UNCHANGED <<blockVars, fuel, phase, flow>>

VisitCallExp ==
    /\ Visit("exp", "callexp")
    /\ \E n \in 0 .. MaxArgs, ty \in stack[1].want :
          Become(Arguments(n) \o <<Frame("CallEnd", {ty}, <<>>, 0)>>)
    /\ UNCHANGED <<blockVars, code, val, phase, flow>>

VisitArrayAccessExp ==
    /\ Visit("exp", "arrayaccess")
    /\ \E ty \in stack[1].want :
          Become(<<Exp({"i32"}), Frame("CallEnd", {ty}, <<>>, 0)>>)
    /\ UNCHANGED <<blockVars, code, val, phase, flow>>

\* The instructions of a call, an operator or an array load.
CallEnd ==
    /\ Top("CallEnd")
    /\ code' = Emit(Plain)
    /\ val' = IF stack[1].want = {} THEN NoVal
              ELSE LET ty == CHOOSE ty \in stack[1].want : TRUE IN Value(ty, ty, "instr")
    /\ Become(<<>>)
    /\ UNCHANGED <<blockVars, fuel, phase, flow>>

\* A call whose value has not the type it was checked with: of a function of the
\* program that has a builtin's name, or of a builtin with such a call as argument.
\* The tests on the name and the arguments' LLVM types choose the instruction.
VisitDivertedExp ==
    /\ Visit("exp", "diverted")
    /\ \E n \in 1 .. MaxArgs, ty \in stack[1].want :
          Become(Arguments(n) \o <<Frame("DivertedEnd", {ty}, <<>>, 0)>>)
    /\ UNCHANGED <<blockVars, code, val, phase, flow>>

\* The builder may fold it; a ConstantInt of type i1 is 0 or -1, a float is none.
DivertedEnd ==
    /\ Top("DivertedEnd")
    /\ \E as \in stack[1].want : \E ty \in Types \ {as}, folded \in BOOLEAN :
          /\ code' = IF folded THEN code ELSE Emit(Plain)
          /\ val' = Value(ty, as, IF folded /\ ty = "i1" THEN "nonpos" ELSE "instr")
    /\ Become(<<>>)
    /\ UNCHANGED <<blockVars, fuel, phase, flow>>

\* The types of operands and values of && and ||: the program may define them for
\* others than bool, and they are generated alike.
LogicTypes == IF "diverted" \in Forms THEN Types ELSE {"i1"}

\* lhs && rhs, lhs || rhs: the left operand first.
VisitShortCircuit(op) ==
    /\ Visit("exp", op)
    /\ \E ty \in stack[1].want \cap LogicTypes :
          Become(<<Exp(LogicTypes), Frame(op, {ty}, <<>>, 0)>>)
    /\ UNCHANGED <<blockVars, code, val, phase, flow>>

\* The rhs block joins the function's list now, the end block only later.
ListedNone(rhs, end) == <<>>            \* mutant: the parent is forgotten
ListedBoth(rhs, end) == <<rhs, end>>    \* mutant: end is listed twice
Listed(rhs, end) == <<rhs>>

\* && skips the rhs when lhs is false, || when it is true.
ShortCircuitLhs(op) ==
    LET rhs == nblocks + 1
        end == nblocks + 2
    IN  /\ Top(op)
        /\ nblocks' = nblocks + 2
        /\ layout' = layout \o Listed(rhs, end)
        /\ code' = [Grow(2) EXCEPT
                      ![at] = Put(@, IF op = "&&" THEN CondBr(val.ty, rhs, end)
                                                  ELSE CondBr(val.ty, end, rhs))]
        /\ at' = rhs
        /\ Become(<<Exp(LogicTypes), Frame("RhsEnd", stack[1].want, <<end>>, 0)>>)
        /\ val' = NoVal
        /\ UNCHANGED <<fuel, phase, flow>>

\* GetInsertBlock() is read again after the rhs: it may have moved.
StaleRhsBlock == stack[1].open[1] - 1   \* mutant: the block made for the rhs
RhsBlock == at

\* getPrevNode()->getPrevNode() of an end block appended to the list.
TwoBefore(lay) == lay[Len(lay) - 1]

ShortCircuitEnd ==
    LET end == stack[1].open[1]
    IN  /\ Top("RhsEnd")
        /\ layout' = layout \o <<end>>
        /\ code' = [code EXCEPT ![at] = Put(@, Br(end)),
                                ![end] = <<Phi(TwoBefore(layout), RhsBlock, val.ty)>>]
        /\ at' = end
        /\ \E ty \in stack[1].want : val' = Value("i1", ty, "instr")
        /\ Become(<<>>)
        /\ UNCHANGED <<nblocks, fuel, phase, flow>>

-----------------------------------------------------------------------------
(* Conditionals and loops. *)

CondTypes == {"i1", "i32"}

\* codegenCondExp: what was checked as an int is compared with zero, unless the
\* builder folds it.
CondCode(s) == IF val.as = "i32" /\ val.kind = "instr" THEN Put(s, Plain) ELSE s
CondType == IF val.as = "i1" THEN val.ty ELSE "i1"

VisitIfStmt ==
    /\ Visit("stmt", "if")
    /\ Become(<<Exp(CondTypes), Item("IfCond")>>)
    /\ UNCHANGED <<blockVars, code, val, phase, flow>>

\* All blocks of the conditional are created, and listed, before its branches.
IfCond(hasElse) ==
    LET then == nblocks + 1
        else == nblocks + 2
        join == nblocks + IF hasElse THEN 3 ELSE 2
        rest == IF hasElse THEN <<else, join>> ELSE <<join>>
    IN  /\ Top("IfCond")
        /\ nblocks' = join
        /\ layout' = layout \o (<<then>> \o rest)
        /\ code' = [Grow(join - nblocks) EXCEPT
                      ![at] = Put(CondCode(@), CondBr(CondType, then, rest[1]))]
        /\ at' = then
        /\ Become(<<Stmt, Frame("IfBranchEnd", {}, rest, 0)>>)
        /\ val' = NoVal
        /\ UNCHANGED <<fuel, phase, flow>>

\* Branch to the join block unless the branch ends with a terminator.
BranchAlways(join) == Emit(Br(join))    \* mutant: the test is dropped
BranchInverted(join) == IF EndsBlock(code[at]) THEN Emit(Br(join)) ELSE code
BranchCode(join) == IF EndsBlock(code[at]) THEN code ELSE Emit(Br(join))

\* Mutant: the else branch is generated over and over.
IfBranchEndAgain ==
    LET open == stack[1].open
    IN  /\ Top("IfBranchEnd")
        /\ code' = BranchCode(open[Len(open)])
        /\ at' = open[1]
        /\ Become(IF Len(open) = 2 THEN <<Stmt, stack[1]>> ELSE <<>>)
        /\ flow' = Left("falls")
        /\ UNCHANGED <<nblocks, layout, val, fuel, phase>>

IfBranchEnd ==
    LET open == stack[1].open
    IN  /\ Top("IfBranchEnd")
        /\ code' = BranchCode(open[Len(open)])
        /\ at' = open[1]
        /\ Become(IF Len(open) = 2
                    THEN <<Stmt, Frame("IfBranchEnd", {}, Tail(open), 0)>>
                    ELSE <<>>)
        /\ flow' = Left("falls")
        /\ UNCHANGED <<nblocks, layout, val, fuel, phase>>

VisitWhileStmt ==
    LET loop == nblocks + 1
    IN  /\ Visit("stmt", "while")
        /\ nblocks' = loop
        /\ layout' = layout \o <<loop>>
        /\ code' = [Grow(1) EXCEPT ![at] = Put(@, Br(loop))]
        /\ at' = loop
        /\ Become(<<Exp(CondTypes), Frame("WhileCond", {}, <<>>, loop)>>)
        /\ UNCHANGED <<val, phase, flow>>

\* The body and join blocks are created after the condition's code.
WhileCond ==
    LET body == nblocks + 1
        join == nblocks + 2
    IN  /\ Top("WhileCond")
        /\ nblocks' = join
        /\ layout' = layout \o <<body, join>>
        /\ code' = [Grow(2) EXCEPT
                      ![at] = Put(CondCode(@), CondBr(CondType, body, join))]
        /\ at' = body
        /\ Become(<<Stmt, Frame("LoopEnd", {}, <<join>>, stack[1].back)>>)
        /\ val' = NoVal
        /\ UNCHANGED <<fuel, phase, flow>>

\* Mutants: code goes on in the loop block; the branch misses the loop block.
LoopEndStays ==
    /\ Top("LoopEnd")
    /\ code' = Emit(Br(stack[1].back))
    /\ at' = stack[1].back
    /\ Become(<<>>)
    /\ flow' = Followed
    /\ UNCHANGED <<nblocks, layout, val, fuel, phase>>

LoopEndPastHead ==
    /\ Top("LoopEnd")
    /\ code' = Emit(Br(stack[1].back + 1))
    /\ at' = stack[1].open[1]
    /\ Become(<<>>)
    /\ flow' = Followed
    /\ UNCHANGED <<nblocks, layout, val, fuel, phase>>

\* An unconditional branch back, whatever the body ended with.
LoopEnd ==
    /\ Top("LoopEnd")
    /\ code' = Emit(Br(stack[1].back))
    /\ at' = stack[1].open[1]
    /\ Become(<<>>)
    /\ flow' = Followed
    /\ UNCHANGED <<nblocks, layout, val, fuel, phase>>

\* The parser always supplies the three parts of a for statement.
VisitForStmt ==
    /\ Visit("stmt", "for")
    /\ Become(<<Stmt, Item("ForInit")>>)
    /\ UNCHANGED <<blockVars, code, val, phase, flow>>

ForInit ==
    LET header == nblocks + 1
        body == nblocks + 2
        update == nblocks + 3
        exit == nblocks + 4
    IN  /\ Top("ForInit")
        /\ nblocks' = nblocks + 4
        /\ layout' = layout \o <<header, body, update, exit>>
        /\ code' = [Grow(4) EXCEPT ![at] = Put(@, Br(header))]
        /\ at' = header
        /\ Become(<<Exp(Types),
                    Frame("ForCond", {}, <<body, update, exit>>, header)>>)
        /\ flow' = Followed
        /\ UNCHANGED <<val, fuel, phase>>

\* Neither CheckCondExp nor codegenCondExp looks at this condition.
ForCond ==
    LET open == stack[1].open
    IN  /\ Top("ForCond")
        /\ code' = Emit(CondBr(val.ty, open[1], open[3]))
        /\ at' = open[1]
        /\ Become(<<Stmt, Frame("ForBodyEnd", {}, Tail(open), stack[1].back)>>)
        /\ val' = NoVal
        /\ UNCHANGED <<nblocks, layout, fuel, phase, flow>>

\* Mutant: on to the exit block instead of the update block.
ForBodyEndSkipsUpdate ==
    LET open == stack[1].open
    IN  /\ Top("ForBodyEnd")
        /\ code' = Emit(Br(open[2]))
        /\ at' = open[2]
        /\ Become(<<Stmt, Frame("LoopEnd", {}, Tail(open), stack[1].back)>>)
        /\ flow' = Followed
        /\ UNCHANGED <<nblocks, layout, val, fuel, phase>>

ForBodyEnd ==
    LET open == stack[1].open
    IN  /\ Top("ForBodyEnd")
        /\ code' = Emit(Br(open[1]))
        /\ at' = open[1]
        /\ Become(<<Stmt, Frame("LoopEnd", {}, Tail(open), stack[1].back)>>)
        /\ flow' = Followed
        /\ UNCHANGED <<nblocks, layout, val, fuel, phase>>

\* CodegenFunc: the implicit return at the end of the body.
Finish ==
    /\ phase = "emit"
    /\ stack = <<>>
    /\ code' = IF EndsBlock(code[at]) THEN code ELSE Emit(Ret("i32"))
    /\ phase' = "done"
    /\ UNCHANGED <<blockVars, stack, val, fuel, flow>>

-----------------------------------------------------------------------------
StmtStep ==
    \/ VisitSeqStmt \/ SeqNext \/ SeqEnd
    \/ VisitCallStmt \/ VisitAssignStmt \/ VisitArrayAssignStmt \/ Store
    \/ VisitDeclStmt \/ VisitReturnStmt \/ ReturnEnd
    \/ VisitDeclArray \/ ArraySizeConst \/ ArraySizeThrow \/ ArraySizeDynamic

ExpStep ==
    \/ Leaf \/ VisitCallExp \/ VisitArrayAccessExp \/ CallEnd
    \/ VisitDivertedExp \/ DivertedEnd
    \/ \E op \in {"&&", "||"} : VisitShortCircuit(op) \/ ShortCircuitLhs(op)
    \/ ShortCircuitEnd

ControlStep ==
    \/ VisitIfStmt \/ \E hasElse \in BOOLEAN : IfCond(hasElse)
    \/ IfBranchEnd
    \/ VisitWhileStmt \/ WhileCond \/ LoopEnd
    \/ VisitForStmt \/ ForInit \/ ForCond \/ ForBodyEnd

Next == StmtStep \/ ExpStep \/ ControlStep \/ Finish

\* The compiler is one sequential program: it does not stop between steps.
Spec == Init /\ [][Next]_vars /\ WF_vars(Next)

-----------------------------------------------------------------------------
(* The graph of the blocks. *)

Branches(s) == {i \in DOMAIN s : s[i].op \in {"br", "condbr"}}
Succs(b) ==
    UNION {{code[b][i].bs[j] : j \in DOMAIN code[b][i].bs} :
              i \in Branches(code[b])}
Edges == UNION {{<<b, c>> : c \in Succs(b)} : b \in Blocks}
Preds(b) == {a \in Blocks : b \in Succs(a)}

\* The blocks reached from the set from along edges, in at most nblocks steps.
Reached(from, edges) ==
    LET within[n \in 0 .. nblocks] ==
            IF n = 0 THEN from
            ELSE LET r == within[n - 1]
                 IN  r \cup {e[2] : e \in {d \in edges : d[1] \in r}}
    IN  within[nblocks]

Dominates(c, b) ==
    b \notin Reached({Entry} \ {c}, {e \in Edges : e[2] # c}) \ {c}

HasPhi(b) == code[b] # <<>> /\ code[b][1].op = "phi"
Phis == {b \in Blocks : HasPhi(b)}
Rets == {b \in Blocks : code[b] # <<>> /\ code[b][Len(code[b])].op = "ret"}
Dead == {b \in Blocks : code[b] # <<>> /\
                         code[b][Len(code[b])].op = "unreachable"}

Done == phase = "done"

-----------------------------------------------------------------------------
(* Properties. *)

FrameKinds == {"stmt", "exp", "seq", "CallEnd", "DivertedEnd", "Store", "Ret", "ArraySize",
               "&&", "||", "RhsEnd", "IfCond", "IfBranchEnd", "WhileCond",
               "LoopEnd", "ForInit", "ForCond", "ForBodyEnd"}

\* How many unfilled blocks each suspended visitor holds, and which remember
\* the head of a loop.
FrameOK(f) ==
    /\ f.k \in {"RhsEnd", "LoopEnd"} => Len(f.open) = 1
    /\ f.k = "IfBranchEnd" => Len(f.open) \in {1, 2}
    /\ f.k = "ForBodyEnd" => Len(f.open) = 2
    /\ f.k = "ForCond" => Len(f.open) = 3
    /\ f.k \notin {"RhsEnd", "LoopEnd", "IfBranchEnd", "ForBodyEnd", "ForCond"}
          => f.open = <<>>
    /\ f.k = "exp" => f.want # {}
    /\ f.k \in {"WhileCond", "ForCond", "ForBodyEnd", "LoopEnd"} => f.back # 0

\* Frames and instructions that mention the first n blocks only.
Frames(n) == {f \in [k : FrameKinds, want : SUBSET Types, open : Seq(1 .. n),
                     back : 0 .. n] : FrameOK(f)}

Instrs(n) == [op : Terminators \cup {"plain", "phi"}, bs : Seq(1 .. n),
              ty : Types \cup {"none"}]

Vals == [ty : Types \cup {"none"}, as : Types \cup {"none"},
         kind : {"none", "const", "nonpos", "instr"}]

\* The type invariant.  Its last conjunct says that the two getPrevNode() calls
\* of && and || will find a block.
TypeOK ==
    /\ nblocks \in Nat \ {0}
    /\ layout \in Seq(Blocks)
    /\ code \in [Blocks -> Seq(Instrs(nblocks))]
    /\ at \in Blocks
    /\ stack \in Seq(Frames(nblocks))
    /\ val \in Vals
    /\ fuel \in 0 .. MaxNodes
    /\ phase \in {"emit", "done", "aborted"}
    /\ flow \in {"falls", "returned", "overrun"}
    /\ layout # <<>>
    /\ (\E i \in DOMAIN stack : stack[i].k = "RhsEnd") => Len(layout) >= 2

\* No block is ever forgotten: at every moment of the walk each block has its
\* terminator, or it is the insertion block, or some suspended visitor still
\* holds it.  So a finished function has no block that falls off its end, the
\* reason for every CreateBr of Codegen.cpp and for the getTerminator tests.
BlocksSealed ==
    /\ \A b \in Blocks : b = at \/ b \in OpenIn(stack) \/ EndsBlock(code[b])
    /\ Done => \A b \in Blocks : EndsBlock(code[b])

\* Visitors nest: the insertion block is held by nobody, a held block is still
\* empty and is not the entry block, and no two visitors (nor one twice) hold
\* the same block, so the code of a branch never lands in a block of an
\* enclosing statement.
HeldOnce(s) ==
    \A i, j \in DOMAIN s :
        \A m \in DOMAIN s[i].open, n \in DOMAIN s[j].open :
            s[i].open[m] = s[j].open[n] => i = j /\ m = n

VisitorsOwnTheirBlocks ==
    /\ \A b \in OpenIn(stack) : b # at /\ b # Entry /\ code[b] = <<>>
    /\ HeldOnce(stack)

\* A block that is finished stays finished: no later step makes it the
\* insertion block again, holds it again, or changes its code, save for the
\* allocas that declarations put at the front of the entry block.
FrozenStep ==
    \A b \in Blocks \ ({at} \cup OpenIn(stack)) :
        /\ b # at' /\ b \notin OpenIn(stack')
        /\ code'[b] = IF b = Entry /\ code'[b] # code[b]
                         THEN PutFront(code[b]) ELSE code[b]
FrozenOnceClosed == [][FrozenStep]_vars

\* Every block ends up in the function's list exactly once, the entry block
\* first and nobody's target.  The end blocks of && and || join the list long
\* after branches to them were emitted.
LayoutComplete ==
    /\ layout[1] = Entry /\ Preds(Entry) = {}
    /\ Done => Len(layout) = nblocks /\ ToSet(layout) = Blocks

\* Loops are natural: without the edges into a dominating block the graph of a
\* finished function has no cycle, whatever nests in whatever.
LoopsAreNatural ==
    LET forward == {e \in Edges : ~Dominates(e[2], e[1])}
    IN  Done => \A e \in forward : e[1] \notin Reached({e[2]}, forward)

\* In a function that returns in one place only every block can be executed, and
\* from every block the function can end (by the return, or by the exit call
\* of a failed array declaration).
Returns == {r \in UNION {{b} \X DOMAIN code[b] : b \in Blocks} : code[r[1]][r[2]].op = "ret"}
EveryBlockLives ==
    Done /\ Cardinality(Returns) = 1 =>
            /\ Reached({Entry}, Edges) = Blocks
            /\ \A b \in Blocks : Reached({b}, Edges) \cap (Rets \cup Dead) # {}

\* What a phi names.  Its merge has two predecessors, and its second incoming
\* value arrives along a real edge: the rhs may have moved the insertion point,
\* which is why rhsBlock is read again after it (Codegen.cpp:260, 287).  The two
\* getPrevNode() calls (267, 292) find the block of the lhs exactly when the blocks
\* that branch to the merge are the two before it in the function's list.  That
\* fails when the rhs holds another && or ||, when an enclosing statement listed
\* its blocks before, and when the lhs follows a statement whose last block was
\* listed before those nested in it.
PhiIsExact(b) == Preds(b) = {code[b][1].bs[1], code[b][1].bs[2]}
PhiExactIffAdjacent ==
    \A i \in DOMAIN layout : layout[i] \in Phis =>
        LET b == layout[i]
        IN  /\ Cardinality(Preds(b)) = 2
            /\ code[b][1].bs[2] \in Preds(b)
            /\ PhiIsExact(b) <=> Preds(b) = {layout[i - 2], layout[i - 1]}

\* An instruction follows a terminator only in programs whose source puts code
\* after a return statement or ends a loop part with one, and the terminator
\* it follows is then that return, never a branch.
OverrunOnlyAfterReturn ==
    \A b \in Blocks : \A i \in 1 .. Len(code[b]) - 1 :
        code[b][i].op \in Terminators => code[b][i].op = "ret" /\ flow = "overrun"

\* A branch on something that is no bool, a phi of such a value, or a return of a
\* type that is not the function's, comes from two places: the condition of a for
\* statement, which nobody checks or converts, and the implicit return of an int.
\* Only in programs that define functions with the names of builtins is there a
\* third reason: the value of a call that got another LLVM type than the function
\* declares, or the operand of a && or || that the program has for other types.
IllTyped(i) == \/ i.op \in {"condbr", "phi"} /\ i.ty # "i1"
               \/ i.op = "ret" /\ i.ty # FnType
IllTypedIn(c) == UNION {{<<b, i>> : i \in {j \in ToSet(c[b]) : IllTyped(j)}} : b \in DOMAIN c}
Misread(i) ==
    /\ "diverted" \in Forms
    /\ stack # <<>> /\ i.ty = val.ty
    /\ val.ty # val.as \/ stack[1].k \in {"&&", "||", "RhsEnd"}
IllTypedStep ==
    \A x \in IllTypedIn(code') \ IllTypedIn(code) :
        \/ x[1] = at /\ (stack = <<>> \/ (Top("ForCond") /\ x[2].op = "condbr"))
        \/ x[1] \in {at, at'} /\ Misread(x[2])
IllTypedOnlyThere == [][IllTypedStep]_vars

(* What the assertion on verifyModule (main.cpp) says of the module. *)

\* Every phi names exactly the predecessors of its block.
PhiMatchesPreds ==
    Done => \A b \in Phis : PhiIsExact(b)

=============================================================================
