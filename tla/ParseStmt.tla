------------------------------- MODULE ParseStmt -------------------------------
(***************************************************************************)
(* The parser of Parser.cpp: statements, functions and programs, on top of *)
(* the expressions of ParseExp.  The functions of a program are kept as    *)
(* they are parsed, so a later ParseError leaves the earlier ones.         *)
(***************************************************************************)
EXTENDS ParseExp

VARIABLE
    program     \* the function definitions, nodes of the table

vars == <<expvars, program>>

\* The frames of a semicolon that is not there in the header of a for.
Semicolon(inForLoop) == IF inForLoop THEN <<>> ELSE <<Skip(";")>>
Header == Frame("stmt", "header", 0, 0)
InHeader == stack[1].what = "header"

\* The parts still to do, with nothing fetched.
Peek(fs) == Become(fs) /\ UNCHANGED toks

\* Token::isOperator
isOperator(t) == t \in Operators \cup {"!", "type"}

-----------------------------------------------------------------------------
(* parseStmt, by its first token. *)

StmtId ==
    /\ Top("stmt")
    /\ Current = "id"
    /\ Fetch(TRUE, <<Frame("stmtid", stack[1].what, pos, 0)>>)

ArrayAssignment ==
    /\ Top("stmtid")
    /\ Current = "["
    /\ Fetch(TRUE, <<Do("exp"), Skip("]"), Skip("="), Do("exp"), Skip(";"),
                     Make("arrayassign", stack[1].at, 2)>>)

\* A mutant: the flag of the for header is not looked at.
AssignmentEnded ==
    /\ Top("stmtid")
    /\ Current = "="
    /\ Fetch(TRUE, <<Do("exp"), Skip(";"), Make("assign", stack[1].at, 1)>>)

Assignment ==
    /\ Top("stmtid")
    /\ Current = "="
    /\ Fetch(TRUE, <<Do("exp")>> \o Semicolon(InHeader) \o <<Make("assign", stack[1].at, 1)>>)

Call ==
    /\ Top("stmtid")
    /\ Current \notin {"[", "="}
    /\ Peek(<<At("args", stack[1].at), Skip(";"), Make("callstmt", stack[1].at, 1)>>)

Declaration ==
    /\ Top("stmt")
    /\ Current = "type"
    /\ Peek(<<Do("type"), Do("vardecl"), Frame("init", stack[1].what, pos, 0)>>)

DeclarationInit ==
    LET f == stack[1]
        end(n) == Semicolon(InHeader) \o <<Make("decl", f.at, n)>>
    IN  /\ Top("init")
        /\ IF Current = "=" THEN Fetch(TRUE, <<Do("exp")>> \o end(2)) ELSE Peek(end(1))

Sequence ==
    /\ Top("stmt")
    /\ Current = "{"
    /\ Peek(<<Do("seq")>>)

Return ==
    /\ Top("stmt")
    /\ Current = "return"
    /\ Fetch(TRUE, <<Do("exp"), Skip(";"), Make("return", pos, 1)>>)

If ==
    /\ Top("stmt")
    /\ Current = "if"
    /\ Fetch(TRUE, <<Skip("("), Do("exp"), Skip(")"), Do("stmt"), At("else", pos)>>)

\* A mutant: an else is left to the outermost if.
IfElseOutermost ==
    LET at == stack[1].at
        inner == \E i \in 2 .. Len(stack) : stack[i].do = "else"
    IN  /\ Top("else")
        /\ IF Current = "else" /\ ~inner THEN Fetch(TRUE, <<Do("stmt"), Make("if", at, 3)>>)
           ELSE Peek(<<Make("if", at, 2)>>)

IfElse ==
    LET at == stack[1].at
    IN  /\ Top("else")
        /\ IF Current = "else" THEN Fetch(TRUE, <<Do("stmt"), Make("if", at, 3)>>)
           ELSE Peek(<<Make("if", at, 2)>>)

While ==
    /\ Top("stmt")
    /\ Current = "while"
    /\ Fetch(TRUE, <<Skip("("), Do("exp"), Skip(")"), Do("stmt"), Make("while", pos, 2)>>)

\* parseForStmt
For ==
    /\ Top("stmt")
    /\ Current = "for"
    /\ Peek(<<Skip("for"), Skip("("), Header, Skip(";"), Do("exp"), Skip(";"), Header, Skip(")"),
              Do("stmt"), Make("for", pos, 4)>>)

\* The token is blamed without being fetched.
StmtUnexpected ==
    /\ Top("stmt")
    /\ Current \notin {"id", "type", "{", "return", "if", "while", "for"}
    /\ Reject
    /\ UNCHANGED toks

\* parseSeq
Seq1 ==
    /\ Top("seq")
    /\ Peek(<<Skip("{"), At("stmts", pos)>>)

SeqNext ==
    LET f == stack[1]
    IN  /\ Top("stmts")
        /\ Peek(IF Current = "}" THEN <<Skip("}"), Make("seq", f.at, f.n)>>
                ELSE <<Do("stmt"), With("stmts", f.at, f.n + 1)>>)

-----------------------------------------------------------------------------
(* Types, variables and functions. *)

\* parseType, and the type's place in what is parsed
ParseType ==
    /\ Top("type")
    /\ Fetch(Current = "type", <<>>)

\* parseVarDecl after the type: parseId
VarDeclId ==
    /\ Top("vardecl")
    /\ Fetch(Current = "id", <<At("size", pos)>>)

\* parseArray moves past the bracket it has seen.
VarDeclSize ==
    LET at == stack[1].at
    IN  /\ Top("size")
        /\ IF Current = "[" THEN Fetch(TRUE, <<Do("exp"), Skip("]"), Make("vardecl", at, 1)>>)
           ELSE Peek(<<Make("vardecl", at, 0)>>)

\* parseFuncDef
Func ==
    /\ Top("func")
    /\ Peek(<<Do("type"), Do("funcid")>>)

\* parseFuncId
FuncId ==
    /\ Top("funcid")
    /\ IF Current = "operator" THEN Fetch(TRUE, <<Do("op")>>)
       ELSE Fetch(Current = "id", <<Skip("("), At("param", pos)>>)

FuncOperator ==
    /\ Top("op")
    /\ Fetch(isOperator(Current), <<Skip("("), At("param", pos)>>)

Param ==
    LET at == stack[1].at
    IN  /\ Top("param")
        /\ Peek(IF Current = ")" THEN <<Skip(")"), At("body", at)>>
                ELSE <<Do("type"), Do("vardecl"), With("params", at, 1)>>)

ParamNext ==
    LET f == stack[1]
    IN  /\ Top("params")
        /\ Peek(IF Current = ")" THEN <<Skip(")"), With("body", f.at, f.n)>>
                ELSE <<Skip(","), Do("type"), Do("vardecl"), With("params", f.at, f.n + 1)>>)

\* A definition has one part more than its parameters: its body.
Body ==
    LET f == stack[1]
    IN  /\ Top("body")
        /\ Peek(IF Current = "{" THEN <<Do("seq"), Make("func", f.at, f.n + 1)>>
                ELSE <<Skip(";"), Make("declaration", f.at, f.n)>>)

\* ParseProgram
ProgramStart ==
    /\ Top("program")
    /\ Peek(<<Do("func"), Do("function")>>)
    /\ UNCHANGED program

\* A mutant: the functions are collected, and kept when all have been parsed.
ProgramNextLate ==
    /\ Top("function")
    /\ IF Current = "eof" THEN program' = results /\ results' = <<>> /\ stack' = <<>>
       ELSE stack' = <<Do("func"), Do("function")>> /\ UNCHANGED <<program, results>>
    /\ UNCHANGED <<source, toks, nodes, blamed, phase>>

ProgramNext ==
    /\ Top("function")
    /\ program' = program \o results
    /\ results' = <<>>
    /\ stack' = IF Current = "eof" THEN <<>> ELSE <<Do("func"), Do("function")>>
    /\ UNCHANGED <<source, toks, nodes, blamed, phase>>

ParseInit == Init /\ program = <<>>

StmtStep ==
    \/ StmtId \/ ArrayAssignment \/ Assignment \/ Call \/ Declaration
    \/ DeclarationInit \/ Sequence \/ Return \/ If \/ IfElse \/ While \/ For
    \/ StmtUnexpected \/ Seq1 \/ SeqNext \/ ParseType \/ VarDeclId
    \/ VarDeclSize \/ Func \/ FuncId \/ FuncOperator \/ Param \/ ParamNext \/ Body

Next ==
    \/ (ExpStep \/ StmtStep) /\ UNCHANGED program
    \/ ProgramStart
    \/ ProgramNext

Spec == ParseInit /\ [][Next]_vars

-----------------------------------------------------------------------------
(* The source of a tree, and the groups' parentheses, of which the tree keeps *)
(* nothing.                                                                   *)

Due == Scan(Written, source.start, toks)

\* Token n is a parenthesis of a group.
Grouping(due, n) ==
    LET i == Shifted(Written, due[n - 1], toks[n])
    IN  \/ due[n] # <<>> /\ Head(due[n]) = "open"
        \/ i # 0 /\ due[n - 1][i] \in {"open", "close"}

\* The first n tokens without the parentheses of groups.
Ungrouped(n) ==
    LET due == Due
    IN  FoldLeftDomain(LAMBDA s, i : IF Grouping(due, i) THEN s ELSE Append(s, toks[i]),
                       <<>>, SubSeq(toks, 1, n))

Commas(parts) ==
    IF parts = <<>> THEN <<>>
    ELSE Head(parts) \o FlattenSeq([n \in 1 .. Len(parts) - 1 |-> <<",">> \o parts[n + 1]])

\* The source of each node; what may stand in a header has no semicolon.
Texts ==
    LET text[i \in DOMAIN nodes] ==
          LET n == nodes[i]
              t == toks[n.at]
              parts == [k \in DOMAIN n.kids |-> text[n.kids[k]]]
              stmts == [k \in DOMAIN n.kids |->
                          parts[k] \o (IF nodes[n.kids[k]].kind \in {"assign", "decl"}
                                         THEN <<";">> ELSE <<>>)]
              name == IF toks[n.at - 1] = "operator" THEN <<"operator", t>> ELSE <<t>>
          IN CASE n.kind \in {"literal", "var"} -> <<t>>
               [] n.kind = "access" -> <<t, "[">> \o parts[1] \o <<"]">>
               [] n.kind = "call" ->
                    IF t \in {"id", "type"} THEN <<t, "(">> \o Commas(parts) \o <<")">>
                    ELSE IF Len(parts) = 1 THEN <<t>> \o parts[1]
                    ELSE parts[1] \o <<t>> \o parts[2]
               [] n.kind = "callstmt" -> parts[1] \o <<";">>
               [] n.kind = "assign" -> <<t, "=">> \o parts[1]
               [] n.kind = "arrayassign" ->
                    <<t, "[">> \o parts[1] \o <<"]", "=">> \o parts[2] \o <<";">>
               [] n.kind = "decl" ->
                    parts[1] \o (IF Len(parts) = 2 THEN <<"=">> \o parts[2] ELSE <<>>)
               [] n.kind = "vardecl" ->
                    <<"type", t>> \o (IF parts # <<>> THEN <<"[">> \o parts[1] \o <<"]">> ELSE <<>>)
               [] n.kind = "seq" -> <<"{">> \o FlattenSeq(stmts) \o <<"}">>
               [] n.kind = "return" -> <<t>> \o parts[1] \o <<";">>
               [] n.kind = "if" ->
                    <<t, "(">> \o parts[1] \o <<")">> \o stmts[2]
                    \o (IF Len(parts) = 3 THEN <<"else">> \o stmts[3] ELSE <<>>)
               [] n.kind = "while" -> <<t, "(">> \o parts[1] \o <<")">> \o stmts[2]
               [] n.kind = "for" ->
                    <<t, "(">> \o parts[1] \o <<";">> \o parts[2] \o <<";">> \o parts[3]
                    \o <<")">> \o stmts[4]
               [] n.kind = "func" ->
                    <<"type">> \o name \o <<"(">> \o Commas(Front(parts)) \o <<")">> \o Last(parts)
               [] n.kind = "declaration" ->
                    <<"type">> \o name \o <<"(">> \o Commas(parts) \o <<")", ";">>
    IN  text

-----------------------------------------------------------------------------
(* Properties. *)

\* Who owns nodes: the program (-1), a function of the parser (0), or a node.
Owners == -1 .. Len(nodes)
Parts(o) == IF o = -1 THEN program ELSE IF o = 0 THEN results ELSE nodes[o].kids
Places == UNION {{o} \X DOMAIN Parts(o) : o \in Owners}

\* The type invariant.  Every node has one owner, as its unique_ptr, and is made
\* before the node it is part of.  A function is there to take what another has
\* returned, and what it takes has been returned.
TypeOK ==
    /\ source \in Sources
    /\ toks \in Seq(Tokens) /\ toks # <<>>
    /\ \A i \in DOMAIN stack : stack[i].at \in 0 .. pos
    /\ blamed \in 0 .. pos
    /\ phase \in {"parse", "done", "rejected"}
    /\ [p \in Places |-> Parts(p[1])[p[2]]] \in Bijection(Places, DOMAIN nodes)
    /\ \A i \in DOMAIN nodes : \A k \in DOMAIN nodes[i].kids : nodes[i].kids[k] < i
    /\ Top("make") => stack[1].n <= Len(results)
    /\ phase = "done" => Len(results) = IF source.start = "program" THEN 0 ELSE 1

\* The parser consumes exactly what it parses: a program to the end of the
\* source, and of an expression or a statement all that can belong to it.
StopsAtTheEnd ==
    phase = "done" =>
        LET due == Due
        IN  IF source.start = "program" THEN due[pos] = <<>>
            ELSE CanEnd(Written, due[pos - 1]) /\ due[pos] = Error

\* It reports an error where there is one, and blames the first token with which
\* the source cannot go on.
ErrorsAtFirstBadToken ==
    phase = "rejected" =>
        LET due == Due
        IN  /\ due[blamed - 1] # Error /\ ~CanEnd(Written, due[blamed - 1])
            /\ due[blamed] = Error

\* The tree of a statement or an expression has each part of the source in its
\* place: written out again, it is the source.
TreesKeepTheSource ==
    phase = "done" /\ source.start # "program" =>
        LET root == results[1]
            end == IF nodes[root].kind \in {"assign", "decl"} THEN <<";">> ELSE <<>>
        IN  Len(results) = 1 /\ Texts[root] \o end = Ungrouped(pos - 1)

\* A program has, in order, the functions of the source that are complete before
\* the token blamed, or all of them; written out again, they are the source.
KeepsCompleteFunctions ==
    source.start = "program" /\ phase # "parse" =>
        LET due == Due
            ends == {n \in 1 .. pos - 1 : due[n] = <<"funcs">>}
        IN  /\ Len(program) = Cardinality(ends)
            /\ FlattenSeq([i \in DOMAIN program |-> Texts[program[i]]])
                  = Ungrouped(IF ends = {} THEN 0 ELSE Max(ends))

\* An else belongs to the nearest if: the first branch of an if with an else
\* does not end in an if without one.
ElseBindsNearest ==
    phase = "done" =>
        LET open[i \in DOMAIN nodes] ==
                \/ nodes[i].kind = "if" /\ Len(nodes[i].kids) = 2
                \/ nodes[i].kind \in {"if", "while", "for"} /\ open[Last(nodes[i].kids)]
        IN  \A i \in DOMAIN nodes :
                nodes[i].kind = "if" /\ Len(nodes[i].kids) = 3 => ~open[nodes[i].kids[2]]

(* What a comment of the code says. *)

\* "Parenthesized expression" (Parser.cpp:76): the parser rejects no token that
\* could go on an expression in which one parenthesis opens a group.
ParenthesesGroup ==
    phase = "rejected" => Scan(Balanced, source.start, toks)[blamed] = Error

=============================================================================
