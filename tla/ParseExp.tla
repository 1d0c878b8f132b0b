------------------------------- MODULE ParseExp -------------------------------
(***************************************************************************)
(* The expression parser of Parser.cpp: recursive descent for primary      *)
(* expressions and arguments, operator precedence for infix operators,     *)
(* over a token stream with one token of lookahead.                        *)
(*                                                                         *)
(* What the functions of the parser still have to do is a stack of frames; *)
(* the nodes they have made are a table, and those not yet part of another *)
(* node are on a second stack.  Tokens are made up as the stream reads     *)
(* them.  ParseStmt adds the rest of the parser.                           *)
(***************************************************************************)
EXTENDS Grammar

CONSTANT
    Sources     \* what is parsed: from which function of the parser, beginning
                \* with what, then with which tokens, and at most how many (the bound)

ASSUME SourcesAssumption ==
    \A s \in Sources : /\ s.start \in {"exp", "stmt", "program"}
                       /\ s.given \in Seq(Tokens \ {"eof"})
                       /\ s.tokens # {} /\ s.tokens \subseteq Tokens \ {"eof"}
                       /\ s.most \in Nat

VARIABLES
    source,     \* the member of Sources that is parsed
    toks,       \* the tokens read so far; the last one is the current token
    stack,      \* what is left to do, innermost first
    nodes,      \* the nodes of the tree, each after its parts
    results,    \* indices of nodes that a function has returned, last one last
    blamed,     \* the token of the ParseError, or 0
    phase       \* "parse", "done", "rejected" (ParseError)

expvars == <<source, toks, stack, nodes, results, blamed, phase>>

\* A node, the token it is named after, and its parts.
Node(kind, at, kids) == [kind |-> kind, at |-> at, kids |-> kids]

\* do: the function, or the place in it.  what: the token to skip, or the kind of
\* node to make.  at: the token the node is named after.  n: a precedence, or
\* how many parts have been parsed.
Frame(do, what, at, n) == [do |-> do, what |-> what, at |-> at, n |-> n]
Do(f) == Frame(f, "", 0, 0)
At(f, at) == Frame(f, "", at, 0)
With(f, at, n) == Frame(f, "", at, n)
Skip(t) == Frame("skip", t, 0, 0)
Make(kind, at, n) == Frame("make", kind, at, n)

-----------------------------------------------------------------------------
(* The token stream. *)

pos == Len(toks)
Current == toks[pos]

Coming(s, n) ==
    IF n < Len(s.given) THEN {s.given[n + 1]}
    ELSE IF n < s.most THEN s.tokens \cup {"eof"} ELSE {"eof"}
Advance ==
    IF Current = "eof" THEN toks' = Append(toks, "eof")
    ELSE \E t \in Coming(source, pos) : toks' = Append(toks, t)

Top(f) == phase = "parse" /\ stack # <<>> /\ stack[1].do = f
Become(fs) == stack' = fs \o Tail(stack) /\ UNCHANGED <<source, nodes, results, blamed, phase>>

\* throw ParseError, blaming the current token
Reject ==
    /\ phase' = "rejected"
    /\ blamed' = pos
    /\ UNCHANGED <<source, stack, nodes, results>>

\* The token is fetched before it is looked at.
Fetch(ok, fs) == Advance /\ IF ok THEN Become(fs) ELSE Reject

\* A mutant: the token is passed over without a look.
SkipUnchecked ==
    /\ Top("skip")
    /\ Fetch(TRUE, <<>>)

\* skipToken
SkipToken ==
    /\ Top("skip")
    /\ Fetch(Current = stack[1].what, <<>>)

\* Made with the last n results; returned as a result.
Made(kind, at, n) ==
    LET rest == Len(results) - n
    IN  /\ nodes' = Append(nodes, Node(kind, at, SubSeq(results, rest + 1, Len(results))))
        /\ results' = Append(SubSeq(results, 1, rest), Len(nodes) + 1)

\* A mutant: the parts are moved into the node from the last to the first.
MakeNodeReversed ==
    LET f == stack[1]
        rest == Len(results) - f.n
    IN  /\ Top("make")
        /\ nodes' = Append(nodes, Node(f.what, f.at,
                                       Reverse(SubSeq(results, rest + 1, Len(results)))))
        /\ results' = Append(SubSeq(results, 1, rest), Len(nodes) + 1)
        /\ stack' = Tail(stack)
        /\ UNCHANGED <<source, toks, blamed, phase>>

\* A mutant: the parts stay with the function that made the node.
MakeNodeCopies ==
    LET f == stack[1]
        rest == Len(results) - f.n
    IN  /\ Top("make")
        /\ nodes' = Append(nodes, Node(f.what, f.at, SubSeq(results, rest + 1, Len(results))))
        /\ results' = Append(results, Len(nodes) + 1)
        /\ stack' = Tail(stack)
        /\ UNCHANGED <<source, toks, blamed, phase>>

\* std::make_unique of a node from what the calls before have returned
MakeNode ==
    /\ Top("make")
    /\ Made(stack[1].what, stack[1].at, stack[1].n)
    /\ stack' = Tail(stack)
    /\ UNCHANGED <<source, toks, blamed, phase>>

\* getPrecedence
Precedence(t) ==
    CASE t \in {"*", "/"} -> 5
      [] t \in {"%", "+", "-"} -> 4
      [] t \in {"<", "<=", ">", ">="} -> 3
      [] t \in {"==", "!="} -> 2
      [] t = "&&" -> 1
      [] t = "||" -> 0
      [] OTHER -> -1

-----------------------------------------------------------------------------
Init ==
    /\ source \in Sources
    /\ \E t \in Coming(source, 0) : toks = <<t>>
    /\ stack = <<Do(source.start)>>
    /\ nodes = <<>> /\ results = <<>>
    /\ blamed = 0
    /\ phase = "parse"

\* parseExp
Exp ==
    /\ Top("exp")
    /\ Become(<<Do("primary"), Do("remaining")>>)
    /\ UNCHANGED toks

\* parsePrimaryExp, by the token it fetches
PrimaryLiteral ==
    /\ Top("primary")
    /\ Current = "num"
    /\ Fetch(TRUE, <<Make("literal", pos, 0)>>)

PrimaryId ==
    /\ Top("primary")
    /\ Current = "id"
    /\ Fetch(TRUE, <<At("id", pos)>>)

IdIndex ==
    /\ Top("id")
    /\ Current = "["
    /\ Fetch(TRUE, <<Do("exp"), Skip("]"), Make("access", stack[1].at, 1)>>)

IdCall ==
    /\ Top("id")
    /\ Current = "("
    /\ Become(<<At("args", stack[1].at)>>)
    /\ UNCHANGED toks

IdVariable ==
    /\ Top("id")
    /\ Current \notin {"[", "("}
    /\ Become(<<Make("var", stack[1].at, 0)>>)
    /\ UNCHANGED toks

PrimaryConversion ==
    /\ Top("primary")
    /\ Current = "type"
    /\ Fetch(TRUE, <<At("args", pos)>>)

\* The parenthesis has been fetched, and is then skipped again.
PrimaryParen ==
    /\ Top("primary")
    /\ Current = "("
    /\ Fetch(TRUE, <<Skip("("), Do("exp"), Skip(")")>>)

PrimaryMinus ==
    /\ Top("primary")
    /\ Current = "-"
    /\ Fetch(TRUE, <<Do("primary"), Make("call", pos, 1)>>)

PrimaryUnexpected ==
    /\ Top("primary")
    /\ Current \notin {"num", "id", "type", "(", "-"}
    /\ Advance
    /\ Reject

\* parseArgs, and the CallExp its caller makes
Args ==
    /\ Top("args")
    /\ Become(<<Skip("("), At("firstarg", stack[1].at)>>)
    /\ UNCHANGED toks

ArgsFirst ==
    LET at == stack[1].at
    IN  /\ Top("firstarg")
        /\ Become(IF Current = ")" THEN <<Skip(")"), Make("call", at, 0)>>
                  ELSE <<Do("exp"), With("morearg", at, 1)>>)
        /\ UNCHANGED toks

ArgsMore ==
    LET f == stack[1]
    IN  /\ Top("morearg")
        /\ IF Current = ","
             THEN Fetch(TRUE, <<Do("exp"), With("morearg", f.at, f.n + 1)>>)
             ELSE Become(<<Skip(")"), Make("call", f.at, f.n)>>) /\ UNCHANGED toks

\* parseRemainingExp: the loop's test, its operator, and what follows the
\* operand on the right.  leftExp is the last result.
RemainingEnd ==
    /\ Top("remaining")
    /\ stack[1].n > Precedence(Current)
    /\ Become(<<>>)
    /\ UNCHANGED toks

RemainingOperator ==
    /\ Top("remaining")
    /\ stack[1].n <= Precedence(Current)
    /\ Fetch(TRUE, <<Do("primary"), With("right", pos, Precedence(Current)), stack[1]>>)

\* A mutant: an operator of the same precedence claims the operand on the right.
RightHigherOrSame ==
    LET f == stack[1]
    IN  /\ Top("right")
        /\ Become((IF Precedence(Current) >= f.n THEN <<With("remaining", 0, f.n)>> ELSE <<>>)
                  \o <<Make("call", f.at, 2)>>)
        /\ UNCHANGED toks

RightHigher ==
    LET f == stack[1]
    IN  /\ Top("right")
        /\ Become((IF Precedence(Current) > f.n THEN <<With("remaining", 0, f.n + 1)>> ELSE <<>>)
                  \o <<Make("call", f.at, 2)>>)
        /\ UNCHANGED toks

\* The call that is parsed from the source returns.
End ==
    /\ phase = "parse"
    /\ stack = <<>>
    /\ phase' = "done"
    /\ UNCHANGED <<source, toks, stack, nodes, results, blamed>>

ExpStep ==
    \/ Exp \/ PrimaryLiteral \/ PrimaryId \/ IdIndex \/ IdCall \/ IdVariable
    \/ PrimaryConversion \/ PrimaryParen \/ PrimaryMinus \/ PrimaryUnexpected
    \/ Args \/ ArgsFirst \/ ArgsMore \/ RemainingEnd \/ RemainingOperator
    \/ RightHigher \/ SkipToken \/ MakeNode \/ End

-----------------------------------------------------------------------------
(* Expressions as trees, defined on the tokens without the parser. *)

\* The tree of the expression in tokens i to j: the infix operator outside all
\* brackets that binds least, the last of several, is its root.
TreeOf(i, j) ==
    LET due == Scan(Written, source.start, toks)
        depth == [k \in 0 .. pos |-> Len(SelectSeq(due[k], LAMBDA x : x \in {")", "]", "close"}))]
        tree[a \in 1 .. pos, b \in 1 .. pos] ==
          LET infix == {k \in a + 1 .. b - 1 :
                           /\ toks[k] \in Operators
                           /\ toks[k - 1] \in {"num", "id", ")", "]"}
                           /\ depth[k] = depth[a - 1]}
              loosest == {k \in infix :
                             \A x \in infix : Precedence(toks[k]) <= Precedence(toks[x])}
              root == Max(loosest)
              commas == {k \in a + 2 .. b : toks[k] = "," /\ depth[k] = depth[a + 1]}
              args == SetToSortSeq(commas \cup {a + 1, b}, <)
          IN  CASE infix # {} -> Node("call", root, <<tree[a, root - 1], tree[root + 1, b]>>)
                [] infix = {} /\ a = b -> Node(IF toks[a] = "num" THEN "literal" ELSE "var", a, <<>>)
                [] infix = {} /\ a # b /\ toks[a] = "-" -> Node("call", a, <<tree[a + 1, b]>>)
                [] infix = {} /\ toks[a] = "(" -> tree[a + 2, b - 1]
                [] infix = {} /\ a # b /\ toks[a] \in {"id", "type"} ->
                     IF toks[a + 1] = "[" THEN Node("access", a, <<tree[a + 2, b - 1]>>)
                     ELSE Node("call", a, IF b = a + 2 THEN <<>>
                                          ELSE [n \in 1 .. Len(args) - 1 |->
                                                   tree[args[n] + 1, args[n + 1] - 1]])
    IN  tree[i, j]

\* The tree under a node of the table.
TreeAt(i) ==
    LET tree[n \in DOMAIN nodes] ==
            [nodes[n] EXCEPT !.kids = [k \in DOMAIN @ |-> tree[@[k]]]]
    IN  tree[i]

\* The tree of a parsed expression follows the precedences, with operators of
\* the same precedence from left to right, brackets and prefix minus first.
TreesFollowPrecedence ==
    phase = "done" /\ source.start = "exp" => TreeAt(results[1]) = TreeOf(1, pos - 1)

=============================================================================
