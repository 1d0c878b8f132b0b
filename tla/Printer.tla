-------------------------------- MODULE Printer --------------------------------
(***************************************************************************)
(* The dump of a program, as Printer.cpp prints it when it has been        *)
(* parsed: lines with an indentation, of what they say and of which token, *)
(* number or flag they say it.  The annotations of the typechecker are     *)
(* left out.                                                               *)
(***************************************************************************)
EXTENDS ParseStmt

Line(says, of) == [in |-> 0, says |-> says, of |-> of]
Deeper(by, lines) == [n \in DOMAIN lines |-> [lines[n] EXCEPT !.in = @ + by]]

\* A mutant: the printer of a part starts where the label is.
UnderFlat(label, lines) == <<Line(label, 0)>> \o lines

\* A label, and the part it announces.
Under(label, lines) == <<Line(label, 0)>> \o Deeper(1, lines)

\* Each part after its label.
Labelled(parts, labels, outline) ==
    FlattenSeq([k \in DOMAIN parts |-> Under(labels[k], outline[parts[k]])])

\* ASTExpPrinter
ExpOutlines ==
    LET outline[i \in {i \in DOMAIN nodes : nodes[i].kind \in {"literal", "var", "access", "call"}}] ==
          LET n == nodes[i]
          IN  CASE n.kind \in {"literal", "var"} -> <<Line(n.kind, n.at)>>
                [] n.kind = "access" ->
                     <<Line("access", 0), Line("name", n.at)>> \o Labelled(n.kids, <<"index">>, outline)
                [] n.kind = "call" ->
                     <<Line("call", 0), Line("name", n.at)>>
                     \o (IF n.kids = <<>> THEN <<>> ELSE <<Line("arguments", 0)>>)
                     \o FlattenSeq([k \in DOMAIN n.kids |->
                                       <<Line("arg", k - 1)>> \o Deeper(2, outline[n.kids[k]])])
    IN  outline

\* printAST of a function: its name, its parameters, and its body
FuncLines(n, outline) ==
    <<Line("func", 0), Line("name", n.at)>>
    \o FlattenSeq([k \in 1 .. Len(n.kids) - 1 |-> Deeper(1, outline[n.kids[k]])])
    \o Under("body", outline[Last(n.kids)])

\* ASTStmtPrinter
Outlines ==
    LET exps == ExpOutlines
        outline[i \in DOMAIN nodes] ==
          LET n == nodes[i]
              labelled(labels) == Labelled(n.kids, labels, outline)
          IN  CASE i \in DOMAIN exps -> exps[i]
                [] n.kind = "arrayassign" ->
                     <<Line(n.kind, 0), Line("name", n.at)>> \o labelled(<<"index", "value">>)
                [] n.kind = "callstmt" -> <<Line(n.kind, 0)>> \o labelled(<<"expression">>)
                [] n.kind = "assign" ->
                     <<Line(n.kind, 0), Line("name", n.at)>> \o labelled(<<"value">>)
                [] n.kind = "decl" ->
                     LET var == nodes[n.kids[1]]
                     IN  <<Line("decl", 0), Line("type", n.at), Line("name", var.at)>>
                         \o Labelled(var.kids, <<"array_size">>, outline)
                         \o Labelled(Tail(n.kids), <<"initializer">>, outline)
                [] n.kind = "return" -> <<Line(n.kind, 0)>> \o labelled(<<"expression">>)
                [] n.kind = "seq" ->
                     <<Line(n.kind, 0)>> \o labelled([k \in DOMAIN n.kids |-> "stmt"])
                [] n.kind = "if" -> <<Line(n.kind, 0)>> \o labelled(<<"condition", "then", "else">>)
                [] n.kind = "while" -> <<Line(n.kind, 0)>> \o labelled(<<"condition", "body">>)
                [] n.kind = "for" ->
                     <<Line(n.kind, 0)>> \o labelled(<<"init", "condition", "update", "body">>)
                [] n.kind = "vardecl" -> <<Line("param", n.at), Line("array", Len(n.kids))>>
                [] n.kind = "func" -> FuncLines(n, outline)
                [] n.kind = "declaration" -> <<>>
    IN  outline

\* The declarations of GetBuiltins, the first functions of a program; they have no
\* bodies.  The printer has a number of its own for them.
builtins == 55
builtin_num == 55

\* printAST of a program: the functions with a body, each by its number among
\* those of the user, all its lines but the first indented.
Dump ==
    LET function(i) ==
            LET lines == Outlines[program[i]]
            IN  IF lines = <<>> THEN <<>>
                ELSE <<Line("function", builtins + i - 1 - builtin_num), Head(lines)>>
                     \o Deeper(1, Tail(lines))
        bodies == {i \in DOMAIN program : nodes[program[i]].kind = "func"}
    IN  <<Line("total", builtins + Len(program)), Line("user", Cardinality(bodies))>>
        \o FlattenSeq([i \in DOMAIN program |-> function(i)])

-----------------------------------------------------------------------------
(* Reading a dump. *)

Heads == {"literal", "var", "access", "call", "arrayassign", "callstmt", "assign", "decl",
          "return", "seq", "if", "while", "for"}
Labels == {"index", "value", "expression", "arg", "array_size", "initializer", "stmt",
           "condition", "then", "else", "init", "update", "body"}

\* The trees that a dump's lines show: each line that is the head of a node has
\* its parts after the labels that follow at its indentation.
Read(lines) ==
    LET all == DOMAIN lines
        after(m) == {k \in all : k > m}
        end(m) == Min({k \in after(m) : lines[k].in < lines[m].in
                                        \/ (lines[k].in = lines[m].in /\ lines[k].says \in Heads)}
                      \cup {Len(lines) + 1})
        at(m, says) == {k \in after(m) : k < end(m) /\ lines[k].in = lines[m].in
                                         /\ lines[k].says \in says}
        named(m) == IF at(m, {"name"}) = {} THEN lines[m].of ELSE lines[Min(at(m, {"name"}))].of
        tree[m \in all] ==
            LET labels == SetToSortSeq(at(m, Labels), <)
            IN  [shows |-> lines[m].says, at |-> named(m),
                 parts |-> [k \in DOMAIN labels |->
                               [label |-> lines[labels[k]].says, tree |-> tree[labels[k] + 1]]]]
    IN  tree

\* The same view of a node that the parser made.
Shown ==
    LET part(label, tree) == [label |-> label, tree |-> tree]
        shown[i \in DOMAIN nodes] ==
          LET n == nodes[i]
              var == nodes[n.kids[1]]
              label(k) ==
                  CASE n.kind = "access" -> "index"
                    [] n.kind = "call" -> "arg"
                    [] n.kind = "arrayassign" -> IF k = 1 THEN "index" ELSE "value"
                    [] n.kind \in {"callstmt", "return"} -> "expression"
                    [] n.kind = "assign" -> "value"
                    [] n.kind = "seq" -> "stmt"
                    [] n.kind = "if" -> <<"condition", "then", "else">>[k]
                    [] n.kind = "while" -> <<"condition", "body">>[k]
                    [] n.kind = "for" -> <<"init", "condition", "update", "body">>[k]
              size == [k \in DOMAIN var.kids |-> part("array_size", shown[var.kids[k]])]
              init == [k \in 1 .. Len(n.kids) - 1 |-> part("initializer", shown[n.kids[2]])]
              named == CASE n.kind = "decl" -> var.at
                         [] n.kind \in {"literal", "var", "access", "call", "arrayassign", "assign"} -> n.at
                         [] OTHER -> 0
          IN  [shows |-> n.kind, at |-> named,
               parts |-> IF n.kind = "decl" THEN size \o init
                         ELSE [k \in DOMAIN n.kids |-> part(label(k), shown[n.kids[k]])]]
    IN  shown

-----------------------------------------------------------------------------
(* A property. *)

\* The dump shows the tree: the bodies that can be read from its lines are those
\* of the functions with a body, in order and by their numbers, also when the
\* source was rejected later on.  The tree of an expression or statement, too.
DumpShowsTheTree ==
    phase # "parse" =>
        IF source.start = "program"
          THEN LET bodies == SelectSeq(Dump, LAMBDA l : l.says = "body")
                   starts == SetToSortSeq({k \in DOMAIN Dump : Dump[k].says = "function"}, <)
                   funcs == SetToSortSeq({i \in DOMAIN program : nodes[program[i]].kind = "func"}, <)
                   body(k) == Min({m \in DOMAIN Dump : m > k /\ Dump[m].says = "body"}) + 1
               IN  /\ Len(starts) = Len(funcs)
                   /\ \A k \in DOMAIN funcs :
                        /\ Dump[starts[k]].of = funcs[k] - 1
                        /\ Read(Dump)[body(starts[k])] = Shown[Last(nodes[program[funcs[k]]].kids)]
          ELSE phase = "done" => Read(Outlines[results[1]])[1] = Shown[results[1]]

=============================================================================
