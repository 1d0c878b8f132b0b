------------------------------- MODULE Linking -------------------------------
(***************************************************************************)
(* How variable references of one function are linked to declarations by   *)
(* the typechecker (Typechecker.cpp, Scope.h) and how the code generator   *)
(* follows the links (Codegen.cpp), "without any knowledge of scoping      *)
(* rules".                                                                 *)
(*                                                                         *)
(* Both are visitors of the same syntax tree, one after the other.  The    *)
(* tree is made up while the typechecker walks it: a node is a hole until  *)
(* it is visited, and the visit picks any form.  The code generator then   *)
(* walks the finished tree, in its own order.  The call stack of either    *)
(* walk is the variable stack.                                             *)
(***************************************************************************)
EXTENDS Integers, Sequences, FiniteSets, SequencesExt

CONSTANTS
    Names,      \* identifiers
    Types,      \* the types the program uses
    RetType,    \* the function's return type
    Forms,      \* the forms of nodes the program uses
    MaxParams,  \* bound: parameters of the function
    MaxNodes    \* bound: nodes, apart from parameters, literals and empty blocks

AllTypes == {"bool", "int", "float"}
AllForms == {"var", "access", "callexp", "call", "decl", "arraydecl", "assign",
             "arrayassign", "return", "seq", "if", "while", "for"}

ASSUME TypesAssumption == "int" \in Types /\ Types \subseteq AllTypes
ASSUME RetTypeAssumption == RetType \in Types
ASSUME FormsAssumption == Forms \subseteq AllForms
ASSUME BoundsAssumption == MaxParams \in Nat /\ MaxNodes \in Nat

VARIABLES
    tree,       \* the nodes of the syntax tree, in the order they were made
    fuel,       \* nodes the tree may still have
    phase,      \* "check", "gen"; "done", "rejected" (TypeError), "asserted"
                \* (a failed assertion), "crashed" (a null dyn_cast followed)
    err,        \* why the typechecker rejected the program
    stack,      \* what is left to visit, innermost first
    scopes,     \* the chain of Scope objects, outermost first
    ty,         \* the type of the last expression checked
    link,       \* VarDecl pointers of variable uses: use -> declaration
    symbols,    \* the keys of the code generator's m_symbols
    region,     \* the branches and loop bodies the builder is inside
    home        \* the region in which a variable's alloca was emitted

vars == <<tree, fuel, phase, err, stack, scopes, ty, link, symbols, region, home>>

Body == 1
Nodes == DOMAIN tree

Node(form, name, t) == [form |-> form, name |-> name, ty |-> t, kids |-> <<>>]
Hole == Node("hole", "", "int")

\* Arrays and scalars, parameters and locals.
ArrayForms == {"arraydecl", "arrayparam"}
ParamForms == {"param", "arrayparam"}
DeclForms == {"decl", "arraydecl"}
IsArray(d) == tree[d].form \in ArrayForms
IsParam(d) == tree[d].form \in ParamForms

-----------------------------------------------------------------------------
(* Scopes. *)

\* Scope::Find: the innermost scope that has the name, 0 for nullptr.
\* (A mutant: the outermost one.)
FindInOuter(chain, name) ==
    LET has == {i \in DOMAIN chain : name \in DOMAIN chain[i]}
    IN  IF has = {} THEN 0
        ELSE chain[CHOOSE i \in has : \A j \in has : i <= j][name]

FindIn(chain, name) ==
    LET has == {i \in DOMAIN chain : name \in DOMAIN chain[i]}
    IN  IF has = {} THEN 0
        ELSE chain[CHOOSE i \in has : \A j \in has : j <= i][name]

Find(name) == FindIn(scopes, name)

\* A mutant: names of outer scopes are taken.
BindableAnywhere(name) == Find(name) = 0

\* Scope::Insert succeeds when the innermost scope does not have the name.
Bindable(name) == name \notin DOMAIN scopes[Len(scopes)]
WithBinding(name, d) ==
    [scopes EXCEPT ![Len(scopes)] =
        [m \in DOMAIN @ \cup {name} |-> IF m = name THEN d ELSE @[m]]]

-----------------------------------------------------------------------------
(* Walks. *)

\* n: the node; want: the types the visitor accepts; d: a declaration it found.
Frame(k, n, want, d) == [k |-> k, n |-> n, want |-> want, d |-> d]
Stmt(n) == Frame("stmt", n, {}, 0)
Exp(n, want) == Frame("exp", n, want, 0)
Do(k, n) == Frame(k, n, {}, 0)

Top(p, k) == phase = p /\ stack # <<>> /\ stack[1].k = k
Here == stack[1].n
Become(fs) == stack' = fs \o Tail(stack)

\* throw TypeError
Reject(why) ==
    /\ phase' = "rejected"
    /\ err' = why
    /\ UNCHANGED <<stack, scopes, ty>>

\* The node under visit gets its form, and m holes to visit next.
Kid(i) == Len(tree) + i
Fill(form, name, t, m) ==
    /\ form \in Forms
    /\ fuel > 0
    /\ fuel' = fuel - 1
    /\ tree' = [tree EXCEPT ![Here] = [Node(form, name, t) EXCEPT
                                          !.kids = [i \in 1 .. m |-> Kid(i)]]]
               \o [i \in 1 .. m |-> Hole]

genVars == <<symbols, region, home>>
treeVars == <<tree, fuel>>

\* An expression of type t is done; the visitor that asked for it compares.
Yield(t, want) ==
    IF t \in want
      THEN /\ ty' = t
           /\ Become(<<>>)
           /\ UNCHANGED <<phase, err, scopes>>
      ELSE Reject("type")

\* Visits that push what is next and do nothing else.
Push(fs) == Become(fs) /\ UNCHANGED <<phase, err, scopes, ty>>

NoLinks == [u \in {} |-> 0]
Linked(u, d) == [v \in DOMAIN link \cup {u} |-> IF v = u THEN d ELSE link[v]]

-----------------------------------------------------------------------------
(* The function: its parameters, then its body, a block of its own. *)

Init ==
    /\ tree = <<Node("seq", "", "int")>>
    /\ fuel = MaxNodes
    /\ phase = "check"
    /\ err = "none"
    /\ stack = <<Do("params", Body), Do("open", Body), Do("seq", Body),
                 Do("close", Body)>>
    /\ scopes = <<NoLinks>>
    /\ ty = "int"
    /\ link = NoLinks
    /\ symbols = {}
    /\ region = <<>>
    /\ home = NoLinks

BindParam ==
    /\ Top("check", "params")
    /\ Len(tree) <= MaxParams
    /\ \E name \in Names, t \in Types, form \in ParamForms :
          /\ tree' = Append(tree, Node(form, name, t))
          /\ IF Bindable(name)
               THEN /\ scopes' = WithBinding(name, Len(tree) + 1)
                    /\ UNCHANGED <<phase, err, stack, ty>>
               ELSE Reject("redeclared")
    /\ UNCHANGED <<fuel, link, genVars>>

ParamsEnd ==
    /\ Top("check", "params")
    /\ Push(<<>>)
    /\ UNCHANGED <<treeVars, link, genVars>>

\* A Scope on the C++ stack, and m_scope restored to its parent.
OpenScope ==
    /\ Top("check", "open")
    /\ scopes' = Append(scopes, NoLinks)
    /\ Become(<<>>)
    /\ UNCHANGED <<treeVars, phase, err, ty, link, genVars>>

\* A mutant: m_scope stays.
CloseScopeStays ==
    /\ Top("check", "close")
    /\ Become(<<>>)
    /\ UNCHANGED <<treeVars, phase, err, scopes, ty, link, genVars>>

CloseScope ==
    /\ Top("check", "close")
    /\ scopes' = Front(scopes)
    /\ Become(<<>>)
    /\ UNCHANGED <<treeVars, phase, err, ty, link, genVars>>

\* The code generator starts with the parameters in its symbol table.
CheckEnd ==
    /\ phase = "check"
    /\ stack = <<>>
    /\ phase' = "gen"
    /\ stack' = <<Do("seq", Body)>>
    /\ scopes' = <<>>
    /\ symbols' = {d \in Nodes : IsParam(d)}
    /\ home' = [d \in symbols' |-> <<>>]
    /\ UNCHANGED <<treeVars, err, ty, link, region>>

-----------------------------------------------------------------------------
(* Typechecking expressions. *)

CheckLiteral ==
    /\ Top("check", "exp")
    /\ \E t \in Types :
          /\ tree' = [tree EXCEPT ![Here] = Node("lit", "", t)]
          /\ Yield(t, stack[1].want)
    /\ UNCHANGED <<fuel, link, genVars>>

CheckVarExp ==
    /\ Top("check", "exp")
    /\ \E name \in Names :
          LET d == Find(name)
          IN  /\ Fill("var", name, "int", 0)
              /\ IF d = 0 THEN Reject("undefined") /\ UNCHANGED link
                 ELSE Yield(tree[d].ty, stack[1].want) /\ link' = Linked(Here, d)
    /\ UNCHANGED genVars

CheckArrayAccessExp ==
    /\ Top("check", "exp")
    /\ \E name \in Names :
          LET d == Find(name)
          IN  /\ Fill("access", name, "int", 1)
              /\ IF d = 0 \/ ~IsArray(d) THEN Reject("undefined")
                 ELSE Push(<<Exp(Kid(1), {"int"}),
                             Frame("access", Here, stack[1].want, d)>>)
    /\ UNCHANGED <<link, genVars>>

ArrayAccessEnd ==
    /\ Top("check", "access")
    /\ Yield(tree[stack[1].d].ty, stack[1].want)
    /\ link' = Linked(Here, stack[1].d)
    /\ UNCHANGED <<treeVars, genVars>>

\* A call of one argument.  Which overload the call finds, if any, is left open.
CheckCallExp ==
    /\ Top("check", "exp")
    /\ Fill("callexp", "", "int", 1)
    /\ Push(<<Exp(Kid(1), Types), Frame("call", Here, stack[1].want, 0)>>)
    /\ UNCHANGED <<link, genVars>>

CallExpEnd ==
    /\ Top("check", "call")
    /\ Reject("nomatch") \/ \E t \in Types : Yield(t, stack[1].want)
    /\ UNCHANGED <<treeVars, link, genVars>>

-----------------------------------------------------------------------------
(* Typechecking statements. *)

CondTypes == {"bool", "int"}

\* The statement and its call are one node.
CheckCallStmt ==
    /\ Top("check", "stmt")
    /\ Fill("call", "", "int", 1)
    /\ Push(<<Exp(Kid(1), Types), Frame("call", Here, Types, 0)>>)
    /\ UNCHANGED <<link, genVars>>

CheckReturnStmt ==
    /\ Top("check", "stmt")
    /\ Fill("return", "", "int", 1)
    /\ Push(<<Exp(Kid(1), {RetType})>>)
    /\ UNCHANGED <<link, genVars>>

\* The rvalue is checked before the variable is looked up.
CheckAssignStmt ==
    /\ Top("check", "stmt")
    /\ \E name \in Names : Fill("assign", name, "int", 1)
    /\ Push(<<Exp(Kid(1), Types), Do("assign", Here)>>)
    /\ UNCHANGED <<link, genVars>>

AssignStmtEnd ==
    LET d == Find(tree[Here].name)
    IN  /\ Top("check", "assign")
        /\ IF d = 0 THEN Reject("undefined") /\ UNCHANGED link
           ELSE IF tree[d].ty # ty THEN Reject("type") /\ UNCHANGED link
           ELSE IF IsParam(d) THEN Reject("param") /\ UNCHANGED link
           ELSE Push(<<>>) /\ link' = Linked(Here, d)
        /\ UNCHANGED <<treeVars, genVars>>

\* Here the variable is looked up first, then index and rvalue are checked.
CheckArrayAssignStmt ==
    /\ Top("check", "stmt")
    /\ \E name \in Names :
          LET d == Find(name)
          IN  /\ Fill("arrayassign", name, "int", 2)
              /\ IF d = 0 \/ ~IsArray(d) THEN Reject("undefined")
                 ELSE Push(<<Exp(Kid(1), {"int"}), Exp(Kid(2), {tree[d].ty}),
                             Frame("arrayassign", Here, {}, d)>>)
    /\ UNCHANGED <<link, genVars>>

ArrayAssignStmtEnd ==
    /\ Top("check", "arrayassign")
    /\ Push(<<>>)
    /\ link' = Linked(Here, stack[1].d)
    /\ UNCHANGED <<treeVars, genVars>>

\* The size of an array is the first part, the initializer the last.
CheckDeclStmt ==
    /\ Top("check", "stmt")
    /\ \E name \in Names, t \in Types, form \in DeclForms, init \in {0, 1} :
          LET size == IF form = "arraydecl" THEN 1 ELSE 0
          IN  /\ Fill(form, name, t, size + init)
              /\ Push([i \in 1 .. size |-> Exp(Kid(1), {"int"})]
                         \o <<Do("insert", Here)>>
                         \o [i \in 1 .. init |-> Exp(Kid(size + 1), {t})])
    /\ UNCHANGED <<link, genVars>>

InsertDecl ==
    LET name == tree[Here].name
    IN  /\ Top("check", "insert")
        /\ IF Bindable(name)
             THEN /\ scopes' = WithBinding(name, Here)
                  /\ Become(<<>>)
                  /\ UNCHANGED <<phase, err, ty>>
             ELSE Reject("redeclared")
        /\ UNCHANGED <<treeVars, link, genVars>>

\* A block costs no fuel when none is left: it is then empty.
CheckSeqStmt ==
    /\ Top("check", "stmt")
    /\ fuel' = IF fuel = 0 THEN 0 ELSE fuel - 1
    /\ tree' = [tree EXCEPT ![Here] = Node("seq", "", "int")]
    /\ Push(<<Do("open", Here), Do("seq", Here), Do("close", Here)>>)
    /\ UNCHANGED <<link, genVars>>

SeqNext ==
    /\ Top("check", "seq")
    /\ fuel > 0
    /\ tree' = Append([tree EXCEPT ![Here].kids = Append(@, Kid(1))], Hole)
    /\ Push(<<Stmt(Kid(1)), stack[1]>>)
    /\ UNCHANGED <<fuel, link, genVars>>

SeqEnd ==
    /\ Top("check", "seq")
    /\ Push(<<>>)
    /\ UNCHANGED <<treeVars, link, genVars>>

\* No scope of their own for the branches.
CheckIfStmt ==
    /\ Top("check", "stmt")
    /\ \E n \in {1, 2} :
          /\ Fill("if", "", "int", 1 + n)
          /\ Push(<<Exp(Kid(1), CondTypes)>> \o [i \in 1 .. n |-> Stmt(Kid(1 + i))])
    /\ UNCHANGED <<link, genVars>>

CheckWhileStmt ==
    /\ Top("check", "stmt")
    /\ Fill("while", "", "int", 2)
    /\ Push(<<Exp(Kid(1), CondTypes), Stmt(Kid(2))>>)
    /\ UNCHANGED <<link, genVars>>

\* In source order: initialisation, condition, update, body.
CheckForStmt ==
    /\ Top("check", "stmt")
    /\ Fill("for", "", "int", 4)
    /\ Push(<<Do("open", Here), Stmt(Kid(1)), Exp(Kid(2), Types), Stmt(Kid(3)),
              Stmt(Kid(4)), Do("close", Here)>>)
    /\ UNCHANGED <<link, genVars>>

-----------------------------------------------------------------------------
(* Generating code. *)

checkVars == <<tree, fuel, err, scopes, ty, link>>

At(form) == phase = "gen" /\ stack # <<>> /\ stack[1].k \in {"stmt", "exp"}
            /\ tree[Here].form = form
Part(i) == tree[Here].kids[i]
Visit(i) == Do("exp", Part(i))

Goto(fs) == Become(fs) /\ UNCHANGED <<phase, genVars>>

\* assert(it != m_symbols->end())
Fail(how) == phase' = how /\ UNCHANGED <<stack, genVars>>

GenSeq ==
    /\ Top("gen", "seq") \/ At("seq")
    /\ Goto([i \in DOMAIN tree[Here].kids |-> Stmt(Part(i))])
    /\ UNCHANGED checkVars

GenSimple ==
    /\ \E form \in {"lit", "callexp", "call", "return"} : At(form)
    /\ Goto([i \in DOMAIN tree[Here].kids |-> Visit(i)])
    /\ UNCHANGED checkVars

GenVarExp ==
    /\ At("var")
    /\ IF link[Here] \in symbols THEN Goto(<<>>) ELSE Fail("asserted")
    /\ UNCHANGED checkVars

\* dyn_cast<AllocaInst> of a parameter is null, and the next line follows it.
GenArrayAccessExp ==
    /\ At("access")
    /\ IF link[Here] \notin symbols THEN Fail("asserted")
       ELSE IF IsParam(link[Here]) THEN Fail("crashed")
       ELSE Goto(<<Visit(1)>>)
    /\ UNCHANGED checkVars

GenAssignStmt ==
    /\ At("assign")
    /\ IF link[Here] \in symbols /\ ~IsParam(link[Here])
         THEN Goto(<<Visit(1)>>)
         ELSE Fail("asserted")
    /\ UNCHANGED checkVars

\* Here the null pointer is followed only after rvalue and index.
GenArrayAssignStmt ==
    /\ At("arrayassign")
    /\ IF link[Here] \notin symbols THEN Fail("asserted")
       ELSE Goto(<<Visit(2), Visit(1), Do("element", Here)>>)
    /\ UNCHANGED checkVars

GenElement ==
    /\ Top("gen", "element")
    /\ IF IsParam(link[Here]) THEN Fail("crashed") ELSE Goto(<<>>)
    /\ UNCHANGED checkVars

Allocated(d, r) ==
    /\ symbols' = symbols \cup {d}
    /\ home' = [x \in symbols' |-> IF x = d THEN r ELSE home[x]]
    /\ UNCHANGED <<phase, region>>

\* A mutant: the variable gets its alloca and its symbol after the initializer.
GenDeclStmtLate ==
    /\ At("decl")
    /\ Goto([i \in DOMAIN tree[Here].kids |-> Visit(i)] \o <<Do("alloca", Here)>>)
    /\ UNCHANGED checkVars

\* A mutant: the alloca stays where the builder is.
GenDeclStmtHere ==
    /\ At("decl")
    /\ Allocated(Here, region)
    /\ Become([i \in DOMAIN tree[Here].kids |-> Visit(i)])
    /\ UNCHANGED checkVars

\* A scalar's alloca goes to the entry block.
GenDeclStmt ==
    /\ At("decl")
    /\ Allocated(Here, <<>>)
    /\ Become([i \in DOMAIN tree[Here].kids |-> Visit(i)])
    /\ UNCHANGED checkVars

\* An array's stays where the builder is; an initializer is ignored.
GenDeclArray ==
    /\ At("arraydecl")
    /\ Goto(<<Visit(1), Do("alloca", Here)>>)
    /\ UNCHANGED checkVars

GenAlloca ==
    /\ Top("gen", "alloca")
    /\ Allocated(Here, region)
    /\ Become(<<>>)
    /\ UNCHANGED checkVars

\* Branches and loop bodies may not be executed: they are regions.
Within(i, fs) == <<Frame("enter", Here, {}, i)>> \o fs \o <<Do("leave", Here)>>

EnterRegion ==
    /\ Top("gen", "enter")
    /\ region' = Append(region, <<Here, stack[1].d>>)
    /\ Become(<<>>)
    /\ UNCHANGED <<checkVars, phase, symbols, home>>

LeaveRegion ==
    /\ Top("gen", "leave")
    /\ region' = Front(region)
    /\ Become(<<>>)
    /\ UNCHANGED <<checkVars, phase, symbols, home>>

GenIfStmt ==
    /\ At("if")
    /\ Goto(<<Visit(1)>> \o Within(2, <<Stmt(Part(2))>>) \o
            (IF Len(tree[Here].kids) = 3 THEN Within(3, <<Stmt(Part(3))>>) ELSE <<>>))
    /\ UNCHANGED checkVars

GenWhileStmt ==
    /\ At("while")
    /\ Goto(<<Visit(1)>> \o Within(2, <<Stmt(Part(2))>>))
    /\ UNCHANGED checkVars

\* The body is generated before the update.
GenForStmt ==
    /\ At("for")
    /\ Goto(<<Stmt(Part(1)), Visit(2)>> \o Within(4, <<Stmt(Part(4)), Stmt(Part(3))>>))
    /\ UNCHANGED checkVars

GenEnd ==
    /\ phase = "gen"
    /\ stack = <<>>
    /\ phase' = "done"
    /\ UNCHANGED <<checkVars, stack, genVars>>

-----------------------------------------------------------------------------
CheckStep ==
    \/ BindParam \/ ParamsEnd \/ OpenScope \/ CloseScope \/ CheckEnd
    \/ CheckLiteral \/ CheckVarExp \/ CheckArrayAccessExp \/ ArrayAccessEnd
    \/ CheckCallExp \/ CallExpEnd \/ CheckCallStmt \/ CheckReturnStmt
    \/ CheckAssignStmt \/ AssignStmtEnd
    \/ CheckArrayAssignStmt \/ ArrayAssignStmtEnd
    \/ CheckDeclStmt \/ InsertDecl \/ CheckSeqStmt \/ SeqNext \/ SeqEnd
    \/ CheckIfStmt \/ CheckWhileStmt \/ CheckForStmt

GenStep ==
    \/ GenSeq \/ GenSimple \/ GenVarExp \/ GenArrayAccessExp
    \/ GenAssignStmt \/ GenArrayAssignStmt \/ GenElement
    \/ GenDeclStmt \/ GenDeclArray \/ GenAlloca
    \/ EnterRegion \/ LeaveRegion \/ GenIfStmt \/ GenWhileStmt \/ GenForStmt
    \/ GenEnd

Next == CheckStep \/ GenStep

Spec == Init /\ [][Next]_vars

-----------------------------------------------------------------------------
(* Lexical scoping, defined on the tree. *)

Parent(n) == CHOOSE m \in Nodes : n \in Range(tree[m].kids)
Index(n) == CHOOSE i \in DOMAIN tree[Parent(n)].kids : tree[Parent(n)].kids[i] = n

\* The way from the body to a node.
Paths ==
    LET path[n \in Nodes] ==
            IF n = Body \/ IsParam(n) THEN <<>> ELSE Append(path[Parent(n)], Index(n))
    IN  path

\* Parents of unbraced declarations hold them in the scope around.
Scoping == {n \in Nodes : tree[n].form \in {"seq", "for"}}

\* Declaration d is visible at node u: it is a parameter, or its scope is
\* around u and it comes before u in the source.  A declaration that is around
\* u comes before its initializer, not before the size of its array.
VisibleAt(d, u, path) ==
    \/ IsParam(d)
    \/ LET p == path[d]
           q == path[u]
           common == LongestCommonPrefix({p, q})
           c == Len(common)
           outer == CHOOSE o \in Scoping :
                        /\ IsStrictPrefix(path[o], p)
                        /\ \A x \in Scoping : IsStrictPrefix(path[x], p)
                                => Len(path[x]) <= Len(path[o])
       IN  /\ IsPrefix(path[outer], q)
           /\ IF c = Len(p)
                THEN c < Len(q) /\ (tree[d].form = "arraydecl" => q[c + 1] # 1)
                ELSE c < Len(q) /\ p[c + 1] < q[c + 1]

\* How deep the scope of a declaration is; parameters have the outermost.
Depth(d, path) ==
    IF IsParam(d) THEN 0
    ELSE 1 + Cardinality({x \in Scoping : IsStrictPrefix(path[x], path[d])})

\* The declarations that name may mean at u, and the one it means.
Meanings(name, u, path) ==
    {d \in Nodes : /\ tree[d].form \in DeclForms \cup ParamForms
                   /\ tree[d].name = name
                   /\ VisibleAt(d, u, path)}
Innermost(ds, path) ==
    {d \in ds : \A x \in ds : Depth(x, path) <= Depth(d, path)}

-----------------------------------------------------------------------------
(* Properties. *)

Uses == {u \in Nodes : tree[u].form \in {"var", "access", "assign", "arrayassign"}}

\* The type invariant; in particular the chain of scopes is as long as there
\* are scopes to close.
TypeOK ==
    /\ \A n \in Nodes : /\ tree[n].form \in AllForms \cup ParamForms \cup {"hole", "lit"}
                        /\ tree[n].ty \in Types
                        /\ Range(tree[n].kids) \subseteq n + 1 .. Len(tree)
    /\ fuel \in 0 .. MaxNodes
    /\ phase \in {"check", "gen", "done", "rejected", "asserted", "crashed"}
    /\ err \in {"none", "undefined", "redeclared", "type", "param", "nomatch"}
    /\ \A i \in DOMAIN stack : stack[i].n \in Nodes /\ stack[i].want \subseteq AllTypes
    /\ phase = "check" =>
          Len(scopes) = 1 + Cardinality({i \in DOMAIN stack : stack[i].k = "close"})
                          - Cardinality({i \in DOMAIN stack : stack[i].k = "open"})
    /\ ty \in Types
    /\ DOMAIN link \subseteq Uses /\ Range(link) \subseteq Nodes
    /\ DOMAIN home = symbols

\* The chain of Scope objects implements lexical scoping: when a function is
\* accepted, every use is linked to the declaration its name means in the tree.
LinksAreLexical ==
    phase = "gen" /\ stack = <<Do("seq", Body)>> =>
        LET path == Paths
        IN  \A u \in Uses :
              {link[u]} = Innermost(Meanings(tree[u].name, u, path), path)

\* And it reports names only when it must: an undefined one has no meaning (or
\* means no array, where an array is needed), a redeclared one is twice in a scope.
RejectionsAreLexical ==
    phase = "rejected" /\ err \in {"undefined", "redeclared"} =>
        LET path == Paths
            means == Meanings(tree[Here].name, Here, path)
        IN  IF err = "undefined"
              THEN \A d \in Innermost(means, path) :
                       tree[Here].form \in {"access", "arrayassign"} /\ ~IsArray(d)
              ELSE \/ stack[1].k = "params"
                   \/ \E d \in means : Depth(d, path) = Depth(Here, path)

\* Of its look-ups, the generator stops half-way at two kinds only (the exception
\* for array sizes is in CodegenBlocks).  A linked declaration is in
\* the symbol table when its use is generated, save for one made by the update
\* part of a for statement and used in its body; and the symbol of an array is
\* an alloca, save for an array parameter (Codegen.cpp:192, 467).
Below(n, m, path) == IsPrefix(path[m], path[n])
StopsOnlyInKnownCases ==
    /\ phase = "asserted" =>
          LET path == Paths
          IN  \E f \in Nodes :
                /\ tree[f].form = "for"
                /\ Below(link[Here], tree[f].kids[3], path)
                /\ Below(Here, tree[f].kids[4], path)
    /\ phase = "crashed" => tree[link[Here]].form = "arrayparam"

\* The alloca of a variable in use was executed before, save for an array that
\* is declared as the whole branch of an if or the whole body of a loop.
InUse ==
    IF phase = "gen" /\ stack # <<>> /\ Here \in Uses THEN {link[Here]} \cap symbols
    ELSE {}
Dominated(d) == IsPrefix(home[d], region)
UndominatedOnlyUnbraced ==
    \A d \in InUse : ~Dominated(d) =>
        tree[d].form = "arraydecl" /\ tree[Parent(d)].form \in {"if", "while"}

(* What the code's own assertions say. *)

\* The assertions that look-ups find a symbol (Codegen.cpp:189, 224, 469, 516) never
\* fail.
LookupsSucceed == phase # "asserted"

\* The module verifies (main.cpp): allocas dominate their uses.
AllocasDominate == \A d \in InUse : Dominated(d)

=============================================================================
