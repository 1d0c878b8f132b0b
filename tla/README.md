# TLA+ models of the moj compiler

Specifications, model-checking instances and machine-checked proofs for the
compiler in `src/`: a scanner, parser, typechecker and LLVM code generator for a
small language with `bool`, `int`, `float`, arrays and overloaded functions.
One compilation is sequential. What is hard in it is *recursion over shared mutable
state*: visitors that nest arbitrarily and share one insertion point, two passes that
walk the same tree in different orders and rely on each other's annotations, two
places that decide what a call means, a parser whose functions hand a token stream and
unfinished nodes to each other. Bugs show only in certain nestings of constructs; a
model checker enumerates the nestings. Around it are the files: every run writes
dumps and objects that other runs write too, and can stop at any point.

## The system

| component | source | state | operations | what makes it correct |
|---|---|---|---|---|
| Driver | `main.cpp` | the `Program`, exit status, dumps and object file | read, parse and typecheck builtins, then the file; generate; verify; optimize; emit or run | no phase runs on what an earlier one rejected; status 0 means done; files are whole |
| Scanner | `Scanner.h`, `Token.*` | position in the text | `nextToken` | longest match, nothing left out, positions |
| Token stream | `TokenStream.h` | scanner, one current token | `*`, `++` | one token of lookahead |
| Expression parser | `Parser.cpp` 39-173 | C++ stack | `parseExp`, `parsePrimaryExp`, `parseArgs`, `parseRemainingExp` | trees follow precedence; errors where they are |
| Statement and function parser | `Parser.cpp` 175-396 | C++ stack, the program | `parseStmt`, `parseSeq`, `parseForStmt`, `parseFuncDef`, `ParseProgram` | accepts the language, stops at the first error, keeps what it has parsed |
| Syntax tree | `Exp.h`, `Stmt.h`, ... | types, `VarDecl*` and `FuncDef*` links | setters used by the typechecker | links are set before they are used |
| Scopes | `Scope.h` | a chain of maps on the C++ stack | `Find`, `Insert` | lexical scoping |
| Typechecker | `Typechecker.cpp` | `m_scope`, function table | a visitor per node | a name means its innermost declaration, a call its first match |
| Builtins | `Builtins.h` | 55 declarations | parsed first | each is generated in place by the code generator |
| Code generator | `Codegen.cpp` | insertion point, blocks of the function, `m_symbols`, `m_functions` | a visitor per node | the LLVM module verifies and means what the program says |
| Printer | `Printer.cpp` | none | dumps the tree | the dump shows the tree |
| LLVM | external | module, blocks | builder, verifier, optimizer, JIT | - |

The passes interact through the tree: the typechecker stores types and links in it,
the code generator follows them "without any knowledge of scoping rules"
(`Typechecker.cpp` 31). The failures in a compilation are exceptions (`ParseError`
and `TypeError`, caught in their pass; `std::runtime_error` and `std::out_of_range` out of the code generator
and the scanner, caught nowhere), assertions, and `exit` from inside the driver's
functions. Between compilations only files are shared, with no locks, no temporary
names and no renames. `PROJECT.json` lists the hazards at their lines.

## Modules

* **`CodegenBlocks`**: how one function becomes basic blocks. The C++ call stack is
  the variable `stack`; a frame is a node to visit or the rest of a visitor that
  waits for a recursive call, with the blocks it made and still has to fill
  (`open`) and the head of its loop (`back`). `nblocks`, `layout`, `code` and `at`
  are the blocks made, the function's list of blocks, their instructions and the
  builder's insertion point. Each visitor is cut where it recurses: `VisitIfStmt`,
  `IfCond`, `IfBranchEnd` are `Visit(IfStmt&)` before, between and after its
  recursive calls, each with all the builder calls of its stretch. The tree is made
  up during the walk, so every tree within the bound is walked. Straight-line
  instructions are one `plain`; a value is its LLVM type, the type that the typechecker
  gave its expression, and whether it is a constant, which decides the form of an array
  declaration. Branches, phis and returns carry the types they have. The two types of a
  value differ when a call is *diverted*: a program may define a function with the name
  of a builtin (`Parser.cpp` 342-351, `Typechecker.cpp` 119-128), and the generator,
  which tests the name only (`Codegen.cpp` 244-430), makes the builtin's instruction of
  its calls. With "diverted" among the `Forms` a call may so have any other type
  (`DivertedEnd`; which ones there are is in `Calls`), and `&&` and `||` have operands and
  values of all types, as a program may define them for others than `bool`.
* **`BlockLifecycle`**: the abstract specification: a block is unborn, waiting,
  current or closed, moves forward only, one is current at a time, and none waits
  in the end. `MCCodegenBlocks` has the refinement mapping.
* **`CodegenBlocksProofs`**, **`CodegenFlowProofs`**, **`CodegenPhiProofs`**:
  theorems about `CodegenBlocks`, each module on top of the one before: blocks and
  their owners, what is written where, the function's list of blocks with the phis
  that read it and the control flow graph. The refinement of `BlockLifecycle` is at
  the end of the first.
* **`Linking`**: both walks over the same tree, typechecking then code generation.
  The first builds the tree, the chain `scopes` and the map `link` (the `VarDecl*`
  in uses); the second keeps `symbols`, the `region` of branches and loop bodies
  it is inside, and each variable's `home`, the region of its alloca. Failures of
  the code generator are phases: "asserted", "crashed" (a null `dyn_cast` followed).
  The reference is lexical scoping defined on the finished tree by paths
  (`VisibleAt`, `Depth`, `Innermost`), with no scope object in it. **`LinkingProofs`** has
  its theorems.
* **`Calls`**: overload resolution and the code of calls. `Builtins` is the table
  of `Builtins.h`; bodies are in evaluation order. `findFunc`, `EnsureSameType`
  and `Operation` (the chain of tests on the name) are operators; an instruction
  records the operand types it has and those it needs. **`CallsProofs`** has its theorems.
* **`Values`**: what the instructions that `Calls` emits for a builtin compute
  (`Execute`, LLVM's semantics on ints of few bits and on floats that are numbers of
  halves or NaN), and what the builtin means (`Meaning`, which knows no LLVM).
* **`Grammar`**: the language as rules, and a scan that knows for each prefix of a
  source what may follow. It does not parse, and is the parser's reference; the
  rules keep the oddities of the language that the code accepts.
* **`ParseExp`**, **`ParseStmt`**: the parser as a stack machine over tokens made up
  as the stream reads them. A frame is a function to call or the rest of one
  (`skip` a token, `make` a node); `nodes` are the nodes made, `results` those that
  a function has returned and no other node owns yet, `program` the functions that
  `ParseProgram` has pushed, `blamed` the token of the `ParseError`. `ParseExp` has
  expressions, `ParseStmt` extends it with everything else. **`ParseProofs`** has the
  theorem.
* **`Printer`**: the lines of the `.ast` dump of a (possibly partial) program, and a
  reader of such lines that knows only labels and indentation.
* **`Scanner`**: `nextToken` from characters to tokens with their places, called until
  the end as `TokenStream::printAllTokens` does. A lexeme's kind is defined on
  characters in `KindsOf`, without the scanner. **`ScannerProofs`** has the theorem.
* **`Driver`**: runs of `main` as processes on one file system. A text is an
  identity, a size and a *fate*, what the phases will make of it; so the module
  composes the outcomes that the others explain ("unparsable" is `ParseStmt`'s
  "rejected", "illtyped" a `TypeError` of `Linking` or `Calls`, "unlinked" and
  "malformed" their "asserted" and the malformed instructions, "unsized" the exception
  of `CodegenBlocks`, "unscannable" that of `Scanner`). Opening a file empties it;
  what is written is there when the process closes it, whole if nobody opened it in
  between. `asserts` says whether the build has assertions. `NamesAssumption` says that
  different roles have different file names, but for outputs of one run that are dumps
  of another. **`DriverProofs`** has the theorems.
* `MC*`: sets of forms, tokens, characters, programs and sessions for the configurations.

## Runs

Bounds are on the size of the program compiled; every program within them is
covered, and `fuel` counts down the nodes that remain.

| run | bound | shows |
|---|---|---|
| `CodegenBlocksAll` | 3 nodes, all forms | blocks are sealed, owned by one visitor, listed once, frozen when closed; loops are natural; with no return but the implicit one, every block can be executed and can end; instructions follow a terminator only after the source's own `return`; the second edge of every phi is real, the first exactly when lhs, rhs and merge are adjacent in the list; branches, phis and returns have a wrong type only for the condition of a for, the implicit return, and the value of a diverted call or the operand of a `&&` or `||`, the last only in programs that define functions with builtins' names; generation ends and implements `BlockLifecycle` |
| `LinkingAll` | 4 nodes, 1 name, 1 type, all forms | links and rejections are those of lexical scoping; look-ups fail only for variables of for-updates, null pointers are followed only for array parameters (the generator's other way to stop, the exception for array sizes, is in `CodegenBlocks`), the only unexecuted allocas are those of unbraced arrays |
| `CallsAll` | 5 literals and calls of all builtins; 2 functions, 2 parameters, 3 items, any names; a function with a builtin's name whose value is a builtin's argument | every builtin gets code of the right types, which computes what it means but for NaN, `float(true)` and ints no float represents; a call means the first match of the whole program; the generator fails only at the program's own functions, or in a body one of whose calls such a function's name diverted |
| `ParseAll` | 8 tokens of 12 kinds for expressions; 7 to 14 tokens of 7 to 10 kinds for branches, for headers, simple statements, parameters and functions; 11 more after `if (1) while (1)` and 12 more after `if (1) for ({}; 1; {})` | precedence and associativity, what is accepted, where parsing stops and errors are reported; each node has one owner and each part its place; a failed parse keeps exactly the complete functions; an else binds to the nearest if; the dump shows the tree |
| `ScannerAll` | 4 to 6 characters of 4 to 8 kinds | tokens are the longest lexemes, leave out only white space and carry true places; only numbers out of range stop the scanner; scanning ends |
| `DriverAll` | 2 processes, 2 sources, 7 sessions, 1 edit, any kills | status 0 comes with whole files made from the one accepted text, save where another run was asked for the same file; rejected sources are in no file but `test123.ast`, malformed modules in none after the verifier if there are assertions; files are incomplete only during or after a run that was killed, failed to emit or had a rival; statuses mean what they say; runs end |

Three nodes are enough for a statement in a statement in a statement, each with its
expressions; the visitors look no deeper than their own blocks and the insertion
point, so a defect of nesting shows with two levels and one statement after them.
One name is enough for shadowing and redeclaration, as names are only compared;
with one type `LinkingAll` does not reject for a type, which `CallsAll` does.
Four nodes are a for statement with a declaration and a use in two of its parts, or
a nested block that shadows. Five literals and calls hold two nested binary
operators. Ints have four bits and floats are exact up to four, so that ints overflow,
round to floats, and are exceeded by floats. Eight tokens are four operands with
three operators of three precedences, or two nested pairs of brackets with something
after them; 13 tokens are an if with branch and else in an if, 14 a for with declarations
in all its parts or an assignment in its header, 12 two functions of which one has a
parameter, or one with an array and another parameter. An else that could belong to an
if outside the loop whose body has the nearest one takes 17 tokens for `while` and 22 for
`for`: these sources begin with the outer if and the loop's header. Six characters
are a negative number with digits on both sides of its point and a rest, and the
limits (`MaxInt` 11, `MaxFloat` 21) lie among the numbers of two digits. Two processes
are enough for the driver, as files know only who opened them last; the sessions of
`MCDriver` combine each kind of output with a rival for it, with every fate, with
files that cannot be written, with an edit and with an option in front of the file.

Six more runs check what the code says of itself (an assertion, the verifier
called by `main.cpp` 124, a comment) and find it violated:

| run | program | outcome |
|---|---|---|
| `CodegenBlocksPhi` | `a && (b && c)` as a tree, or `if (d) x = a && b;` | the phi names a block that is no predecessor |
| `LinkingLookup` | `for ({}; 1; int x) x = 2;` | the symbol of `x` is missing in the body: the assertion of `Codegen.cpp` 516 fails |
| `LinkingDominate` | `if (c) int a[2]; a[0] = 1;` | the alloca does not dominate its use |
| `CallsForward` | `int f(); int f() { .. f() .. }` | `f` is defined, but the call means the declaration, which has no LLVM function |
| `CallsMixed` | `f(1, 2.0)` with `f(int, float)` | both arguments become floats |
| `ParseParens` | `(a)` | rejected; `((a)` is accepted |

The models have more such behaviour without a run of its own: code after a `return`
in the same block follows the terminator; `float f() {}` returns an i32; the
condition of a for statement is branched on without a conversion; indexing an array
parameter follows a null pointer; a call to the program's own `operator+` becomes
an add instruction; `1 && 2` in a program with a `bool operator&&(int x, int y)` branches on an
i32, and `if (float(1, 2))` with a `bool float(int x, int y)` on a float; `float(true)` is -1, and of a NaN every comparison but `<` holds;
`a -1` is two operands in a row; a dump that cannot be written is not reported. The
repository's `README.md` (46) speaks of a `.syn` file, while `dumpSyntax` writes an
`.ast` file, and a `test123.ast` as well.

These are why several properties of the passing runs have an exception named in
them (`OverrunOnlyAfterReturn`, `PhiExactIffAdjacent`, `StopsOnlyInKnownCases`,
`UndominatedOnlyUnbraced`, `FailsOnlyAtOwnFunctions`, `MalformedOnlyMixed`,
`IllTypedOnlyThere`, `ComputesTheMeaning`): they
say that the defect named is the only way the assertion fails.

Deadlock is not checked: a compilation stops when it is done, rejected or aborted.

**Fairness.** `CodegenBlocks` and `Scanner` have weak fairness of `Next`: each is one
sequential program and nothing it waits for can be absent. That generation ends is part
of `BlockLifecycle`: the walk visits no node again. `Ends` says that every token
consumes a character.
`Driver` has weak fairness of `Step(p)` for each process: the operating system
schedules a process that can run. Starting one, killing one and editing are the
user's and not fair. `EveryRunEnds` exempts programs that do not end and, without
assertions, malformed modules, of which LLVM promises nothing. The other modules claim
no liveness and assume no fairness.

**Mutants.** Definitions that a comment calls a mutant belong to no specification:
each is a plausible bug for the definition after it, and `PROJECT.json` names the
property that it breaks.

## Proofs

The theorems hold for every value of the constants that satisfies the modules'
assumptions: trees, programs and sessions of any size. `PROJECT.json` lists them.

**`CodegenBlocksProofs`**: `TypeCorrect` (`TypeOK`), `VisitorsNest`
(`VisitorsOwnTheirBlocks`), `Sealed` (`BlocksSealed`), `Frozen` (`FrozenOnceClosed`).
Neither of the first two is inductive alone: a visitor that resumes moves the
insertion point to a block it holds, and that this keeps other visitors' blocks
apart needs the number of blocks in its frame (`FrameOK` in `TypeOK`), while the
new insertion point is held by nobody only because no block is held twice
(`HeldOnce`). Their conjunction is inductive. The argument, one lemma per action:
every step replaces the head of the stack by frames that hold a subset of what it
held, plus new blocks, and moves `at` to a block no frame holds any more; the
lemmas on `OpenIn` and `HeldOnce` of a concatenation say that ownership is then
kept. `BlocksSealed` follows with it: a step that leaves a block has just put a
terminator at its end. `FrozenOnceClosed` needs no invariant of its own: code is
written only at `at`, at new blocks and at the front of the entry block, and the
invariant says that closed blocks are none of the first two.

**`CodegenFlowProofs`**: `IllTypedHere` (`IllTypedOnlyThere`) and `OverrunsAreReturns`
(`OverrunOnlyAfterReturn`). Which instruction is written depends on the value that a
nested visitor has just returned, so the invariant is about what waits for what
(`StackFits`): under a frame for an expression lies one that takes values of the type the
typechecker gave it, whatever LLVM type they have,
under a frame for a statement one that waits for statements, and after a `return` of
the source only the latter runs. With it every action is classified (`Proceeds`): it
writes nothing that matters, or one terminator at the insertion block, with the right
type or for one of the reasons that the property names (`Misread` for diverted values). `Flowing` adds to it that no
branch goes back to the entry block (`EntryUntargeted`) and that no code follows a
terminator unless the source has put it after a return (`CodeRuns`).

**`CodegenPhiProofs`**: `ListComplete` (`LayoutComplete`). The end blocks of `&&` and
`||` are listed late, the others when they are made. `Listing` says that the list has
no block twice and all but those that frames of `RhsEnd` hold, so all when the stack is
empty; that its length is `nblocks` is a bijection between its positions and the blocks.

In the same module: `PhisNamePredecessors` (`PhiExactIffAdjacent`). What the two
`getPrevNode()` calls will find depends on all that the right operand lists meanwhile, so
the invariant `Merging` follows each `&&` or `||` from its first branch to its phi
(`Pending`): one closed block branches to the end block and is listed before the right
operand's, and after that one comes nothing while code still goes to it, later at
least two blocks, or one and the end block of an operand nested in it. That
an operand only nests expressions, whose end blocks are newer, is `Nested`; that no
branch of a loop goes to a block with a phi is `HeadsFilled`.

Its last part: `NoOtherCycles` (`LoopsAreNatural`) and `BlocksLive`
(`EveryBlockLives`), facts about paths of any length, from three invariants about single
edges. Every step that moves the insertion point is described once (`Moves`): it branches
to a set of blocks, goes on in one of them or in one that was branched to before, and
leaves the others to a visitor whose blocks are newer than those of the visitors around
it. *`LoopsNest`*: from the head of a loop under way on, no block is the target of an older
one. So when the loop closes, its blocks are a set that is entered from the head only, and
stays so (`Enclosed`); a path from the entry to the branch back passes the head. *`Ranked`*:
the blocks have ranks that rise along every edge except such branches back, and without
a return each block has an edge from a lower rank. A forward cycle would rise forever, and
of the blocks that the entry does not reach, one of least rank has a predecessor that it
does not reach either. *`Lives`*: whatever holds a block and all that its blocks
branch to holds one that the walk has not finished, or an end of the function. When the
walk is over only the ends remain. `Reached` is a recursion; that it is closed, inside
and least follows by induction over its steps, stated for sets of numbers
(`Induction`, from the library's well-foundedness of the naturals), as theorems with an
operator parameter cannot be used.

In `CodegenBlocksProofs`: `KeepsTheLifecycle`: `Spec => Promised!Safety`, the refinement of the
safety part of `BlockLifecycle` for any number of blocks. A step keeps the insertion
point, and then no status changes, or it leaves the block for one that was held or is new,
and then these two, and the newly born, are all that change.

**`LinkingProofs`**: `TypeCorrect` (`TypeOK`) and `OnlyUnbracedUndominated`
(`UndominatedOnlyUnbraced`), for any names and trees of any size. The property is about the
code generator, its reason in the typechecker, which knows no regions and visits the parts of
a `for` in another order. So the invariant assigns regions already while the tree is made:
`R` gives each node the region in which its code will be (`Regioned`), and `g` each frame of
the typechecker's stack the number of scopes when it runs (`Levelled`; the type invariant's
count of scopes follows from it). A variable is *usable* in a region when it is a parameter or
a scalar, whose alloca is in the entry block, or an array whose region is around it, or an
array declared without braces, the exception. `Stacked` says that what runs between a
declaration and the end of its scope is inside the declaration's region: the frames that come
after a statement without its own scope are in the same statement list, unless that
statement is itself a branch or a loop's body. `Bound` says that what the scopes bind is
usable in all that runs before their end, hence is usable at any use that finds it there, or
kept it while index and value were checked (`Found`), and links are right (`LinksRight`). When the
code generator starts, all uses have links; its stack leads from the region it is in back to
none, each frame that visits a node running in the node's region (`Leads`), and each variable
in the symbol table has the home that `R` says (`Homes`). Nothing is assumed of names: that two
declarations may have the same one is what `Bound` survives.

**`DriverProofs`**: `TypeCorrect`, `NothingWrong` (`NothingWrongGoesOut`), `WholeFiles`
(`FilesAreWhole`), `TrueStatus` (`StatusIsTrue`), `Delivery` (`Delivered`), for any
number of processes, sources and sessions. A process knows of its text what the phases
behind it have shown (`Known`); what it writes it was asked to write, and would be whole
(`WritesAsAsked`). What it relies on in the file system may be undone by others, so the
rest is about pairs: processes that are alive together have met (`Overlaps`), who takes
over a file that is being written is one that its writer has met and was asked for it
(`Contested`), and every incomplete file has a culprit (`Incomplete`). `Faithful` and
`AllFiled` follow the files of a run from its first dump to its status. Steps are of three classes, which the lemmas
treat once each: those that leave the files alone, those that open one and those that close
one; `Start`, `Kill` and `Edit` remain.

**`CallsProofs`**: `TypeCorrect`, `FirstIsMeant` (`CallsMeanTheFirst`), `FailsAtOwn`
(`FailsOnlyAtOwnFunctions`), `OnlyMixedIsMalformed` (`MalformedOnlyMixed`), for programs
of any length. The two passes meet only in the finished program, so the invariant keeps the
first one's history: the types on its stack before each item of each body (`Replays`).
The second pass is always at such an item with the same types (`Followed`); that its
LLVM types are theirs (`Agreed`), what it has emitted and where it fails then follow
item by item from `BuiltinInPlace`, which goes through all signatures of `Builtins.h`. The proof
found what the first runs had not: a function of the program that has a conversion's
name and other parameters is generated as that conversion, and its value, of the
wrong LLVM type, can make the call of a builtin fail. `FailsOnlyAtOwnFunctions` and
`MalformedOnlyMixed` have the exception (`Diverted`), and `CallsAll` a program for it.

**`ParseProofs`**: `ParseTypes` (`TypeOK` of `ParseStmt`, with the owners of nodes), for
every source that satisfies `SourcesAssumption`, of any length and nesting. That a
function takes only what has been returned is not inductive: it depends on
the frames under it. What a function takes and leaves (`Takes`, `Leaves`) is a fact about
its frame alone, so the invariant runs the whole stack by these numbers (`Supplied`): from
the results there are, no frame lacks one, and in the end there is one tree, or with a
program none. Each action replaces the first frame by frames that together take and
leave the same (`Continued`). `OneOwner` then follows for the two steps that move nodes,
`MakeNode` (`MadeOwns`) and the push of a function (`KeptOwns`).

**`ScannerProofs`**: `TruePlaces` (`PlacesAreTrue`), for files of any length and any
characters. `line` and `column` go on from token to token by a fold of `advance` over the
characters, while the property looks at the whole text before a token. The invariant
`Scanned` says of the next character what the property says of tokens. Two things are
needed. The fold is a recursion on sets of indices, so it is first shown to define a
function (`FoldedIs`): the place after some characters is given by the number of line
breaks among them and of those after the last. Then, by induction over the characters of
one token (`PlaceAtIs`), it meets the true place at each of them (`PlaceAdvances`). That a
token never ends past the source, an operator of two characters or a number with a point
included, is what `peek` at the end guarantees (`PeekIs`).

Only model-checked: liveness, `BlockLifecycle`'s end included (outside the reach of the
proof system); what folds over characters, tokens or lines
compute (`LongestLexemes`, `TreesFollowPrecedence`, `DumpShowsTheTree`
and the like), which needs induction over data, or is about characters within strings; `ComputesTheMeaning`, arithmetic of a
given width; what the parser accepts and the trees it builds, defined by scans of the
tokens; and what `Linking`'s properties say in terms of the paths in the tree, a recursion
over it (`LinksAreLexical`, `RejectionsAreLexical`, `StopsOnlyInKnownCases`).

## Plan

1. Done: `CodegenBlocks` with its proofs, `Linking`, `Calls` with `Values`, the parser
   (`Grammar`, `ParseExp`, `ParseStmt`), `Printer`, `Scanner`, `Driver`.
2. Proved: the blocks, types, list, phis, graph and life cycle of `CodegenBlocks`; `Driver`;
   `Calls`; the owners of nodes in the parser; types, scope chain and dominance in `Linking`;
   places in `Scanner`.
3. Proofs, next: that the code generator's own order of visits fails only for a declaration
   in the update of a `for` (`StopsOnlyInKnownCases`), which needs the order of visits in the
   invariant; that the scope chain is lexical scoping (`LinksAreLexical`).

## Not modelled

* LLVM: its optimizer, code emission and JIT are outcomes in `Driver`, its instructions
  meanings in `Values`; arithmetic on two floats is not interpreted. Where LLVM is
  built with assertions, some malformed instructions abort at once; the models go
  on, as a release build does, and the verifier's conditions are the properties.
* Names of LLVM values and functions, the printf formats, and the optimization level.
* Characters outside the scanner's sets: negative `char`s, for which `std::isspace` and
  `std::isalpha` are undefined, and those that depend on the locale.
* In the dump: annotations with types and links, which only the dump after typechecking
  has, and array sizes of parameters; functions without a body are not printed.
* Accessors of the tree (`Exp.h`, `Stmt.h`, ...), which have no behaviour of their own.
* A write that fails after the file was opened, as on a disk that fills: `main.cpp` looks
  at no stream after opening it (230-232, 239-242, 293-299). A dump would be cut in silence,
  while LLVM's stream, that of the object file, ends the process with an error when it is
  destroyed. In `Driver` opening is the one thing about a file that can fail, so what
  `Delivered`, `FilesAreWhole` and `StatusIsTrue` promise supposes that writes succeed.
* A `float` literal too small for a normal number, for which `std::stof` may throw as it does
  for one too large.
* Parsing of the command line, LLVM's; `Driver` starts from its result.
* Run-time stack use of the compiled program and of the compiler's recursion.
