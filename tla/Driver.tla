-------------------------------- MODULE Driver --------------------------------
(***************************************************************************)
(* Compiler processes (main.cpp) at work on one file system, with a user   *)
(* who edits sources and kills processes.  What the phases make of a       *)
(* source is a property of its text, its fate; the other modules say how   *)
(* they come by it.                                                        *)
(***************************************************************************)
EXTENDS Integers, Sequences, SequencesExt, FiniteSets

CONSTANTS
    Procs,      \* the processes
    Sources,    \* the names of source files
    Sessions    \* what happens together: the command line of each process
                \* (cmd), the texts the sources may have at first (texts) and
                \* get (edited), the most edits there are (edits, the bound),
                \* and the files nobody can write (closed)

\* A text may have a token out of range, or be rejected by the parser or the
\* typechecker; the code generator may throw for it, or fail an assertion, or
\* make a malformed module; the program may have no main, fail (exit with -1 from
\* an array declaration, or die of a signal), or not end.
Rejected == {"unparsable", "illtyped"}
Broken == {"unlinked", "malformed"}
Fates == {"unscannable", "unsized", "nomain", "fails", "endless", "good"} \cup Rejected \cup Broken

\* Command lines: argv[1] (arg), the positional file, -o, -emit-ir (ir), --run,
\* --dump-tokens (tokens), and the variable DUMP.
Commands == UNION {Range(s.cmd) : s \in Sessions}

NoOutput == ""
Shared == "test123.ast"
Outputs == {c.o : c \in Commands} \ {NoOutput}
Dumps == {".ast", ".initial.ll", ".optimized.ll"}
DumpsOf(file) == {file \o d : d \in Dumps}
Paths == Sources \cup Outputs \cup {Shared} \cup UNION {DumpsOf(s) : s \in Sources}

ASSUME SessionsAssumption ==
    \A s \in Sessions :
        /\ DOMAIN s.cmd = Procs /\ DOMAIN s.texts = Sources
        /\ \A v \in s.edited \cup UNION Range(s.texts) : v.fate \in Fates /\ v.size \in Nat
        /\ \A c \in Range(s.cmd) :
              c.file \in Sources /\ {c.ir, c.run, c.tokens, c.dump} \subseteq BOOLEAN
        /\ s.edits \in Nat
\* No source has the name of another file, and a dump has a name of its own.
ASSUME NamesAssumption ==
    /\ Sources \cap (Outputs \cup {Shared}) = {}
    /\ \A s \in Sources : DumpsOf(s) \cap (Sources \cup {NoOutput}) = {}
    /\ \A s \in Sources : s \o ".initial.ll" # s \o ".optimized.ll"

VARIABLES
    files,      \* what each file holds: kind, text it was made from, process
                \* that opened or closed it last, and whether it is complete
    session,    \* what happens together
    procs,      \* the processes
    edits,      \* the edits the user has made
    asserts     \* are the compiler's assertions compiled in

vars == <<files, session, procs, edits, asserts>>

Text(id, fate, size) == [id |-> id, fate |-> fate, size |-> size]
NoText == Text("none", "good", 0)
GetBuiltins == Text("builtins", "good", 0)

File(kind, of, by) == [kind |-> kind, of |-> of, by |-> by, whole |-> TRUE]
NoFile == File("none", NoText, "user")
SourceFile(v) == File("source", v, "user")

NotWriting == [path |-> "", file |-> NoFile]
Idle ==
    [pc |-> "idle", text |-> NoText, writing |-> NotWriting,
     status |-> "none", shown |-> "none", met |-> {}]

Init ==
    /\ session \in Sessions
    /\ \E v \in [Sources -> UNION Range(session.texts)] :
          /\ \A f \in Sources : v[f] \in session.texts[f]
          /\ files = [f \in Paths |-> IF f \in Sources THEN SourceFile(v[f]) ELSE NoFile]
    /\ procs = [p \in Procs |-> Idle]
    /\ edits = 0
    /\ asserts \in BOOLEAN

-----------------------------------------------------------------------------
(* Steps of a process. *)

Alive(p) == procs[p].pc \notin {"idle", "ended"}

\* The process has no file open and is about to do pc.
At(p, pc) ==
    /\ procs[p].pc = pc
    /\ procs[p].writing = NotWriting
    /\ UNCHANGED <<session, edits, asserts>>

Fate(p) == procs[p].text.fate
Command(p) == session.cmd[p]

Goto(p, pc) == procs' = [procs EXCEPT ![p].pc = pc]
Exit(p, status) == procs' = [procs EXCEPT ![p].pc = "ended", ![p].status = status]
Show(p, what, status) ==
    procs' = [procs EXCEPT ![p].pc = "ended", ![p].status = status, ![p].shown = what]
Abort(p) == Exit(p, "aborted")

\* A mutant: the stream is never closed.
WriteUnflushed(p, path, file, next) ==
    /\ files' = [files EXCEPT ![path] = [file EXCEPT !.whole = FALSE]]
    /\ Goto(p, next)

\* Opens the file, which makes it empty; what the process writes is in the file
\* when the stream is closed, and the process goes on with next then.
Write(p, path, file, next) ==
    /\ files' = [files EXCEPT ![path] = [file EXCEPT !.whole = FALSE]]
    /\ procs' = [procs EXCEPT ![p].pc = next, ![p].writing = [path |-> path, file |-> file]]

\* A mutant: waits until no other process has opened the file after it.
CloseOwned(p) ==
    /\ Alive(p)
    /\ procs[p].writing # NotWriting
    /\ LET w == procs[p].writing
       IN  files[w.path].by = p /\ files' = [files EXCEPT ![w.path] = w.file]
    /\ procs' = [procs EXCEPT ![p].writing = NotWriting]
    /\ UNCHANGED <<session, edits, asserts>>

\* If another process opened the file in the meantime, parts may be lost.
Close(p) ==
    /\ Alive(p)
    /\ procs[p].writing # NotWriting
    /\ LET w == procs[p].writing
       IN  \E whole \in IF files[w.path].by = p THEN {TRUE} ELSE BOOLEAN :
              files' = [files EXCEPT ![w.path] = [w.file EXCEPT !.whole = whole]]
    /\ procs' = [procs EXCEPT ![p].writing = NotWriting]
    /\ UNCHANGED <<session, edits, asserts>>

\* dumpSyntax and dumpIR; a stream that does not open takes the dump in silence.
Dump(p, path, kind, of, next) ==
    IF Command(p).dump /\ path \notin session.closed
      THEN Write(p, path, File(kind, of, p), next)
      ELSE Goto(p, next) /\ UNCHANGED files

-----------------------------------------------------------------------------
(* main, in order. *)

Start(p) ==
    /\ At(p, "idle")
    /\ procs' = [q \in Procs |->
          IF q = p THEN [procs[p] EXCEPT !.pc = "open", !.met = {r \in Procs : Alive(r)}]
          ELSE IF Alive(q) THEN [procs[q] EXCEPT !.met = @ \cup {p}] ELSE procs[q]]
    /\ UNCHANGED files

\* readFile takes argv[1], whatever the positional argument is.
OpenSource(p) ==
    /\ At(p, "open")
    /\ LET arg == Command(p).arg
       IN  IF arg \notin Sources THEN Exit(p, "-1")
           ELSE procs' = [procs EXCEPT ![p].pc = "read", ![p].text = files[arg].of]
    /\ UNCHANGED files

\* The file may have grown since its size was taken: then only a first part of
\* it is read, which may be anything.
ReadSource(p) ==
    /\ At(p, "read")
    /\ LET now == files[Command(p).arg].of
       IN  \E text \in IF now.size <= procs[p].text.size THEN {now}
                       ELSE {Text("cut", fate, procs[p].text.size) : fate \in Fates} :
              procs' = [procs EXCEPT ![p].pc = IF Command(p).tokens THEN "tokens" ELSE "builtins",
                                     ![p].text = text]
    /\ UNCHANGED files

\* printAllTokens goes through the whole text, also past what a parser rejects.
DumpTokens(p) ==
    /\ At(p, "tokens")
    /\ \/ Fate(p) \in {"unscannable", "unparsable"} /\ Abort(p)
       \/ Fate(p) # "unscannable" /\ Show(p, "tokens", "0")
    /\ UNCHANGED files

\* ParseAndTypecheck of the builtins, which have no errors.
ParseBuiltins(p) ==
    /\ At(p, "builtins")
    /\ Dump(p, Shared, "ast", GetBuiltins, "parse")

ParseSource(p) ==
    /\ At(p, "parse")
    /\ IF Fate(p) = "unscannable" THEN Abort(p) /\ UNCHANGED files
       ELSE Dump(p, Shared, "ast", procs[p].text, "check")

\* A mutant: the status of the parser is overwritten by that of the typechecker.
CheckSourceAnyway(p) ==
    /\ At(p, "check")
    /\ IF Fate(p) = "illtyped" THEN Exit(p, "-1") ELSE Goto(p, "syntax")
    /\ UNCHANGED files

\* The status of the parser and, if that is zero, of the typechecker.
CheckSource(p) ==
    /\ At(p, "check")
    /\ IF Fate(p) \in Rejected THEN Exit(p, "-1") ELSE Goto(p, "syntax")
    /\ UNCHANGED files

\* A mutant: the dump of the source has the name that ParseAndTypecheck uses.
dumpSyntaxShared(p) ==
    /\ At(p, "syntax")
    /\ Dump(p, Shared, "ast", procs[p].text, "codegen")

dumpSyntax(p) ==
    /\ At(p, "syntax")
    /\ Dump(p, Command(p).file \o ".ast", "ast", procs[p].text, "codegen")

\* Without assertions, a function that is not in the table is read from where
\* none is, and a malformed module or the end of the process comes of it.
Codegen(p) ==
    /\ At(p, "codegen")
    /\ \/ /\ Fate(p) = "unsized" \/ Fate(p) = "unlinked"
          /\ Abort(p)
       \/ /\ Fate(p) # "unsized" /\ (Fate(p) = "unlinked" => ~asserts)
          /\ Goto(p, "initial")
    /\ UNCHANGED files

DumpInitial(p) ==
    /\ At(p, "initial")
    /\ Dump(p, Command(p).file \o ".initial.ll", "initial", procs[p].text, "verify")

\* assert(!verifyModule(...)).
Verify(p) ==
    /\ At(p, "verify")
    /\ IF asserts /\ Fate(p) \in Broken THEN Abort(p) ELSE Goto(p, "optimize")
    /\ UNCHANGED files

\* LLVM may do anything with a malformed module.
optimize(p) ==
    /\ At(p, "optimize")
    /\ \/ Goto(p, "optimized")
       \/ Fate(p) \in Broken /\ Abort(p)
    /\ UNCHANGED files

DumpOptimized(p) ==
    /\ At(p, "optimized")
    /\ Dump(p, Command(p).file \o ".optimized.ll", "optimized", procs[p].text, "act")

Acts(p, mode) ==
    /\ At(p, "act")
    /\ mode = IF Command(p).o # NoOutput THEN "o" ELSE IF Command(p).ir THEN "ir"
              ELSE IF Command(p).run THEN "run" ELSE "none"

\* A mutant: emitObjectFile returns where it exits.
EmitFailsUnseen(p) ==
    /\ Acts(p, "o")
    /\ Exit(p, "0")
    /\ UNCHANGED files

\* emitObjectFile: no target, no target machine, or the file does not open ...
EmitFails(p) ==
    /\ Acts(p, "o")
    /\ Exit(p, "1")
    /\ UNCHANGED files

\* A mutant: the error of opening the file is not looked at.
EmitOpenUnchecked(p) ==
    /\ Acts(p, "o")
    /\ Write(p, Command(p).o, File("object", procs[p].text, p), "emitted")

\* ... or it does, and the target machine may not emit object files.
EmitOpen(p) ==
    /\ Acts(p, "o")
    /\ Command(p).o \notin session.closed
    /\ Write(p, Command(p).o, File("object", procs[p].text, p), "emitted")

EmitRefused(p) ==
    /\ procs[p].pc = "emitted"
    /\ procs[p].writing # NotWriting
    /\ \/ Exit(p, "1")
       \/ Fate(p) \in Broken /\ Abort(p)
    /\ UNCHANGED <<files, session, edits, asserts>>

EmitEnd(p) ==
    /\ At(p, "emitted")
    /\ Exit(p, "0")
    /\ UNCHANGED files

EmitIR(p) ==
    /\ Acts(p, "ir")
    /\ Show(p, "ir", "0")
    /\ UNCHANGED files

\* runViaJIT: no engine, no function main, or the program runs.
runViaJIT(p) ==
    /\ Acts(p, "run")
    /\ \/ Exit(p, "1")
       \/ Fate(p) # "nomain" /\ Goto(p, "running")
    /\ UNCHANGED files

\* What main returns is dropped; the error block of an array ends the process.
RunEnds(p) ==
    /\ At(p, "running")
    /\ \/ Fate(p) \notin {"fails", "endless"} /\ Show(p, "run", "0")
       \/ Fate(p) = "fails" /\ Show(p, "run", "-1")
       \/ Fate(p) \in {"fails"} \cup Broken /\ Abort(p)
    /\ UNCHANGED files

NoAction(p) ==
    /\ Acts(p, "none")
    /\ Exit(p, "1")
    /\ UNCHANGED files

Step(p) ==
    \/ Close(p) \/ OpenSource(p) \/ ReadSource(p) \/ DumpTokens(p) \/ ParseBuiltins(p)
    \/ ParseSource(p) \/ CheckSource(p) \/ dumpSyntax(p) \/ Codegen(p) \/ DumpInitial(p)
    \/ Verify(p) \/ optimize(p) \/ DumpOptimized(p) \/ EmitFails(p) \/ EmitOpen(p)
    \/ EmitRefused(p) \/ EmitEnd(p) \/ EmitIR(p) \/ runViaJIT(p) \/ RunEnds(p) \/ NoAction(p)

-----------------------------------------------------------------------------
(* The user. *)

Edit ==
    /\ edits < session.edits
    /\ edits' = edits + 1
    /\ \E f \in Sources, v \in session.edited : files' = [files EXCEPT ![f] = SourceFile(v)]
    /\ UNCHANGED <<session, procs, asserts>>

\* A process is killed with its files as they are.
Kill(p) ==
    /\ Alive(p)
    /\ Exit(p, "killed")
    /\ UNCHANGED <<files, session, edits, asserts>>

Next == Edit \/ \E p \in Procs : Start(p) \/ Step(p) \/ Kill(p)

\* A process that has been started is scheduled.
Spec == Init /\ [][Next]_vars /\ \A p \in Procs : WF_vars(Step(p))

-----------------------------------------------------------------------------
(* Properties. *)

Statuses == {"none", "0", "1", "-1", "aborted", "killed"}
Kinds == {"none", "source", "ast", "initial", "optimized", "object"}

\* The type invariant: sources stay sources, and a status is that of an end.
TypeOK ==
    /\ DOMAIN files = Paths
    /\ \A f \in Paths :
          /\ files[f].kind \in Kinds /\ (files[f].kind = "source" <=> f \in Sources)
          /\ files[f].by \in Procs \cup {"user"}
    /\ \A p \in Procs :
          /\ procs[p].status \in Statuses /\ (procs[p].status = "none" <=> procs[p].pc # "ended")
          /\ procs[p].writing # NotWriting => procs[p].writing.path \in Paths \ (Sources \cup session.closed)
          /\ procs[p].met \subseteq Procs \ {p}
    /\ edits \in 0 .. session.edits

\* What a command line asks for.
Asked(c) ==
    IF c.tokens THEN {}
    ELSE (IF c.dump THEN {Shared} \cup DumpsOf(c.file) ELSE {})
         \cup (IF c.o # NoOutput THEN {c.o} ELSE {})
KindOf(c, f) ==
    IF f = c.o THEN "object" ELSE IF f = c.file \o ".initial.ll" THEN "initial"
    ELSE IF f = c.file \o ".optimized.ll" THEN "optimized" ELSE "ast"

\* The other processes that were asked for the file.
Rivals(p, f) == {q \in Procs \ {p} : procs[q].pc # "idle" /\ f \in Asked(Command(q))}
Accepted(text) == text.fate \notin Rejected \cup {"unscannable"}

\* A process that ends with 0 has done what it was asked for, on a source the
\* compiler accepts: its files are there, complete, and made from the one text
\* it read, unless they cannot be written or another process was asked for the
\* same file.  Runs on different sources with different outputs leave each other
\* alone but for test123.ast.
Delivered ==
    \A p \in Procs : procs[p].status = "0" /\ ~Command(p).tokens =>
        /\ Accepted(procs[p].text)
        /\ edits = 0 => procs[p].text = files[Command(p).arg].of
        /\ \A f \in Asked(Command(p)) :
              \/ files[f] = File(KindOf(Command(p), f), procs[p].text, p)
              \/ f \in session.closed /\ f # Command(p).o
              \/ Rivals(p, f) # {}

\* What the parser or the typechecker rejects is never in a file but in the
\* shared dump, and with assertions compiled in nothing is made of a malformed
\* module but the dump before the verifier.
NothingWrongGoesOut ==
    /\ \A f \in Paths \ (Sources \cup {Shared}) :
          /\ Accepted(files[f].of)
          /\ asserts /\ files[f].of.fate \in Broken => files[f].kind \in {"ast", "initial"}
    /\ \A p \in Procs : procs[p].shown \in {"ir", "run"} =>
          Accepted(procs[p].text) /\ (asserts => Fate(p) \notin Broken)

\* A file is incomplete only while a process writes it, or after that process was
\* killed, failed to emit, or ran at the same time as another one with that file.
FilesAreWhole ==
    \A f \in Paths : ~files[f].whole =>
        \E p \in Procs :
            \/ procs[p].writing.path = f /\ procs[p].status \in {"none", "killed"}
            \/ procs[p].writing.path = f /\ f = Command(p).o
            \/ f \in Asked(Command(p)) /\ procs[p].met \cap Rivals(p, f) # {}

\* Scripts can rely on the status: 1 is an action that was not possible, -1 a
\* source that was not read or not accepted or the program's own, an abort the
\* sign of an exception, a failed assertion or a program that died; 0 comes with
\* the action done.
StatusIsTrue ==
    \A p \in Procs : LET c == Command(p) IN
        /\ procs[p].status = "1" => Accepted(procs[p].text) /\ ~c.tokens /\ (c.o = NoOutput => ~c.ir)
        /\ procs[p].status = "-1" =>
              c.arg \notin Sources \/ Fate(p) \in Rejected \/ procs[p].shown = "run"
        /\ procs[p].status = "aborted" =>
              Fate(p) \in {"unscannable", "unsized", "fails"} \cup Broken \/ c.tokens
        /\ procs[p].status = "0" =>
              \/ procs[p].shown = IF c.tokens THEN "tokens" ELSE IF c.ir THEN "ir" ELSE "run"
              \/ c.o \notin session.closed \cup {NoOutput}

\* A process ends, whatever the others do, unless the program it runs does not, or
\* it went on with a malformed module.
EveryRunEnds ==
    \A p \in Procs : Alive(p) ~>
        \/ procs[p].pc = "ended"
        \/ procs[p].pc = "running" /\ Fate(p) = "endless"
        \/ Fate(p) \in Broken /\ ~asserts

=============================================================================
