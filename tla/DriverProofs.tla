----------------------------- MODULE DriverProofs -----------------------------
(***************************************************************************)
(* Theorems about Driver, for any number of processes, sources, sessions   *)
(* and edits.                                                              *)
(***************************************************************************)
EXTENDS Driver, TLAPS

-----------------------------------------------------------------------------
(* The inductive invariant. *)

Pcs == {"idle", "open", "read", "tokens", "builtins", "parse", "check", "syntax", "codegen",
        "initial", "verify", "optimize", "optimized", "act", "emitted", "running", "ended"}
Texts ==
    [id : {"none", "builtins", "cut"}, fate : Fates, size : Nat]
    \cup UNION {s.edited \cup UNION Range(s.texts) : s \in Sessions}
FileValues == [kind : Kinds, of : Texts, by : Procs \cup {"user"}, whole : BOOLEAN]
Writings == [path : Paths \cup {""}, file : FileValues]
Processes ==
    [pc : Pcs, text : Texts, writing : Writings, status : Statuses,
     shown : {"none", "tokens", "ir", "run"}, met : SUBSET Procs]

Typed ==
    /\ files \in [Paths -> FileValues]
    /\ session \in Sessions
    /\ procs \in [Procs -> Processes]
    /\ edits \in 0 .. session.edits
    /\ asserts \in BOOLEAN

\* Where main is, once the source has been checked, verified, ...
Verified == {"optimize", "optimized", "act", "emitted", "running"}
Checked == {"syntax", "codegen", "initial", "verify"} \cup Verified
Compiling == {"builtins", "parse", "check"} \cup Checked
Writing(p) == procs[p].writing # NotWriting

\* What a process knows of its source and its command line when it has come as
\* far as it has, and what its status means.
Sound(text) == Accepted(text) /\ (asserts => text.fate \notin Broken)

KnownAs(c, pc, text, status, shown, writing) ==
    /\ status = "none" <=> pc # "ended"
    /\ status = "none" => shown = "none"
    /\ pc = "read" => c.arg \in Sources
    /\ pc = "tokens" => c.tokens
    /\ pc \in Compiling => ~c.tokens
    /\ pc = "check" => text.fate # "unscannable"
    /\ pc \in Checked \/ status = "1" => Accepted(text) /\ ~c.tokens
    /\ status = "0" /\ ~c.tokens => Accepted(text)
    /\ pc \in Verified \/ shown \in {"ir", "run"} => Sound(text)
    /\ pc = "emitted" => c.o \notin session.closed \cup {NoOutput}
    /\ pc = "running" => c.o = NoOutput /\ ~c.ir
    /\ pc \in {"idle", "open"} \/ status = "0" => ~writing
    /\ status = "1" /\ c.o = NoOutput => ~c.ir
    /\ status = "-1" => c.arg \notin Sources \/ text.fate \in Rejected \/ shown = "run"
    /\ status = "aborted" =>
          text.fate \in {"unscannable", "unsized", "fails"} \cup Broken \/ c.tokens
    /\ status = "0" =>
          \/ shown = IF c.tokens THEN "tokens" ELSE IF c.ir THEN "ir" ELSE "run"
          \/ c.o \notin session.closed \cup {NoOutput}

Known(p) ==
    LET r == procs[p]
    IN  KnownAs(Command(p), r.pc, r.text, r.status, r.shown, Writing(p))

\* A file that a process writes was asked for, and will be whole.
WritesAsAsked(p) ==
    LET r == procs[p]
        c == Command(p)
        w == r.writing
    IN  Writing(p) =>
        /\ w.path \in Asked(c) \cap Paths
        /\ w.path \notin Sources \cup session.closed
        /\ w.file.by = p /\ w.file.whole /\ w.file.kind # "source"
        /\ r.pc = "emitted" => w.path = c.o
        /\ w.path # Shared =>
              /\ Accepted(w.file.of)
              /\ asserts /\ w.file.of.fate \in Broken => w.file.kind \in {"ast", "initial"}

\* Two processes that are there at the same time have met.
Overlaps ==
    \A p \in Procs :
        /\ p \notin procs[p].met
        /\ procs[p].pc = "idle" => procs[p].met = {}
        /\ Alive(p) => \A q \in Procs \ {p} : Alive(q) => q \in procs[p].met

\* Who opens a file while another process writes it is one that it has met, and
\* was asked for the file too.
ContestedBy(p) ==
    LET f == procs[p].writing.path
        q == files[f].by
    IN  Alive(p) /\ Writing(p) /\ q # p =>
            /\ q \in procs[p].met
            /\ q \in Procs /\ procs[q].pc # "idle" /\ f \in Asked(Command(q))
Contested == \A p \in Procs : ContestedBy(p)

\* Sources are always there; nothing wrong is in any other file but one.
Clean ==
    \A f \in Paths :
        /\ files[f].kind = "source" <=> f \in Sources
        /\ f \in Sources => files[f].whole
        /\ f \notin Sources \cup {Shared} =>
              /\ Accepted(files[f].of)
              /\ asserts /\ files[f].of.fate \in Broken => files[f].kind \in {"ast", "initial"}

\* Why a file is incomplete.
Excused(f, p) ==
    \/ Writing(p) /\ procs[p].writing.path = f /\ procs[p].status \in {"none", "killed"}
    \/ Writing(p) /\ procs[p].writing.path = f /\ f = Command(p).o
    \/ f \in Asked(Command(p)) /\ procs[p].met \cap Rivals(p, f) # {}
Incomplete == \A f \in Paths : ~files[f].whole => \E p \in Procs : Excused(f, p)

\* The text a process works on is that of its source, if nobody has edited it.
FaithfulAs(c, pc, text, status) ==
    pc \in {"read", "tokens"} \cup Compiling \/ status = "0" =>
        c.arg \in Sources /\ text = files[c.arg].of
FaithfulFor(p) == FaithfulAs(Command(p), procs[p].pc, procs[p].text, procs[p].status)
Faithful == edits = 0 => \A p \in Procs : FaithfulFor(p)

\* When a process has written the last of what it writes to a file.
Written(c, f) ==
    IF f = c.o THEN {"emitted"}
    ELSE IF f = c.file \o ".initial.ll" THEN {"verify"} \cup Verified
    ELSE IF f = c.file \o ".optimized.ll" THEN {"act", "emitted", "running"}
    ELSE IF f = c.file \o ".ast" THEN {"codegen", "initial", "verify"} \cup Verified
    ELSE {"check"} \cup Checked

\* Then that is in the file, or will be when the process closes it, but for files
\* nobody can write and those another process was asked for.
Filed(p, f) ==
    procs[p].pc \in Written(Command(p), f) \/ procs[p].status = "0" =>
        \/ /\ IF Writing(p) /\ procs[p].writing.path = f
                THEN files[f].by = p /\ procs[p].writing.file = File(KindOf(Command(p), f), procs[p].text, p)
                ELSE files[f] = File(KindOf(Command(p), f), procs[p].text, p)
        \/ f \in session.closed /\ f # Command(p).o
        \/ Rivals(p, f) # {}
AllFiled == \A p \in Procs : \A f \in Asked(Command(p)) : Filed(p, f)

Inv ==
    /\ Typed
    /\ \A p \in Procs : Known(p) /\ WritesAsAsked(p)
    /\ Overlaps /\ Contested /\ Clean /\ Incomplete /\ Faithful /\ AllFiled

-----------------------------------------------------------------------------
(* Types. *)

\* What a process was told.
LEMMA CommandFacts ==
    ASSUME session \in Sessions, NEW p \in Procs
    PROVE  /\ Command(p) \in Commands
           /\ Command(p).file \in Sources
           /\ Command(p).ir \in BOOLEAN /\ Command(p).run \in BOOLEAN
           /\ Command(p).tokens \in BOOLEAN /\ Command(p).dump \in BOOLEAN
<1>1. Command(p) \in Range(session.cmd)
  BY SessionsAssumption DEF Command, Range
<1> QED  BY <1>1, SessionsAssumption DEF Commands

\* The names of its outputs are paths, and no names of sources.
LEMMA OutputPaths ==
    ASSUME session \in Sessions, NEW p \in Procs
    PROVE  /\ Shared \in Paths \ Sources /\ Shared # NoOutput
           /\ \A d \in Dumps : Command(p).file \o d \in Paths \ (Sources \cup {NoOutput})
           /\ Command(p).o # NoOutput => Command(p).o \in Paths \ Sources
           /\ Command(p).file \o ".initial.ll" # Command(p).file \o ".optimized.ll"
<1>1. Command(p) \in Commands /\ Command(p).file \in Sources
  BY CommandFacts
<1>2. Shared \in Paths \ Sources /\ Shared # NoOutput
  <2>1. Shared # NoOutput
    BY DEF Shared, NoOutput
  <2>2. Shared \in Paths
    BY DEF Paths
  <2> QED  BY <2>1, <2>2, NamesAssumption
<1>3. \A d \in Dumps : Command(p).file \o d \in Paths \ (Sources \cup {NoOutput})
  <2>1. \A s \in Sources : DumpsOf(s) \subseteq Paths
    BY DEF Paths
  <2> QED  BY <1>1, <2>1, NamesAssumption DEF DumpsOf
<1>4. Command(p).o # NoOutput => Command(p).o \in Paths \ Sources
  BY <1>1, NamesAssumption DEF Paths, Outputs
<1>5. Command(p).file \o ".initial.ll" # Command(p).file \o ".optimized.ll"
  BY <1>1, NamesAssumption
<1> QED  BY <1>2, <1>3, <1>4, <1>5

\* The texts that processes and users bring.
LEMMA TextTypes ==
    /\ NoText \in Texts /\ GetBuiltins \in Texts
    /\ \A fate \in Fates, n \in Nat : Text("cut", fate, n) \in Texts
    /\ \A s \in Sessions : s.edited \subseteq Texts /\ UNION Range(s.texts) \subseteq Texts
    /\ \A t \in Texts : t.fate \in Fates /\ t.size \in Nat
<1>1. NoText \in Texts /\ GetBuiltins \in Texts
  BY DEF NoText, GetBuiltins, Text, Texts, Fates
<1>2. \A fate \in Fates, n \in Nat : Text("cut", fate, n) \in Texts
  BY DEF Text, Texts
<1>3. \A s \in Sessions : s.edited \subseteq Texts /\ UNION Range(s.texts) \subseteq Texts
  BY DEF Texts
<1>4. \A t \in Texts : t.fate \in Fates /\ t.size \in Nat
  BY SessionsAssumption DEF Texts
<1> QED  BY <1>1, <1>2, <1>3, <1>4

\* What is written into files, whole and incomplete.
LEMMA FileTypes ==
    /\ \A kind \in Kinds, of \in Texts, by \in Procs \cup {"user"} :
          /\ File(kind, of, by) \in FileValues
          /\ [File(kind, of, by) EXCEPT !.whole = FALSE] \in FileValues
          /\ [File(kind, of, by) EXCEPT !.whole = FALSE].kind = kind
          /\ [File(kind, of, by) EXCEPT !.whole = FALSE].of = of
          /\ [File(kind, of, by) EXCEPT !.whole = FALSE].by = by
          /\ File(kind, of, by).kind = kind /\ File(kind, of, by).of = of
          /\ File(kind, of, by).by = by /\ File(kind, of, by).whole
    /\ \A v \in Texts : SourceFile(v) \in FileValues
    /\ NoFile \in FileValues /\ NotWriting \in Writings
    /\ \A f \in FileValues, b \in BOOLEAN : [f EXCEPT !.whole = b] \in FileValues
BY TextTypes DEF File, SourceFile, NoFile, NotWriting, FileValues, Writings, Kinds

\* The initial state has the types.
LEMMA StartTyped == Init => Typed
<1> SUFFICES ASSUME Init PROVE Typed
  OBVIOUS
<1>1. session \in Sessions /\ asserts \in BOOLEAN
  BY DEF Init
<1>2. edits \in 0 .. session.edits
  BY SessionsAssumption DEF Init
<1>3. procs \in [Procs -> Processes]
  BY TextTypes, FileTypes DEF Init, Idle, Processes, Pcs, Statuses
<1>4. files \in [Paths -> FileValues]
  <2>1. PICK v \in [Sources -> UNION Range(session.texts)] :
           files = [f \in Paths |-> IF f \in Sources THEN SourceFile(v[f]) ELSE NoFile]
    BY DEF Init
  <2>2. \A f \in Sources : v[f] \in Texts
    BY <1>1, TextTypes
  <2> QED  BY <2>1, <2>2, FileTypes
<1> QED  BY <1>1, <1>2, <1>3, <1>4 DEF Typed

-----------------------------------------------------------------------------
(* The ways in which a process moves. *)

\* Process p is now like this, and no other process has changed.
Becomes(p, pc, text, writing, status, shown) ==
    /\ procs' \in [Procs -> Processes]
    /\ \A q \in Procs \ {p} : procs'[q] = procs[q]
    /\ procs'[p].pc = pc /\ procs'[p].text = text /\ procs'[p].writing = writing
    /\ procs'[p].status = status /\ procs'[p].shown = shown
    /\ procs'[p].met = procs[p].met

\* A step that replaces the record of one process.
LEMMA Replaced ==
    ASSUME Typed, NEW p \in Procs, NEW r \in Processes,
           procs' = [procs EXCEPT ![p] = r], r.met = procs[p].met
    PROVE  Becomes(p, r.pc, r.text, r.writing, r.status, r.shown)
<1>1. procs \in [Procs -> Processes]
  BY DEF Typed
<1> QED  BY <1>1 DEF Becomes

\* What the helpers of the actions do to the record of their process.
LEMMA Moves ==
    ASSUME Typed, NEW p \in Procs
    PROVE  LET r == procs[p] IN
           /\ \A pc \in Pcs :
                 Goto(p, pc) => Becomes(p, pc, r.text, r.writing, r.status, r.shown)
           /\ \A status \in Statuses :
                 Exit(p, status) => Becomes(p, "ended", r.text, r.writing, status, r.shown)
           /\ Abort(p) => Becomes(p, "ended", r.text, r.writing, "aborted", r.shown)
           /\ \A status \in Statuses, what \in {"tokens", "ir", "run"} :
                 Show(p, what, status) => Becomes(p, "ended", r.text, r.writing, status, what)
           /\ \A pc \in Pcs, text \in Texts :
                 procs' = [procs EXCEPT ![p].pc = pc, ![p].text = text]
                    => Becomes(p, pc, text, r.writing, r.status, r.shown)
           /\ \A pc \in Pcs, w \in Writings :
                 procs' = [procs EXCEPT ![p].pc = pc, ![p].writing = w]
                    => Becomes(p, pc, r.text, w, r.status, r.shown)
           /\ \A w \in Writings :
                 procs' = [procs EXCEPT ![p].writing = w]
                    => Becomes(p, r.pc, r.text, w, r.status, r.shown)
<1> DEFINE r == procs[p]
<1>1. procs \in [Procs -> Processes] /\ r \in Processes /\ "ended" \in Pcs
  BY DEF Typed, Pcs
<1>2. \A pc \in Pcs : Goto(p, pc) => Becomes(p, pc, r.text, r.writing, r.status, r.shown)
  <2> SUFFICES ASSUME NEW pc \in Pcs, Goto(p, pc)
               PROVE  Becomes(p, pc, r.text, r.writing, r.status, r.shown)
    OBVIOUS
  <2> DEFINE n == [r EXCEPT !.pc = pc]
  <2>1. n \in Processes /\ n.pc = pc /\ n.text = r.text /\ n.writing = r.writing
        /\ n.status = r.status /\ n.shown = r.shown /\ n.met = r.met
    BY <1>1 DEF Processes
  <2>2. procs' = [procs EXCEPT ![p] = n]
    BY DEF Goto
  <2> HIDE DEF n
  <2> QED  BY <2>1, <2>2, Replaced
<1>3. \A status \in Statuses :
        Exit(p, status) => Becomes(p, "ended", r.text, r.writing, status, r.shown)
  <2> SUFFICES ASSUME NEW status \in Statuses, Exit(p, status)
               PROVE  Becomes(p, "ended", r.text, r.writing, status, r.shown)
    OBVIOUS
  <2> DEFINE n == [r EXCEPT !.pc = "ended", !.status = status]
  <2>1. n \in Processes /\ n.pc = "ended" /\ n.text = r.text /\ n.writing = r.writing
        /\ n.status = status /\ n.shown = r.shown /\ n.met = r.met
    BY <1>1 DEF Processes
  <2>2. procs' = [procs EXCEPT ![p] = n]
    BY <1>1 DEF Exit
  <2> HIDE DEF n
  <2> QED  BY <2>1, <2>2, Replaced
<1>4. Abort(p) => Becomes(p, "ended", r.text, r.writing, "aborted", r.shown)
  BY <1>3 DEF Abort, Statuses
<1>5. \A status \in Statuses, what \in {"tokens", "ir", "run"} :
        Show(p, what, status) => Becomes(p, "ended", r.text, r.writing, status, what)
  <2> SUFFICES ASSUME NEW status \in Statuses, NEW what \in {"tokens", "ir", "run"},
                      Show(p, what, status)
               PROVE  Becomes(p, "ended", r.text, r.writing, status, what)
    OBVIOUS
  <2> DEFINE n == [r EXCEPT !.pc = "ended", !.status = status, !.shown = what]
  <2>1. n \in Processes /\ n.pc = "ended" /\ n.text = r.text /\ n.writing = r.writing
        /\ n.status = status /\ n.shown = what /\ n.met = r.met
    BY <1>1 DEF Processes
  <2>2. procs' = [procs EXCEPT ![p] = n]
    BY <1>1 DEF Show
  <2> HIDE DEF n
  <2> QED  BY <2>1, <2>2, Replaced
<1>6. \A pc \in Pcs, text \in Texts :
         procs' = [procs EXCEPT ![p].pc = pc, ![p].text = text]
            => Becomes(p, pc, text, r.writing, r.status, r.shown)
  <2> SUFFICES ASSUME NEW pc \in Pcs, NEW text \in Texts,
                      procs' = [procs EXCEPT ![p].pc = pc, ![p].text = text]
               PROVE  Becomes(p, pc, text, r.writing, r.status, r.shown)
    OBVIOUS
  <2> DEFINE n == [r EXCEPT !.pc = pc, !.text = text]
  <2>1. n \in Processes /\ n.pc = pc /\ n.text = text /\ n.writing = r.writing
        /\ n.status = r.status /\ n.shown = r.shown /\ n.met = r.met
    BY <1>1 DEF Processes
  <2>2. procs' = [procs EXCEPT ![p] = n]
    BY <1>1
  <2> HIDE DEF n
  <2> QED  BY <2>1, <2>2, Replaced
<1>7. \A pc \in Pcs, w \in Writings :
         procs' = [procs EXCEPT ![p].pc = pc, ![p].writing = w]
            => Becomes(p, pc, r.text, w, r.status, r.shown)
  <2> SUFFICES ASSUME NEW pc \in Pcs, NEW w \in Writings,
                      procs' = [procs EXCEPT ![p].pc = pc, ![p].writing = w]
               PROVE  Becomes(p, pc, r.text, w, r.status, r.shown)
    OBVIOUS
  <2> DEFINE n == [r EXCEPT !.pc = pc, !.writing = w]
  <2>1. n \in Processes /\ n.pc = pc /\ n.text = r.text /\ n.writing = w
        /\ n.status = r.status /\ n.shown = r.shown /\ n.met = r.met
    BY <1>1 DEF Processes
  <2>2. procs' = [procs EXCEPT ![p] = n]
    BY <1>1
  <2> HIDE DEF n
  <2> QED  BY <2>1, <2>2, Replaced
<1>8. \A w \in Writings :
         procs' = [procs EXCEPT ![p].writing = w]
            => Becomes(p, r.pc, r.text, w, r.status, r.shown)
  <2> SUFFICES ASSUME NEW w \in Writings, procs' = [procs EXCEPT ![p].writing = w]
               PROVE  Becomes(p, r.pc, r.text, w, r.status, r.shown)
    OBVIOUS
  <2> DEFINE n == [r EXCEPT !.writing = w]
  <2>1. n \in Processes /\ n.pc = r.pc /\ n.text = r.text /\ n.writing = w
        /\ n.status = r.status /\ n.shown = r.shown /\ n.met = r.met
    BY <1>1 DEF Processes
  <2>2. procs' = [procs EXCEPT ![p] = n]
    BY <1>1
  <2> HIDE DEF n
  <2> QED  BY <2>1, <2>2, Replaced
<1> QED  BY <1>2, <1>3, <1>4, <1>5, <1>6, <1>7, <1>8

\* Nothing but process p has changed.
Quiet(p, pc, text, status, shown) ==
    /\ Alive(p)
    /\ Becomes(p, pc, text, procs[p].writing, status, shown)
    /\ UNCHANGED <<files, session, edits, asserts>>

\* Process p goes on to next with the file path open, which shall hold of.
Opens(p, path, kind, of, next) ==
    /\ Alive(p) /\ ~Writing(p)
    /\ path \in Paths /\ kind \in Kinds /\ of \in Texts
    /\ Becomes(p, next, procs[p].text, [path |-> path, file |-> File(kind, of, p)],
               procs[p].status, procs[p].shown)
    /\ files' = [files EXCEPT ![path] = [File(kind, of, p) EXCEPT !.whole = FALSE]]
    /\ UNCHANGED <<session, edits, asserts>>

Closes(p) ==
    LET r == procs[p]
        w == r.writing
    IN  /\ Alive(p) /\ Writing(p)
        /\ Becomes(p, r.pc, r.text, NotWriting, r.status, r.shown)
        /\ \E whole \in BOOLEAN :
              /\ files[w.path].by = p => whole
              /\ files' = [files EXCEPT ![w.path] = [w.file EXCEPT !.whole = whole]]
        /\ UNCHANGED <<session, edits, asserts>>

\* Opening a file.
LEMMA WriteOpens ==
    ASSUME Typed, NEW p \in Procs, Alive(p), ~Writing(p), UNCHANGED <<session, edits, asserts>>,
           NEW path \in Paths, NEW kind \in Kinds, NEW of \in Texts, NEW next \in Pcs,
           Write(p, path, File(kind, of, p), next)
    PROVE  Opens(p, path, kind, of, next)
<1> DEFINE w == [path |-> path, file |-> File(kind, of, p)]
<1>1. w \in Writings
  BY FileTypes DEF Writings
<1>2. procs' = [procs EXCEPT ![p].pc = next, ![p].writing = w]
  BY DEF Write
<1> HIDE DEF w
<1>3. Becomes(p, next, procs[p].text, w, procs[p].status, procs[p].shown)
  BY <1>1, <1>2, Moves
<1> QED  BY <1>3 DEF Write, Opens, w

\* A dump opens its file, or does nothing.
LEMMA DumpOpens ==
    ASSUME Typed, NEW p \in Procs, Alive(p), ~Writing(p), UNCHANGED <<session, edits, asserts>>,
           NEW path \in Paths, NEW kind \in Kinds, NEW of \in Texts, NEW next \in Pcs,
           Dump(p, path, kind, of, next)
    PROVE  \/ /\ Command(p).dump /\ path \notin session.closed
              /\ Opens(p, path, kind, of, next)
           \/ /\ ~Command(p).dump \/ path \in session.closed
              /\ Quiet(p, next, procs[p].text, procs[p].status, procs[p].shown)
<1>1. CASE Command(p).dump /\ path \notin session.closed
  BY <1>1, WriteOpens DEF Dump
<1>2. CASE ~(Command(p).dump /\ path \notin session.closed)
  BY <1>2, Moves DEF Dump, Quiet
<1> QED  BY <1>1, <1>2

\* Closing a file.
LEMMA CloseCloses ==
    ASSUME Typed, NEW p \in Procs, Close(p)
    PROVE  Closes(p)
<1>1. procs' = [procs EXCEPT ![p].writing = NotWriting]
  BY DEF Close
<1>2. Becomes(p, procs[p].pc, procs[p].text, NotWriting, procs[p].status, procs[p].shown)
  BY <1>1, FileTypes, Moves
<1>3. PICK whole \in IF files[procs[p].writing.path].by = p THEN {TRUE} ELSE BOOLEAN :
         files' = [files EXCEPT ![procs[p].writing.path]
                                    = [procs[p].writing.file EXCEPT !.whole = whole]]
  BY DEF Close
<1>4. whole \in BOOLEAN /\ (files[procs[p].writing.path].by = p => whole)
  BY <1>3
<1> QED  BY <1>2, <1>3, <1>4 DEF Close, Closes, Writing

-----------------------------------------------------------------------------
(* The steps of a process. *)

\* Commands do not change.
LEMMA SameCommand ==
    ASSUME session' = session, NEW p
    PROVE  Command(p)' = Command(p)
BY DEF Command

\* A step that leaves the files alone: what it may be, for the invariant.
Fits(p, pc, text, status, shown) ==
    LET r == procs[p]
        c == Command(p)
    IN  /\ Quiet(p, pc, text, status, shown)
        /\ pc # "idle"
        /\ KnownAs(c, pc, text, status, shown, Writing(p))
        /\ Writing(p) => pc = "ended" /\ (status = "killed" \/ r.writing.path = c.o)
        /\ edits = 0 /\ FaithfulAs(c, r.pc, r.text, r.status) => FaithfulAs(c, pc, text, status)
        /\ \A f \in Asked(c) : pc \in Written(c, f) \/ status = "0" =>
              /\ text = r.text /\ ~Writing(p)
              /\ r.pc \in Written(c, f) \/ (f \in session.closed /\ f # c.o)

LEMMA OpenSourceFits ==
    ASSUME Typed, NEW p \in Procs, Known(p), OpenSource(p)
    PROVE  \E pc, text, status, shown : Fits(p, pc, text, status, shown)
<1> DEFINE r == procs[p]
           c == Command(p)
<1>1. /\ r.pc = "open" /\ ~Writing(p) /\ r.status = "none" /\ Alive(p)
      /\ UNCHANGED <<files, session, edits, asserts>>
  BY DEF OpenSource, At, Known, KnownAs, Writing, Alive
<1>2. CASE c.arg \notin Sources
  <2>1. Quiet(p, "ended", r.text, "-1", r.shown)
    BY <1>1, <1>2, Moves DEF OpenSource, Quiet, Statuses
  <2>2. Fits(p, "ended", r.text, "-1", r.shown)
    BY <1>1, <1>2, <2>1 DEF Fits, Known, KnownAs, Written, FaithfulAs, Compiling, Checked, Verified
  <2> QED  BY <2>2
<1>3. CASE c.arg \in Sources
  <2>1. files[c.arg].of \in Texts
    BY <1>3 DEF Typed, FileValues, Paths
  <2>2. Quiet(p, "read", files[c.arg].of, "none", r.shown)
    BY <1>1, <1>3, <2>1, Moves DEF OpenSource, Quiet, Pcs
  <2>3. Fits(p, "read", files[c.arg].of, "none", r.shown)
    BY <1>1, <1>3, <2>2 DEF Fits, Known, KnownAs, Written, FaithfulAs, Compiling, Checked, Verified
  <2> QED  BY <2>3
<1> QED  BY <1>2, <1>3

\* What is known where a process has no file open and is about to do pc.
LEMMA AtFacts ==
    ASSUME Typed, NEW p \in Procs, Known(p), NEW pc, At(p, pc), pc \notin {"idle", "ended"}
    PROVE  /\ procs[p].pc = pc /\ ~Writing(p) /\ Alive(p)
           /\ procs[p].status = "none" /\ procs[p].shown = "none"
           /\ UNCHANGED <<session, edits, asserts>>
           /\ procs[p].text \in Texts
BY DEF At, Known, KnownAs, Writing, Alive, Typed, Processes

\* What a process is asked for are paths of outputs.
LEMMA AskedPaths ==
    ASSUME session \in Sessions, NEW p \in Procs, NEW f \in Asked(Command(p))
    PROVE  f \in Paths \ Sources /\ f # NoOutput /\ ~Command(p).tokens
BY OutputPaths DEF Asked, DumpsOf

LEMMA DumpTokensFits ==
    ASSUME Typed, NEW p \in Procs, Known(p), DumpTokens(p)
    PROVE  \E pc, text, status, shown : Fits(p, pc, text, status, shown)
<1> DEFINE r == procs[p]
           c == Command(p)
<1>1. /\ r.pc = "tokens" /\ ~Writing(p) /\ Alive(p) /\ r.status = "none" /\ r.shown = "none"
      /\ UNCHANGED <<files, session, edits, asserts>> /\ r.text \in Texts
  BY AtFacts DEF DumpTokens
<1>2. CASE Fate(p) \in {"unscannable", "unparsable"} /\ Abort(p)
  <2>1. Quiet(p, "ended", r.text, "aborted", "none")
    BY <1>1, <1>2, Moves DEF DumpTokens, Quiet, Statuses, Pcs
  <2>2. Fits(p, "ended", r.text, "aborted", "none")
    BY <1>1, <1>2, <2>1 DEF Fits, Known, KnownAs, Written, FaithfulAs, Compiling, Checked, Verified, Accepted, Sound, Asked, Fate
  <2> QED  BY <2>2
<1>3. CASE Fate(p) # "unscannable" /\ Show(p, "tokens", "0")
  <2>1. Quiet(p, "ended", r.text, "0", "tokens")
    BY <1>1, <1>3, Moves DEF DumpTokens, Quiet, Statuses, Pcs
  <2>2. Fits(p, "ended", r.text, "0", "tokens")
    BY <1>1, <1>3, <2>1 DEF Fits, Known, KnownAs, Written, FaithfulAs, Compiling, Checked, Verified, Accepted, Sound, Asked, Fate
  <2> QED  BY <2>2
<1> QED  BY <1>1, <1>2, <1>3 DEF DumpTokens

LEMMA CheckSourceFits ==
    ASSUME Typed, NEW p \in Procs, Known(p), CheckSource(p)
    PROVE  \E pc, text, status, shown : Fits(p, pc, text, status, shown)
<1> DEFINE r == procs[p]
           c == Command(p)
<1>1. /\ r.pc = "check" /\ ~Writing(p) /\ Alive(p) /\ r.status = "none" /\ r.shown = "none"
      /\ UNCHANGED <<files, session, edits, asserts>> /\ r.text \in Texts
  BY AtFacts DEF CheckSource
<1>2. CASE Fate(p) \in Rejected /\ Exit(p, "-1")
  <2>1. Quiet(p, "ended", r.text, "-1", "none")
    BY <1>1, <1>2, Moves DEF CheckSource, Quiet, Statuses, Pcs
  <2>2. Fits(p, "ended", r.text, "-1", "none")
    BY <1>1, <1>2, <2>1 DEF Fits, Known, KnownAs, Written, FaithfulAs, Compiling, Checked, Verified, Accepted, Sound, Fate
  <2> QED  BY <2>2
<1>3. CASE Fate(p) \notin Rejected /\ Goto(p, "syntax")
  <2>1. Quiet(p, "syntax", r.text, "none", "none")
    BY <1>1, <1>3, Moves DEF CheckSource, Quiet, Statuses, Pcs
  <2>2. Fits(p, "syntax", r.text, "none", "none")
    BY <1>1, <1>3, <2>1 DEF Fits, Known, KnownAs, Written, FaithfulAs, Compiling, Checked, Verified, Accepted, Sound, Fate
  <2> QED  BY <2>2
<1> QED  BY <1>1, <1>2, <1>3 DEF CheckSource

LEMMA CodegenFits ==
    ASSUME Typed, NEW p \in Procs, Known(p), Codegen(p)
    PROVE  \E pc, text, status, shown : Fits(p, pc, text, status, shown)
<1> DEFINE r == procs[p]
           c == Command(p)
<1>1. /\ r.pc = "codegen" /\ ~Writing(p) /\ Alive(p) /\ r.status = "none" /\ r.shown = "none"
      /\ UNCHANGED <<files, session, edits, asserts>> /\ r.text \in Texts
  BY AtFacts DEF Codegen
<1>2. CASE Fate(p) \in {"unsized", "unlinked"} /\ Abort(p)
  <2>1. Quiet(p, "ended", r.text, "aborted", "none")
    BY <1>1, <1>2, Moves DEF Codegen, Quiet, Statuses, Pcs
  <2>2. Fits(p, "ended", r.text, "aborted", "none")
    BY <1>1, <1>2, <2>1 DEF Fits, Known, KnownAs, Written, FaithfulAs, Compiling, Checked, Verified, Accepted, Sound, Fate, Broken
  <2> QED  BY <2>2
<1>3. CASE Goto(p, "initial")
  <2>1. Quiet(p, "initial", r.text, "none", "none")
    BY <1>1, <1>3, Moves DEF Codegen, Quiet, Statuses, Pcs
  <2>2. Fits(p, "initial", r.text, "none", "none")
    BY <1>1, <1>3, <2>1 DEF Fits, Known, KnownAs, Written, FaithfulAs, Compiling, Checked, Verified, Accepted, Sound, Fate, Broken
  <2> QED  BY <2>2
<1> QED  BY <1>1, <1>2, <1>3 DEF Codegen

LEMMA VerifyFits ==
    ASSUME Typed, NEW p \in Procs, Known(p), Verify(p)
    PROVE  \E pc, text, status, shown : Fits(p, pc, text, status, shown)
<1> DEFINE r == procs[p]
           c == Command(p)
<1>1. /\ r.pc = "verify" /\ ~Writing(p) /\ Alive(p) /\ r.status = "none" /\ r.shown = "none"
      /\ UNCHANGED <<files, session, edits, asserts>> /\ r.text \in Texts
  BY AtFacts DEF Verify
<1>2. CASE Fate(p) \in Broken /\ Abort(p)
  <2>1. Quiet(p, "ended", r.text, "aborted", "none")
    BY <1>1, <1>2, Moves DEF Verify, Quiet, Statuses, Pcs
  <2>2. Fits(p, "ended", r.text, "aborted", "none")
    BY <1>1, <1>2, <2>1 DEF Fits, Known, KnownAs, Written, FaithfulAs, Compiling, Checked, Verified, Accepted, Sound, Fate
  <2> QED  BY <2>2
<1>3. CASE ~(asserts /\ Fate(p) \in Broken) /\ Goto(p, "optimize")
  <2>1. Quiet(p, "optimize", r.text, "none", "none")
    BY <1>1, <1>3, Moves DEF Verify, Quiet, Statuses, Pcs
  <2>2. Fits(p, "optimize", r.text, "none", "none")
    BY <1>1, <1>3, <2>1 DEF Fits, Known, KnownAs, Written, FaithfulAs, Compiling, Checked, Verified, Accepted, Sound, Fate
  <2> QED  BY <2>2
<1> QED  BY <1>1, <1>2, <1>3 DEF Verify

LEMMA optimizeFits ==
    ASSUME Typed, NEW p \in Procs, Known(p), optimize(p)
    PROVE  \E pc, text, status, shown : Fits(p, pc, text, status, shown)
<1> DEFINE r == procs[p]
           c == Command(p)
<1>1. /\ r.pc = "optimize" /\ ~Writing(p) /\ Alive(p) /\ r.status = "none" /\ r.shown = "none"
      /\ UNCHANGED <<files, session, edits, asserts>> /\ r.text \in Texts
  BY AtFacts DEF optimize
<1>2. CASE Fate(p) \in Broken /\ Abort(p)
  <2>1. Quiet(p, "ended", r.text, "aborted", "none")
    BY <1>1, <1>2, Moves DEF optimize, Quiet, Statuses, Pcs
  <2>2. Fits(p, "ended", r.text, "aborted", "none")
    BY <1>1, <1>2, <2>1 DEF Fits, Known, KnownAs, Written, FaithfulAs, Compiling, Checked, Verified, Accepted, Sound, Fate
  <2> QED  BY <2>2
<1>3. CASE Goto(p, "optimized")
  <2>1. Quiet(p, "optimized", r.text, "none", "none")
    BY <1>1, <1>3, Moves DEF optimize, Quiet, Statuses, Pcs
  <2>2. Fits(p, "optimized", r.text, "none", "none")
    BY <1>1, <1>3, <2>1 DEF Fits, Known, KnownAs, Written, FaithfulAs, Compiling, Checked, Verified, Accepted, Sound, Fate
  <2> QED  BY <2>2
<1> QED  BY <1>1, <1>2, <1>3 DEF optimize

LEMMA EmitFailsFits ==
    ASSUME Typed, NEW p \in Procs, Known(p), EmitFails(p)
    PROVE  \E pc, text, status, shown : Fits(p, pc, text, status, shown)
<1> DEFINE r == procs[p]
           c == Command(p)
<1>1. /\ r.pc = "act" /\ ~Writing(p) /\ Alive(p) /\ r.status = "none" /\ r.shown = "none"
      /\ UNCHANGED <<files, session, edits, asserts>> /\ r.text \in Texts
  BY AtFacts DEF EmitFails, Acts
<1>2. CASE Command(p).o # NoOutput /\ Exit(p, "1")
  <2>1. Quiet(p, "ended", r.text, "1", "none")
    BY <1>1, <1>2, Moves DEF EmitFails, Quiet, Statuses, Pcs, Acts
  <2>2. Fits(p, "ended", r.text, "1", "none")
    BY <1>1, <1>2, <2>1 DEF Fits, Known, KnownAs, Written, FaithfulAs, Compiling, Checked, Verified, Accepted, Sound
  <2> QED  BY <2>2
<1> QED  BY <1>1, <1>2 DEF EmitFails, Acts

LEMMA EmitIRFits ==
    ASSUME Typed, NEW p \in Procs, Known(p), EmitIR(p)
    PROVE  \E pc, text, status, shown : Fits(p, pc, text, status, shown)
<1> DEFINE r == procs[p]
           c == Command(p)
<1>1. /\ r.pc = "act" /\ ~Writing(p) /\ Alive(p) /\ r.status = "none" /\ r.shown = "none"
      /\ UNCHANGED <<files, session, edits, asserts>> /\ r.text \in Texts
  BY AtFacts DEF EmitIR, Acts
<1>2. CASE c.o = NoOutput /\ c.ir /\ Show(p, "ir", "0")
  <2>1. Quiet(p, "ended", r.text, "0", "ir")
    BY <1>1, <1>2, Moves DEF EmitIR, Quiet, Statuses, Pcs, Acts
  <2>2. Fits(p, "ended", r.text, "0", "ir")
    BY <1>1, <1>2, <2>1, AskedPaths DEF Fits, Known, KnownAs, Written, FaithfulAs, Compiling, Checked, Verified, Accepted, Sound, Typed
  <2> QED  BY <2>2
<1> QED  BY <1>1, <1>2 DEF EmitIR, Acts

LEMMA NoActionFits ==
    ASSUME Typed, NEW p \in Procs, Known(p), NoAction(p)
    PROVE  \E pc, text, status, shown : Fits(p, pc, text, status, shown)
<1> DEFINE r == procs[p]
           c == Command(p)
<1>1. /\ r.pc = "act" /\ ~Writing(p) /\ Alive(p) /\ r.status = "none" /\ r.shown = "none"
      /\ UNCHANGED <<files, session, edits, asserts>> /\ r.text \in Texts
  BY AtFacts DEF NoAction, Acts
<1>2. CASE ~c.ir /\ Exit(p, "1")
  <2>1. Quiet(p, "ended", r.text, "1", "none")
    BY <1>1, <1>2, Moves DEF NoAction, Quiet, Statuses, Pcs, Acts
  <2>2. Fits(p, "ended", r.text, "1", "none")
    BY <1>1, <1>2, <2>1 DEF Fits, Known, KnownAs, Written, FaithfulAs, Compiling, Checked, Verified, Accepted, Sound
  <2> QED  BY <2>2
<1> QED  BY <1>1, <1>2 DEF NoAction, Acts

LEMMA runViaJITFits ==
    ASSUME Typed, NEW p \in Procs, Known(p), runViaJIT(p)
    PROVE  \E pc, text, status, shown : Fits(p, pc, text, status, shown)
<1> DEFINE r == procs[p]
           c == Command(p)
<1>1. /\ r.pc = "act" /\ ~Writing(p) /\ Alive(p) /\ r.status = "none" /\ r.shown = "none"
      /\ UNCHANGED <<files, session, edits, asserts>> /\ r.text \in Texts
  BY AtFacts DEF runViaJIT, Acts
<1>2. CASE ~c.ir /\ Exit(p, "1")
  <2>1. Quiet(p, "ended", r.text, "1", "none")
    BY <1>1, <1>2, Moves DEF runViaJIT, Quiet, Statuses, Pcs, Acts
  <2>2. Fits(p, "ended", r.text, "1", "none")
    BY <1>1, <1>2, <2>1 DEF Fits, Known, KnownAs, Written, FaithfulAs, Compiling, Checked, Verified, Accepted, Sound
  <2> QED  BY <2>2
<1>3. CASE c.o = NoOutput /\ ~c.ir /\ Goto(p, "running")
  <2>1. Quiet(p, "running", r.text, "none", "none")
    BY <1>1, <1>3, Moves DEF runViaJIT, Quiet, Statuses, Pcs, Acts
  <2>2. Fits(p, "running", r.text, "none", "none")
    BY <1>1, <1>3, <2>1 DEF Fits, Known, KnownAs, Written, FaithfulAs, Compiling, Checked, Verified, Accepted, Sound
  <2> QED  BY <2>2
<1> QED  BY <1>1, <1>2, <1>3 DEF runViaJIT, Acts

LEMMA RunEndsFits ==
    ASSUME Typed, NEW p \in Procs, Known(p), RunEnds(p)
    PROVE  \E pc, text, status, shown : Fits(p, pc, text, status, shown)
<1> DEFINE r == procs[p]
           c == Command(p)
<1>1. /\ r.pc = "running" /\ ~Writing(p) /\ Alive(p) /\ r.status = "none" /\ r.shown = "none"
      /\ UNCHANGED <<files, session, edits, asserts>> /\ r.text \in Texts
  BY AtFacts DEF RunEnds
<1>2. CASE Show(p, "run", "0")
  <2>1. Quiet(p, "ended", r.text, "0", "run")
    BY <1>1, <1>2, Moves DEF RunEnds, Quiet, Statuses, Pcs
  <2>2. Fits(p, "ended", r.text, "0", "run")
    BY <1>1, <1>2, <2>1, AskedPaths DEF Fits, Known, KnownAs, Written, FaithfulAs, Compiling, Checked, Verified, Accepted, Sound, Fate, Typed
  <2> QED  BY <2>2
<1>3. CASE Show(p, "run", "-1")
  <2>1. Quiet(p, "ended", r.text, "-1", "run")
    BY <1>1, <1>3, Moves DEF RunEnds, Quiet, Statuses, Pcs
  <2>2. Fits(p, "ended", r.text, "-1", "run")
    BY <1>1, <1>3, <2>1, AskedPaths DEF Fits, Known, KnownAs, Written, FaithfulAs, Compiling, Checked, Verified, Accepted, Sound, Fate, Typed
  <2> QED  BY <2>2
<1>4. CASE Fate(p) \in {"fails"} \cup Broken /\ Abort(p)
  <2>1. Quiet(p, "ended", r.text, "aborted", "none")
    BY <1>1, <1>4, Moves DEF RunEnds, Quiet, Statuses, Pcs
  <2>2. Fits(p, "ended", r.text, "aborted", "none")
    BY <1>1, <1>4, <2>1, AskedPaths DEF Fits, Known, KnownAs, Written, FaithfulAs, Compiling, Checked, Verified, Accepted, Sound, Fate, Typed
  <2> QED  BY <2>2
<1> QED  BY <1>1, <1>2, <1>3, <1>4 DEF RunEnds

LEMMA EmitEndFits ==
    ASSUME Typed, NEW p \in Procs, Known(p), EmitEnd(p)
    PROVE  \E pc, text, status, shown : Fits(p, pc, text, status, shown)
<1> DEFINE r == procs[p]
           c == Command(p)
<1>1. /\ r.pc = "emitted" /\ ~Writing(p) /\ Alive(p) /\ r.status = "none" /\ r.shown = "none"
      /\ UNCHANGED <<files, session, edits, asserts>> /\ r.text \in Texts
  BY AtFacts DEF EmitEnd
<1>2. CASE Exit(p, "0")
  <2>1. Quiet(p, "ended", r.text, "0", "none")
    BY <1>1, <1>2, Moves DEF EmitEnd, Quiet, Statuses, Pcs
  <2>2. Fits(p, "ended", r.text, "0", "none")
    BY <1>1, <1>2, <2>1 DEF Fits, Known, KnownAs, Written, FaithfulAs, Compiling, Checked, Verified, Accepted, Sound
  <2> QED  BY <2>2
<1> QED  BY <1>1, <1>2 DEF EmitEnd

LEMMA ReadSourceFits ==
    ASSUME Typed, NEW p \in Procs, Known(p), ReadSource(p)
    PROVE  \E pc, text, status, shown : Fits(p, pc, text, status, shown)
<1> DEFINE r == procs[p]
           c == Command(p)
           now == files[c.arg].of
           pc == IF c.tokens THEN "tokens" ELSE "builtins"
<1>1. /\ r.pc = "read" /\ ~Writing(p) /\ Alive(p) /\ r.status = "none" /\ r.shown = "none"
      /\ UNCHANGED <<files, session, edits, asserts>> /\ r.text \in Texts
  BY AtFacts DEF ReadSource
<1>2. PICK text \in IF now.size <= r.text.size THEN {now}
                    ELSE {Text("cut", fate, r.text.size) : fate \in Fates} :
         procs' = [procs EXCEPT ![p].pc = pc, ![p].text = text]
  BY DEF ReadSource
<1>3. c.tokens \in BOOLEAN /\ pc \in Pcs
  BY CommandFacts DEF Typed, Pcs
<1>4. c.arg \in Sources => now \in Texts
  BY DEF Typed, FileValues, Paths
<1>5. r.text.size \in Nat
  BY <1>1, TextTypes
<1> HIDE DEF pc
<1>6. ASSUME text \in Texts, FaithfulAs(c, r.pc, r.text, r.status) /\ edits = 0 => text = now
      PROVE  Fits(p, pc, text, "none", "none")
  <2>1. Quiet(p, pc, text, "none", "none")
    BY <1>1, <1>2, <1>3, <1>6, Moves DEF Quiet
  <2> QED  BY <1>1, <1>3, <1>6, <2>1 DEF pc, Fits, Known, KnownAs, Written, FaithfulAs, Compiling, Checked, Verified, Accepted, Sound
<1>7. FaithfulAs(c, r.pc, r.text, r.status) /\ edits = 0 => text = now
  BY <1>1, <1>2, <1>4, <1>5 DEF FaithfulAs
<1>8. text \in Texts
  <2>1. CASE now.size <= r.text.size
    BY <1>1, <1>2, <1>4, <2>1 DEF Known, KnownAs
  <2>2. CASE ~(now.size <= r.text.size)
    BY <1>2, <1>5, <2>2, TextTypes
  <2> QED  BY <2>1, <2>2
<1> QED  BY <1>6, <1>7, <1>8

LEMMA EmitRefusedFits ==
    ASSUME Typed, NEW p \in Procs, Known(p), WritesAsAsked(p), EmitRefused(p)
    PROVE  \E pc, text, status, shown : Fits(p, pc, text, status, shown)
<1> DEFINE r == procs[p]
           c == Command(p)
<1>1. /\ r.pc = "emitted" /\ Writing(p) /\ Alive(p) /\ r.status = "none" /\ r.shown = "none"
      /\ UNCHANGED <<files, session, edits, asserts>> /\ r.writing.path = c.o
  BY DEF EmitRefused, Writing, Alive, Known, KnownAs, WritesAsAsked
<1>2. CASE Exit(p, "1")
  <2>1. Quiet(p, "ended", r.text, "1", "none")
    BY <1>1, <1>2, Moves DEF Quiet, Statuses
  <2>2. Fits(p, "ended", r.text, "1", "none")
    BY <1>1, <2>1 DEF Fits, Known, KnownAs, Written, FaithfulAs, Compiling, Checked, Verified, Accepted, Sound
  <2> QED  BY <2>2
<1>3. CASE Fate(p) \in Broken /\ Abort(p)
  <2>1. Quiet(p, "ended", r.text, "aborted", "none")
    BY <1>1, <1>3, Moves DEF Quiet, Statuses
  <2>2. Fits(p, "ended", r.text, "aborted", "none")
    BY <1>1, <1>3, <2>1 DEF Fate, Fits, Known, KnownAs, Written, FaithfulAs, Compiling, Checked, Verified, Accepted, Sound
  <2> QED  BY <2>2
<1> QED  BY <1>2, <1>3 DEF EmitRefused

LEMMA KillFits ==
    ASSUME Typed, NEW p \in Procs, Known(p), Kill(p)
    PROVE  \E pc, text, status, shown : Fits(p, pc, text, status, shown)
<1> DEFINE r == procs[p]
           c == Command(p)
<1>1. Alive(p) /\ r.status = "none" /\ r.shown = "none" /\ UNCHANGED <<files, session, edits, asserts>>
  BY DEF Kill, Alive, Known, KnownAs
<1>2. Quiet(p, "ended", r.text, "killed", "none")
  BY <1>1, Moves DEF Kill, Quiet, Statuses
<1>3. Fits(p, "ended", r.text, "killed", "none")
  BY <1>1, <1>2 DEF Fits, Known, KnownAs, Written, FaithfulAs, Compiling, Checked, Verified, Accepted, Sound
<1> QED  BY <1>3

\* A step that opens a file: what it may be, for the invariant.
Apt(p, path, kind, of, next) ==
    LET r == procs[p]
        c == Command(p)
    IN  /\ Opens(p, path, kind, of, next)
        /\ next \notin {"idle", "ended"}
        /\ KnownAs(c, next, r.text, r.status, r.shown, TRUE)
        /\ path \in Asked(c) /\ path \notin Sources \cup session.closed
        /\ kind # "source"
        /\ next = "emitted" => path = c.o
        /\ path # Shared =>
              /\ Accepted(of)
              /\ asserts /\ of.fate \in Broken => kind \in {"ast", "initial"}
        /\ FaithfulAs(c, r.pc, r.text, r.status) => FaithfulAs(c, next, r.text, r.status)
        /\ \A f \in Asked(c) : next \in Written(c, f) =>
              IF f = path THEN kind = KindOf(c, f) /\ of = r.text ELSE r.pc \in Written(c, f)

LEMMA ParseBuiltinsFits ==
    ASSUME Typed, NEW p \in Procs, Known(p), ParseBuiltins(p)
    PROVE  \/ \E pc, text, status, shown : Fits(p, pc, text, status, shown)
           \/ \E path, kind, of, next : Apt(p, path, kind, of, next)
<1> DEFINE r == procs[p]
           c == Command(p)
           path == Shared
<1>1. /\ r.pc = "builtins" /\ ~Writing(p) /\ Alive(p) /\ r.status = "none" /\ r.shown = "none"
      /\ UNCHANGED <<session, edits, asserts>> /\ r.text \in Texts
  BY AtFacts DEF ParseBuiltins
<1>2. path \in Paths \ Sources
  BY OutputPaths DEF Typed, Dumps
<1>3. CASE Dump(p, path, "ast", GetBuiltins, "parse")
  <2>1. "ast" \in Kinds /\ GetBuiltins \in Texts /\ "parse" \in Pcs
    BY <1>1, TextTypes DEF Kinds, Pcs
  <2>2. CASE c.dump /\ path \notin session.closed /\ Opens(p, path, "ast", GetBuiltins, "parse")
    <3>1. Apt(p, path, "ast", GetBuiltins, "parse")
      BY <1>1, <1>2, <2>2, OutputPaths, CommandFacts DEF Typed, Shared, Apt, Known, KnownAs, Written, FaithfulAs, Compiling, Checked, Verified, Accepted, Sound, KindOf, Asked, DumpsOf, Dumps
    <3> QED  BY <3>1
  <2>3. CASE /\ ~c.dump \/ path \in session.closed
             /\ Quiet(p, "parse", r.text, r.status, r.shown)
    <3>1. Fits(p, "parse", r.text, r.status, r.shown)
      BY <1>1, <1>2, <2>3, OutputPaths, CommandFacts DEF Typed, Fits, Known, KnownAs, Written, FaithfulAs, Compiling, Checked, Verified, Accepted, Sound, KindOf, Asked, DumpsOf, Dumps
    <3> QED  BY <3>1
  <2>4. \/ c.dump /\ path \notin session.closed /\ Opens(p, path, "ast", GetBuiltins, "parse")
        \/ /\ ~c.dump \/ path \in session.closed
           /\ Quiet(p, "parse", r.text, r.status, r.shown)
    <3> HIDE DEF path
    <3> QED  BY <1>1, <1>2, <1>3, <2>1, DumpOpens
  <2> QED  BY <2>2, <2>3, <2>4
<1> QED  BY <1>3 DEF ParseBuiltins

LEMMA dumpSyntaxFits ==
    ASSUME Typed, NEW p \in Procs, Known(p), dumpSyntax(p)
    PROVE  \/ \E pc, text, status, shown : Fits(p, pc, text, status, shown)
           \/ \E path, kind, of, next : Apt(p, path, kind, of, next)
<1> DEFINE r == procs[p]
           c == Command(p)
           path == c.file \o ".ast"
<1>1. /\ r.pc = "syntax" /\ ~Writing(p) /\ Alive(p) /\ r.status = "none" /\ r.shown = "none"
      /\ UNCHANGED <<session, edits, asserts>> /\ r.text \in Texts
  BY AtFacts DEF dumpSyntax
<1>2. path \in Paths \ Sources
  BY OutputPaths DEF Typed, Dumps
<1>3. CASE Dump(p, path, "ast", r.text, "codegen")
  <2>1. "ast" \in Kinds /\ r.text \in Texts /\ "codegen" \in Pcs
    BY <1>1, TextTypes DEF Kinds, Pcs
  <2>2. CASE c.dump /\ path \notin session.closed /\ Opens(p, path, "ast", r.text, "codegen")
    <3>1. Apt(p, path, "ast", r.text, "codegen")
      BY <1>1, <1>2, <2>2, OutputPaths, CommandFacts DEF Typed, Shared, Apt, Known, KnownAs, Written, FaithfulAs, Compiling, Checked, Verified, Accepted, Sound, KindOf, Asked, DumpsOf, Dumps
    <3> QED  BY <3>1
  <2>3. CASE /\ ~c.dump \/ path \in session.closed
             /\ Quiet(p, "codegen", r.text, r.status, r.shown)
    <3>1. Fits(p, "codegen", r.text, r.status, r.shown)
      BY <1>1, <1>2, <2>3, OutputPaths, CommandFacts DEF Typed, Fits, Known, KnownAs, Written, FaithfulAs, Compiling, Checked, Verified, Accepted, Sound, KindOf, Asked, DumpsOf, Dumps
    <3> QED  BY <3>1
  <2>4. \/ c.dump /\ path \notin session.closed /\ Opens(p, path, "ast", r.text, "codegen")
        \/ /\ ~c.dump \/ path \in session.closed
           /\ Quiet(p, "codegen", r.text, r.status, r.shown)
    <3> HIDE DEF path
    <3> QED  BY <1>1, <1>2, <1>3, <2>1, DumpOpens
  <2> QED  BY <2>2, <2>3, <2>4
<1> QED  BY <1>3 DEF dumpSyntax

LEMMA DumpInitialFits ==
    ASSUME Typed, NEW p \in Procs, Known(p), DumpInitial(p)
    PROVE  \/ \E pc, text, status, shown : Fits(p, pc, text, status, shown)
           \/ \E path, kind, of, next : Apt(p, path, kind, of, next)
<1> DEFINE r == procs[p]
           c == Command(p)
           path == c.file \o ".initial.ll"
<1>1. /\ r.pc = "initial" /\ ~Writing(p) /\ Alive(p) /\ r.status = "none" /\ r.shown = "none"
      /\ UNCHANGED <<session, edits, asserts>> /\ r.text \in Texts
  BY AtFacts DEF DumpInitial
<1>2. path \in Paths \ Sources
  BY OutputPaths DEF Typed, Dumps
<1>3. CASE Dump(p, path, "initial", r.text, "verify")
  <2>1. "initial" \in Kinds /\ r.text \in Texts /\ "verify" \in Pcs
    BY <1>1, TextTypes DEF Kinds, Pcs
  <2>2. CASE c.dump /\ path \notin session.closed /\ Opens(p, path, "initial", r.text, "verify")
    <3>1. Apt(p, path, "initial", r.text, "verify")
      BY <1>1, <1>2, <2>2, OutputPaths, CommandFacts DEF Typed, Shared, Apt, Known, KnownAs, Written, FaithfulAs, Compiling, Checked, Verified, Accepted, Sound, KindOf, Asked, DumpsOf, Dumps
    <3> QED  BY <3>1
  <2>3. CASE /\ ~c.dump \/ path \in session.closed
             /\ Quiet(p, "verify", r.text, r.status, r.shown)
    <3>1. Fits(p, "verify", r.text, r.status, r.shown)
      BY <1>1, <1>2, <2>3, OutputPaths, CommandFacts DEF Typed, Fits, Known, KnownAs, Written, FaithfulAs, Compiling, Checked, Verified, Accepted, Sound, KindOf, Asked, DumpsOf, Dumps
    <3> QED  BY <3>1
  <2>4. \/ c.dump /\ path \notin session.closed /\ Opens(p, path, "initial", r.text, "verify")
        \/ /\ ~c.dump \/ path \in session.closed
           /\ Quiet(p, "verify", r.text, r.status, r.shown)
    <3> HIDE DEF path
    <3> QED  BY <1>1, <1>2, <1>3, <2>1, DumpOpens
  <2> QED  BY <2>2, <2>3, <2>4
<1> QED  BY <1>3 DEF DumpInitial

LEMMA DumpOptimizedFits ==
    ASSUME Typed, NEW p \in Procs, Known(p), DumpOptimized(p)
    PROVE  \/ \E pc, text, status, shown : Fits(p, pc, text, status, shown)
           \/ \E path, kind, of, next : Apt(p, path, kind, of, next)
<1> DEFINE r == procs[p]
           c == Command(p)
           path == c.file \o ".optimized.ll"
<1>1. /\ r.pc = "optimized" /\ ~Writing(p) /\ Alive(p) /\ r.status = "none" /\ r.shown = "none"
      /\ UNCHANGED <<session, edits, asserts>> /\ r.text \in Texts
  BY AtFacts DEF DumpOptimized
<1>2. path \in Paths \ Sources
  BY OutputPaths DEF Typed, Dumps
<1>3. CASE Dump(p, path, "optimized", r.text, "act")
  <2>1. "optimized" \in Kinds /\ r.text \in Texts /\ "act" \in Pcs
    BY <1>1, TextTypes DEF Kinds, Pcs
  <2>2. CASE c.dump /\ path \notin session.closed /\ Opens(p, path, "optimized", r.text, "act")
    <3>1. Apt(p, path, "optimized", r.text, "act")
      BY <1>1, <1>2, <2>2, OutputPaths, CommandFacts DEF Typed, Shared, Apt, Known, KnownAs, Written, FaithfulAs, Compiling, Checked, Verified, Accepted, Sound, KindOf, Asked, DumpsOf, Dumps
    <3> QED  BY <3>1
  <2>3. CASE /\ ~c.dump \/ path \in session.closed
             /\ Quiet(p, "act", r.text, r.status, r.shown)
    <3>1. Fits(p, "act", r.text, r.status, r.shown)
      BY <1>1, <1>2, <2>3, OutputPaths, CommandFacts DEF Typed, Fits, Known, KnownAs, Written, FaithfulAs, Compiling, Checked, Verified, Accepted, Sound, KindOf, Asked, DumpsOf, Dumps
    <3> QED  BY <3>1
  <2>4. \/ c.dump /\ path \notin session.closed /\ Opens(p, path, "optimized", r.text, "act")
        \/ /\ ~c.dump \/ path \in session.closed
           /\ Quiet(p, "act", r.text, r.status, r.shown)
    <3> HIDE DEF path
    <3> QED  BY <1>1, <1>2, <1>3, <2>1, DumpOpens
  <2> QED  BY <2>2, <2>3, <2>4
<1> QED  BY <1>3 DEF DumpOptimized

LEMMA ParseSourceFits ==
    ASSUME Typed, NEW p \in Procs, Known(p), ParseSource(p)
    PROVE  \/ \E pc, text, status, shown : Fits(p, pc, text, status, shown)
           \/ \E path, kind, of, next : Apt(p, path, kind, of, next)
<1> DEFINE r == procs[p]
           c == Command(p)
           path == Shared
<1>1. /\ r.pc = "parse" /\ ~Writing(p) /\ Alive(p) /\ r.status = "none" /\ r.shown = "none"
      /\ UNCHANGED <<session, edits, asserts>> /\ r.text \in Texts
  BY AtFacts DEF ParseSource
<1>2. path \in Paths \ Sources
  BY OutputPaths DEF Typed, Fate, Dumps
<1>3. CASE Fate(p) # "unscannable" /\ Dump(p, path, "ast", r.text, "check")
  <2>1. "ast" \in Kinds /\ r.text \in Texts /\ "check" \in Pcs
    BY <1>1, TextTypes DEF Kinds, Pcs
  <2>2. CASE c.dump /\ path \notin session.closed /\ Opens(p, path, "ast", r.text, "check")
    <3>1. Apt(p, path, "ast", r.text, "check")
      BY <1>1, <1>2, <1>3, <2>2, OutputPaths, CommandFacts DEF Typed, Fate, Shared, Apt, Known, KnownAs, Written, FaithfulAs, Compiling, Checked, Verified, Accepted, Sound, KindOf, Asked, DumpsOf, Dumps
    <3> QED  BY <3>1
  <2>3. CASE /\ ~c.dump \/ path \in session.closed
             /\ Quiet(p, "check", r.text, r.status, r.shown)
    <3>1. Fits(p, "check", r.text, r.status, r.shown)
      BY <1>1, <1>2, <1>3, <2>3, OutputPaths, CommandFacts DEF Typed, Fate, Fits, Known, KnownAs, Written, FaithfulAs, Compiling, Checked, Verified, Accepted, Sound, KindOf, Asked, DumpsOf, Dumps
    <3> QED  BY <3>1
  <2>4. \/ c.dump /\ path \notin session.closed /\ Opens(p, path, "ast", r.text, "check")
        \/ /\ ~c.dump \/ path \in session.closed
           /\ Quiet(p, "check", r.text, r.status, r.shown)
    <3> HIDE DEF path
    <3> QED  BY <1>1, <1>2, <1>3, <2>1, DumpOpens
  <2> QED  BY <2>2, <2>3, <2>4
<1>4. CASE Fate(p) = "unscannable" /\ Abort(p) /\ UNCHANGED files
  <2>1. Quiet(p, "ended", r.text, "aborted", "none")
    BY <1>1, <1>4, Moves DEF Quiet, Statuses
  <2>2. Fits(p, "ended", r.text, "aborted", "none")
    BY <1>1, <1>4, <2>1 DEF Fate, Fits, Known, KnownAs, Written, FaithfulAs, Compiling, Checked, Verified, Accepted, Sound
  <2> QED  BY <2>2
<1> QED  BY <1>3, <1>4 DEF ParseSource

LEMMA EmitOpenFits ==
    ASSUME Typed, NEW p \in Procs, Known(p), EmitOpen(p)
    PROVE  \E path, kind, of, next : Apt(p, path, kind, of, next)
<1> DEFINE r == procs[p]
           c == Command(p)
<1>1. /\ r.pc = "act" /\ ~Writing(p) /\ Alive(p) /\ r.status = "none" /\ r.shown = "none"
      /\ UNCHANGED <<session, edits, asserts>> /\ r.text \in Texts
      /\ c.o \notin session.closed
      /\ Write(p, c.o, File("object", r.text, p), "emitted")
  BY AtFacts DEF EmitOpen, Acts
<1>2. c.o # NoOutput
  BY DEF EmitOpen, Acts
<1>3. c.o \in Paths \ Sources
  BY <1>2, OutputPaths DEF Typed
<1>4. "object" \in Kinds /\ "emitted" \in Pcs
  BY DEF Kinds, Pcs
<1>5. Opens(p, c.o, "object", r.text, "emitted")
  BY <1>1, <1>3, <1>4, WriteOpens
<1>6. Apt(p, c.o, "object", r.text, "emitted")
  BY <1>1, <1>2, <1>3, <1>5, CommandFacts DEF Typed, Apt, Known, KnownAs, Written, FaithfulAs, Compiling, Checked, Verified, Accepted, Sound, KindOf, Asked, DumpsOf, Dumps
<1> QED  BY <1>6

\* Every step of a process is of one of three kinds.
Moved(p) ==
    \/ Closes(p)
    \/ \E pc, text, status, shown : Fits(p, pc, text, status, shown)
    \/ \E path, kind, of, next : Apt(p, path, kind, of, next)

\* Every step of a process opens a file, closes one, or does neither.
LEMMA StepMoves ==
    ASSUME Typed, NEW p \in Procs, Known(p), WritesAsAsked(p), Step(p) \/ Kill(p)
    PROVE  Moved(p)
<1>1. CASE Close(p)
  BY <1>1, CloseCloses DEF Moved
<1>2. CASE OpenSource(p)
  BY <1>2, OpenSourceFits DEF Moved
<1>3. CASE ReadSource(p)
  BY <1>3, ReadSourceFits DEF Moved
<1>4. CASE DumpTokens(p)
  BY <1>4, DumpTokensFits DEF Moved
<1>5. CASE ParseBuiltins(p)
  BY <1>5, ParseBuiltinsFits DEF Moved
<1>6. CASE ParseSource(p)
  BY <1>6, ParseSourceFits DEF Moved
<1>7. CASE CheckSource(p)
  BY <1>7, CheckSourceFits DEF Moved
<1>8. CASE dumpSyntax(p)
  BY <1>8, dumpSyntaxFits DEF Moved
<1>9. CASE Codegen(p)
  BY <1>9, CodegenFits DEF Moved
<1>10. CASE DumpInitial(p)
  BY <1>10, DumpInitialFits DEF Moved
<1>11. CASE Verify(p)
  BY <1>11, VerifyFits DEF Moved
<1>12. CASE optimize(p)
  BY <1>12, optimizeFits DEF Moved
<1>13. CASE DumpOptimized(p)
  BY <1>13, DumpOptimizedFits DEF Moved
<1>14. CASE EmitFails(p)
  BY <1>14, EmitFailsFits DEF Moved
<1>15. CASE EmitOpen(p)
  BY <1>15, EmitOpenFits DEF Moved
<1>16. CASE EmitRefused(p)
  BY <1>16, EmitRefusedFits DEF Moved
<1>17. CASE EmitEnd(p)
  BY <1>17, EmitEndFits DEF Moved
<1>18. CASE EmitIR(p)
  BY <1>18, EmitIRFits DEF Moved
<1>19. CASE runViaJIT(p)
  BY <1>19, runViaJITFits DEF Moved
<1>20. CASE RunEnds(p)
  BY <1>20, RunEndsFits DEF Moved
<1>21. CASE NoAction(p)
  BY <1>21, NoActionFits DEF Moved
<1>22. CASE Kill(p)
  BY <1>22, KillFits DEF Moved
<1> QED
  BY <1>1, <1>2, <1>3, <1>4, <1>5, <1>6, <1>7, <1>8, <1>9, <1>10, <1>11, <1>12, <1>13, <1>14,
     <1>15, <1>16, <1>17, <1>18, <1>19, <1>20, <1>21, <1>22 DEF Step

-----------------------------------------------------------------------------
(* What a step of a process leaves to the others. *)

\* Nothing of process q has changed but the processes it has met.
Still(q) ==
    /\ procs'[q].pc = procs[q].pc /\ procs'[q].text = procs[q].text
    /\ procs'[q].writing = procs[q].writing
    /\ procs'[q].status = procs[q].status /\ procs'[q].shown = procs[q].shown

\* Of the processes, only p has changed, and has met no other.
Only(p) ==
    /\ Alive(p)
    /\ procs' \in [Procs -> Processes]
    /\ \A q \in Procs \ {p} : procs'[q] = procs[q]
    /\ procs'[p].met = procs[p].met /\ procs'[p].pc # "idle"
    /\ UNCHANGED <<session, edits, asserts>>

\* What is known of a process depends on its own record and command only.
LEMMA StillKnown ==
    ASSUME session' = session, asserts' = asserts, NEW q \in Procs, Still(q)
    PROVE  /\ Known(q) => Known(q)'
           /\ WritesAsAsked(q) => WritesAsAsked(q)'
           /\ Alive(q)' = Alive(q) /\ Writing(q)' = Writing(q)
<1>1. Command(q)' = Command(q)
  BY SameCommand
<1>2. Alive(q)' = Alive(q) /\ Writing(q)' = Writing(q)
  BY DEF Alive, Writing, Still
<1>3. ASSUME Known(q) PROVE Known(q)'
  BY <1>1, <1>2, <1>3 DEF Known, KnownAs, Still, Sound, Accepted
<1>4. ASSUME WritesAsAsked(q) PROVE WritesAsAsked(q)'
  BY <1>1, <1>2, <1>4 DEF WritesAsAsked, Still, Accepted
<1> QED  BY <1>2, <1>3, <1>4

LEMMA OnlyFacts ==
    ASSUME Inv, NEW p \in Procs, Only(p)
    PROVE  /\ Overlaps'
           /\ \A q \in Procs : Command(q)' = Command(q)
           /\ \A q \in Procs : \A f : Rivals(q, f)' = Rivals(q, f)
           /\ \A q \in Procs \ {p} :
                 /\ Known(q)' /\ WritesAsAsked(q)'
                 /\ Alive(q)' = Alive(q) /\ Writing(q)' = Writing(q)
           /\ \A q \in Procs \ {p} : \A f : f \in Asked(Command(p)) => p \in Rivals(q, f)
           /\ \A q \in Procs \ {p} : Alive(q) => p \in procs[q].met
<1>1. \A q \in Procs : Command(q)' = Command(q)
  BY SameCommand DEF Only
<1>2. Overlaps'
  <2>1. \A q \in Procs : /\ procs'[q].met = procs[q].met /\ (Alive(q)' => Alive(q))
                         /\ procs'[q].pc = "idle" => procs[q].pc = "idle"
    BY DEF Only, Alive
  <2> SUFFICES ASSUME NEW q \in Procs
               PROVE  /\ q \notin procs'[q].met
                      /\ procs'[q].pc = "idle" => procs'[q].met = {}
                      /\ Alive(q)' => \A s \in Procs \ {q} : Alive(s)' => s \in procs'[q].met
    BY DEF Overlaps
  <2>2. /\ q \notin procs[q].met
        /\ procs[q].pc = "idle" => procs[q].met = {}
        /\ Alive(q) => \A s \in Procs \ {q} : Alive(s) => s \in procs[q].met
    BY DEF Inv, Overlaps
  <2> QED  BY <2>1, <2>2
<1>3. \A q \in Procs : \A f : Rivals(q, f)' = Rivals(q, f)
  BY <1>1 DEF Rivals, Only, Alive
<1>4. \A q \in Procs \ {p} :
         /\ Known(q)' /\ WritesAsAsked(q)'
         /\ Alive(q)' = Alive(q) /\ Writing(q)' = Writing(q)
  <2>1. \A q \in Procs \ {p} : Still(q)
    BY DEF Only, Still
  <2> QED  BY <2>1, StillKnown DEF Inv, Only
<1>5. \A q \in Procs \ {p} : \A f : f \in Asked(Command(p)) => p \in Rivals(q, f)
  BY DEF Rivals, Only, Alive
<1>6. \A q \in Procs \ {p} : Alive(q) => p \in procs[q].met
  BY DEF Inv, Overlaps, Only
<1> QED  BY <1>1, <1>2, <1>3, <1>4, <1>5, <1>6


-----------------------------------------------------------------------------
(* The invariant is inductive. *)

\* Steps that open and close nothing keep the invariant.
LEMMA FitsKeeps ==
    ASSUME Inv, NEW p \in Procs, NEW pc, NEW text, NEW status, NEW shown,
           Fits(p, pc, text, status, shown)
    PROVE  Inv'
<1> DEFINE r == procs[p]
           c == Command(p)
<1>1. /\ Alive(p) /\ UNCHANGED <<files, session, edits, asserts>> /\ pc # "idle"
      /\ Becomes(p, pc, text, r.writing, status, shown)
  BY DEF Fits, Quiet
<1>2. Only(p)
  BY <1>1 DEF Only, Becomes
<1>3. Typed'
  BY <1>1 DEF Becomes, Inv, Typed
<1>4. Writing(p)' = Writing(p) /\ Command(p)' = c
  BY <1>1, <1>2, OnlyFacts DEF Becomes, Writing
<1>5. Known(p)'
  BY <1>1, <1>4 DEF Becomes, Fits, Known, KnownAs, Sound, Accepted
<1>6. WritesAsAsked(p)'
  BY <1>1, <1>4 DEF Becomes, Fits, Inv, WritesAsAsked, Accepted
<1>7. Contested'
  <2> SUFFICES ASSUME NEW q \in Procs PROVE ContestedBy(q)'
    BY DEF Contested
  <2>1. CASE q = p
    BY <1>1, <1>4, <2>1 DEF Fits, Becomes, Alive, ContestedBy
  <2>2. CASE q # p
    <3>1. ContestedBy(q)
      BY DEF Inv, Contested
    <3> QED  BY <1>1, <1>2, <2>2, <3>1, OnlyFacts DEF ContestedBy, Only
  <2> QED  BY <2>1, <2>2
<1>8. Clean'
  BY <1>1 DEF Inv, Clean, Accepted
<1>9. Incomplete'
  <2> SUFFICES ASSUME NEW f \in Paths, ~files[f].whole, NEW q \in Procs, Excused(f, q)
               PROVE  Excused(f, q)'
    BY <1>1 DEF Inv, Incomplete
  <2>1. CASE q = p
    BY <1>1, <1>2, <1>4, <2>1, OnlyFacts DEF Excused, Fits, Becomes, Known, KnownAs
  <2>2. CASE q # p
    BY <1>1, <1>2, <2>2, OnlyFacts DEF Excused, Only
  <2> QED  BY <2>1, <2>2
<1>10. Faithful'
  <2> SUFFICES ASSUME edits = 0, NEW q \in Procs PROVE FaithfulFor(q)'
    BY <1>1 DEF Faithful
  <2>1. FaithfulFor(q)
    BY DEF Inv, Faithful
  <2>2. CASE q = p
    BY <1>1, <1>4, <2>1, <2>2 DEF FaithfulFor, FaithfulAs, Fits, Becomes
  <2>3. CASE q # p
    BY <1>1, <1>2, <2>1, <2>3, OnlyFacts DEF FaithfulFor, FaithfulAs, Only
  <2> QED  BY <2>2, <2>3
<1>11. AllFiled'
  <2> SUFFICES ASSUME NEW q \in Procs, NEW f \in Asked(Command(q))
               PROVE  Filed(q, f)'
    BY <1>2, OnlyFacts DEF AllFiled
  <2>1. Filed(q, f)
    BY DEF Inv, AllFiled
  <2>2. CASE q = p
    BY <1>1, <1>2, <1>4, <2>1, <2>2, OnlyFacts DEF Filed, Fits, Becomes
  <2>3. CASE q # p
    BY <1>1, <1>2, <2>1, <2>3, OnlyFacts DEF Filed, Only
  <2> QED  BY <2>2, <2>3
<1>12. \A q \in Procs : Known(q)' /\ WritesAsAsked(q)'
  BY <1>2, <1>5, <1>6, OnlyFacts
<1>13. Overlaps'
  BY <1>2, OnlyFacts
<1> QED  BY <1>3, <1>7, <1>8, <1>9, <1>10, <1>11, <1>12, <1>13 DEF Inv

\* Steps that open a file keep the invariant.
LEMMA AptKeeps ==
    ASSUME Inv, NEW p \in Procs, NEW path, NEW kind, NEW of, NEW next,
           Apt(p, path, kind, of, next)
    PROVE  Inv'
<1> DEFINE r == procs[p]
           c == Command(p)
           whole == File(kind, of, p)
           part == [whole EXCEPT !.whole = FALSE]
           w == [path |-> path, file |-> whole]
<1>1. /\ Alive(p) /\ ~Writing(p) /\ UNCHANGED <<session, edits, asserts>>
      /\ next \notin {"idle", "ended"}
      /\ path \in Paths \ Sources /\ kind \in Kinds \ {"source"} /\ of \in Texts
      /\ Becomes(p, next, r.text, w, r.status, r.shown)
      /\ files' = [files EXCEPT ![path] = part]
  BY DEF Apt, Opens
<1>2. Only(p)
  BY <1>1 DEF Only, Becomes
<1>3. /\ whole.kind = kind /\ whole.of = of /\ whole.by = p /\ whole.whole
      /\ part.kind = kind /\ part.of = of /\ part.by = p /\ ~part.whole
      /\ part \in FileValues /\ w.path = path /\ w.file = whole
  BY <1>1, FileTypes DEF File
<1>4. /\ files'[path] = part
      /\ \A f \in Paths \ {path} : files'[f] = files[f]
  BY <1>1 DEF Inv, Typed
<1>5. w # NotWriting
  <2>1. path # NoOutput
    BY AskedPaths DEF Apt, Inv, Typed
  <2> QED  BY <1>3, <2>1 DEF NotWriting, NoOutput
<1>6. Writing(p)' /\ procs'[p].writing = w /\ Command(p)' = c /\ r.status = "none"
  BY <1>1, <1>2, <1>5, OnlyFacts DEF Becomes, Writing, Apt, KnownAs
<1> HIDE DEF w, part, whole
<1>7. Typed'
  BY <1>1, <1>3 DEF Becomes, Inv, Typed
<1>8. Known(p)'
  BY <1>1, <1>6 DEF Becomes, Apt, Known, KnownAs, Sound, Accepted
<1>9. WritesAsAsked(p)'
  BY <1>1, <1>3, <1>6 DEF Becomes, Apt, WritesAsAsked, Accepted
<1>10. Contested'
  <2> SUFFICES ASSUME NEW q \in Procs PROVE ContestedBy(q)'
    BY DEF Contested
  <2>1. CASE q = p
    BY <1>3, <1>4, <1>6, <2>1 DEF ContestedBy
  <2>2. CASE q # p
    <3>1. ContestedBy(q) /\ WritesAsAsked(q)
      BY DEF Inv, Contested
    <3>2. CASE procs[q].writing.path = path
      BY <1>1, <1>2, <1>3, <1>4, <2>2, <3>2, OnlyFacts DEF ContestedBy, Only, Apt
    <3>3. CASE procs[q].writing.path # path
      BY <1>1, <1>2, <1>4, <2>2, <3>1, <3>3, OnlyFacts DEF ContestedBy, WritesAsAsked, Only
    <3> QED  BY <3>2, <3>3
  <2> QED  BY <2>1, <2>2
<1>11. Clean'
  BY <1>1, <1>3, <1>4 DEF Inv, Clean, Accepted, Apt
<1>12. Incomplete'
  <2> SUFFICES ASSUME NEW f \in Paths, ~files'[f].whole PROVE \E q \in Procs : Excused(f, q)'
    BY DEF Incomplete
  <2>1. CASE f = path
    BY <1>3, <1>6, <2>1, <1>1 DEF Excused, Becomes
  <2>2. CASE f # path
    <3>1. PICK q \in Procs : Excused(f, q)
      BY <1>4, <2>2 DEF Inv, Incomplete
    <3>2. CASE q = p
      BY <1>1, <1>2, <1>6, <3>1, <3>2, OnlyFacts DEF Excused, Only
    <3>3. CASE q # p
      BY <1>1, <1>2, <3>1, <3>3, OnlyFacts DEF Excused, Only
    <3> QED  BY <3>2, <3>3
  <2> QED  BY <2>1, <2>2
<1>13. Faithful'
  <2> SUFFICES ASSUME edits = 0, NEW q \in Procs PROVE FaithfulFor(q)'
    BY <1>1 DEF Faithful
  <2>1. FaithfulFor(q)
    BY DEF Inv, Faithful
  <2>2. \A f \in Sources : files'[f] = files[f]
    BY <1>1, <1>4 DEF Paths
  <2>3. CASE q = p
    BY <1>1, <1>6, <2>1, <2>2, <2>3 DEF FaithfulFor, FaithfulAs, Apt, Becomes
  <2>4. CASE q # p
    BY <1>1, <1>2, <2>1, <2>2, <2>4, OnlyFacts DEF FaithfulFor, FaithfulAs, Only
  <2> QED  BY <2>3, <2>4
<1>14. AllFiled'
  <2> SUFFICES ASSUME NEW q \in Procs, NEW f \in Asked(Command(q))
               PROVE  Filed(q, f)'
    BY <1>2, OnlyFacts DEF AllFiled
  <2>1. Filed(q, f)
    BY DEF Inv, AllFiled
  <2>2. f \in Paths
    BY AskedPaths DEF Inv, Typed
  <2>3. CASE q = p /\ f = path
    BY <1>1, <1>3, <1>4, <1>6, <2>3 DEF Filed, Apt, Becomes, whole
  <2>4. CASE q = p /\ f # path
    BY <1>1, <1>2, <1>3, <1>4, <1>6, <2>1, <2>2, <2>4, OnlyFacts DEF Filed, Apt, Becomes
  <2>5. CASE q # p /\ f = path
    BY <1>2, <2>5, OnlyFacts DEF Filed, Apt, Only
  <2>6. CASE q # p /\ f # path
    BY <1>1, <1>2, <1>4, <2>1, <2>2, <2>6, OnlyFacts DEF Filed, Only
  <2> QED  BY <2>3, <2>4, <2>5, <2>6
<1>15. \A q \in Procs : Known(q)' /\ WritesAsAsked(q)'
  BY <1>2, <1>8, <1>9, OnlyFacts
<1>16. Overlaps'
  BY <1>2, OnlyFacts
<1> QED  BY <1>7, <1>10, <1>11, <1>12, <1>13, <1>14, <1>15, <1>16 DEF Inv

\* Closing a file keeps the invariant.
LEMMA ClosesKeeps ==
    ASSUME Inv, NEW p \in Procs, Closes(p)
    PROVE  Inv'
<1> DEFINE r == procs[p]
           c == Command(p)
           w == r.writing
           path == w.path
<1>1. /\ Alive(p) /\ Writing(p) /\ UNCHANGED <<session, edits, asserts>>
      /\ Becomes(p, r.pc, r.text, NotWriting, r.status, r.shown)
  BY DEF Closes
<1>2. PICK whole \in BOOLEAN :
         /\ files[path].by = p => whole
         /\ files' = [files EXCEPT ![path] = [w.file EXCEPT !.whole = whole]]
  BY DEF Closes
<1> DEFINE new == [w.file EXCEPT !.whole = whole]
<1>3. Only(p)
  BY <1>1 DEF Only, Becomes, Alive
<1>4. Known(p) /\ WritesAsAsked(p) /\ ContestedBy(p)
  BY DEF Inv, Contested
<1>5. path \in Asked(c) \cap Paths /\ path \notin Sources \cup session.closed
  BY <1>1, <1>4 DEF WritesAsAsked
<1>6. w.file \in FileValues
  BY <1>1 DEF Inv, Typed, Processes, Writings
<1>7. /\ new \in FileValues /\ new.kind = w.file.kind /\ new.of = w.file.of
      /\ new.by = p /\ new.whole = whole /\ (whole => new = w.file)
  BY <1>1, <1>4, <1>6 DEF WritesAsAsked, FileValues
<1>8. /\ files'[path] = new
      /\ \A f \in Paths \ {path} : files'[f] = files[f]
  BY <1>2, <1>5 DEF Inv, Typed
<1>9. files' \in [Paths -> FileValues]
  BY <1>2, <1>5, <1>7 DEF Inv, Typed
<1>10. ~Writing(p)' /\ Command(p)' = c /\ r.status = "none"
  BY <1>1, <1>3, <1>4, OnlyFacts DEF Becomes, Writing, Alive, Known, KnownAs
<1> HIDE DEF w, path, new
<1>11. Typed'
  BY <1>1, <1>9 DEF Becomes, Inv, Typed
<1>12. Known(p)'
  BY <1>1, <1>4, <1>10 DEF Becomes, Known, KnownAs, Sound, Accepted
<1>13. WritesAsAsked(p)'
  BY <1>10 DEF WritesAsAsked
<1>14. Contested'
  <2> SUFFICES ASSUME NEW q \in Procs PROVE ContestedBy(q)'
    BY DEF Contested
  <2>1. CASE q = p
    BY <1>10, <2>1 DEF ContestedBy
  <2>2. CASE q # p
    <3>1. ContestedBy(q) /\ WritesAsAsked(q)
      BY DEF Inv, Contested
    <3>2. CASE procs[q].writing.path = path
      BY <1>1, <1>3, <1>5, <1>7, <1>8, <2>2, <3>2, OnlyFacts DEF ContestedBy, Only
    <3>3. CASE procs[q].writing.path # path
      BY <1>1, <1>3, <1>8, <2>2, <3>1, <3>3, OnlyFacts DEF ContestedBy, WritesAsAsked, Only
    <3> QED  BY <3>2, <3>3
  <2> QED  BY <2>1, <2>2
<1>15. Clean'
  BY <1>1, <1>4, <1>5, <1>7, <1>8 DEF Inv, Clean, Accepted, WritesAsAsked, w, path
<1>16. Incomplete'
  <2> SUFFICES ASSUME NEW f \in Paths, ~files'[f].whole PROVE \E q \in Procs : Excused(f, q)'
    BY DEF Incomplete
  <2>1. CASE f = path
    <3>1. files[path].by # p
      BY <1>2, <1>7, <1>8, <2>1
    <3>2. /\ files[path].by \in procs[p].met
          /\ files[path].by \in Rivals(p, path)
      BY <1>1, <1>4, <3>1 DEF ContestedBy, Rivals, path, w
    <3>3. Excused(f, p)'
      BY <1>1, <1>3, <1>5, <1>10, <2>1, <3>2, OnlyFacts DEF Excused, Only
    <3> QED  BY <3>3
  <2>2. CASE f # path
    <3>1. PICK q \in Procs : Excused(f, q)
      BY <1>8, <2>2 DEF Inv, Incomplete
    <3>2. CASE q = p
      BY <1>1, <1>3, <1>10, <2>2, <3>1, <3>2, OnlyFacts DEF Excused, Only, path, w
    <3>3. CASE q # p
      BY <1>1, <1>3, <3>1, <3>3, OnlyFacts DEF Excused, Only
    <3> QED  BY <3>2, <3>3
  <2> QED  BY <2>1, <2>2
<1>17. Faithful'
  <2> SUFFICES ASSUME edits = 0, NEW q \in Procs PROVE FaithfulFor(q)'
    BY <1>1 DEF Faithful
  <2>1. FaithfulFor(q)
    BY DEF Inv, Faithful
  <2>2. \A f \in Sources : files'[f] = files[f]
    BY <1>5, <1>8 DEF Paths
  <2>3. CASE q = p
    BY <1>1, <1>10, <2>1, <2>2, <2>3 DEF FaithfulFor, FaithfulAs, Becomes
  <2>4. CASE q # p
    BY <1>1, <1>3, <2>1, <2>2, <2>4, OnlyFacts DEF FaithfulFor, FaithfulAs, Only
  <2> QED  BY <2>3, <2>4
<1>18. AllFiled'
  <2> SUFFICES ASSUME NEW q \in Procs, NEW f \in Asked(Command(q))
               PROVE  Filed(q, f)'
    BY <1>3, OnlyFacts DEF AllFiled
  <2>1. Filed(q, f)
    BY DEF Inv, AllFiled
  <2>2. f \in Paths
    BY AskedPaths DEF Inv, Typed
  <2>3. CASE q = p /\ f = path
    BY <1>1, <1>2, <1>3, <1>7, <1>8, <1>10, <2>1, <2>3, OnlyFacts
       DEF Filed, Becomes, path, w
  <2>4. CASE q = p /\ f # path
    BY <1>1, <1>3, <1>8, <1>10, <2>1, <2>2, <2>4, OnlyFacts DEF Filed, Becomes, path, w
  <2>5. CASE q # p /\ f = path
    BY <1>3, <1>5, <2>5, OnlyFacts DEF Filed, Only
  <2>6. CASE q # p /\ f # path
    BY <1>1, <1>3, <1>8, <2>1, <2>2, <2>6, OnlyFacts DEF Filed, Only
  <2> QED  BY <2>3, <2>4, <2>5, <2>6
<1>19. \A q \in Procs : Known(q)' /\ WritesAsAsked(q)'
  BY <1>3, <1>12, <1>13, OnlyFacts
<1>20. Overlaps'
  BY <1>3, OnlyFacts
<1> QED  BY <1>11, <1>14, <1>15, <1>16, <1>17, <1>18, <1>19, <1>20 DEF Inv

\* A process that has started and met others.
Opening(r, met) == [r EXCEPT !.pc = "open", !.met = met]

LEMMA Started ==
    ASSUME NEW r \in Processes, NEW met \in SUBSET Procs
    PROVE  LET n == Opening(r, met)
           IN  /\ n \in Processes
               /\ n.pc = "open" /\ n.met = met /\ n.text = r.text
               /\ n.writing = r.writing /\ n.status = r.status /\ n.shown = r.shown
<1> DEFINE n == Opening(r, met)
<1>1. "open" \in Pcs
  BY DEF Pcs
<1>2. n \in Processes
  BY <1>1 DEF Processes, Opening
<1>3. /\ n.pc = "open" /\ n.met = met /\ n.text = r.text
      /\ n.writing = r.writing /\ n.status = r.status /\ n.shown = r.shown
  BY DEF Processes, Opening
<1> QED  BY <1>2, <1>3

\* A process that starts keeps the invariant: it meets those that are alive.
LEMMA StartKeeps ==
    ASSUME Inv, NEW p \in Procs, Start(p)
    PROVE  Inv'
<1> DEFINE r == procs[p]
           c == Command(p)
           here == {q \in Procs : Alive(q)}
           mine == Opening(r, here)
           theirs(q) == [procs[q] EXCEPT !.met = @ \cup {p}]
<1>1. /\ r.pc = "idle" /\ ~Writing(p) /\ ~Alive(p) /\ r.status = "none" /\ r.shown = "none"
      /\ UNCHANGED <<files, session, edits, asserts>>
  BY DEF Start, At, Writing, Alive, Inv, Known, KnownAs
<1>2. procs' = [q \in Procs |-> IF q = p THEN mine
                                ELSE IF Alive(q) THEN theirs(q) ELSE procs[q]]
  BY DEF Start, Opening
<1>3. \A q \in Procs : procs[q] \in Processes
  BY DEF Inv, Typed
<1>4. /\ mine \in Processes /\ mine.pc = "open" /\ mine.text = r.text
      /\ mine.writing = r.writing /\ mine.status = "none" /\ mine.shown = "none"
      /\ mine.met = here
  <2>1. r \in Processes /\ here \in SUBSET Procs
    BY <1>3
  <2> HIDE DEF here, r
  <2> QED  BY <1>1, <2>1, Started
<1>5. \A q \in Procs :
         /\ theirs(q) \in Processes /\ theirs(q).pc = procs[q].pc
         /\ theirs(q).text = procs[q].text /\ theirs(q).writing = procs[q].writing
         /\ theirs(q).status = procs[q].status /\ theirs(q).shown = procs[q].shown
         /\ theirs(q).met = procs[q].met \cup {p}
  BY <1>3 DEF Processes
<1> HIDE DEF mine, theirs, here
<1>6. procs' \in [Procs -> Processes]
  BY <1>2, <1>3, <1>4, <1>5
<1>7. procs'[p] = mine
  BY <1>2
<1>8. \A q \in Procs \ {p} :
         /\ Still(q)
         /\ procs'[q].met = IF Alive(q) THEN procs[q].met \cup {p} ELSE procs[q].met
  BY <1>2, <1>5 DEF Still
<1>9. \A q \in Procs :
         /\ Command(q)' = Command(q) /\ Writing(q)' = Writing(q)
         /\ q # p => (Alive(q)' <=> Alive(q))
         /\ procs[q].pc # "idle" => procs'[q].pc # "idle"
         /\ q # p => procs[q].met \subseteq procs'[q].met
  BY <1>1, <1>4, <1>7, <1>8, SameCommand DEF Still, Writing, Alive
<1>10. \A q \in Procs : \A f : Rivals(q, f) \subseteq Rivals(q, f)'
  BY <1>9 DEF Rivals
<1>11. Typed'
  BY <1>1, <1>6 DEF Inv, Typed
<1>12. \A q \in Procs : Known(q)' /\ WritesAsAsked(q)'
  <2> SUFFICES ASSUME NEW q \in Procs PROVE Known(q)' /\ WritesAsAsked(q)'
    OBVIOUS
  <2>1. CASE q = p
    BY <1>1, <1>4, <1>7, <1>9, <2>1
       DEF Known, KnownAs, WritesAsAsked, Compiling, Checked, Verified
  <2>2. CASE q # p
    BY <1>1, <1>8, <2>2, StillKnown DEF Inv
  <2> QED  BY <2>1, <2>2
<1>13. Overlaps'
  <2> SUFFICES ASSUME NEW q \in Procs
               PROVE  /\ q \notin procs'[q].met
                      /\ procs'[q].pc = "idle" => procs'[q].met = {}
                      /\ Alive(q)' => \A s \in Procs \ {q} : Alive(s)' => s \in procs'[q].met
    BY DEF Overlaps
  <2>1. CASE q = p
    BY <1>1, <1>4, <1>7, <1>9, <2>1 DEF here
  <2>2. CASE q # p
    <3>1. /\ q \notin procs[q].met
          /\ procs[q].pc = "idle" => procs[q].met = {}
          /\ Alive(q) => \A s \in Procs \ {q} : Alive(s) => s \in procs[q].met
      BY DEF Inv, Overlaps
    <3>2. procs'[q].pc = procs[q].pc /\ (procs[q].pc = "idle" => ~Alive(q))
      BY <1>8, <2>2 DEF Still, Alive
    <3>3. procs'[q].met = IF Alive(q) THEN procs[q].met \cup {p} ELSE procs[q].met
      BY <1>8, <2>2
    <3> QED  BY <1>9, <2>2, <3>1, <3>2, <3>3
  <2> QED  BY <2>1, <2>2
<1>14. Contested'
  <2> SUFFICES ASSUME NEW q \in Procs PROVE ContestedBy(q)'
    BY DEF Contested
  <2>1. CASE q = p
    BY <1>1, <1>9, <2>1 DEF ContestedBy
  <2>2. CASE q # p
    <3>1. ContestedBy(q)
      BY DEF Inv, Contested
    <3> QED  BY <1>1, <1>8, <1>9, <2>2, <3>1 DEF ContestedBy, Still
  <2> QED  BY <2>1, <2>2
<1>15. Clean'
  BY <1>1 DEF Inv, Clean, Accepted
<1>16. Incomplete'
  <2> SUFFICES ASSUME NEW f \in Paths, ~files[f].whole, NEW q \in Procs, Excused(f, q)
               PROVE  Excused(f, q)'
    BY <1>1 DEF Inv, Incomplete
  <2>1. procs[p].met = {}
    BY <1>1 DEF Inv, Overlaps
  <2>2. CASE q = p
    BY <1>1, <2>1, <2>2 DEF Excused
  <2>3. CASE q # p
    BY <1>8, <1>9, <1>10, <2>3 DEF Excused, Still
  <2> QED  BY <2>2, <2>3
<1>17. Faithful'
  <2> SUFFICES ASSUME edits = 0, NEW q \in Procs PROVE FaithfulFor(q)'
    BY <1>1 DEF Faithful
  <2>1. FaithfulFor(q)
    BY DEF Inv, Faithful
  <2>2. CASE q = p
    BY <1>4, <1>7, <2>2 DEF FaithfulFor, FaithfulAs, Compiling, Checked, Verified
  <2>3. CASE q # p
    BY <1>1, <1>8, <1>9, <2>1, <2>3 DEF FaithfulFor, FaithfulAs, Still
  <2> QED  BY <2>2, <2>3
<1>18. AllFiled'
  <2> SUFFICES ASSUME NEW q \in Procs, NEW f \in Asked(Command(q))
               PROVE  Filed(q, f)'
    BY <1>9 DEF AllFiled
  <2>1. Filed(q, f)
    BY DEF Inv, AllFiled
  <2>2. CASE q = p
    BY <1>4, <1>7, <1>9, <2>2 DEF Filed, Written, Checked, Verified
  <2>3. CASE q # p
    BY <1>1, <1>8, <1>9, <1>10, <2>1, <2>3 DEF Filed, Still
  <2> QED  BY <2>2, <2>3
<1> QED  BY <1>11, <1>12, <1>13, <1>14, <1>15, <1>16, <1>17, <1>18 DEF Inv

\* An edit keeps the invariant.
LEMMA EditKeeps ==
    ASSUME Inv, Edit
    PROVE  Inv'
<1>1. PICK source \in Sources, v \in session.edited :
         files' = [files EXCEPT ![source] = SourceFile(v)]
  BY DEF Edit
<1> DEFINE new == SourceFile(v)
<1>2. UNCHANGED <<session, procs, asserts>> /\ edits' \in 0 .. session.edits /\ edits' # 0
  BY SessionsAssumption DEF Edit, Inv, Typed
<1>3. v \in Texts
  BY TextTypes DEF Inv, Typed
<1>4. new \in FileValues /\ new.kind = "source" /\ new.whole
  BY <1>3, FileTypes DEF SourceFile, File
<1>5. files' = [files EXCEPT ![source] = new]
  BY <1>1
<1> HIDE DEF new
<1>6. files'[source] = new /\ \A f \in Paths \ {source} : files'[f] = files[f]
  BY <1>5 DEF Inv, Typed, Paths
<1>7. \A q \in Procs :
         /\ Command(q)' = Command(q) /\ Writing(q)' = Writing(q) /\ Alive(q)' = Alive(q)
         /\ \A f : Rivals(q, f)' = Rivals(q, f)
  BY <1>2, SameCommand DEF Writing, Alive, Rivals
<1>8. Typed'
  BY <1>2, <1>4, <1>5 DEF Inv, Typed
<1>9. \A q \in Procs : Known(q)' /\ WritesAsAsked(q)'
  BY <1>2, StillKnown DEF Inv, Still
<1>10. Overlaps'
  BY <1>2, <1>7 DEF Inv, Overlaps
<1>11. Contested'
  <2> SUFFICES ASSUME NEW q \in Procs PROVE ContestedBy(q)'
    BY DEF Contested
  <2>1. ContestedBy(q) /\ WritesAsAsked(q)
    BY DEF Inv, Contested
  <2> QED  BY <1>2, <1>6, <1>7, <2>1 DEF ContestedBy, WritesAsAsked
<1>12. Clean'
  BY <1>2, <1>4, <1>6 DEF Inv, Clean, Accepted
<1>13. Incomplete'
  BY <1>2, <1>4, <1>6, <1>7 DEF Inv, Incomplete, Excused
<1>14. Faithful'
  BY <1>2 DEF Faithful
<1>15. AllFiled'
  <2> SUFFICES ASSUME NEW q \in Procs, NEW f \in Asked(Command(q))
               PROVE  Filed(q, f)'
    BY <1>7 DEF AllFiled
  <2>1. Filed(q, f)
    BY DEF Inv, AllFiled
  <2>2. f \in Paths \ Sources
    BY AskedPaths DEF Inv, Typed
  <2> QED  BY <1>2, <1>6, <1>7, <2>1, <2>2 DEF Filed
<1> QED  BY <1>8, <1>9, <1>10, <1>11, <1>12, <1>13, <1>14, <1>15 DEF Inv

\* So does no step.
LEMMA StutterKeeps ==
    ASSUME Inv, UNCHANGED vars
    PROVE  Inv'
<1>1. UNCHANGED <<files, session, procs, edits, asserts>>
  BY DEF vars
<1>2. \A q \in Procs :
         /\ Command(q)' = Command(q) /\ Writing(q)' = Writing(q) /\ Alive(q)' = Alive(q)
         /\ \A f : Rivals(q, f)' = Rivals(q, f)
  BY <1>1, SameCommand DEF Writing, Alive, Rivals
<1>3. Typed'
  BY <1>1 DEF Inv, Typed
<1>4. \A q \in Procs : Known(q)' /\ WritesAsAsked(q)'
  BY <1>1, StillKnown DEF Inv, Still
<1>5. Overlaps' /\ Contested'
  BY <1>1, <1>2 DEF Inv, Overlaps, Contested, ContestedBy
<1>6. Clean' /\ Incomplete'
  BY <1>1, <1>2 DEF Inv, Clean, Incomplete, Excused, Accepted
<1>7. Faithful' /\ AllFiled'
  BY <1>1, <1>2 DEF Inv, Faithful, FaithfulFor, FaithfulAs, AllFiled, Filed
<1> QED  BY <1>3, <1>4, <1>5, <1>6, <1>7 DEF Inv

\* The invariant holds initially.
LEMMA Begins ==
    Init => Inv
<1> SUFFICES ASSUME Init PROVE Inv
  OBVIOUS
<1>1. Typed
  BY StartTyped
<1>2. /\ \A p \in Procs : procs[p] = Idle
      /\ edits = 0
  BY DEF Init
<1>3. /\ Idle.pc = "idle" /\ Idle.writing = NotWriting /\ Idle.status = "none"
      /\ Idle.shown = "none" /\ Idle.met = {}
  BY DEF Idle
<1>4. \A p \in Procs : ~Alive(p) /\ ~Writing(p)
  BY <1>2, <1>3 DEF Alive, Writing
<1>5. \A p \in Procs : Known(p) /\ WritesAsAsked(p)
  BY <1>2, <1>3, <1>4 DEF Known, KnownAs, WritesAsAsked, Compiling, Checked, Verified
<1>6. Overlaps /\ Contested
  BY <1>2, <1>3, <1>4 DEF Overlaps, Contested, ContestedBy
<1>7. PICK v \in [Sources -> UNION Range(session.texts)] :
         files = [f \in Paths |-> IF f \in Sources THEN SourceFile(v[f]) ELSE NoFile]
  BY DEF Init
<1>8. Clean /\ Incomplete
  <2>1. NoFile.kind = "none" /\ NoFile.of.fate = "good" /\ NoFile.whole
    BY DEF NoFile, File, NoText, Text
  <2>2. \A f \in Sources : SourceFile(v[f]).kind = "source" /\ SourceFile(v[f]).whole
    BY DEF SourceFile, File
  <2> QED  BY <1>7, <2>1, <2>2 DEF Clean, Incomplete, Accepted, Rejected, Broken
<1>9. Faithful /\ AllFiled
  BY <1>2, <1>3
     DEF Faithful, FaithfulFor, FaithfulAs, AllFiled, Filed, Written, Compiling, Checked, Verified
<1> QED  BY <1>1, <1>5, <1>6, <1>8, <1>9 DEF Inv

\* Every step keeps the invariant.
LEMMA NextKeeps ==
    Inv /\ [Next]_vars => Inv'
<1> SUFFICES ASSUME Inv, [Next]_vars PROVE Inv'
  OBVIOUS
<1>1. CASE Edit
  BY <1>1, EditKeeps
<1>2. ASSUME NEW p \in Procs, Start(p) PROVE Inv'
  BY <1>2, StartKeeps
<1>3. ASSUME NEW p \in Procs, Step(p) \/ Kill(p) PROVE Inv'
  <2>1. Moved(p)
    BY <1>3, StepMoves DEF Inv
  <2> QED  BY <2>1, FitsKeeps, AptKeeps, ClosesKeeps DEF Moved
<1>4. CASE UNCHANGED vars
  BY <1>4, StutterKeeps
<1> QED  BY <1>1, <1>2, <1>3, <1>4 DEF Next

-----------------------------------------------------------------------------
(* What follows. *)

\* The properties follow from the invariant.
LEMMA InvImplies ==
    ASSUME Inv
    PROVE  TypeOK /\ NothingWrongGoesOut /\ FilesAreWhole /\ StatusIsTrue /\ Delivered
<1>1. TypeOK
  <2>1. \A f \in Paths : files[f].kind \in Kinds /\ files[f].by \in Procs \cup {"user"}
    BY DEF Inv, Typed, FileValues
  <2>2. \A f \in Paths : files[f].kind = "source" <=> f \in Sources
    BY DEF Inv, Clean
  <2>3. ASSUME NEW p \in Procs
        PROVE  /\ procs[p].status \in Statuses /\ (procs[p].status = "none" <=> procs[p].pc # "ended")
               /\ procs[p].writing # NotWriting
                     => procs[p].writing.path \in Paths \ (Sources \cup session.closed)
               /\ procs[p].met \subseteq Procs \ {p}
    <3>1. procs[p] \in Processes /\ Known(p) /\ WritesAsAsked(p) /\ p \notin procs[p].met
      BY DEF Inv, Typed, Overlaps
    <3> QED  BY <3>1 DEF Processes, Known, KnownAs, WritesAsAsked, Writing
  <2> QED  BY <2>1, <2>2, <2>3 DEF TypeOK, Inv, Typed
<1>2. NothingWrongGoesOut
  <2>1. ASSUME NEW p \in Procs, procs[p].shown \in {"ir", "run"}
        PROVE  Accepted(procs[p].text) /\ (asserts => Fate(p) \notin Broken)
    BY <2>1 DEF Inv, Known, KnownAs, Sound, Fate
  <2> QED  BY <2>1 DEF NothingWrongGoesOut, Inv, Clean
<1>3. FilesAreWhole
  BY DEF FilesAreWhole, Inv, Incomplete, Excused
<1>4. StatusIsTrue
  <2> SUFFICES ASSUME NEW p \in Procs, Known(p)
               PROVE  LET c == Command(p) IN
                      /\ procs[p].status = "1" => Accepted(procs[p].text) /\ ~c.tokens /\ (c.o = NoOutput => ~c.ir)
                      /\ procs[p].status = "-1" =>
                            c.arg \notin Sources \/ Fate(p) \in Rejected \/ procs[p].shown = "run"
                      /\ procs[p].status = "aborted" =>
                            Fate(p) \in {"unscannable", "unsized", "fails"} \cup Broken \/ c.tokens
                      /\ procs[p].status = "0" =>
                            \/ procs[p].shown = IF c.tokens THEN "tokens" ELSE IF c.ir THEN "ir" ELSE "run"
                            \/ c.o \notin session.closed \cup {NoOutput}
    BY DEF StatusIsTrue, Inv
  <2> QED  BY DEF Known, KnownAs, Fate
<1>5. Delivered
  <2> SUFFICES ASSUME NEW p \in Procs, procs[p].status = "0", ~Command(p).tokens
               PROVE  /\ Accepted(procs[p].text)
                      /\ edits = 0 => procs[p].text = files[Command(p).arg].of
                      /\ \A f \in Asked(Command(p)) :
                            \/ files[f] = File(KindOf(Command(p), f), procs[p].text, p)
                            \/ f \in session.closed /\ f # Command(p).o
                            \/ Rivals(p, f) # {}
    BY DEF Delivered
  <2>1. Accepted(procs[p].text) /\ ~Writing(p)
    BY DEF Inv, Known, KnownAs
  <2>2. edits = 0 => procs[p].text = files[Command(p).arg].of
    BY DEF Inv, Faithful, FaithfulFor, FaithfulAs
  <2> QED  BY <2>1, <2>2 DEF Inv, AllFiled, Filed
<1> QED  BY <1>1, <1>2, <1>3, <1>4, <1>5

\* Inv is invariant.
LEMMA Invariance == Spec => []Inv
BY Begins, NextKeeps, PTL DEF Spec

\* Files, processes and the number of edits are what they are declared to be,
\* whoever is killed when: sources stay sources, a status is that of an end, and
\* main opens for writing only files that it can write and that are no source.
THEOREM TypeCorrect == Spec => []TypeOK
BY Invariance, InvImplies, PTL

\* Whatever processes overlap, main never lets a text that the parser or the
\* typechecker rejects into a file but test123.ast, to the terminal or to the JIT,
\* nor, with assertions, a module that the verifier rejects.
THEOREM NothingWrong == Spec => []NothingWrongGoesOut
BY Invariance, InvImplies, PTL

\* dumpSyntax, dumpIR and emitObjectFile leave a file incomplete only where a
\* process writes it, was killed, could not emit, or met another one with that file.
THEOREM WholeFiles == Spec => []FilesAreWhole
BY Invariance, InvImplies, PTL

\* The exit status of main means what a script takes it for.
THEOREM TrueStatus == Spec => []StatusIsTrue
BY Invariance, InvImplies, PTL

\* A main that returns 0 has made all the files it was asked for from one accepted
\* text, that of its source unless it was edited.
THEOREM Delivery == Spec => []Delivered
BY Invariance, InvImplies, PTL

=============================================================================
