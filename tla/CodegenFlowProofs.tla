--------------------------- MODULE CodegenFlowProofs ---------------------------
(***************************************************************************)
(* More theorems about CodegenBlocks, on the invariants of                 *)
(* CodegenBlocksProofs: what follows what on the call stack, and from it   *)
(* which instructions may have the wrong type or follow a terminator.      *)
(***************************************************************************)
EXTENDS CodegenBlocksProofs

-----------------------------------------------------------------------------
(* What follows what on the call stack. *)

\* Frames whose visitor returns from a statement, and those that wait for one.
Statements == {"stmt", "seq", "Store", "Ret", "ArraySize", "IfCond", "IfBranchEnd",
               "WhileCond", "LoopEnd", "ForInit", "ForCond", "ForBodyEnd"}
Conts == {"seq", "IfBranchEnd", "LoopEnd", "ForInit", "ForBodyEnd"}

Returning(f) == f.k \in Statements \/ (f.k = "CallEnd" /\ f.want = {})

\* The types that the typechecker may have given to the expression whose visitor
\* runs in f, and those that the visitor that waits for it counts on.
Gives(f) == f.want
Logic == {"&&", "||", "RhsEnd"}
Picky == {"Ret"} \cup Logic
Needs(k) == IF k = "Ret" THEN {FnType}
            ELSE IF k \in Logic THEN LogicTypes
            ELSE Types \cup {"none"}

\* The frame g may wait for the frame f.
Fits(f, g) == IF Returning(f) THEN g.k \in Conts ELSE Gives(f) \subseteq Needs(g.k)
Chain(s) == \A i \in 1 .. Len(s) - 1 : Fits(s[i], s[i + 1])

\* The frames fs and the value v may take the place of the frame f: what waited
\* for f may wait for the last of them, or gets what it needs.
Inherits(f, h) == \A g : Fits(f, g) => Fits(h, g)
Replaces(f, fs, v) ==
    /\ Chain(fs)
    /\ fs # <<>> => Inherits(f, fs[Len(fs)]) /\ v.as \in Needs(fs[1].k)
    /\ fs = <<>> => \A g : Fits(f, g) => v.as \in Needs(g.k)

\* Values have the type they were checked with, and && and || are for bool only,
\* unless the program has functions with the names of builtins.
Checked == {v \in Vals : v.ty = v.as \/ "diverted" \in Forms}
Lawful(f) ==
    /\ f.k = "DivertedEnd" => "diverted" \in Forms
    /\ f.k \in Logic => f.want \subseteq LogicTypes

\* The walk's stack: every frame gets what it waits for, the source's return was
\* left just now only if nothing or a rest of a statement runs, and no loop
\* begins with the entry block.
StackFits ==
    /\ Chain(stack)
    /\ val \in Checked
    /\ stack # <<>> => val.as \in Needs(stack[1].k)
    /\ flow = "returned" /\ stack # <<>> => stack[1].k \in Conts
    /\ \A i \in DOMAIN stack : stack[i].back # Entry /\ Lawful(stack[i])

\* Replacing the running frame keeps the chain.
LEMMA ChainReplaced ==
    ASSUME NEW F, NEW s \in Seq(F), s # <<>>, NEW fs \in Seq(F), NEW v,
           Chain(s), Replaces(s[1], fs, v)
    PROVE  /\ Chain(fs \o Tail(s))
           /\ fs \o Tail(s) # <<>> => v.as \in Needs((fs \o Tail(s))[1].k)
           /\ fs = <<>> /\ Returning(s[1]) /\ fs \o Tail(s) # <<>> =>
                 (fs \o Tail(s))[1].k \in Conts
           /\ fs # <<>> => fs \o Tail(s) # <<>> /\ (fs \o Tail(s))[1] = fs[1]
<1> DEFINE t == fs \o Tail(s)
<1>1. /\ Tail(s) \in Seq(F) /\ Len(Tail(s)) = Len(s) - 1 /\ Len(s) >= 1 /\ Len(s) \in Nat
      /\ \A i \in 1 .. Len(Tail(s)) : Tail(s)[i] = s[i + 1]
  BY HeadTailProperties, EmptySeq, LenProperties
<1>2. /\ t \in Seq(F) /\ Len(fs) \in Nat
      /\ Len(t) = Len(fs) + Len(Tail(s))
      /\ \A i \in 1 .. Len(t) :
            t[i] = IF i <= Len(fs) THEN fs[i] ELSE Tail(s)[i - Len(fs)]
  BY <1>1, ConcatProperties, LenProperties
<1>3. /\ \A i \in 1 .. Len(fs) : t[i] = fs[i]
      /\ \A i \in Len(fs) + 1 .. Len(t) : t[i] = s[i - Len(fs) + 1]
  BY <1>1, <1>2
<1>4. fs # <<>> <=> Len(fs) > 0
  BY <1>2, EmptySeq
<1>5. t # <<>> <=> Len(t) > 0
  BY <1>1, <1>2, EmptySeq
<1> HIDE DEF t
<1>6. Chain(t)
  <2> SUFFICES ASSUME NEW i \in 1 .. Len(t) - 1
               PROVE  Fits(t[i], t[i + 1])
    BY DEF Chain
  <2>1. CASE i < Len(fs)
    <3>1. i \in 1 .. Len(fs) - 1 /\ i \in 1 .. Len(fs) /\ i + 1 \in 1 .. Len(fs)
      BY <2>1, <1>2
    <3>2. t[i] = fs[i] /\ t[i + 1] = fs[i + 1]
      BY <3>1, <1>3
    <3> QED  BY <3>1, <3>2 DEF Replaces, Chain
  <2>2. CASE i = Len(fs)
    <3>1. t[i] = fs[Len(fs)] /\ t[i + 1] = s[2] /\ 1 \in 1 .. Len(s) - 1 /\ Len(fs) > 0
      BY <2>2, <1>1, <1>2, <1>3
    <3>2. Fits(s[1], s[1 + 1]) /\ 1 + 1 = 2
      BY <3>1 DEF Chain
    <3>3. Fits(s[1], s[2])
      BY <3>2
    <3>4. Inherits(s[1], fs[Len(fs)])
      BY <3>1, <1>4 DEF Replaces
    <3> QED  BY <3>1, <3>3, <3>4 DEF Inherits
  <2>3. CASE i > Len(fs)
    <3>1. /\ i \in Len(fs) + 1 .. Len(t) /\ i + 1 \in Len(fs) + 1 .. Len(t)
          /\ i - Len(fs) + 1 \in 1 .. Len(s) - 1
          /\ i + 1 - Len(fs) + 1 = i - Len(fs) + 1 + 1
      BY <2>3, <1>1, <1>2
    <3>2. t[i] = s[i - Len(fs) + 1] /\ t[i + 1] = s[i + 1 - Len(fs) + 1]
      BY <1>3, <3>1
    <3> QED  BY <3>1, <3>2 DEF Chain
  <2> QED  BY <1>2, <2>1, <2>2, <2>3
<1>7. ASSUME fs # <<>>
      PROVE  t # <<>> /\ t[1] = fs[1]
  BY <1>1, <1>2, <1>3, <1>4, <1>5, <1>7
<1>8. ASSUME fs = <<>>, t # <<>>
      PROVE  t[1] = s[2] /\ Fits(s[1], s[2])
  <2>1. Len(fs) = 0 /\ Len(t) > 0
    BY <1>2, <1>4, <1>5, <1>8
  <2>2. t[1] = s[2] /\ 1 \in 1 .. Len(s) - 1
    BY <2>1, <1>1, <1>2, <1>3
  <2>3. Fits(s[1], s[1 + 1])
    BY <2>2 DEF Chain
  <2> QED  BY <2>2, <2>3
<1>9. t # <<>> => v.as \in Needs(t[1].k)
  BY <1>7, <1>8 DEF Replaces
<1>10. fs = <<>> /\ Returning(s[1]) /\ t # <<>> => t[1].k \in Conts
  BY <1>8 DEF Fits
<1> QED  BY <1>6, <1>7, <1>9, <1>10 DEF t

\* The fields of the frames the visitors push.
LEMMA FrameFields ==
    /\ \A k, w, o, l : /\ Frame(k, w, o, l).k = k /\ Frame(k, w, o, l).want = w
                       /\ Frame(k, w, o, l).open = o /\ Frame(k, w, o, l).back = l
    /\ \A k : /\ Item(k).k = k /\ Item(k).want = {} /\ Item(k).open = <<>>
               /\ Item(k).back # Entry
    /\ \A w : /\ Exp(w).k = "exp" /\ Exp(w).want = w /\ Exp(w).open = <<>>
               /\ Exp(w).back # Entry
    /\ Stmt.k = "stmt" /\ Stmt.open = <<>> /\ Stmt.back # Entry
    /\ 0 # Entry
    /\ \A f : f.k \notin {"DivertedEnd", "&&", "||", "RhsEnd"} => Lawful(f)
BY DEF Frame, Item, Exp, Stmt, Entry, Lawful, Logic

\* Which frames may wait for which.
LEMMA FitRules ==
    /\ \A f, h : Returning(f) /\ Returning(h) => Inherits(f, h)
    /\ \A f, h : ~Returning(f) /\ ~Returning(h) /\ Gives(h) \subseteq Gives(f)
                    => Inherits(f, h)
    /\ \A f, g : Returning(f) /\ Fits(f, g) => Needs(g.k) = Types \cup {"none"}
    /\ \A h : h.k \in Conts => Fits(Stmt, h)
    /\ \A w, h : w \subseteq Needs(h.k) => Fits(Exp(w), h)
    /\ \A v \in Vals : \A k : k \notin Picky => v.as \in Needs(k)
    /\ \A k : k \in Picky \/ Needs(k) = Types \cup {"none"}
    /\ Needs("Ret") = {FnType} /\ \A k \in Logic : Needs(k) = LogicTypes
<1>1. \A f, h : Returning(f) /\ Returning(h) => Inherits(f, h)
  BY DEF Inherits, Fits
<1>2. \A f, h : ~Returning(f) /\ ~Returning(h) /\ Gives(h) \subseteq Gives(f)
                    => Inherits(f, h)
  BY DEF Inherits, Fits
<1>3. \A f, g : Returning(f) /\ Fits(f, g) => Needs(g.k) = Types \cup {"none"}
  BY DEF Fits, Needs, Conts, Logic
<1>4. \A h : h.k \in Conts => Fits(Stmt, h)
  BY FrameFields DEF Fits, Returning, Statements
<1>5. \A w, h : w \subseteq Needs(h.k) => Fits(Exp(w), h)
  <2>1. \A w : ~Returning(Exp(w)) /\ Gives(Exp(w)) = w
    BY FrameFields DEF Returning, Statements, Gives
  <2> QED  BY <2>1 DEF Fits
<1>6. \A k : k \in Picky \/ Needs(k) = Types \cup {"none"}
  BY DEF Needs, Picky
<1>7. Needs("Ret") = {FnType} /\ \A k \in Logic : Needs(k) = LogicTypes
  BY DEF Needs, Logic
<1>8. \A v \in Vals : \A k : k \notin Picky => v.as \in Needs(k)
  BY <1>6 DEF Vals
<1> QED  BY <1>1, <1>2, <1>3, <1>4, <1>5, <1>6, <1>7, <1>8

\* Frames in place of a frame, by their number.
LEMMA ReplaceRules ==
    ASSUME NEW f, NEW v \in Vals
    PROVE  /\ Returning(f) => Replaces(f, <<>>, v)
           /\ ~Returning(f) /\ v.as \in Gives(f) => Replaces(f, <<>>, v)
           /\ \A h : Inherits(f, h) /\ h.k \notin Picky
                        => Replaces(f, <<h>>, v)
           /\ \A e, h : Inherits(f, h) /\ Fits(e, h) /\ e.k \in {"stmt", "exp"}
                           => Replaces(f, <<e, h>>, v)
           /\ \A d, e, h : Inherits(f, h) /\ Fits(e, h) /\ Fits(d, e) /\ d.k = "exp"
                              => Replaces(f, <<d, e, h>>, v)
<1>1. v.as \in Types \cup {"none"}
  BY DEF Vals
<1>2. Chain(<<>>)
  BY DEF Chain
<1>3. Returning(f) => Replaces(f, <<>>, v)
  BY <1>1, <1>2, FitRules DEF Replaces
<1>4. ~Returning(f) /\ v.as \in Gives(f) => Replaces(f, <<>>, v)
  BY <1>2 DEF Replaces, Fits
<1>5. ASSUME NEW h, Inherits(f, h), h.k \notin Picky
      PROVE  Replaces(f, <<h>>, v)
  <2>1. Len(<<h>>) = 1 /\ <<h>>[1] = h /\ <<h>> # <<>>
    OBVIOUS
  <2>2. Chain(<<h>>)
    BY <2>1 DEF Chain
  <2>3. v.as \in Needs(h.k)
    BY <1>5, FitRules
  <2> HIDE DEF Needs
  <2> QED  BY <2>1, <2>2, <2>3, <1>5 DEF Replaces
<1>6. ASSUME NEW e, NEW h, Inherits(f, h), Fits(e, h), e.k \in {"stmt", "exp"}
      PROVE  Replaces(f, <<e, h>>, v)
  <2> DEFINE s == <<e, h>>
  <2>1. Len(s) = 2 /\ s[1] = e /\ s[2] = h /\ s # <<>>
    OBVIOUS
  <2> HIDE DEF s
  <2>2. \A i \in 1 .. Len(s) - 1 : i = 1 /\ i + 1 = 2
    BY <2>1
  <2>3. Chain(s)
    BY <2>1, <2>2, <1>6 DEF Chain
  <2>4. v.as \in Needs(e.k)
    BY <1>6, FitRules DEF Picky, Logic
  <2>5. Replaces(f, s, v)
    BY <2>1, <2>3, <2>4, <1>6 DEF Replaces
  <2> QED  BY <2>5 DEF s
<1>7. ASSUME NEW d, NEW e, NEW h, Inherits(f, h), Fits(e, h), Fits(d, e), d.k = "exp"
      PROVE  Replaces(f, <<d, e, h>>, v)
  <2> DEFINE s == <<d, e, h>>
  <2>1. Len(s) = 3 /\ s[1] = d /\ s[2] = e /\ s[3] = h /\ s # <<>>
    OBVIOUS
  <2> HIDE DEF s
  <2>2. \A i \in 1 .. Len(s) - 1 : (i = 1 /\ i + 1 = 2) \/ (i = 2 /\ i + 1 = 3)
    BY <2>1
  <2>3. Chain(s)
    BY <2>1, <2>2, <1>7 DEF Chain
  <2>4. v.as \in Needs(d.k)
    BY <1>7, FitRules DEF Picky, Logic
  <2>5. Replaces(f, s, v)
    BY <2>1, <2>3, <2>4, <1>7 DEF Replaces
  <2> QED  BY <2>5 DEF s
<1> QED  BY <1>3, <1>4, <1>5, <1>6, <1>7

\* A step that puts fs in place of the running frame keeps the discipline.
LEMMA StackFitsStep ==
    ASSUME TypeOK, StackFits, stack # <<>>, NEW G, NEW fs \in Seq(G),
           Become(fs), Replaces(stack[1], fs, val'), val' \in Checked,
           flow' = "returned" => \/ fs = <<>> /\ Returning(stack[1])
                                 \/ fs # <<>> /\ fs[1].k \in Conts,
           \A i \in DOMAIN fs : fs[i].back # Entry /\ Lawful(fs[i])
    PROVE  StackFits'
<1> DEFINE F == Frames(nblocks) \cup G
<1>1. stack \in Seq(F) /\ fs \in Seq(F)
  BY SeqMonotonic DEF TypeOK
<1> HIDE DEF F
<1>2. stack' = fs \o Tail(stack) /\ Chain(stack)
  BY DEF Become, StackFits
<1>3. /\ Chain(stack')
      /\ stack' # <<>> => val'.as \in Needs(stack'[1].k)
      /\ fs = <<>> /\ Returning(stack[1]) /\ stack' # <<>> => stack'[1].k \in Conts
      /\ fs # <<>> => stack'[1] = fs[1]
  BY <1>1, <1>2, ChainReplaced
<1>4. flow' = "returned" /\ stack' # <<>> => stack'[1].k \in Conts
  BY <1>3
<1>5. \A i \in DOMAIN stack' : stack'[i].back # Entry /\ Lawful(stack'[i])
  <2>1. \A i \in DOMAIN (fs \o Tail(stack)) :
           \/ \E j \in DOMAIN fs : (fs \o Tail(stack))[i] = fs[j]
           \/ \E j \in DOMAIN stack : (fs \o Tail(stack))[i] = stack[j]
    BY <1>1, StackReplaced, SMTT(30)
  <2>2. \A i \in DOMAIN stack : stack[i].back # Entry /\ Lawful(stack[i])
    BY DEF StackFits
  <2> QED  BY <1>2, <2>1, <2>2
<1> QED  BY <1>3, <1>4, <1>5 DEF StackFits, Lawful, Checked, Vals

\* ... for the numbers of frames that occur.
LEMMA PushOne ==
    ASSUME TypeOK, StackFits, stack # <<>>, val' \in Checked, flow' # "returned",
           NEW h, Become(<<h>>), Inherits(stack[1], h), h.k \notin Picky,
           h.back # Entry, Lawful(h)
    PROVE  StackFits'
<1>1. Replaces(stack[1], <<h>>, val')
  BY ReplaceRules DEF Checked
<1>2. <<h>> \in Seq({h}) /\ \A i \in DOMAIN <<h>> : <<h>>[i].back # Entry /\ Lawful(<<h>>[i])
  OBVIOUS
<1> QED  BY <1>1, <1>2, StackFitsStep

LEMMA PushTwo ==
    ASSUME TypeOK, StackFits, stack # <<>>, val' \in Checked, flow' # "returned",
           NEW e, NEW h, Become(<<e, h>>), Inherits(stack[1], h), Fits(e, h),
           e.k \in {"stmt", "exp"}, e.back # Entry, h.back # Entry, Lawful(h)
    PROVE  StackFits'
<1>1. Replaces(stack[1], <<e, h>>, val') /\ Lawful(e)
  BY ReplaceRules, FrameFields DEF Checked
<1>2. <<e, h>> \in Seq({e, h}) /\ \A i \in DOMAIN <<e, h>> : <<e, h>>[i] \in {e, h}
  OBVIOUS
<1>3. \A i \in DOMAIN <<e, h>> : <<e, h>>[i].back # Entry /\ Lawful(<<e, h>>[i])
  BY <1>1, <1>2
<1> QED  BY <1>1, <1>2, <1>3, StackFitsStep

LEMMA PushThree ==
    ASSUME TypeOK, StackFits, stack # <<>>, val' \in Checked, flow' # "returned",
           NEW d, NEW e, NEW h, Become(<<d, e, h>>), Inherits(stack[1], h), Fits(e, h),
           Fits(d, e), d.k = "exp", e.k = "exp", d.back # Entry, e.back # Entry,
           h.back # Entry, Lawful(h)
    PROVE  StackFits'
<1>1. Replaces(stack[1], <<d, e, h>>, val') /\ Lawful(d) /\ Lawful(e)
  BY ReplaceRules, FrameFields DEF Checked
<1>2. /\ <<d, e, h>> \in Seq({d, e, h})
      /\ \A i \in DOMAIN <<d, e, h>> : <<d, e, h>>[i] \in {d, e, h}
  OBVIOUS
<1>3. \A i \in DOMAIN <<d, e, h>> : <<d, e, h>>[i].back # Entry /\ Lawful(<<d, e, h>>[i])
  BY <1>1, <1>2
<1> QED  BY <1>1, <1>2, <1>3, StackFitsStep

LEMMA Pop ==
    ASSUME TypeOK, StackFits, stack # <<>>, val' \in Checked, Become(<<>>),
           \/ Returning(stack[1])
           \/ ~Returning(stack[1]) /\ val'.as \in Gives(stack[1]) /\ flow' # "returned"
    PROVE  StackFits'
<1>1. Replaces(stack[1], <<>>, val')
  BY ReplaceRules DEF Checked
<1>2. <<>> \in Seq({}) /\ \A i \in DOMAIN <<>> : <<>>[i].back # Entry /\ Lawful(<<>>[i])
  OBVIOUS
<1> QED  BY <1>1, <1>2, StackFitsStep

\* Short sequences, joined.
LEMMA Joined ==
    ASSUME NEW e, NEW h
    PROVE  /\ <<e>> \o <<h>> = <<e, h>>
           /\ <<e, e>> \o <<h>> = <<e, e, h>>
<1> DEFINE s == <<e>> \o <<h>>  t == <<e, h>>
           u == <<e, e>> \o <<h>>  v == <<e, e, h>>
<1>1. /\ <<e>> \in Seq({e, h}) /\ <<h>> \in Seq({e, h}) /\ <<e, e>> \in Seq({e, h})
      /\ t \in Seq({e, h}) /\ v \in Seq({e, h})
  OBVIOUS
<1>2. s \in Seq({e, h}) /\ Len(s) = 2 /\ s[1] = e /\ s[2] = h
  BY <1>1, ConcatProperties
<1>3. u \in Seq({e, h}) /\ Len(u) = 3 /\ u[1] = e /\ u[2] = e /\ u[3] = h
  BY <1>1, ConcatProperties
<1>4. Len(t) = 2 /\ t[1] = e /\ t[2] = h
  OBVIOUS
<1>5. Len(v) = 3 /\ v[1] = e /\ v[2] = e /\ v[3] = h
  OBVIOUS
<1> HIDE DEF s, t, u, v
<1>6. s = t
  <2>1. \A i \in 1 .. Len(s) : i = 1 \/ i = 2
    BY <1>2
  <2>2. \A i \in 1 .. Len(s) : s[i] = t[i]
    BY <1>2, <1>4, <2>1
  <2> QED  BY <1>1, <1>2, <1>4, <2>2, SeqEqual
<1>7. u = v
  <2>1. \A i \in 1 .. Len(u) : i = 1 \/ i = 2 \/ i = 3
    BY <1>3
  <2>2. \A i \in 1 .. Len(u) : u[i] = v[i]
    BY <1>3, <1>5, <2>1
  <2> QED  BY <1>1, <1>3, <1>5, <2>2, SeqEqual
<1> QED  BY <1>6, <1>7 DEF s, t, u, v

\* The arguments of a call, in front of the rest of its visitor.
LEMMA PushCall ==
    ASSUME TypeOK, StackFits, stack # <<>>, val' \in Checked, flow' # "returned",
           NEW n \in 0 .. MaxArgs, NEW h, h.k \in {"CallEnd", "DivertedEnd"}, h.back # Entry, Lawful(h),
           Become(Arguments(n) \o <<h>>), Inherits(stack[1], h)
    PROVE  StackFits'
<1> DEFINE e == Exp(Types)
<1>1. Fits(e, h) /\ Fits(e, e) /\ e.k = "exp" /\ e.back # Entry
  <2>1. \A k \in {"CallEnd", "DivertedEnd", "exp"} : Types \subseteq Needs(k)
    BY DEF Needs, Logic
  <2> QED  BY <2>1, FitRules, FrameFields
<1>2. CASE n = 0
  <2>1. Arguments(n) \o <<h>> = <<h>>
    BY <1>2 DEF Arguments
  <2>2. Become(<<h>>) /\ h.k \notin Picky
    BY <2>1 DEF Picky, Logic
  <2> QED  BY <2>2, PushOne
<1>3. CASE n = 1
  <2>1. Arguments(n) = <<e>>
    BY <1>3 DEF Arguments
  <2>2. Become(<<e, h>>)
    BY <2>1, Joined
  <2> HIDE DEF e
  <2> QED  BY <2>2, <1>1, PushTwo
<1>4. CASE n = 2
  <2>1. Arguments(n) = <<e, e>>
    BY <1>4 DEF Arguments
  <2>2. Become(<<e, e, h>>)
    BY <2>1, Joined
  <2> HIDE DEF e
  <2> QED  BY <2>2, <1>1, PushThree
<1> QED  BY <1>2, <1>3, <1>4 DEF MaxArgs

\* Only the rest of a statement runs right after the source's return.
LEMMA NotReturned ==
    ASSUME StackFits, NEW k, Top(k), k \notin Conts
    PROVE  flow # "returned" /\ stack # <<>>
BY DEF StackFits, Top

\* Statements keep the discipline.
LEMMA StackStmt ==
    ASSUME TypeOK, StackFits, val' \in Checked, StmtStep
    PROVE  StackFits'
<1>1. CASE VisitSeqStmt
  <2>1. Top("stmt") /\ Become(<<Item("seq")>>) /\ flow' = flow
    BY <1>1 DEF VisitSeqStmt
  <2>2. flow' # "returned" /\ stack # <<>> /\ Inherits(stack[1], Item("seq"))
    BY <2>1, NotReturned, FitRules, FrameFields DEF Conts, Top, Returning, Statements
  <2>3. Item("seq").k \notin Picky /\ Item("seq").back # Entry /\ Lawful(Item("seq"))
    BY FrameFields DEF Picky, Logic
  <2> QED  BY <2>1, <2>2, <2>3, PushOne
<1>2. CASE SeqNext
  <2>1. Top("seq") /\ Become(<<Stmt, Item("seq")>>) /\ flow' = Followed /\ stack # <<>>
    BY <1>2 DEF SeqNext, Top
  <2>2. flow' # "returned"
    BY <2>1 DEF Followed
  <2>3. Inherits(stack[1], Item("seq")) /\ Fits(Stmt, Item("seq"))
    BY <2>1, FitRules, FrameFields DEF Conts, Top, Returning, Statements
  <2> QED  BY <2>1, <2>2, <2>3, PushTwo, FrameFields
<1>3. CASE SeqEnd \/ Store \/ ReturnEnd \/ ArraySizeConst \/ ArraySizeDynamic
  <2>1. /\ \E k \in {"seq", "Store", "Ret", "ArraySize"} : Top(k)
        /\ Become(<<>>)
    BY <1>3 DEF SeqEnd, Store, ReturnEnd, ArraySizeConst, ArraySizeDynamic
  <2>2. stack # <<>> /\ Returning(stack[1])
    BY <2>1 DEF Top, Returning, Statements
  <2> QED  BY <2>1, <2>2, Pop
<1>4. CASE VisitCallStmt
  <2>1. Top("stmt") /\ flow' = flow
    BY <1>4 DEF VisitCallStmt, Visit
  <2>2. PICK n \in 0 .. MaxArgs : Become(Arguments(n) \o <<Item("CallEnd")>>)
    BY <1>4 DEF VisitCallStmt
  <2>3. flow' # "returned" /\ stack # <<>> /\ Inherits(stack[1], Item("CallEnd"))
    BY <2>1, NotReturned, FitRules, FrameFields DEF Conts, Top, Returning, Statements
  <2> QED  BY <2>2, <2>3, PushCall, FrameFields
<1>5. CASE VisitAssignStmt \/ VisitReturnStmt \/ VisitDeclArray
  <2>1. PICK w \in SUBSET Types, k \in {"Store", "Ret", "ArraySize"} :
           Become(<<Exp(w), Item(k)>>) /\ w \subseteq Needs(k)
    <3>1. /\ VisitAssignStmt => Become(<<Exp(Types), Item("Store")>>)
          /\ VisitReturnStmt => Become(<<Exp({FnType}), Item("Ret")>>)
          /\ VisitDeclArray => Become(<<Exp({"i32"}), Item("ArraySize")>>)
      BY DEF VisitAssignStmt, VisitReturnStmt, VisitDeclArray
    <3>2. Types \subseteq Needs("Store") /\ {FnType} \subseteq Needs("Ret")
          /\ {"i32"} \subseteq Needs("ArraySize")
      BY DEF Needs, Logic, Types
    <3>3. {FnType} \in SUBSET Types /\ {"i32"} \in SUBSET Types /\ Types \in SUBSET Types
      BY FnTypeAssumption DEF Types
    <3>4. CASE VisitAssignStmt
      BY <3>1, <3>2, <3>3, <3>4
    <3>5. CASE VisitReturnStmt
      BY <3>1, <3>2, <3>3, <3>5
    <3>6. CASE VisitDeclArray
      BY <3>1, <3>2, <3>3, <3>6
    <3> QED  BY <1>5, <3>4, <3>5, <3>6
  <2>2. Top("stmt") /\ flow' = flow
    BY <1>5 DEF VisitAssignStmt, VisitReturnStmt, VisitDeclArray, Visit
  <2>3. flow' # "returned" /\ stack # <<>> /\ Inherits(stack[1], Item(k))
    BY <2>2, NotReturned, FitRules, FrameFields DEF Conts, Top, Returning, Statements
  <2>4. Fits(Exp(w), Item(k)) /\ Exp(w).k = "exp"
    BY <2>1, FitRules, FrameFields
  <2> QED  BY <2>1, <2>3, <2>4, PushTwo, FrameFields
<1>6. CASE VisitArrayAssignStmt
  <2> DEFINE d == Exp(Types)  e == Exp({"i32"})  h == Item("Store")
  <2>1. Top("stmt") /\ flow' = flow /\ Become(<<d, e, h>>)
    BY <1>6 DEF VisitArrayAssignStmt, Visit
  <2>2. flow' # "returned" /\ stack # <<>> /\ Inherits(stack[1], h)
    BY <2>1, NotReturned, FitRules, FrameFields DEF Conts, Top, Returning, Statements
  <2>3. /\ Fits(d, e) /\ Fits(e, h) /\ d.k = "exp"
        /\ d.back # Entry /\ e.back # Entry /\ h.back # Entry
        /\ e.k = "exp" /\ Lawful(h)
    BY FitRules, FrameFields DEF Needs, Logic, Types
  <2> HIDE DEF d, e, h
  <2> QED  BY <2>1, <2>2, <2>3, PushThree
<1>7. CASE VisitDeclStmt
  <2>1. /\ Top("stmt") /\ flow' = flow
        /\ Become(<<Exp(Types), Item("Store")>>) \/ Become(<<>>)
    BY <1>7 DEF VisitDeclStmt, Visit
  <2>2. flow' # "returned" /\ stack # <<>> /\ Inherits(stack[1], Item("Store"))
        /\ Returning(stack[1])
    BY <2>1, NotReturned, FitRules, FrameFields DEF Conts, Top, Returning, Statements
  <2>3. Fits(Exp(Types), Item("Store")) /\ Exp(Types).k = "exp"
    BY FitRules, FrameFields DEF Needs, Logic
  <2> QED  BY <2>1, <2>2, <2>3, PushTwo, Pop, FrameFields
<1>8. CASE ArraySizeThrow
  BY <1>8 DEF ArraySizeThrow, StackFits, blockVars, Lawful, Checked, Vals
<1> QED  BY <1>1, <1>2, <1>3, <1>4, <1>5, <1>6, <1>7, <1>8 DEF StmtStep

\* Expressions return values of the types that the typechecker admitted.
LEMMA StackExp ==
    ASSUME TypeOK, StackFits, val' \in Checked, ExpStep
    PROVE  StackFits'
<1>1. CASE Leaf
  <2>1. Top("exp") /\ Become(<<>>) /\ flow' = flow /\ val'.as \in stack[1].want
    BY <1>1 DEF Leaf, Value
  <2>2. flow' # "returned" /\ stack # <<>>
    BY <2>1, NotReturned DEF Conts
  <2>3. ~Returning(stack[1]) /\ Gives(stack[1]) = stack[1].want
    BY <2>1 DEF Top, Returning, Statements, Gives
  <2> QED  BY <2>1, <2>2, <2>3, Pop
<1>2. CASE VisitCallExp \/ VisitDivertedExp
  <2>1. Top("exp") /\ flow' = flow
    BY <1>2 DEF VisitCallExp, VisitDivertedExp, Visit
  <2>2. PICK n \in 0 .. MaxArgs, ty \in stack[1].want, k \in {"CallEnd", "DivertedEnd"} :
           /\ Become(Arguments(n) \o <<Frame(k, {ty}, <<>>, 0)>>)
           /\ k = "DivertedEnd" => "diverted" \in Forms
    <3>1. CASE VisitCallExp
      BY <3>1 DEF VisitCallExp
    <3>2. CASE VisitDivertedExp
      <4>1. PICK n \in 1 .. MaxArgs, ty \in stack[1].want :
               Become(Arguments(n) \o <<Frame("DivertedEnd", {ty}, <<>>, 0)>>)
        BY <3>2 DEF VisitDivertedExp
      <4>2. n \in 0 .. MaxArgs
        BY DEF MaxArgs
      <4>3. "diverted" \in Forms
        BY <3>2 DEF VisitDivertedExp, Visit
      <4> QED  BY <4>1, <4>2, <4>3
    <3> QED  BY <1>2, <3>1, <3>2
  <2>3. flow' # "returned" /\ stack # <<>>
    BY <2>1, NotReturned DEF Conts
  <2> DEFINE h == Frame(k, {ty}, <<>>, 0)
  <2>4. h.k = k /\ h.want = {ty} /\ h.back # Entry /\ Lawful(h)
    BY <2>2, FrameFields DEF Lawful, Logic
  <2>5. ~Returning(stack[1]) /\ Gives(stack[1]) = stack[1].want
    BY <2>1 DEF Top, Returning, Statements, Gives
  <2>6. Become(Arguments(n) \o <<h>>)
    BY <2>2
  <2> HIDE DEF h
  <2>7. ~Returning(h) /\ Gives(h) = {ty}
    BY <2>2, <2>4 DEF Returning, Statements, Gives
  <2>8. Inherits(stack[1], h)
    BY <2>5, <2>7, FitRules
  <2> QED  BY <2>3, <2>4, <2>6, <2>8, PushCall
<1>3. CASE VisitArrayAccessExp
  <2>1. Top("exp") /\ flow' = flow
    BY <1>3 DEF VisitArrayAccessExp, Visit
  <2>2. PICK ty \in stack[1].want :
           Become(<<Exp({"i32"}), Frame("CallEnd", {ty}, <<>>, 0)>>)
    BY <1>3 DEF VisitArrayAccessExp
  <2>3. flow' # "returned" /\ stack # <<>>
    BY <2>1, NotReturned DEF Conts
  <2> DEFINE h == Frame("CallEnd", {ty}, <<>>, 0)  e == Exp({"i32"})
  <2>4. h.k = "CallEnd" /\ h.want = {ty} /\ h.back # Entry
    BY FrameFields
  <2>5. ~Returning(stack[1]) /\ Gives(stack[1]) = stack[1].want
    BY <2>1 DEF Top, Returning, Statements, Gives
  <2>6. Become(<<e, h>>)
    BY <2>2
  <2>7. e.k = "exp" /\ e.back # Entry /\ Fits(e, h)
    BY <2>4, FrameFields, FitRules DEF Needs, Logic, Types
  <2> HIDE DEF h, e
  <2>8. ~Returning(h) /\ Gives(h) = {ty}
    BY <2>2, <2>4 DEF Returning, Statements, Gives
  <2>9. Inherits(stack[1], h)
    BY <2>5, <2>8, FitRules
  <2> QED  BY <2>3, <2>4, <2>6, <2>7, <2>9, PushTwo, FrameFields
<1>4. CASE CallEnd
  <2>1. /\ Top("CallEnd") /\ Become(<<>>) /\ flow' = flow
        /\ stack[1].want # {} => val'.as = CHOOSE ty \in stack[1].want : TRUE
    BY <1>4 DEF CallEnd, Value
  <2>2. flow' # "returned" /\ stack # <<>> /\ stack[1].k = "CallEnd"
    BY <2>1, NotReturned DEF Conts, Top
  <2>3. CASE stack[1].want = {}
    BY <2>1, <2>2, <2>3, Pop DEF Returning
  <2>4. CASE stack[1].want # {}
    <3>1. ~Returning(stack[1]) /\ Gives(stack[1]) = stack[1].want
      BY <2>2, <2>4 DEF Returning, Statements, Gives
    <3>2. val'.as \in Gives(stack[1])
      BY <2>1, <2>4, <3>1
    <3> QED  BY <2>1, <2>2, <3>1, <3>2, Pop
  <2> QED  BY <2>3, <2>4
<1>5. CASE \E op \in {"&&", "||"} : VisitShortCircuit(op) \/ ShortCircuitLhs(op)
  <2>1. PICK op \in {"&&", "||"} : VisitShortCircuit(op) \/ ShortCircuitLhs(op)
    BY <1>5
  <2> DEFINE e == Exp(LogicTypes)
  <2>2. flow' = flow /\ (Top("exp") \/ Top(op))
    BY <2>1 DEF VisitShortCircuit, ShortCircuitLhs, Visit
  <2>3. flow' # "returned" /\ stack # <<>> /\ ~Returning(stack[1])
    BY <2>2, NotReturned DEF Conts, Top, Returning, Statements
  <2>4. PICK k, w, o : /\ Become(<<e, Frame(k, w, o, 0)>>) /\ k \in Logic
                       /\ w \subseteq stack[1].want /\ w \subseteq LogicTypes
    <3>1. CASE VisitShortCircuit(op)
      BY <3>1 DEF VisitShortCircuit, Logic
    <3>2. CASE ShortCircuitLhs(op)
      <4>1. Lawful(stack[1]) /\ stack[1].k = op
        BY <2>3, <3>2, EmptySeq, LenProperties DEF StackFits, TypeOK, ShortCircuitLhs, Top
      <4>2. Become(<<e, Frame("RhsEnd", stack[1].want, <<nblocks + 2>>, 0)>>)
        BY <3>2 DEF ShortCircuitLhs
      <4> QED  BY <4>1, <4>2 DEF Lawful, Logic
    <3> QED  BY <2>1, <3>1, <3>2
  <2> DEFINE h == Frame(k, w, o, 0)
  <2>5. h.k = k /\ h.want = w /\ h.back # Entry /\ Lawful(h)
    BY <2>4, FrameFields DEF Lawful, Logic
  <2>6. Become(<<e, h>>)
    BY <2>4
  <2>7. e.k = "exp" /\ e.back # Entry /\ Fits(e, h)
    <3>1. h.k \in Logic
      BY <2>4, <2>5
    <3> HIDE DEF h
    <3>2. Needs(h.k) = LogicTypes
      BY <3>1, FitRules
    <3> QED  BY <3>2, FrameFields, FitRules
  <2> HIDE DEF e, h
  <2>8. ~Returning(h) /\ Gives(h) \subseteq Gives(stack[1])
    BY <2>4, <2>5 DEF Returning, Statements, Logic, Gives
  <2>9. Inherits(stack[1], h)
    BY <2>3, <2>8, FitRules
  <2> QED  BY <2>3, <2>5, <2>6, <2>7, <2>9, PushTwo
<1>6. CASE ShortCircuitEnd \/ DivertedEnd
  <2>1. /\ Top("RhsEnd") \/ Top("DivertedEnd")
        /\ Become(<<>>) /\ flow' = flow /\ val'.as \in stack[1].want
    BY <1>6 DEF ShortCircuitEnd, DivertedEnd, Value
  <2>2. flow' # "returned" /\ stack # <<>>
    BY <2>1, NotReturned DEF Conts
  <2>3. ~Returning(stack[1]) /\ val'.as \in Gives(stack[1])
    BY <2>1 DEF Top, Returning, Statements, Gives
  <2> QED  BY <2>1, <2>2, <2>3, Pop
<1> QED  BY <1>1, <1>2, <1>3, <1>4, <1>5, <1>6 DEF ExpStep

\* Conditionals and loops keep the discipline.
LEMMA StackControl ==
    ASSUME TypeOK, StackFits, val' \in Checked, ControlStep
    PROVE  StackFits'
<1>1. CASE VisitIfStmt \/ VisitWhileStmt
  <2> DEFINE e == Exp(CondTypes)
  <2>1. Top("stmt") /\ flow' = flow
    BY <1>1 DEF VisitIfStmt, VisitWhileStmt, Visit
  <2>2. flow' # "returned" /\ stack # <<>> /\ Returning(stack[1])
    BY <2>1, NotReturned DEF Conts, Top, Returning, Statements
  <2>3. PICK h : Become(<<e, h>>) /\ h.k \in {"IfCond", "WhileCond"} /\ h.back # Entry
    <3>1. CASE VisitIfStmt
      BY <3>1, FrameFields DEF VisitIfStmt
    <3>2. CASE VisitWhileStmt
      <4>1. Become(<<e, Frame("WhileCond", {}, <<>>, nblocks + 1)>>)
        BY <3>2 DEF VisitWhileStmt
      <4>2. nblocks + 1 # Entry
        BY DEF TypeOK, Entry
      <4> QED  BY <4>1, <4>2, FrameFields
    <3> QED  BY <1>1, <3>1, <3>2
  <2>4. Returning(h) /\ CondTypes \subseteq Needs(h.k)
    BY <2>3 DEF Returning, Statements, Needs, Logic, Types, CondTypes
  <2>5. Inherits(stack[1], h) /\ Fits(e, h) /\ e.k = "exp" /\ e.back # Entry
    BY <2>2, <2>4, FitRules, FrameFields
  <2> HIDE DEF e
  <2> QED  BY <2>2, <2>3, <2>5, PushTwo, FrameFields
<1>0. stack # <<>> => stack[1].back # Entry
  BY EmptySeq, LenProperties DEF StackFits, TypeOK
<1>2. CASE \/ \E hasElse \in BOOLEAN : IfCond(hasElse)
           \/ WhileCond \/ VisitForStmt \/ ForCond \/ ForBodyEnd
  <2>1. flow' # "returned" /\ stack # <<>> /\ Returning(stack[1])
    <3>1. CASE ForBodyEnd
      BY <3>1 DEF ForBodyEnd, Followed, Top, Returning, Statements
    <3>2. CASE ~ForBodyEnd
      <4>1. /\ flow' = flow
            /\ \E k \in {"IfCond", "WhileCond", "stmt", "ForCond"} : Top(k)
        BY <1>2, <3>2 DEF IfCond, WhileCond, VisitForStmt, ForCond, Visit
      <4> QED  BY <4>1, NotReturned DEF Conts, Top, Returning, Statements
    <3> QED  BY <3>1, <3>2
  <2>2. PICK h : Become(<<Stmt, h>>)
                 /\ h.k \in {"IfBranchEnd", "LoopEnd", "ForInit", "ForBodyEnd"}
                 /\ h.back # Entry
    <3>1. CASE \E hasElse \in BOOLEAN : IfCond(hasElse)
      <4>1. PICK hasElse \in BOOLEAN : IfCond(hasElse)
        BY <3>1
      <4>2. \E o : Become(<<Stmt, Frame("IfBranchEnd", {}, o, 0)>>)
        BY <4>1 DEF IfCond
      <4> QED  BY <4>2, FrameFields
    <3>2. CASE WhileCond
      <4>1. PICK o : Become(<<Stmt, Frame("LoopEnd", {}, o, stack[1].back)>>)
        BY <3>2 DEF WhileCond
      <4> DEFINE f == Frame("LoopEnd", {}, o, stack[1].back)
      <4>2. stack[1].back # Entry
        BY <2>1, <1>0
      <4>3. f.k = "LoopEnd" /\ f.back = stack[1].back
        BY FrameFields
      <4>4. Become(<<Stmt, f>>)
        BY <4>1
      <4> HIDE DEF f
      <4> QED  BY <4>2, <4>3, <4>4
    <3>3. CASE VisitForStmt
      BY <3>3, FrameFields DEF VisitForStmt
    <3>4. CASE ForCond
      <4>1. PICK o : Become(<<Stmt, Frame("ForBodyEnd", {}, o, stack[1].back)>>)
        BY <3>4 DEF ForCond
      <4> DEFINE f == Frame("ForBodyEnd", {}, o, stack[1].back)
      <4>2. stack[1].back # Entry
        BY <2>1, <1>0
      <4>3. f.k = "ForBodyEnd" /\ f.back = stack[1].back
        BY FrameFields
      <4>4. Become(<<Stmt, f>>)
        BY <4>1
      <4> HIDE DEF f
      <4> QED  BY <4>2, <4>3, <4>4
    <3>5. CASE ForBodyEnd
      <4>1. PICK o : Become(<<Stmt, Frame("LoopEnd", {}, o, stack[1].back)>>)
        BY <3>5 DEF ForBodyEnd
      <4> DEFINE f == Frame("LoopEnd", {}, o, stack[1].back)
      <4>2. stack[1].back # Entry
        BY <2>1, <1>0
      <4>3. f.k = "LoopEnd" /\ f.back = stack[1].back
        BY FrameFields
      <4>4. Become(<<Stmt, f>>)
        BY <4>1
      <4> HIDE DEF f
      <4> QED  BY <4>2, <4>3, <4>4
    <3> QED  BY <1>2, <3>1, <3>2, <3>3, <3>4, <3>5
  <2>3. Returning(h) /\ h.k \in Conts
    BY <2>2 DEF Returning, Statements, Conts
  <2>4. Inherits(stack[1], h) /\ Fits(Stmt, h) /\ Stmt.k = "stmt" /\ Stmt.back # Entry
    BY <2>1, <2>3, FitRules, FrameFields
  <2> QED  BY <2>1, <2>2, <2>4, PushTwo, FrameFields
<1>3. CASE IfBranchEnd
  <2> DEFINE h == Frame("IfBranchEnd", {}, Tail(stack[1].open), 0)
  <2>1. /\ Top("IfBranchEnd") /\ flow' = Left("falls")
        /\ Become(IF Len(stack[1].open) = 2 THEN <<Stmt, h>> ELSE <<>>)
    BY <1>3 DEF IfBranchEnd
  <2>2. Become(<<Stmt, h>>) \/ Become(<<>>)
    BY <2>1
  <2>3. flow' # "returned" /\ stack # <<>> /\ Returning(stack[1])
    BY <2>1 DEF Left, Top, Returning, Statements
  <2>4. h.k = "IfBranchEnd" /\ h.back # Entry
    BY FrameFields
  <2> HIDE DEF h
  <2>5. Inherits(stack[1], h) /\ Fits(Stmt, h) /\ Stmt.k = "stmt" /\ Stmt.back # Entry
    BY <2>3, <2>4, FitRules, FrameFields DEF Returning, Statements, Conts
  <2> QED  BY <2>2, <2>3, <2>4, <2>5, PushTwo, Pop, FrameFields
<1>4. CASE LoopEnd
  <2>1. Top("LoopEnd") /\ Become(<<>>)
    BY <1>4 DEF LoopEnd
  <2> QED  BY <2>1, Pop DEF Top, Returning, Statements
<1>5. CASE ForInit
  <2> DEFINE e == Exp(Types)
  <2>1. Top("ForInit") /\ flow' = Followed
    BY <1>5 DEF ForInit
  <2>2. PICK o : Become(<<e, Frame("ForCond", {}, o, nblocks + 1)>>)
    BY <1>5 DEF ForInit
  <2> DEFINE h == Frame("ForCond", {}, o, nblocks + 1)
  <2>3. flow' # "returned" /\ stack # <<>> /\ Returning(stack[1])
    BY <2>1 DEF Followed, Top, Returning, Statements
  <2>4. h.k = "ForCond" /\ h.back # Entry
    <3>1. nblocks + 1 # Entry
      BY DEF TypeOK, Entry
    <3> QED  BY <3>1, FrameFields
  <2>5. Become(<<e, h>>)
    BY <2>2
  <2>6. Fits(e, h) /\ e.k = "exp" /\ e.back # Entry
    BY <2>4, FitRules, FrameFields DEF Needs, Logic
  <2> HIDE DEF h, e
  <2>7. Inherits(stack[1], h)
    BY <2>3, <2>4, FitRules DEF Returning, Statements
  <2> QED  BY <2>3, <2>4, <2>5, <2>6, <2>7, PushTwo, FrameFields
<1> QED  BY <1>1, <1>2, <1>3, <1>4, <1>5 DEF ControlStep

\* Only a program with functions named like builtins makes a value of another
\* type than it was checked with.
LEMMA ValueStep ==
    ASSUME TypeOK, TypeOK', StackFits, Next
    PROVE  val' \in Checked
<1>1. val' \in Vals /\ val \in Checked
  BY DEF TypeOK, StackFits
<1>2. CASE DivertedEnd \/ ShortCircuitEnd
  <2>1. stack # <<>> /\ stack[1].k \in {"DivertedEnd", "RhsEnd"}
    BY <1>2 DEF DivertedEnd, ShortCircuitEnd, Top
  <2>2. Lawful(stack[1])
    BY <2>1, EmptySeq, LenProperties DEF StackFits, TypeOK
  <2>3. CASE DivertedEnd
    BY <1>1, <2>2, <2>3 DEF DivertedEnd, Top, Lawful, Checked
  <2>4. CASE ShortCircuitEnd
    <3>1. PICK ty \in stack[1].want : val' = Value("i1", ty, "instr")
      BY <2>4 DEF ShortCircuitEnd
    <3>2. ty \in LogicTypes
      BY <2>2, <2>4, <3>1 DEF ShortCircuitEnd, Top, Lawful, Logic
    <3> QED  BY <1>1, <3>1, <3>2 DEF Checked, LogicTypes, Value
  <2> QED  BY <1>2, <2>3, <2>4
<1>3. CASE Leaf \/ CallEnd
  <2>1. val'.ty = val'.as
    <3>1. CASE Leaf
      BY <3>1 DEF Leaf, Value
    <3>2. CASE CallEnd
      BY <3>2 DEF CallEnd, NoVal, Value
    <3> QED  BY <1>3, <3>1, <3>2
  <2> QED  BY <1>1, <2>1 DEF Checked
<1>4. CASE ~(DivertedEnd \/ ShortCircuitEnd \/ Leaf \/ CallEnd)
  <2>1. val' = val \/ val' = NoVal
    BY <1>4 DEF Next, StmtStep, ExpStep, ControlStep, VisitSeqStmt, SeqNext, SeqEnd,
       VisitCallStmt, VisitAssignStmt, VisitArrayAssignStmt, Store, VisitDeclStmt,
       VisitReturnStmt, ReturnEnd, VisitDeclArray, ArraySizeConst, ArraySizeThrow,
       ArraySizeDynamic, VisitCallExp, VisitArrayAccessExp, VisitDivertedExp,
       VisitShortCircuit, ShortCircuitLhs, VisitIfStmt, IfCond,
       IfBranchEnd, VisitWhileStmt, WhileCond, LoopEnd, VisitForStmt, ForInit,
       ForCond, ForBodyEnd, Finish
  <2> QED  BY <1>1, <2>1 DEF NoVal, Value, Checked
<1> QED  BY <1>2, <1>3, <1>4

\* Every step does.
LEMMA StackStays ==
    ASSUME TypeOK, TypeOK', StackFits, Next
    PROVE  StackFits'
<1>1. val' \in Checked
  BY ValueStep
<1>2. CASE Finish
  BY <1>2 DEF Finish, StackFits, blockVars, Lawful, Checked, Vals
<1> QED  BY <1>1, <1>2, StackStmt, StackExp, StackControl DEF Next

-----------------------------------------------------------------------------
(* What a step writes. *)

\* Nothing, or an alloca at the front of the entry block.
Silent == Blocks' = Blocks /\ \A b \in Blocks : Same(b)

\* The phi of && or ||, in its end block, where the builder goes on.
Merges(b) ==
    LET phi == Phi(TwoBefore(layout), RhsBlock, val.ty)
    IN  /\ Top("RhsEnd") /\ b = stack[1].open[1] /\ b = at'
        /\ code'[b] = <<phi>>
        /\ IllTyped(phi) => Misread(phi)

\* The instruction i at the end of the insertion block, after a plain one perhaps.
\* Other blocks get nothing but a phi, new ones straight-line code.
Effect(i) ==
    /\ Blocks \subseteq Blocks'
    /\ code'[at] = Put(code[at], i) \/ code'[at] = Put(Put(code[at], Plain), i)
    /\ \A b \in Blocks \ {at} :
          code'[b] = code[b] \/ (code[b] = <<>> /\ Merges(b))
    /\ \A b \in Blocks' \ Blocks :
          code'[b] = <<>> \/ code'[b] = <<Plain>> \/ code'[b] = <<Plain, Unreachable>>

\* The blocks that an instruction, or the code s, branches to.
To(x) == IF x.op \in {"br", "condbr"} THEN {x.bs[j] : j \in DOMAIN x.bs} ELSE {}
Targets(s) == UNION {To(x) : x \in ToSet(s)}

\* The step ends the insertion block with a branch to the blocks T.
Leaves(T) == \E i : Effect(i) /\ To(i) = T

\* Where a branch may go: to a new block, or to one that the running visitor holds or
\* goes back to.
Ahead ==
    IF stack = <<>> THEN {}
    ELSE (Blocks' \ Blocks) \cup Held(stack[1]) \cup {stack[1].back}

\* Where the wrong types come from; where branches go, never back to the entry
\* block; that what follows a terminator follows the source's return; and that the
\* builder goes on in a block without terminator or after that return.
WellTyped(i) ==
    IllTyped(i) => stack = <<>> \/ (Top("ForCond") /\ i.op = "condbr") \/ Misread(i)
Inwards(i) ==
    i.op \in {"br", "condbr"} => \A j \in DOMAIN i.bs : i.bs[j] # Entry
Aims(i) ==
    /\ i.op # "phi"
    /\ i.op \in {"br", "condbr"} => \A j \in DOMAIN i.bs : i.bs[j] \in Ahead
Goes(i) ==
    /\ EndsBlock(code[at]) /\ flow # "falls" => flow' = "overrun"
    /\ phase' = "emit" =>
          \/ at' = at /\ (i = Plain \/ (i.op = "ret" /\ flow' # "falls"))
          \/ at' # at /\ ~EndsBlock(code'[at'])

Quietly ==
    /\ Silent
    /\ phase' = "emit" => \/ at' = at /\ (flow # "falls" => flow' # "falls")
                          \/ code'[at'] = <<>>
Writes(i) == Effect(i) /\ WellTyped(i) /\ Aims(i) /\ Goes(i)
Proceeds == (flow = "overrun" => flow' = "overrun") /\ (Quietly \/ \E i : Writes(i))

\* What the running visitor holds is no entry block.
LEMMA HeldAway ==
    ASSUME TypeOK, VisitorsOwnTheirBlocks, NEW k, Top(k)
    PROVE  \A b \in Held(stack[1]) : b \in OpenIn(stack) /\ b \in 1 .. nblocks /\ b # Entry
<1>1. stack # <<>> /\ Held(stack[1]) \subseteq Blocks
  BY HeldRunning
<1>2. Held(stack[1]) \subseteq OpenIn(stack)
  BY <1>1, StackReplaced, EmptySeq DEF TypeOK
<1> QED  BY <1>1, <1>2 DEF VisitorsOwnTheirBlocks, Blocks

\* What lies ahead, and that the entry block never does.
LEMMA AheadRules ==
    ASSUME TypeOK, VisitorsOwnTheirBlocks, StackFits, phase = "emit"
    PROVE  /\ Entry \notin Ahead
           /\ \A k : Top(k) =>
                 /\ Held(stack[1]) \subseteq Ahead /\ stack[1].back \in Ahead
                 /\ \A n \in Nat : nblocks' = nblocks + n
                       => \A m \in 1 .. n : nblocks + m \in Ahead
<1>1. ASSUME stack # <<>>
      PROVE  Entry \notin Ahead
  <2>1. Top(stack[1].k)
    BY <1>1 DEF Top
  <2>2. Entry \notin Held(stack[1])
    BY <2>1, HeldAway
  <2>3. Entry \in Blocks
    BY DEF TypeOK, Blocks, Entry
  <2>4. stack[1].back # Entry
    BY <1>1, EmptySeq, LenProperties DEF StackFits, TypeOK
  <2> QED  BY <2>2, <2>3, <2>4 DEF Ahead
<1>2. ASSUME NEW n \in Nat, nblocks' = nblocks + n, NEW m \in 1 .. n
      PROVE  nblocks + m \in Blocks' \ Blocks
  BY <1>2 DEF TypeOK, Blocks
<1> QED  BY <1>1, <1>2 DEF Ahead, Top

\* Where instructions branch to.
LEMMA ToRules ==
    /\ To(Plain) = {} /\ To(Unreachable) = {}
    /\ \A p, q, ty : To(Phi(p, q, ty)) = {}
    /\ \A ty : To(Ret(ty)) = {}
    /\ \A b : To(Br(b)) = {b}
    /\ \A ty, b, c : To(CondBr(ty, b, c)) = {b, c}
<1>1. /\ To(Plain) = {} /\ To(Unreachable) = {} /\ \A p, q, ty : To(Phi(p, q, ty)) = {}
      /\ \A ty : To(Ret(ty)) = {}
  BY DEF To, Plain, Unreachable, Phi, Ret, Instr
<1>2. \A b : To(Br(b)) = {b}
  <2> TAKE b
  <2>1. <<b>>[1] = b /\ DOMAIN <<b>> = {1}
    OBVIOUS
  <2>2. Br(b).op = "br" /\ Br(b).bs = <<b>>
    BY DEF Br, Instr
  <2> QED  BY <2>1, <2>2 DEF To
<1>3. \A ty, b, c : To(CondBr(ty, b, c)) = {b, c}
  <2> TAKE ty, b, c
  <2>1. <<b, c>>[1] = b /\ <<b, c>>[2] = c /\ DOMAIN <<b, c>> = {1, 2}
    OBVIOUS
  <2>2. CondBr(ty, b, c).op = "condbr" /\ CondBr(ty, b, c).bs = <<b, c>>
    BY DEF CondBr, Instr
  <2> QED  BY <2>1, <2>2 DEF To
<1> QED  BY <1>1, <1>2, <1>3

\* Which instructions are fine anywhere.
LEMMA Rightful ==
    /\ ~IllTyped(Plain) /\ Aims(Plain)
    /\ \A ty : (ty = FnType => ~IllTyped(Ret(ty))) /\ Aims(Ret(ty)) /\ Ret(ty).op = "ret"
    /\ \A b : ~IllTyped(Br(b)) /\ (b \in Ahead => Aims(Br(b)))
    /\ \A ty, b, c : /\ ty = "i1" => ~IllTyped(CondBr(ty, b, c))
                     /\ (b \in Ahead /\ c \in Ahead) => Aims(CondBr(ty, b, c))
                     /\ CondBr(ty, b, c).op = "condbr"
<1>1. ~IllTyped(Plain) /\ Aims(Plain)
  BY DEF Plain, Instr, IllTyped, Aims
<1>2. \A ty : (ty = FnType => ~IllTyped(Ret(ty))) /\ Aims(Ret(ty)) /\ Ret(ty).op = "ret"
  BY DEF Ret, Instr, IllTyped, Aims
<1>3. \A b : ~IllTyped(Br(b)) /\ (b \in Ahead => Aims(Br(b)))
  <2> TAKE b
  <2>1. DOMAIN <<b>> = {1} /\ <<b>>[1] = b
    OBVIOUS
  <2> QED  BY <2>1 DEF Br, Instr, IllTyped, Aims
<1>4. ASSUME NEW ty, NEW b, NEW c
      PROVE  /\ ty = "i1" => ~IllTyped(CondBr(ty, b, c))
             /\ b \in Ahead /\ c \in Ahead => Aims(CondBr(ty, b, c))
             /\ CondBr(ty, b, c).op = "condbr"
  <2> DEFINE i == CondBr(ty, b, c)
  <2>1. i.op = "condbr" /\ i.bs = <<b, c>> /\ i.ty = ty
    BY DEF CondBr, Instr
  <2>2. DOMAIN <<b, c>> = {1, 2} /\ <<b, c>>[1] = b /\ <<b, c>>[2] = c
    OBVIOUS
  <2> HIDE DEF i
  <2>3. ty = "i1" => ~IllTyped(i)
    BY <2>1 DEF IllTyped
  <2>4. ASSUME b \in Ahead, c \in Ahead
        PROVE  Aims(i)
    <3>1. \A j \in DOMAIN i.bs : i.bs[j] = b \/ i.bs[j] = c
      BY <2>1, <2>2
    <3> QED  BY <2>1, <3>1, <2>4 DEF Aims
  <2> QED  BY <2>1, <2>3, <2>4 DEF i
<1> QED  BY <1>1, <1>2, <1>3, <1>4

\* Values are the only source of other types.
LEMMA Misreadings ==
    ASSUME StackFits, NEW i
    PROVE  /\ Top("Ret") /\ i.op = "ret" /\ i.ty = val.ty => WellTyped(i)
           /\ \A k \in Logic : Top(k) /\ i.op # "ret" /\ i.ty = val.ty =>
                 (IllTyped(i) => Misread(i))
           /\ i.op = "condbr" /\ i.ty = CondType /\ (\E k : Top(k)) => WellTyped(i)
<1>1. val \in Checked /\ (stack # <<>> => val.as \in Needs(stack[1].k))
  BY DEF StackFits
<1>2. ASSUME Top("Ret"), i.op = "ret", i.ty = val.ty, IllTyped(i)
      PROVE  Misread(i)
  <2>1. val.as = FnType
    BY <1>1, <1>2, FitRules DEF Top
  <2> QED  BY <1>1, <1>2, <2>1 DEF IllTyped, Misread, Top, Checked
<1>3. ASSUME NEW k \in Logic, Top(k), i.op # "ret", i.ty = val.ty, IllTyped(i)
      PROVE  Misread(i)
  <2>1. val.as \in LogicTypes
    BY <1>1, <1>3, FitRules DEF Top
  <2> QED  BY <1>1, <1>3, <2>1 DEF IllTyped, Misread, Top, Checked, Logic, LogicTypes
<1>4. ASSUME i.op = "condbr", i.ty = CondType, NEW k, Top(k), IllTyped(i)
      PROVE  Misread(i)
  <2>1. i.ty # "i1"
    BY <1>4 DEF IllTyped
  <2>2. val.as = "i1" /\ i.ty = val.ty
    BY <1>4, <2>1 DEF CondType
  <2> QED  BY <1>1, <1>4, <2>1, <2>2 DEF Misread, Top, Checked
<1> QED  BY <1>2, <1>3, <1>4 DEF WellTyped

\* Emitting one instruction and making no block.
LEMMA EmitEffect ==
    ASSUME TypeOK, NEW i, code' = Emit(i), nblocks' = nblocks
    PROVE  Effect(i)
<1>1. code \in [Blocks -> Seq(Instrs(nblocks))] /\ at \in Blocks /\ Blocks' = Blocks
  BY DEF TypeOK, Blocks
<1> QED  BY <1>1 DEF Effect, Emit

\* Leaving the insertion block with one instruction for a new or a held block.
LEMMA LeaveEffect ==
    ASSUME TypeOK, VisitorsOwnTheirBlocks, NEW n \in Nat, nblocks' = nblocks + n,
           NEW s, s = code[at] \/ s = Put(code[at], Plain),
           NEW i \in Instrs(nblocks + n), i.op \in Terminators, code' = After(n, s, i),
           at' \in OpenIn(stack) \/ at' \in nblocks + 1 .. nblocks + n
    PROVE  Effect(i) /\ at' # at /\ ~EndsBlock(code'[at'])
<1>1. /\ \A b \in Blocks \ {at} : code'[b] = code[b]
      /\ \A b \in nblocks + 1 .. nblocks + n : code'[b] = <<>>
  BY GrowPut
<1>2. Blocks' \ Blocks = nblocks + 1 .. nblocks + n /\ Blocks \subseteq Blocks'
      /\ at \in Blocks /\ \A b \in nblocks + 1 .. nblocks + n : b \notin Blocks
  BY DEF TypeOK, Blocks
<1>3. code'[at] = Put(s, i)
  <2>1. /\ Grow(n) \in [1 .. nblocks + n -> Seq(Instrs(nblocks + n))]
        /\ at \in 1 .. nblocks + n
    BY GrowType
  <2> QED  BY <2>1 DEF After
<1>4. at' # at /\ code'[at'] = <<>>
  <2>1. CASE at' \in OpenIn(stack)
    <3>1. at' \in Blocks /\ at' # at /\ code[at'] = <<>>
      BY <2>1, OpenAreBlocks DEF VisitorsOwnTheirBlocks
    <3> QED  BY <3>1, <1>1
  <2>2. CASE at' \in nblocks + 1 .. nblocks + n
    BY <2>2, <1>1, <1>2
  <2> QED  BY <2>1, <2>2
<1> QED  BY <1>1, <1>2, <1>3, <1>4 DEF Effect, EndsBlock

\* The history of returns only grows.
LEMMA FlowRules ==
    ASSUME TypeOK, StackFits
    PROVE  /\ flow' = flow \/ flow' = Followed => (flow = "overrun" => flow' = "overrun")
           /\ flow' = Left("falls") \/ flow' = Left("returned") =>
                 (flow = "overrun" => flow' = "overrun")
           /\ flow' = Followed /\ flow # "falls" => flow' = "overrun"
           /\ \A k : Top(k) /\ k \notin Conts /\ flow # "falls" => flow = "overrun"
<1>1. flow \in {"falls", "returned", "overrun"}
  BY DEF TypeOK
<1>2. \A k : Top(k) /\ k \notin Conts => flow # "returned"
  BY NotReturned
<1> QED  BY <1>1, <1>2 DEF Followed, Left

\* Steps that leave the code alone.
LEMMA QuietFlow ==
    ASSUME TypeOK, StackFits, code' = code, UNCHANGED blockVars,
           flow' = flow \/ flow' = Followed
    PROVE  Proceeds
<1>1. flow = "overrun" => flow' = "overrun"
  BY FlowRules
<1>2. flow # "falls" => flow' # "falls"
  BY DEF Followed
<1> QED  BY <1>1, <1>2 DEF Proceeds, Quietly, Silent, Same, Blocks, blockVars

LEMMA VisitFlow ==
    ASSUME TypeOK, StackFits,
           \/ VisitSeqStmt \/ SeqNext \/ SeqEnd \/ VisitCallStmt
           \/ VisitAssignStmt \/ VisitArrayAssignStmt \/ VisitReturnStmt
           \/ VisitDeclArray \/ ArraySizeThrow \/ VisitCallExp \/ VisitArrayAccessExp
           \/ VisitDivertedExp
           \/ (\E op \in {"&&", "||"} : VisitShortCircuit(op))
           \/ VisitIfStmt \/ VisitForStmt
    PROVE  Proceeds
<1>1. UNCHANGED blockVars /\ code' = code /\ (flow' = flow \/ flow' = Followed)
  BY DEF VisitSeqStmt, SeqNext, SeqEnd, VisitCallStmt, VisitAssignStmt,
         VisitArrayAssignStmt, VisitReturnStmt, VisitDeclArray, ArraySizeThrow, VisitCallExp,
         VisitArrayAccessExp, VisitDivertedExp, VisitShortCircuit, VisitIfStmt,
         VisitForStmt, blockVars
<1> QED  BY <1>1, QuietFlow

\* An alloca.
LEMMA DeclFlow ==
    ASSUME TypeOK, StackFits, VisitDeclStmt
    PROVE  Proceeds
<1>1. /\ code' = [code EXCEPT ![Entry] = PutFront(@)] /\ flow' = flow
      /\ nblocks' = nblocks /\ at' = at
  BY DEF VisitDeclStmt, blockVars
<1>2. code \in [Blocks -> Seq(Instrs(nblocks))] /\ Blocks' = Blocks
  BY <1>1 DEF TypeOK, Blocks
<1>3. \A b \in Blocks : Same(b)
  BY <1>1, <1>2 DEF Same
<1> QED  BY <1>1, <1>2, <1>3 DEF Proceeds, Quietly, Silent

\* Straight-line code.
LEMMA PlainFlow ==
    ASSUME TypeOK, StackFits, NEW k, Top(k), k \notin Conts, code' = Emit(Plain),
           UNCHANGED blockVars, flow' = flow
    PROVE  Proceeds
<1>1. nblocks' = nblocks /\ at' = at
  BY DEF blockVars
<1>2. Effect(Plain)
  BY <1>1, EmitEffect
<1>3. flow # "falls" => flow = "overrun"
  BY FlowRules
<1>4. Goes(Plain) /\ WellTyped(Plain) /\ Aims(Plain)
  BY <1>1, <1>3, Rightful DEF Goes, WellTyped
<1> QED  BY <1>2, <1>4 DEF Proceeds, Writes

LEMMA EmitFlow ==
    ASSUME TypeOK, StackFits, Store \/ ArraySizeConst \/ CallEnd
    PROVE  Proceeds
<1>1. /\ \E k \in {"Store", "ArraySize", "CallEnd"} : Top(k)
      /\ code' = Emit(Plain) /\ UNCHANGED blockVars /\ flow' = flow
  BY DEF Store, ArraySizeConst, CallEnd, blockVars
<1> QED  BY <1>1, PlainFlow DEF Conts

LEMMA LeafFlow ==
    ASSUME TypeOK, StackFits, Leaf \/ DivertedEnd
    PROVE  Proceeds
<1>1. /\ Top("exp") \/ Top("DivertedEnd")
      /\ UNCHANGED blockVars /\ flow' = flow
      /\ code' = Emit(Plain) \/ code' = code
  BY DEF Leaf, DivertedEnd, blockVars
<1>2. CASE code' = code
  BY <1>1, <1>2, QuietFlow
<1>3. CASE code' = Emit(Plain)
  BY <1>1, <1>3, PlainFlow DEF Conts
<1> QED  BY <1>1, <1>2, <1>3

\* A return of the source was checked to have the function's type.
LEMMA ReturnFlow ==
    ASSUME TypeOK, StackFits, ReturnEnd
    PROVE  Proceeds
<1> DEFINE i == Ret(val.ty)
<1>1. /\ Top("Ret") /\ code' = Emit(i) /\ nblocks' = nblocks /\ at' = at
      /\ flow' = Left("returned")
  BY DEF ReturnEnd, blockVars
<1>2. Effect(i)
  BY <1>1, EmitEffect
<1>3. i.ty = val.ty
  BY DEF Ret, Instr
<1>4. Aims(i) /\ i.op = "ret"
  BY Rightful
<1> HIDE DEF i
<1>5. flow # "falls" => flow = "overrun"
  BY <1>1, FlowRules DEF Conts
<1>6. (flow = "overrun" => flow' = "overrun") /\ flow' # "falls"
  BY <1>1 DEF Left
<1>7. Goes(i) /\ WellTyped(i)
  BY <1>1, <1>3, <1>4, <1>5, <1>6, Misreadings DEF Goes
<1> QED  BY <1>2, <1>4, <1>6, <1>7 DEF Proceeds, Writes

\* The implicit return, of whatever type.
LEMMA FinishFlow ==
    ASSUME TypeOK, StackFits, Finish
    PROVE  Proceeds
<1> DEFINE i == Ret("i32")
<1>1. /\ stack = <<>> /\ nblocks' = nblocks /\ at' = at /\ flow' = flow /\ phase' = "done"
      /\ IF EndsBlock(code[at]) THEN code' = code ELSE code' = Emit(i)
  BY DEF Finish, blockVars
<1>2. CASE code' = code
  <2>1. Quietly
    BY <1>1, <1>2 DEF Quietly, Silent, Same, Blocks
  <2> QED  BY <2>1, <1>1 DEF Proceeds
<1>3. CASE code' = Emit(i) /\ ~EndsBlock(code[at])
  <2>1. Effect(i)
    BY <1>1, <1>3, EmitEffect
  <2>2. Aims(i)
    BY Rightful
  <2> HIDE DEF i
  <2>3. WellTyped(i) /\ Goes(i)
    BY <1>1, <1>3 DEF WellTyped, Goes
  <2> QED  BY <2>1, <2>2, <2>3, <1>1 DEF Proceeds, Writes
<1> QED  BY <1>1, <1>2, <1>3

\* Steps that leave the insertion block.
LEMMA LeaveFlow ==
    ASSUME TypeOK, VisitorsOwnTheirBlocks, StackFits, NEW k, Top(k),
           NEW n \in Nat, nblocks' = nblocks + n,
           NEW s, s = code[at] \/ s = Put(code[at], Plain),
           NEW i \in Instrs(nblocks + n), i.op \in Terminators, code' = After(n, s, i),
           at' \in OpenIn(stack) \/ at' \in nblocks + 1 .. nblocks + n,
           WellTyped(i), Aims(i),
           (k \notin Conts /\ flow' = flow) \/ flow' = Followed
    PROVE  Proceeds /\ Leaves(To(i))
<1>1. Effect(i) /\ at' # at /\ ~EndsBlock(code'[at'])
  BY LeaveEffect
<1>2. flow = "overrun" => flow' = "overrun"
  BY FlowRules
<1>3. flow # "falls" => flow' = "overrun"
  <2>1. CASE k \notin Conts /\ flow' = flow
    BY <2>1, FlowRules
  <2>2. CASE flow' = Followed
    BY <2>2, FlowRules
  <2> QED  BY <2>1, <2>2
<1>4. Goes(i)
  BY <1>1, <1>3 DEF Goes
<1> QED  BY <1>1, <1>2, <1>4 DEF Proceeds, Writes, Leaves

LEMMA ShortCircuitLhsFlow ==
    ASSUME TypeOK, VisitorsOwnTheirBlocks, StackFits, NEW op \in {"&&", "||"},
           ShortCircuitLhs(op)
    PROVE  Proceeds /\ Leaves({nblocks + 1, nblocks + 2})
<1> DEFINE rhs == nblocks + 1
           end == nblocks + 2
           i == IF op = "&&" THEN CondBr(val.ty, rhs, end) ELSE CondBr(val.ty, end, rhs)
<1>0. nblocks \in Nat \ {0}
  BY DEF TypeOK
<1>1. Top(op) /\ nblocks' = nblocks + 2 /\ at' = rhs /\ flow' = flow
  BY DEF ShortCircuitLhs
<1>2. code' = After(2, code[at], i)
  BY <1>0, GrowType DEF ShortCircuitLhs, After, TypeOK
<1>3. /\ rhs \in 1 .. nblocks + 2 /\ end \in 1 .. nblocks + 2
      /\ rhs \in nblocks + 1 .. nblocks + 2 /\ nblocks + 2 \in Nat
      /\ rhs \in Ahead /\ end \in Ahead
  BY <1>0, <1>1, AheadRules DEF Top
<1>4. val.ty \in Types \cup {"none"} /\ i.ty = val.ty /\ i.op = "condbr"
  BY DEF TypeOK, Vals, CondBr, Instr
<1>5. i \in Instrs(nblocks + 2) /\ i.op \in Terminators
  BY <1>3, <1>4, InstrTypes, InstrOps
<1>6. WellTyped(i) /\ Aims(i)
  <2>1. Aims(i)
    BY <1>3, Rightful
  <2>2. IllTyped(i) => Misread(i)
    BY <1>1, <1>4, Misreadings DEF Logic
  <2> QED  BY <2>1, <2>2 DEF WellTyped
<1>7. To(i) = {rhs, end}
  BY ToRules
<1> HIDE DEF i
<1> QED  BY <1>1, <1>2, <1>3, <1>5, <1>6, <1>7, LeaveFlow DEF Conts

LEMMA ShortCircuitEndFlow ==
    ASSUME TypeOK, VisitorsOwnTheirBlocks, StackFits, ShortCircuitEnd
    PROVE  Proceeds /\ Leaves({stack[1].open[1]})
<1> DEFINE end == stack[1].open[1]
           m == Phi(TwoBefore(layout), RhsBlock, val.ty)
<1>0. /\ at \in Blocks /\ code \in [Blocks -> Seq(Instrs(nblocks))]
  BY DEF TypeOK
<1>1. /\ Top("RhsEnd") /\ at' = end /\ nblocks' = nblocks /\ flow' = flow
      /\ code' = [code EXCEPT ![at] = Put(@, Br(end)), ![end] = <<m>>]
  BY DEF ShortCircuitEnd
<1>2. end \in Blocks /\ end \in OpenIn(stack) /\ end \in Ahead
  BY <1>1, HeldRunning, HeldAway, AheadRules DEF Top
<1>3. end # at /\ code[end] = <<>>
  BY <1>2 DEF VisitorsOwnTheirBlocks
<1>4. Blocks' = Blocks
  BY <1>1 DEF Blocks
<1>11. IllTyped(m) => Misread(m)
  <2>1. m.op = "phi" /\ m.ty = val.ty
    BY DEF Phi, Instr
  <2> QED  BY <1>1, <2>1, Misreadings DEF Logic
<1>5. Effect(Br(end))
  BY <1>0, <1>1, <1>2, <1>3, <1>4, <1>11 DEF Effect, Merges
<1>6. Aims(Br(end)) /\ WellTyped(Br(end))
  BY <1>2, Rightful DEF WellTyped
<1>7. code'[at'] = <<m>>
  BY <1>0, <1>1, <1>2, <1>3
<1>8. ~EndsBlock(code'[at'])
  <2>1. <<m>> # <<>> => Len(<<m>>) = 1 /\ <<m>>[1] = m
    OBVIOUS
  <2>2. m.op = "phi"
    BY DEF Phi, Instr
  <2> HIDE DEF m
  <2> QED  BY <1>7, <2>1, <2>2 DEF EndsBlock, Terminators
<1>9. flow # "falls" => flow = "overrun"
  BY <1>1, FlowRules DEF Conts
<1>10. Goes(Br(end))
  BY <1>1, <1>3, <1>8, <1>9 DEF Goes
<1> QED  BY <1>1, <1>5, <1>6, <1>10, ToRules DEF Proceeds, Writes, Leaves

LEMMA ArraySizeDynamicFlow ==
    ASSUME TypeOK, VisitorsOwnTheirBlocks, StackFits, ArraySizeDynamic
    PROVE  Proceeds /\ Leaves({nblocks + 1, nblocks + 2})
<1> DEFINE error == nblocks + 1
           continue == nblocks + 2
           i == CondBr("i1", continue, error)
           c == [Grow(2) EXCEPT ![at] = Put(Put(@, Plain), i)]
<1>0. nblocks \in Nat \ {0} /\ at \in 1 .. nblocks
  BY DEF TypeOK, Blocks
<1>1. /\ Top("ArraySize") /\ nblocks' = nblocks + 2 /\ at' = continue /\ flow' = flow
      /\ code' = [Grow(2) EXCEPT ![at] = Put(Put(@, Plain), i),
                                 ![error] = <<Plain, Unreachable>>,
                                 ![continue] = <<Plain>>]
  BY DEF ArraySizeDynamic
<1>2. /\ error \in 1 .. nblocks + 2 /\ continue \in 1 .. nblocks + 2
      /\ error # at /\ continue # at /\ error # continue
      /\ error \notin Blocks /\ continue \notin Blocks /\ at \in 1 .. nblocks + 2
      /\ Blocks' = Blocks \cup {error, continue} /\ Blocks' = 1 .. nblocks + 2
  BY <1>0, <1>1 DEF Blocks
<1>3. /\ Grow(2) \in [1 .. nblocks + 2 -> Seq(Instrs(nblocks + 2))]
      /\ \A b \in Blocks : Grow(2)[b] = code[b]
  BY GrowType
<1>4. ~IllTyped(i) /\ Aims(i)
  <2>1. error \in Ahead /\ continue \in Ahead
    BY <1>1, AheadRules DEF Top
  <2> QED  BY <2>1, Rightful
<1>10. To(i) = {nblocks + 1, nblocks + 2}
  BY ToRules
<1> HIDE DEF i, error, continue
<1>5. /\ DOMAIN code' = 1 .. nblocks + 2
      /\ code'[at] = Put(Put(code[at], Plain), i)
      /\ code'[error] = <<Plain, Unreachable>> /\ code'[continue] = <<Plain>>
      /\ \A b \in Blocks \ {at} : code'[b] = code[b]
  <2>1. DOMAIN Grow(2) = 1 .. nblocks + 2 /\ at \in Blocks
    BY <1>0, <1>3 DEF Blocks
  <2> QED  BY <2>1, <1>1, <1>2, <1>3
<1>6. Effect(i)
  BY <1>2, <1>5 DEF Effect
<1>7. ~EndsBlock(code'[at'])
  <2>1. Len(<<Plain>>) = 1 /\ <<Plain>>[1] = Plain
    OBVIOUS
  <2>2. Plain.op \notin Terminators
    BY DEF Plain, Instr, Terminators
  <2> QED  BY <1>1, <1>5, <2>1, <2>2 DEF EndsBlock
<1>8. flow # "falls" => flow = "overrun"
  BY <1>1, FlowRules DEF Conts
<1>9. Goes(i) /\ WellTyped(i)
  BY <1>1, <1>2, <1>4, <1>7, <1>8 DEF Goes, WellTyped
<1> QED  BY <1>1, <1>4, <1>6, <1>9, <1>10 DEF Proceeds, Writes, Leaves

LEMMA IfCondFlow ==
    ASSUME TypeOK, VisitorsOwnTheirBlocks, StackFits, NEW hasElse \in BOOLEAN,
           IfCond(hasElse)
    PROVE  Proceeds /\ Leaves({nblocks + 1, nblocks + 2})
<1> DEFINE then == nblocks + 1
           d == IF hasElse THEN 3 ELSE 2
           join == nblocks + d
           rest == IF hasElse THEN <<nblocks + 2, join>> ELSE <<join>>
           i == CondBr(CondType, then, rest[1])
<1>0. nblocks \in Nat \ {0} /\ d \in {2, 3}
  BY DEF TypeOK
<1>1. Top("IfCond") /\ nblocks' = nblocks + d /\ at' = then /\ flow' = flow
  BY <1>0 DEF IfCond
<1>2. code' = After(d, CondCode(code[at]), i)
  <2>1. code' = [Grow(join - nblocks) EXCEPT ![at] = Put(CondCode(@), i)]
    BY DEF IfCond
  <2>2. join - nblocks = d /\ d \in Nat
    BY <1>0
  <2>3. Grow(d)[at] = code[at]
    BY <2>2, GrowType DEF TypeOK
  <2> QED  BY <2>1, <2>2, <2>3 DEF After
<1>3. rest[1] = nblocks + 2
  <2>1. CASE hasElse
    BY <2>1
  <2>2. CASE ~hasElse
    BY <2>2
  <2> QED  BY <2>1, <2>2
<1> HIDE DEF d, rest
<1>4. /\ then \in 1 .. nblocks + d /\ rest[1] \in 1 .. nblocks + d
      /\ then \in nblocks + 1 .. nblocks + d /\ d \in Nat /\ nblocks + d \in Nat
  BY <1>0, <1>3
<1>7. then \in Ahead /\ rest[1] \in Ahead
  <2>1. 1 \in 1 .. d /\ 2 \in 1 .. d
    BY <1>0
  <2> QED  BY <2>1, <1>1, <1>3, <1>4, AheadRules DEF Top
<1>5. i \in Instrs(nblocks + d) /\ i.op \in Terminators
  BY <1>4, CondTypeHas, InstrTypes, InstrOps
<1>6. WellTyped(i) /\ Aims(i)
  <2>1. i.op = "condbr" /\ i.ty = CondType
    BY DEF CondBr, Instr
  <2> QED  BY <1>1, <1>7, <2>1, Misreadings, Rightful
<1>8. To(i) = {nblocks + 1, nblocks + 2}
  BY <1>3, ToRules
<1> HIDE DEF i
<1>9. Proceeds /\ Leaves(To(i))
  BY <1>1, <1>2, <1>4, <1>5, <1>6, CondCodeShape, LeaveFlow DEF Conts
<1> QED  BY <1>8, <1>9

LEMMA WhileFlow ==
    ASSUME TypeOK, VisitorsOwnTheirBlocks, StackFits, VisitWhileStmt
    PROVE  Proceeds /\ Leaves({nblocks + 1})
<1> DEFINE loop == nblocks + 1
           i == Br(loop)
<1>1. Top("stmt") /\ nblocks' = nblocks + 1 /\ at' = loop /\ flow' = flow
  BY DEF VisitWhileStmt, Visit
<1>2. code' = After(1, code[at], i)
  BY GrowType DEF VisitWhileStmt, After, TypeOK
<1>3. /\ loop \in 1 .. nblocks + 1 /\ loop \in nblocks + 1 .. nblocks + 1
      /\ nblocks + 1 \in Nat /\ loop \in Ahead
  BY <1>1, AheadRules DEF TypeOK, Top
<1>4. i \in Instrs(nblocks + 1) /\ i.op \in Terminators /\ WellTyped(i) /\ Aims(i)
  BY <1>3, InstrTypes, InstrOps, Rightful DEF WellTyped
<1>5. To(i) = {loop}
  BY ToRules
<1> HIDE DEF i
<1> QED  BY <1>1, <1>2, <1>3, <1>4, <1>5, LeaveFlow DEF Conts

LEMMA WhileCondFlow ==
    ASSUME TypeOK, VisitorsOwnTheirBlocks, StackFits, WhileCond
    PROVE  Proceeds /\ Leaves({nblocks + 1, nblocks + 2})
<1> DEFINE body == nblocks + 1
           join == nblocks + 2
           i == CondBr(CondType, body, join)
<1>1. Top("WhileCond") /\ nblocks' = nblocks + 2 /\ at' = body /\ flow' = flow
  BY DEF WhileCond
<1>2. code' = After(2, CondCode(code[at]), i)
  BY GrowType DEF WhileCond, After, TypeOK
<1>3. /\ body \in 1 .. nblocks + 2 /\ join \in 1 .. nblocks + 2 /\ body \in Ahead
      /\ join \in Ahead /\ body \in nblocks + 1 .. nblocks + 2 /\ nblocks + 2 \in Nat
  BY <1>1, AheadRules DEF TypeOK, Top
<1>4. i \in Instrs(nblocks + 2) /\ i.op \in Terminators
  BY <1>3, CondTypeHas, InstrTypes, InstrOps
<1>5. WellTyped(i) /\ Aims(i)
  <2>1. i.op = "condbr" /\ i.ty = CondType
    BY DEF CondBr, Instr
  <2> QED  BY <1>1, <1>3, <2>1, Misreadings, Rightful
<1>6. To(i) = {body, join}
  BY ToRules
<1> HIDE DEF i
<1> QED  BY <1>1, <1>2, <1>3, <1>4, <1>5, <1>6, CondCodeShape, LeaveFlow DEF Conts

LEMMA ForInitFlow ==
    ASSUME TypeOK, VisitorsOwnTheirBlocks, StackFits, ForInit
    PROVE  Proceeds /\ Leaves({nblocks + 1})
<1> DEFINE header == nblocks + 1
           i == Br(header)
<1>1. Top("ForInit") /\ nblocks' = nblocks + 4 /\ at' = header /\ flow' = Followed
  BY DEF ForInit
<1>2. code' = After(4, code[at], i)
  BY GrowType DEF ForInit, After, TypeOK
<1>3. /\ header \in 1 .. nblocks + 4 /\ header \in nblocks + 1 .. nblocks + 4
      /\ nblocks + 4 \in Nat /\ header \in Ahead
  BY <1>1, AheadRules DEF TypeOK, Top
<1>4. i \in Instrs(nblocks + 4) /\ i.op \in Terminators /\ WellTyped(i) /\ Aims(i)
  BY <1>3, InstrTypes, InstrOps, Rightful DEF WellTyped
<1>5. To(i) = {header}
  BY ToRules
<1> HIDE DEF i
<1> QED  BY <1>1, <1>2, <1>3, <1>4, <1>5, LeaveFlow

\* The remaining steps make no block and go to one that was held.
LEMMA LeaveHeld ==
    ASSUME TypeOK, VisitorsOwnTheirBlocks, StackFits, NEW k, Top(k), nblocks' = nblocks,
           NEW i \in Instrs(nblocks), i.op \in Terminators, code' = Emit(i),
           at' \in Held(stack[1]), WellTyped(i), Aims(i),
           (k \notin Conts /\ flow' = flow) \/ flow' = Followed
    PROVE  Proceeds /\ Leaves(To(i))
<1>1. nblocks + 0 = nblocks /\ 0 \in Nat
  BY DEF TypeOK
<1>2. code' = After(0, code[at], i)
  BY GrowNone
<1>3. at' \in OpenIn(stack)
  BY HeldAway
<1>4. i \in Instrs(nblocks + 0) /\ nblocks' = nblocks + 0
  BY <1>1
<1> QED  BY <1>1, <1>2, <1>3, <1>4, LeaveFlow

LEMMA LoopEndFlow ==
    ASSUME TypeOK, VisitorsOwnTheirBlocks, StackFits, LoopEnd
    PROVE  Proceeds /\ Leaves({stack[1].back})
<1> DEFINE i == Br(stack[1].back)
<1>1. /\ Top("LoopEnd") /\ nblocks' = nblocks /\ at' = stack[1].open[1]
      /\ code' = Emit(i) /\ flow' = Followed
  BY DEF LoopEnd
<1>2. /\ at' \in Held(stack[1]) /\ stack[1].back \in 1 .. nblocks /\ nblocks \in Nat
      /\ stack # <<>>
  BY <1>1, HeldRunning DEF Blocks, TypeOK
<1>3. stack[1].back \in Ahead
  BY <1>1, AheadRules DEF Top
<1>4. i \in Instrs(nblocks) /\ i.op \in Terminators /\ WellTyped(i) /\ Aims(i)
  BY <1>2, <1>3, InstrTypes, InstrOps, Rightful DEF WellTyped
<1>5. To(i) = {stack[1].back}
  BY ToRules
<1> HIDE DEF i
<1> QED  BY <1>1, <1>2, <1>4, <1>5, LeaveHeld

LEMMA ForCondFlow ==
    ASSUME TypeOK, VisitorsOwnTheirBlocks, StackFits, ForCond
    PROVE  Proceeds /\ Leaves({stack[1].open[1], stack[1].open[3]})
<1> DEFINE o == stack[1].open
           i == CondBr(val.ty, o[1], o[3])
<1>0. nblocks \in Nat /\ val.ty \in Types \cup {"none"}
  BY DEF TypeOK, Vals
<1>1. /\ Top("ForCond") /\ nblocks' = nblocks /\ at' = o[1] /\ flow' = flow /\ code' = Emit(i)
  BY DEF ForCond
<1>2. Len(o) = 3
  <2>1. stack # <<>>
    BY <1>1, HeldRunning
  <2> QED  BY <2>1, <1>1, RunningFrame DEF Top, Frames, FrameOK
<1>3. Held(stack[1]) = {o[1], o[2], o[3]}
  BY <1>1, <1>2, OpenSplit
<1>4. o[1] \in 1 .. nblocks /\ o[3] \in 1 .. nblocks /\ o[1] \in Ahead /\ o[3] \in Ahead
  BY <1>1, <1>3, HeldAway, AheadRules DEF Top
<1>5. i \in Instrs(nblocks) /\ i.op \in Terminators
  BY <1>0, <1>4, InstrTypes, InstrOps
<1>6. WellTyped(i) /\ Aims(i)
  BY <1>1, <1>4, Rightful DEF WellTyped
<1>7. To(i) = {stack[1].open[1], stack[1].open[3]}
  BY ToRules
<1> HIDE DEF o, i
<1> QED  BY <1>1, <1>3, <1>5, <1>6, <1>7, LeaveHeld DEF Conts

LEMMA ForBodyEndFlow ==
    ASSUME TypeOK, VisitorsOwnTheirBlocks, StackFits, ForBodyEnd
    PROVE  Proceeds /\ Leaves({stack[1].open[1]})
<1> DEFINE o == stack[1].open
           i == Br(o[1])
<1>0. nblocks \in Nat
  BY DEF TypeOK
<1>1. /\ Top("ForBodyEnd") /\ nblocks' = nblocks /\ at' = o[1] /\ flow' = Followed
      /\ code' = Emit(i)
  BY DEF ForBodyEnd
<1>2. Len(o) = 2
  <2>1. stack # <<>>
    BY <1>1, HeldRunning
  <2> QED  BY <2>1, <1>1, RunningFrame DEF Top, Frames, FrameOK
<1>3. Held(stack[1]) = {o[1], o[2]}
  BY <1>1, <1>2, OpenSplit
<1>4. o[1] \in 1 .. nblocks /\ o[1] \in Ahead
  BY <1>1, <1>3, HeldAway, AheadRules DEF Top
<1>5. i \in Instrs(nblocks) /\ i.op \in Terminators /\ WellTyped(i) /\ Aims(i)
  BY <1>0, <1>4, InstrTypes, InstrOps, Rightful DEF WellTyped
<1>6. To(i) = {stack[1].open[1]}
  BY ToRules
<1> HIDE DEF o, i
<1> QED  BY <1>1, <1>3, <1>5, <1>6, LeaveHeld

LEMMA IfBranchEndFlow ==
    ASSUME TypeOK, VisitorsOwnTheirBlocks, StackFits, IfBranchEnd
    PROVE  Proceeds /\ (IF EndsBlock(code[at]) THEN Silent /\ code' = code
                        ELSE Leaves({stack[1].open[Len(stack[1].open)]}))
<1> DEFINE o == stack[1].open
           i == Br(o[Len(o)])
<1>0. nblocks \in Nat
  BY DEF TypeOK
<1>1. /\ Top("IfBranchEnd") /\ nblocks' = nblocks /\ at' = o[1] /\ flow' = Left("falls")
      /\ IF EndsBlock(code[at]) THEN code' = code ELSE code' = Emit(i)
  BY DEF IfBranchEnd, BranchCode
<1>2. Len(o) \in {1, 2}
  <2>1. stack # <<>>
    BY <1>1, HeldRunning
  <2> QED  BY <2>1, <1>1, RunningFrame DEF Top, Frames, FrameOK
<1>3. o[1] \in Held(stack[1]) /\ o[Len(o)] \in Held(stack[1])
  BY <1>1, <1>2, OpenSplit
<1>4. /\ o[1] \in OpenIn(stack) /\ o[1] \in 1 .. nblocks /\ o[Len(o)] \in 1 .. nblocks
      /\ o[Len(o)] \in Ahead
  BY <1>1, <1>3, HeldAway, AheadRules DEF Top
<1>5. i \in Instrs(nblocks) /\ i.op \in Terminators /\ WellTyped(i) /\ Aims(i)
  BY <1>0, <1>4, InstrTypes, InstrOps, Rightful DEF WellTyped
<1>9. To(i) = {stack[1].open[Len(stack[1].open)]}
  BY ToRules
<1> HIDE DEF o, i
<1>6. flow = "overrun" => flow' = "overrun"
  BY <1>1, FlowRules
<1>7. CASE code' = code /\ EndsBlock(code[at])
  <2>1. code'[at'] = <<>>
    BY <1>1, <1>4, <1>7 DEF VisitorsOwnTheirBlocks
  <2>2. Blocks' = Blocks /\ \A b \in Blocks : Same(b)
    BY <1>1, <1>7 DEF Blocks, Same
  <2>3. EndsBlock(code[at])
    BY <1>7
  <2> QED  BY <1>6, <1>7, <2>1, <2>2, <2>3 DEF Proceeds, Quietly, Silent
<1>8. CASE code' = Emit(i) /\ ~EndsBlock(code[at])
  <2>1. nblocks + 0 = nblocks /\ 0 \in Nat /\ code' = After(0, code[at], i)
    BY <1>0, <1>8, GrowNone
  <2>2. i \in Instrs(nblocks + 0) /\ nblocks' = nblocks + 0
    BY <2>1, <1>1, <1>5
  <2>3. Effect(i) /\ at' # at /\ ~EndsBlock(code'[at'])
    BY <2>1, <2>2, <1>1, <1>4, <1>5, LeaveEffect
  <2>4. Goes(i)
    BY <2>3, <1>8 DEF Goes
  <2> QED  BY <2>3, <2>4, <1>5, <1>6, <1>8, <1>9 DEF Proceeds, Writes, Leaves
<1> QED  BY <1>1, <1>7, <1>8

\* What every step writes.
LEMMA FlowStep ==
    ASSUME TypeOK, VisitorsOwnTheirBlocks, StackFits, Next
    PROVE  Proceeds
<1>1. CASE StmtStep
  <2>1. CASE ArraySizeDynamic
    BY <2>1, ArraySizeDynamicFlow
  <2> QED  BY <1>1, <2>1, VisitFlow, EmitFlow, DeclFlow, ReturnFlow DEF StmtStep
<1>2. CASE ExpStep
  BY <1>2, VisitFlow, EmitFlow, LeafFlow, ShortCircuitLhsFlow, ShortCircuitEndFlow DEF ExpStep
<1>3. CASE ControlStep
  BY <1>3, VisitFlow, IfCondFlow, IfBranchEndFlow, WhileFlow, WhileCondFlow, LoopEndFlow,
     ForInitFlow, ForCondFlow, ForBodyEndFlow DEF ControlStep
<1>4. CASE Finish
  BY <1>4, FinishFlow
<1> QED  BY <1>1, <1>2, <1>3, <1>4 DEF Next

-----------------------------------------------------------------------------
(* Types and targets of the instructions. *)

Harmless(x) == x.op \in {"plain", "unreachable", "phi"}

\* Emitting adds the instruction emitted, an alloca a plain one.
LEMMA PutSet ==
    ASSUME NEW S, NEW s \in Seq(S), NEW i
    PROVE  /\ \A x \in ToSet(Put(s, i)) : x = i \/ x \in ToSet(s)
           /\ \A x \in ToSet(PutFront(s)) : x = Plain \/ x \in ToSet(s)
<1>1. DOMAIN s = 1 .. Len(s) /\ Len(s) \in Nat
  OBVIOUS
<1>2. \A x \in ToSet(Put(s, i)) : x = i \/ x \in ToSet(s)
  <2>1. CASE Put(s, i) = s
    BY <2>1
  <2>2. CASE Put(s, i) = Append(s, i)
    <3> DEFINE t == Append(s, i)
    <3>1. /\ DOMAIN t = 1 .. Len(s) + 1 /\ t[Len(s) + 1] = i
          /\ \A j \in 1 .. Len(s) : t[j] = s[j]
      OBVIOUS
    <3> HIDE DEF t
    <3>2. \A j \in DOMAIN t : j \in DOMAIN s \/ j = Len(s) + 1
      BY <3>1, <1>1
    <3>3. \A x \in ToSet(t) : x = i \/ x \in ToSet(s)
      BY <3>1, <3>2, <1>1 DEF ToSet
    <3> QED  BY <2>2, <3>3 DEF t
  <2> QED  BY <2>1, <2>2 DEF Put
<1>3. \A x \in ToSet(PutFront(s)) : x = Plain \/ x \in ToSet(s)
  <2>1. CASE PutFront(s) = s
    BY <2>1
  <2>2. CASE PutFront(s) = <<Plain>> \o s
    <3> DEFINE t == <<Plain>> \o s
    <3>1. <<Plain>> \in Seq(S \cup {Plain}) /\ Len(<<Plain>>) = 1 /\ <<Plain>>[1] = Plain
          /\ s \in Seq(S \cup {Plain})
      BY SeqMonotonic
    <3>2. /\ t \in Seq(S \cup {Plain}) /\ Len(t) = Len(s) + 1
          /\ \A j \in 1 .. Len(t) : t[j] = IF j <= 1 THEN Plain ELSE s[j - 1]
      BY <3>1, ConcatProperties
    <3> HIDE DEF t
    <3>3. \A j \in DOMAIN t : t[j] = Plain \/ (j - 1 \in DOMAIN s /\ t[j] = s[j - 1])
      BY <3>2, <1>1
    <3>4. \A x \in ToSet(t) : x = Plain \/ x \in ToSet(s)
      BY <3>3 DEF ToSet
    <3> QED  BY <2>2, <3>4 DEF t
  <2> QED  BY <2>1, <2>2 DEF PutFront
<1> QED  BY <1>2, <1>3

\* Every instruction was there, or is straight-line code or a phi, or was put at
\* the end of the insertion block for the reasons of the step.
LEMMA NewInstrs ==
    ASSUME TypeOK, Proceeds, NEW b \in Blocks', NEW x \in ToSet(code'[b])
    PROVE  \/ b \in Blocks /\ x \in ToSet(code[b])
           \/ Harmless(x) /\ (IllTyped(x) => b = at' /\ Misread(x))
           \/ b = at /\ WellTyped(x) /\ Aims(x)
<1>1. /\ at \in Blocks /\ \A c \in Blocks : code[c] \in Seq(Instrs(nblocks))
      /\ Plain \in Instrs(nblocks)
  BY InstrTypes DEF TypeOK
<1>2. /\ Harmless(Plain) /\ Harmless(Unreachable) /\ \A p, q, ty : Harmless(Phi(p, q, ty))
      /\ ~IllTyped(Plain) /\ ~IllTyped(Unreachable)
  BY DEF Harmless, IllTyped, Plain, Unreachable, Phi, Instr
<1>3. CASE Silent
  <2>1. b \in Blocks /\ (code'[b] = code[b] \/ code'[b] = PutFront(code[b]))
    BY <1>3 DEF Silent, Same
  <2>2. code[b] \in Seq(Instrs(nblocks))
    BY <1>1, <2>1
  <2> QED  BY <2>1, <2>2, <1>2, PutSet
<1>4. CASE \E i : Writes(i)
  <2>1. PICK i : Writes(i)
    BY <1>4
  <2>2. CASE b = at
    <3>1. code'[at] = Put(code[at], i) \/ code'[at] = Put(Put(code[at], Plain), i)
      BY <2>1 DEF Writes, Effect
    <3>2. code[at] \in Seq(Instrs(nblocks)) /\ Put(code[at], Plain) \in Seq(Instrs(nblocks))
      BY <1>1, PutType
    <3>3. x = i \/ x = Plain \/ x \in ToSet(code[at])
      BY <2>2, <3>1, <3>2, PutSet
    <3> QED  BY <1>1, <1>2, <2>1, <2>2, <3>3 DEF Writes
  <2>3. CASE b \in Blocks /\ b # at
    <3>1. CASE code'[b] = code[b]
      BY <2>3, <3>1
    <3>2. CASE Merges(b)
      <4> DEFINE phi == Phi(TwoBefore(layout), RhsBlock, val.ty)
      <4>1. /\ code'[b] = <<phi>> /\ b = at' /\ Harmless(phi)
            /\ IllTyped(phi) => Misread(phi)
        BY <1>2, <3>2 DEF Merges
      <4>2. ToSet(<<phi>>) = {phi}
        BY DEF ToSet
      <4> HIDE DEF phi
      <4>3. x = phi
        BY <4>1, <4>2
      <4> QED  BY <4>1, <4>3
    <3> QED  BY <2>1, <2>3, <3>1, <3>2 DEF Writes, Effect
  <2>4. CASE b \notin Blocks
    <3>1. code'[b] = <<>> \/ code'[b] = <<Plain>> \/ code'[b] = <<Plain, Unreachable>>
      BY <2>1, <2>4 DEF Writes, Effect
    <3>2. /\ ToSet(<<>>) = {} /\ ToSet(<<Plain>>) = {Plain}
          /\ ToSet(<<Plain, Unreachable>>) = {Plain, Unreachable}
      BY DEF ToSet
    <3> QED  BY <1>2, <3>1, <3>2
  <2> QED  BY <2>2, <2>3, <2>4
<1> QED  BY <1>3, <1>4 DEF Proceeds, Quietly

LEMMA IllTypedStepHolds ==
    ASSUME TypeOK, TypeOK', Proceeds
    PROVE  IllTypedStep
<1>1. DOMAIN code = Blocks /\ DOMAIN code' = Blocks'
  BY DEF TypeOK
<1> SUFFICES ASSUME NEW x \in IllTypedIn(code') \ IllTypedIn(code)
             PROVE  \/ x[1] = at /\ (stack = <<>> \/ (Top("ForCond") /\ x[2].op = "condbr"))
                    \/ x[1] \in {at, at'} /\ Misread(x[2])
  BY DEF IllTypedStep
<1>3. PICK b \in Blocks' : \E i \in ToSet(code'[b]) : x = <<b, i>> /\ IllTyped(i)
  BY <1>1 DEF IllTypedIn
<1>6. PICK i \in ToSet(code'[b]) : x = <<b, i>> /\ IllTyped(i)
  BY <1>3
<1>4. ~(b \in Blocks /\ i \in ToSet(code[b]))
  BY <1>1, <1>6 DEF IllTypedIn
<1>5. (b = at /\ WellTyped(i)) \/ (b = at' /\ Misread(i))
  BY <1>6, <1>4, NewInstrs
<1> QED  BY <1>6, <1>5 DEF WellTyped

\* No branch goes to the entry block.
EntryUntargeted == \A b \in Blocks : \A x \in ToSet(code[b]) : Inwards(x)

LEMMA UntargetedStep ==
    ASSUME TypeOK, VisitorsOwnTheirBlocks, StackFits, EntryUntargeted, phase = "emit",
           Proceeds
    PROVE  EntryUntargeted'
<1>1. \A y : Harmless(y) \/ Aims(y) => Inwards(y)
  BY AheadRules DEF Harmless, Inwards, Aims
<1>2. \A b \in Blocks' : \A x \in ToSet(code'[b]) : Inwards(x)
  BY <1>1, NewInstrs DEF EntryUntargeted
<1> QED  BY <1>2 DEF EntryUntargeted, Inwards, Entry

-----------------------------------------------------------------------------
(* What follows a terminator. *)

\* Before the last instruction of a block the only terminators are returns, and
\* those only once the flow has overrun one.
Inside(s, over) ==
    \A i \in 1 .. Len(s) - 1 : s[i].op \in Terminators => s[i].op = "ret" /\ over

\* While the walk lasts its insertion block is open, or ends with the return of
\* a statement that was left since.
AtOpen ==
    phase = "emit" /\ EndsBlock(code[at]) =>
        code[at][Len(code[at])].op = "ret" /\ flow # "falls"

CodeRuns == (\A b \in Blocks : Inside(code[b], flow = "overrun")) /\ AtOpen

\* Emitting after a terminator needs that terminator to be a return, and overrun.
LEMMA PutInside ==
    ASSUME NEW S, NEW s \in Seq(S), NEW i \in S, NEW over \in BOOLEAN, Inside(s, over),
           EndsBlock(s) => s[Len(s)].op = "ret" /\ over
    PROVE  /\ Inside(Put(s, i), over)
           /\ Put(s, i) # <<>> /\ Put(s, i)[Len(Put(s, i))] = i
<1>1. CASE Put(s, i) = s /\ s # <<>> /\ s[Len(s)] = i
  BY <1>1
<1>2. CASE Put(s, i) = Append(s, i)
  <2> DEFINE t == Append(s, i)
  <2>1. /\ t \in Seq(S) /\ Len(t) = Len(s) + 1 /\ t[Len(t)] = i /\ Len(s) \in Nat
        /\ \A j \in 1 .. Len(s) : t[j] = s[j]
    OBVIOUS
  <2>2. t # <<>> /\ (Len(s) # 0 => s # <<>>)
    BY <2>1, EmptySeq
  <2> HIDE DEF t
  <2>3. Inside(t, over)
    <3> SUFFICES ASSUME NEW j \in 1 .. Len(t) - 1, t[j].op \in Terminators
                 PROVE  t[j].op = "ret" /\ over
      BY DEF Inside
    <3>1. j \in 1 .. Len(s) /\ t[j] = s[j]
      BY <2>1
    <3>2. CASE j = Len(s)
      <4>1. EndsBlock(s)
        BY <3>1, <3>2, <2>1, <2>2 DEF EndsBlock
      <4> QED  BY <4>1, <3>1, <3>2
    <3>3. CASE j \in 1 .. Len(s) - 1
      BY <3>1, <3>3 DEF Inside
    <3> QED  BY <3>1, <3>2, <3>3, <2>1
  <2> QED  BY <1>2, <2>1, <2>2, <2>3 DEF t
<1> QED  BY <1>1, <1>2 DEF Put

\* An alloca at the front shifts the code and changes nothing else.
LEMMA PutFrontInside ==
    ASSUME NEW S, NEW s \in Seq(S), Plain \in S, NEW over, Inside(s, over)
    PROVE  /\ Inside(PutFront(s), over)
           /\ EndsBlock(PutFront(s)) =>
                 EndsBlock(s) /\ PutFront(s)[Len(PutFront(s))] = s[Len(s)]
<1>1. CASE PutFront(s) = s
  BY <1>1
<1>2. CASE PutFront(s) = <<Plain>> \o s
  <2> DEFINE t == <<Plain>> \o s
  <2>1. <<Plain>> \in Seq(S) /\ Len(<<Plain>>) = 1 /\ <<Plain>>[1] = Plain
        /\ Len(s) \in Nat /\ (Len(s) # 0 <=> s # <<>>)
    BY EmptySeq
  <2>2. /\ t \in Seq(S) /\ Len(t) = Len(s) + 1
        /\ \A j \in 1 .. Len(t) : t[j] = IF j <= 1 THEN Plain ELSE s[j - 1]
    BY <2>1, ConcatProperties
  <2>3. Plain.op \notin Terminators
    BY DEF Plain, Instr, Terminators
  <2> HIDE DEF t
  <2>4. Inside(t, over)
    <3> SUFFICES ASSUME NEW j \in 1 .. Len(t) - 1, t[j].op \in Terminators
                 PROVE  t[j].op = "ret" /\ over
      BY DEF Inside
    <3>1. j # 1
      BY <2>1, <2>2, <2>3
    <3>2. j - 1 \in 1 .. Len(s) - 1 /\ t[j] = s[j - 1]
      BY <3>1, <2>1, <2>2
    <3> QED  BY <3>2 DEF Inside
  <2>5. ASSUME EndsBlock(t)
        PROVE  EndsBlock(s) /\ t[Len(t)] = s[Len(s)]
    <3>1. t[Len(t)].op \in Terminators
      BY <2>5 DEF EndsBlock
    <3>2. Len(t) \in 1 .. Len(t) /\ (Len(s) # 0 => t[Len(t)] = s[Len(s)])
          /\ (Len(s) = 0 => t[Len(t)] = Plain)
      BY <2>1, <2>2
    <3>3. Len(s) # 0
      BY <3>1, <3>2, <2>3
    <3> QED  BY <3>1, <3>2, <3>3, <2>1 DEF EndsBlock
  <2> QED  BY <1>2, <2>4, <2>5 DEF t
<1> QED  BY <1>1, <1>2 DEF PutFront

\* Codes too short to have anything after a terminator.
LEMMA ShortInside ==
    ASSUME NEW over
    PROVE  /\ Inside(<<>>, over) /\ Inside(<<Plain>>, over)
           /\ Inside(<<Plain, Unreachable>>, over)
           /\ \A p, q, ty : Inside(<<Phi(p, q, ty)>>, over)
           /\ ~EndsBlock(<<>>)
<1>1. Plain.op \notin Terminators
  BY DEF Plain, Instr, Terminators
<1>2. /\ Len(<<>>) = 0 /\ Len(<<Plain>>) = 1 /\ \A p, q, ty : Len(<<Phi(p, q, ty)>>) = 1
      /\ Len(<<Plain, Unreachable>>) = 2 /\ <<Plain, Unreachable>>[1] = Plain
  OBVIOUS
<1>3. Inside(<<>>, over) /\ Inside(<<Plain>>, over) /\ \A p, q, ty : Inside(<<Phi(p, q, ty)>>, over)
  BY <1>2 DEF Inside
<1>4. Inside(<<Plain, Unreachable>>, over)
  BY <1>1, <1>2 DEF Inside
<1> QED  BY <1>3, <1>4 DEF EndsBlock

\* Allocas at the front leave the code as it runs.
LEMMA QuietRuns ==
    ASSUME TypeOK, CodeRuns, phase = "emit", flow = "overrun" => flow' = "overrun", Quietly
    PROVE  CodeRuns'
<1>1. /\ Plain \in Instrs(nblocks) /\ at \in Blocks /\ Blocks' = Blocks
      /\ \A b \in Blocks : code[b] \in Seq(Instrs(nblocks))
      /\ \A b \in Blocks : code'[b] = code[b] \/ code'[b] = PutFront(code[b])
  BY InstrTypes DEF TypeOK, Quietly, Silent, Same
<1>2. \A s, o : Inside(s, o) /\ (o => flow' = "overrun") => Inside(s, flow' = "overrun")
  BY DEF Inside
<1>3. \A b \in Blocks : Inside(code[b], flow' = "overrun")
  BY <1>2 DEF CodeRuns
<1>4. ASSUME NEW b \in Blocks
      PROVE  /\ Inside(code'[b], flow' = "overrun")
             /\ EndsBlock(code'[b]) =>
                   EndsBlock(code[b]) /\ code'[b][Len(code'[b])] = code[b][Len(code[b])]
  BY <1>1, <1>3, PutFrontInside
<1>5. AtOpen'
  <2> SUFFICES ASSUME phase' = "emit", EndsBlock(code'[at'])
               PROVE  code'[at'][Len(code'[at'])].op = "ret" /\ flow' # "falls"
    BY DEF AtOpen, EndsBlock
  <2>1. at' = at /\ (flow # "falls" => flow' # "falls")
    BY ShortInside DEF Quietly
  <2>2. EndsBlock(code[at]) /\ code'[at][Len(code'[at])] = code[at][Len(code[at])]
    BY <1>1, <1>4, <2>1
  <2> QED  BY <2>1, <2>2 DEF CodeRuns, AtOpen
<1>6. \A b \in Blocks' : Inside(code'[b], flow' = "overrun")
  BY <1>1, <1>4
<1> QED  BY <1>5, <1>6 DEF CodeRuns, Inside, Terminators

\* An instruction follows a terminator only as the step says.
LEMMA WriteRuns ==
    ASSUME TypeOK, CodeRuns, phase = "emit", flow = "overrun" => flow' = "overrun",
           NEW i, Writes(i), TypeOK'
    PROVE  CodeRuns'
<1> DEFINE S == Instrs(nblocks) \cup {i}
           over == flow' = "overrun"
<1>1. /\ Plain \in S /\ at \in Blocks /\ i \in S /\ over \in BOOLEAN
      /\ \A b \in Blocks : code[b] \in Seq(S)
  <2>1. Plain \in Instrs(nblocks) /\ \A b \in Blocks : code[b] \in Seq(Instrs(nblocks))
    BY InstrTypes DEF TypeOK
  <2>2. Instrs(nblocks) \subseteq S /\ i \in S
    OBVIOUS
  <2> HIDE DEF S
  <2>3. \A s \in Seq(Instrs(nblocks)) : s \in Seq(S)
    BY <2>2
  <2> QED  BY <2>1, <2>2, <2>3 DEF TypeOK
<1> HIDE DEF S
<1>2. \A s, o : Inside(s, o) /\ (o => over) => Inside(s, over)
  BY DEF Inside
<1>3. \A b \in Blocks : Inside(code[b], over)
  BY <1>2 DEF CodeRuns
<1>4. EndsBlock(code[at]) => code[at][Len(code[at])].op = "ret" /\ over
  BY DEF CodeRuns, AtOpen, Writes, Goes
<1> HIDE DEF over
<1>5. Inside(code'[at], over) /\ code'[at] # <<>> /\ code'[at][Len(code'[at])] = i
  <2> DEFINE s == code[at]
             p == Put(s, Plain)
  <2>0. s \in Seq(S) /\ Inside(s, over) /\ (EndsBlock(s) => s[Len(s)].op = "ret" /\ over)
    BY <1>1, <1>3, <1>4
  <2> HIDE DEF s
  <2>1. Inside(Put(s, i), over) /\ Put(s, i) # <<>> /\ Put(s, i)[Len(Put(s, i))] = i
    BY <2>0, <1>1, PutInside
  <2>2. p \in Seq(S) /\ Inside(p, over) /\ p # <<>> /\ p[Len(p)] = Plain
    BY <2>0, <1>1, PutInside, PutType
  <2>3. ~EndsBlock(p)
    BY <2>2 DEF EndsBlock, Plain, Instr, Terminators
  <2> HIDE DEF p
  <2>4. Inside(Put(p, i), over) /\ Put(p, i) # <<>> /\ Put(p, i)[Len(Put(p, i))] = i
    BY <2>2, <2>3, <1>1, PutInside
  <2>5. code'[at] = Put(s, i) \/ code'[at] = Put(p, i)
    BY DEF Writes, Effect, s, p
  <2> QED  BY <2>1, <2>4, <2>5
<1>6. \A b \in Blocks' : Inside(code'[b], over)
  <2> SUFFICES ASSUME NEW b \in Blocks'
               PROVE  Inside(code'[b], over)
    OBVIOUS
  <2>1. CASE b \in Blocks /\ b # at
    <3>1. code'[b] = code[b] \/ \E p, q, ty : code'[b] = <<Phi(p, q, ty)>>
      BY <2>1 DEF Writes, Effect, Merges
    <3> QED  BY <3>1, <2>1, <1>3, ShortInside
  <2>2. CASE b \notin Blocks
    <3>1. code'[b] = <<>> \/ code'[b] = <<Plain>> \/ code'[b] = <<Plain, Unreachable>>
      BY <2>2 DEF Writes, Effect
    <3> QED  BY <3>1, ShortInside
  <2> QED  BY <2>1, <2>2, <1>5
<1>7. AtOpen'
  <2> SUFFICES ASSUME phase' = "emit", EndsBlock(code'[at'])
               PROVE  code'[at'][Len(code'[at'])].op = "ret" /\ flow' # "falls"
    BY DEF AtOpen, EndsBlock
  <2>1. at' = at /\ (i = Plain \/ (i.op = "ret" /\ flow' # "falls"))
    BY DEF Writes, Goes
  <2>2. i.op \in Terminators
    BY <2>1, <1>5 DEF EndsBlock
  <2>3. i # Plain
    BY <2>2 DEF Plain, Instr, Terminators
  <2> QED  BY <2>1, <2>3, <1>5
<1> QED  BY <1>6, <1>7 DEF CodeRuns, Inside, Terminators, over

-----------------------------------------------------------------------------
(* The invariants together. *)

Flowing == TypeOK /\ VisitorsOwnTheirBlocks /\ StackFits /\ EntryUntargeted /\ CodeRuns

LEMMA FlowStart ==
    ASSUME Init
    PROVE  Flowing
<1>1. /\ nblocks = 1 /\ code = [b \in {1} |-> <<>>] /\ at = 1 /\ Blocks = {1}
      /\ stack = <<Item("seq")>> /\ val = NoVal /\ flow = "falls"
  BY DEF Init, Entry, Blocks
<1>2. /\ Len(stack) = 1 /\ DOMAIN stack = {1} /\ stack[1] = Item("seq")
      /\ code[1] = <<>> /\ ToSet(<<>>) = {}
  BY <1>1 DEF ToSet
<1>3. StackFits
  <2>1. Chain(stack)
    BY <1>2 DEF Chain
  <2>2. val.as \in Needs("seq")
    BY <1>1 DEF NoVal, Value, Needs, Logic
  <2>3. val \in Checked
    BY <1>1 DEF NoVal, Value, Checked, Vals
  <2> QED  BY <1>1, <1>2, <2>1, <2>2, <2>3, FrameFields DEF StackFits
<1>4. EntryUntargeted
  BY <1>1, <1>2 DEF EntryUntargeted
<1>5. CodeRuns
  BY <1>1, <1>2, ShortInside DEF CodeRuns, AtOpen
<1> QED  BY <1>3, <1>4, <1>5, Start DEF Flowing

LEMMA FlowingStep ==
    ASSUME Flowing, Next
    PROVE  Flowing' /\ Proceeds
<1>1. TypeOK' /\ VisitorsOwnTheirBlocks' /\ StackFits'
  BY Step, StackStays DEF Flowing
<1>2. Proceeds
  BY FlowStep DEF Flowing
<1>3. EntryUntargeted'
  BY <1>2, UntargetedStep, LastStep DEF Flowing
<1>4. CodeRuns'
  BY <1>1, <1>2, LastStep, QuietRuns, WriteRuns DEF Flowing, Proceeds
<1> QED  BY <1>1, <1>2, <1>3, <1>4 DEF Flowing

LEMMA FlowStutter ==
    ASSUME Flowing, UNCHANGED vars
    PROVE  Flowing'
<1>1. /\ nblocks' = nblocks /\ layout' = layout /\ code' = code /\ at' = at
      /\ stack' = stack /\ val' = val /\ fuel' = fuel /\ phase' = phase /\ flow' = flow
      /\ Blocks' = Blocks
  BY DEF vars, Blocks
<1>2. StackFits'
  BY <1>1 DEF Flowing, StackFits, Lawful, Checked, Vals
<1>3. EntryUntargeted'
  BY <1>1 DEF Flowing, EntryUntargeted
<1>4. CodeRuns'
  BY <1>1 DEF Flowing, CodeRuns, AtOpen
<1> QED  BY <1>2, <1>3, <1>4, Stutter DEF Flowing

LEMMA AlwaysFlowing == Spec => []Flowing
<1>1. Init => Flowing
  BY FlowStart
<1>2. Flowing /\ [Next]_vars => Flowing'
  BY FlowingStep, FlowStutter
<1> QED  BY <1>1, <1>2, PTL DEF Spec

\* A branch on something that is no bool, a phi of such a value, or a return of
\* another type than the function's is only ever written for the condition of a for
\* statement, for the implicit return, and, if the program defines functions with
\* the names of builtins, for the value of a diverted call or an operand of && or ||
\* (CodegenStmt's uses of codegenCondExp and of the typechecked return values).
THEOREM IllTypedHere == Spec => IllTypedOnlyThere
<1>1. Flowing /\ [Next]_vars => [IllTypedStep]_vars
  BY FlowingStep, IllTypedStepHolds DEF Flowing
<1> QED  BY <1>1, AlwaysFlowing, PTL DEF Spec, IllTypedOnlyThere

\* Nothing follows a terminator but code that the source puts after a return:
\* the getTerminator tests of if, && and || and the unconditional branches of the
\* loops never add a second branch to a block.
THEOREM OverrunsAreReturns == Spec => []OverrunOnlyAfterReturn
<1>1. Flowing => OverrunOnlyAfterReturn
  BY DEF Flowing, CodeRuns, Inside, OverrunOnlyAfterReturn
<1> QED  BY <1>1, AlwaysFlowing, PTL

=============================================================================
