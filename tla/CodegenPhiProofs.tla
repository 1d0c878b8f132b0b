---------------------------- MODULE CodegenPhiProofs ----------------------------
(***************************************************************************)
(* The function's list of blocks in CodegenBlocks, and the phis that read  *)
(* it.  At every moment the list has every block once, apart from the end  *)
(* blocks of the && and || that are being generated, and when the function *)
(* is finished it has them all.  The second part relates the blocks that   *)
(* the two getPrevNode() calls of && and || find in the list to the blocks *)
(* that branch to the merge.  The third is about the control flow graph.   *)
(***************************************************************************)
EXTENDS CodegenFlowProofs, FiniteSetTheorems, WellFoundedInduction

-----------------------------------------------------------------------------
(* The blocks that no list has yet. *)

\* A visitor of && or || made its end block without listing it.
Own(f) == IF f.k = "RhsEnd" THEN Held(f) ELSE {}
Unlisted(s) == UNION {Own(s[i]) : i \in DOMAIN s}

Distinct(s) == \A i, j \in DOMAIN s : s[i] = s[j] => i = j

\* The inductive invariant.
Listing ==
    /\ Distinct(layout)
    /\ ToSet(layout) = Blocks \ Unlisted(stack)
    /\ layout[1] = Entry
    /\ Done => stack = <<>>

\* Frames of visitors that keep no block in mind while they wait.
Keepers == Fillers \cup {"WhileCond"}
Rests(f) == f.k \notin Keepers /\ f.open = <<>> /\ f.back = 0

\* What visitors push in place of the running frame, that of && and || between its
\* operands aside: no frame that owns an unlisted block, none that returns from a
\* statement where an expression was, no loop but the running one or a new one, and
\* nothing that keeps a block unless the insertion point moves.
Light(f) ==
    /\ f.k # "RhsEnd"
    /\ at' = at => Rests(f)
    /\ Returning(f) => Returning(stack[1])
    /\ f.back \in {0, stack[1].back} \cup ({at'} \ Blocks)
Unheld(fs) == (\E F : fs \in Seq(F)) /\ \A i \in DOMAIN fs : Light(fs[i])

\* The unlisted blocks of one frame.
LEMMA OwnRules ==
    /\ \A f : Own(f) \subseteq Held(f)
    /\ \A f : f.k # "RhsEnd" => Own(f) = {}
    /\ \A w, b, l : Own(Frame("RhsEnd", w, <<b>>, l)) = {b}
BY HeldShort, FrameFields DEF Own

LEMMA UnlistedShort ==
    /\ Unlisted(<<>>) = {}
    /\ \A f : Unlisted(<<f>>) = Own(f)
    /\ \A f, g : Unlisted(<<f, g>>) = Own(f) \cup Own(g)
    /\ \A f, g, h : Unlisted(<<f, g, h>>) = Own(f) \cup Own(g) \cup Own(h)
<1>1. Unlisted(<<>>) = {} /\ \A f : Unlisted(<<f>>) = Own(f)
  BY DEF Unlisted
<1>2. \A f, g : Unlisted(<<f, g>>) = Own(f) \cup Own(g)
  <2> TAKE f, g
  <2>1. /\ DOMAIN <<f, g>> = {1, 2} /\ <<f, g>>[1] = f /\ <<f, g>>[2] = g
    OBVIOUS
  <2> QED  BY <2>1 DEF Unlisted
<1>3. \A f, g, h : Unlisted(<<f, g, h>>) = Own(f) \cup Own(g) \cup Own(h)
  <2> TAKE f, g, h
  <2>1. /\ DOMAIN <<f, g, h>> = {1, 2, 3} /\ <<f, g, h>>[1] = f
        /\ <<f, g, h>>[2] = g /\ <<f, g, h>>[3] = h
    OBVIOUS
  <2> QED  BY <2>1 DEF Unlisted
<1> QED  BY <1>1, <1>2, <1>3

\* What the visitor of an expression does when its operands are there.
OperandUsers == {"&&", "||", "CallEnd", "DivertedEnd"}

\* Which frames are light.
LEMMA LightRules ==
    /\ \A w : Light(Exp(w))
    /\ \A k \in OperandUsers : \A ty : Light(Frame(k, {ty}, <<>>, 0))
    /\ \A k \in Statements : Top(k) => Returning(stack[1])
    /\ Returning(stack[1]) =>
          /\ Light(Stmt) /\ \A k : k \notin Keepers => Light(Item(k))
          /\ at' # at =>
                \A k, o : \A l \in {0, stack[1].back} \cup ({at'} \ Blocks) :
                   k # "RhsEnd" => Light(Frame(k, {}, o, l))
<1>1. /\ \A w : ~Returning(Exp(w)) /\ Exp(w).back = 0 /\ Exp(w).k = "exp"
      /\ \A k \in OperandUsers : \A ty : ~Returning(Frame(k, {ty}, <<>>, 0))
      /\ \A k : Item(k).back = 0 /\ Item(k).k = k
      /\ Stmt.k = "stmt" /\ Stmt.back = 0
  <2>1. \A w : ~Returning(Exp(w)) /\ Exp(w).back = 0 /\ Exp(w).k = "exp"
    BY DEF Exp, Frame, Returning, Statements
  <2>2. ASSUME NEW k \in OperandUsers, NEW ty
        PROVE  ~Returning(Frame(k, {ty}, <<>>, 0))
    <3> DEFINE f == Frame(k, {ty}, <<>>, 0)
    <3>1. f.k = k /\ f.want # {}
      BY DEF Frame
    <3>2. k \notin Statements
      BY DEF Statements, OperandUsers
    <3> QED  BY <3>1, <3>2 DEF Returning
  <2>3. \A k : Item(k).back = 0 /\ Item(k).k = k
    BY DEF Item, Frame
  <2>4. Stmt.k = "stmt" /\ Stmt.back = 0
    BY DEF Item, Stmt, Frame
  <2> QED  BY <2>1, <2>2, <2>3, <2>4
<1>2. \A k \in Statements : Top(k) => Returning(stack[1])
  BY DEF Top, Returning
<1>3. \A k, w, o, l : Frame(k, w, o, l).k = k /\ Frame(k, w, o, l).back = l
  BY DEF Frame
<1>4. \A f : f.k # "RhsEnd" /\ ~Returning(f) /\ Rests(f) => Light(f)
  BY DEF Light, Rests
<1>7. /\ "exp" \notin Keepers /\ "&&" \notin Keepers /\ "||" \notin Keepers
      /\ "CallEnd" \notin Keepers /\ "DivertedEnd" \notin Keepers /\ "stmt" \notin Keepers
  BY DEF Keepers, Fillers
<1>5. /\ \A w : Light(Exp(w))
      /\ \A k \in OperandUsers : \A ty : Light(Frame(k, {ty}, <<>>, 0))
  <2>1. \A w : Light(Exp(w))
    BY <1>1, <1>4, <1>7, FrameFields DEF Rests
  <2>2. ASSUME NEW k \in OperandUsers, NEW ty
        PROVE  Light(Frame(k, {ty}, <<>>, 0))
    <3> DEFINE f == Frame(k, {ty}, <<>>, 0)
    <3>1. f.k = k /\ f.k \notin Keepers /\ f.k # "RhsEnd"
      BY <1>7 DEF Frame, OperandUsers
    <3>2. Rests(f)
      BY <3>1 DEF Frame, Rests
    <3>3. ~Returning(f)
      BY <1>1
    <3> HIDE DEF f
    <3>4. Light(f)
      BY <3>1, <3>2, <3>3, <1>4
    <3> QED  BY <3>4 DEF f
  <2> QED  BY <2>1, <2>2
<1>6. ASSUME Returning(stack[1])
      PROVE  /\ Light(Stmt) /\ \A k : k \notin Keepers => Light(Item(k))
             /\ at' # at =>
                   \A k, o : \A l \in {0, stack[1].back} \cup ({at'} \ Blocks) :
                      k # "RhsEnd" => Light(Frame(k, {}, o, l))
  <2>1. Rests(Stmt) /\ \A k : k \notin Keepers => Rests(Item(k)) /\ Item(k).k # "RhsEnd"
    BY <1>7, FrameFields DEF Rests, Item, Frame, Stmt, Keepers, Fillers
  <2>2. Light(Stmt) /\ \A k : k \notin Keepers => Light(Item(k))
    BY <1>1, <1>6, <2>1 DEF Light
  <2>3. at' # at =>
           \A k, o : \A l \in {0, stack[1].back} \cup ({at'} \ Blocks) :
              k # "RhsEnd" => Light(Frame(k, {}, o, l))
    BY <1>3, <1>6 DEF Light
  <2> QED  BY <2>2, <2>3
<1> QED  BY <1>2, <1>5, <1>6

\* Light frames own nothing, and short lists of light frames are such.
LEMMA UnheldShort ==
    /\ \A fs : Unheld(fs) => Unlisted(fs) = {}
    /\ Unheld(<<>>)
    /\ \A f : Light(f) => Unheld(<<f>>)
    /\ \A f, g : Light(f) /\ Light(g) => Unheld(<<f, g>>)
    /\ \A f, g, h : Light(f) /\ Light(g) /\ Light(h) => Unheld(<<f, g, h>>)
    /\ \A n \in 0 .. MaxArgs : \A h : Light(h) => Unheld(Arguments(n) \o <<h>>)
<1>0. \A fs : Unheld(fs) => Unlisted(fs) = {}
  BY OwnRules DEF Unheld, Light, Unlisted
<1>1. Unheld(<<>>)
  <2>1. <<>> \in Seq({}) /\ DOMAIN <<>> = {}
    OBVIOUS
  <2> QED  BY <2>1 DEF Unheld
<1>2. ASSUME NEW f, Light(f)
      PROVE  Unheld(<<f>>)
  <2>1. <<f>> \in Seq({f}) /\ \A i \in DOMAIN <<f>> : <<f>>[i] = f
    OBVIOUS
  <2> QED  BY <1>2, <2>1 DEF Unheld
<1>3. ASSUME NEW f, NEW g, Light(f), Light(g)
      PROVE  Unheld(<<f, g>>)
  <2>1. <<f, g>> \in Seq({f, g}) /\ \A i \in DOMAIN <<f, g>> : <<f, g>>[i] \in {f, g}
    OBVIOUS
  <2> QED  BY <1>3, <2>1 DEF Unheld
<1>4. ASSUME NEW f, NEW g, NEW h, Light(f), Light(g), Light(h)
      PROVE  Unheld(<<f, g, h>>)
  <2>1. /\ <<f, g, h>> \in Seq({f, g, h})
        /\ \A i \in DOMAIN <<f, g, h>> : <<f, g, h>>[i] \in {f, g, h}
    OBVIOUS
  <2> QED  BY <1>4, <2>1 DEF Unheld
<1>5. ASSUME NEW n \in 0 .. MaxArgs, NEW h, Light(h)
      PROVE  Unheld(Arguments(n) \o <<h>>)
  <2> DEFINE e == Exp(Types)
  <2>1. Light(e)
    BY LightRules
  <2>2. Arguments(n) = <<>> \/ Arguments(n) = <<e>> \/ Arguments(n) = <<e, e>>
    BY DEF Arguments, MaxArgs
  <2>3. <<>> \o <<h>> = <<h>>
    OBVIOUS
  <2> HIDE DEF e
  <2>4. Unheld(<<h>>) /\ Unheld(<<e, h>>) /\ Unheld(<<e, e, h>>)
    BY <2>1, <1>2, <1>3, <1>4, <1>5
  <2>5. <<e>> \o <<h>> = <<e, h>> /\ <<e, e>> \o <<h>> = <<e, e, h>>
    BY Joined
  <2> QED  BY <2>2, <2>3, <2>4, <2>5
<1> QED  BY <1>0, <1>1, <1>2, <1>3, <1>4, <1>5

\* What is unlisted after the running frame was replaced by fs.
LEMMA UnlistedReplaced ==
    ASSUME NEW F, NEW s \in Seq(F), s # <<>>, NEW G, NEW fs \in Seq(G)
    PROVE  /\ Unlisted(fs \o Tail(s)) = Unlisted(fs) \cup Unlisted(Tail(s))
           /\ Unlisted(s) = Own(s[1]) \cup Unlisted(Tail(s))
           /\ Unlisted(Tail(s)) \subseteq OpenIn(Tail(s))
<1> DEFINE t == fs \o Tail(s)
<1>1. /\ Tail(s) \in Seq(F \cup G) /\ Len(Tail(s)) = Len(s) - 1 /\ Len(s) >= 1
      /\ \A i \in 1 .. Len(Tail(s)) : Tail(s)[i] = s[i + 1]
      /\ fs \in Seq(F \cup G)
  BY HeadTailProperties, EmptySeq, LenProperties, SeqMonotonic
<1>2. /\ t \in Seq(F \cup G)
      /\ Len(t) = Len(fs) + Len(Tail(s))
      /\ \A i \in 1 .. Len(t) :
            t[i] = IF i <= Len(fs) THEN fs[i] ELSE Tail(s)[i - Len(fs)]
  BY <1>1, ConcatProperties
<1>3. /\ DOMAIN s = 1 .. Len(s) /\ DOMAIN fs = 1 .. Len(fs)
      /\ DOMAIN t = 1 .. Len(t) /\ DOMAIN Tail(s) = 1 .. Len(Tail(s))
      /\ Len(s) \in Nat /\ Len(fs) \in Nat /\ Len(t) \in Nat
  BY <1>1, <1>2, LenProperties
<1> HIDE DEF t
<1>4. /\ \A i \in DOMAIN t : \/ i \in DOMAIN fs /\ t[i] = fs[i]
                             \/ /\ i - Len(fs) \in DOMAIN Tail(s)
                                /\ t[i] = Tail(s)[i - Len(fs)]
      /\ \A j \in DOMAIN fs : j \in DOMAIN t /\ t[j] = fs[j]
      /\ \A j \in DOMAIN Tail(s) :
            Len(fs) + j \in DOMAIN t /\ t[Len(fs) + j] = Tail(s)[j]
  <2>1. \A i \in DOMAIN t : \/ i \in DOMAIN fs /\ t[i] = fs[i]
                          \/ /\ i - Len(fs) \in DOMAIN Tail(s)
                             /\ t[i] = Tail(s)[i - Len(fs)]
    BY <1>2, <1>3
  <2>2. \A j \in DOMAIN fs : j \in DOMAIN t /\ t[j] = fs[j]
    BY <1>2, <1>3
  <2>3. \A j \in DOMAIN Tail(s) :
           Len(fs) + j \in DOMAIN t /\ t[Len(fs) + j] = Tail(s)[j]
    BY <1>2, <1>3
  <2> QED  BY <2>1, <2>2, <2>3
<1>5. Unlisted(t) = Unlisted(fs) \cup Unlisted(Tail(s))
  BY <1>4 DEF Unlisted
<1>6. /\ \A j \in DOMAIN Tail(s) : j + 1 \in DOMAIN s /\ Tail(s)[j] = s[j + 1]
      /\ \A i \in DOMAIN s : i = 1 \/ (i - 1 \in DOMAIN Tail(s) /\ s[i] = Tail(s)[i - 1])
      /\ 1 \in DOMAIN s
  BY <1>1, <1>3
<1>7. Unlisted(s) = Own(s[1]) \cup Unlisted(Tail(s))
  BY <1>6 DEF Unlisted
<1>8. Unlisted(Tail(s)) \subseteq OpenIn(Tail(s))
  BY OwnRules DEF Unlisted, OpenIn
<1> QED  BY <1>5, <1>7, <1>8 DEF t

\* Appending to the list what it does not have yet.
LEMMA ListReplaced ==
    ASSUME NEW S, NEW s \in Seq(S), s # <<>>, NEW T, NEW new \in Seq(T),
           Distinct(s), Distinct(new), ToSet(s) \cap ToSet(new) = {}
    PROVE  /\ Distinct(s \o new)
           /\ ToSet(s \o new) = ToSet(s) \cup ToSet(new)
           /\ (s \o new)[1] = s[1]
<1> DEFINE t == s \o new
<1>1. s \in Seq(S \cup T) /\ new \in Seq(S \cup T) /\ Len(s) >= 1
  BY SeqMonotonic, EmptySeq, LenProperties
<1>2. /\ t \in Seq(S \cup T)
      /\ Len(t) = Len(s) + Len(new)
      /\ \A i \in 1 .. Len(t) : t[i] = IF i <= Len(s) THEN s[i] ELSE new[i - Len(s)]
  BY <1>1, ConcatProperties
<1>3. /\ DOMAIN s = 1 .. Len(s) /\ DOMAIN new = 1 .. Len(new) /\ DOMAIN t = 1 .. Len(t)
      /\ Len(s) \in Nat /\ Len(new) \in Nat /\ Len(t) \in Nat
  BY <1>1, <1>2, LenProperties
<1> HIDE DEF t
<1>4. /\ \A i \in DOMAIN t : \/ i \in DOMAIN s /\ t[i] = s[i]
                             \/ i - Len(s) \in DOMAIN new /\ t[i] = new[i - Len(s)]
      /\ \A j \in DOMAIN s : j \in DOMAIN t /\ t[j] = s[j]
      /\ \A j \in DOMAIN new : Len(s) + j \in DOMAIN t /\ t[Len(s) + j] = new[j]
      /\ 1 \in DOMAIN s
  BY <1>1, <1>2, <1>3
<1>5. ToSet(t) = ToSet(s) \cup ToSet(new)
  BY <1>4 DEF ToSet
<1>6. Distinct(t)
  <2> SUFFICES ASSUME NEW i \in DOMAIN t, NEW j \in DOMAIN t, t[i] = t[j]
               PROVE  i = j
    BY DEF Distinct
  <2>1. \A k \in DOMAIN s, l \in DOMAIN new : s[k] # new[l]
    BY DEF ToSet
  <2>2. \/ i \in DOMAIN s /\ j \in DOMAIN s /\ s[i] = s[j]
        \/ /\ i - Len(s) \in DOMAIN new /\ j - Len(s) \in DOMAIN new
           /\ new[i - Len(s)] = new[j - Len(s)]
    BY <1>4, <2>1
  <2>3. i = j \/ i - Len(s) = j - Len(s)
    BY <2>2 DEF Distinct
  <2> QED  BY <2>3, <1>3
<1> QED  BY <1>4, <1>5, <1>6 DEF t

-----------------------------------------------------------------------------
(* Every step lists what it makes or owned, or still owns it. *)

Lists(fs, new) ==
    /\ stack # <<>> /\ Become(fs)
    /\ layout' = layout \o new
    /\ \E F : fs \in Seq(F)
    /\ \E T : new \in Seq(T)
    /\ Distinct(new)
    /\ Blocks \subseteq Blocks'
    /\ (Blocks' \ Blocks) \cup Own(stack[1]) = ToSet(new) \cup Unlisted(fs)
    /\ ToSet(new) \cap Unlisted(fs) = {}

LEMMA ListStep ==
    ASSUME TypeOK, VisitorsOwnTheirBlocks, Listing, NEW fs, NEW new, Lists(fs, new)
    PROVE  /\ Distinct(layout') /\ layout'[1] = Entry
           /\ ToSet(layout') = Blocks' \ Unlisted(stack')
<1>1. PICK F : fs \in Seq(F)
  BY DEF Lists
<1>2. PICK T : new \in Seq(T)
  BY DEF Lists
<1>3. /\ stack \in Seq(Frames(nblocks)) /\ stack # <<>>
      /\ layout \in Seq(Blocks) /\ layout # <<>>
      /\ OpenIn(stack) \subseteq Blocks
  BY OpenAreBlocks DEF TypeOK, Lists
<1>4. /\ Unlisted(stack') = Unlisted(fs) \cup Unlisted(Tail(stack))
      /\ Unlisted(stack) = Own(stack[1]) \cup Unlisted(Tail(stack))
      /\ Unlisted(Tail(stack)) \subseteq OpenIn(Tail(stack))
  BY <1>1, <1>3, UnlistedReplaced DEF Lists, Become
<1>5. /\ Held(stack[1]) \cap OpenIn(Tail(stack)) = {}
      /\ OpenIn(stack) = Held(stack[1]) \cup OpenIn(Tail(stack))
  <2>1. <<>> \in Seq(Frames(nblocks))
    OBVIOUS
  <2> QED  BY <2>1, <1>3, HeldOnceReplaced, StackReplaced DEF VisitorsOwnTheirBlocks
<1>6. Own(stack[1]) \subseteq Held(stack[1])
  BY OwnRules
<1> DEFINE U == Unlisted(fs)  V == Unlisted(Tail(stack))  O == Own(stack[1])
           N == ToSet(new)  B == Blocks  C == Blocks'  L == ToSet(layout)
<1>7. /\ L = B \ (O \cup V) /\ O \cap V = {} /\ O \subseteq B /\ V \subseteq B
      /\ B \subseteq C /\ (C \ B) \cup O = N \cup U /\ N \cap U = {}
  BY <1>3, <1>4, <1>5, <1>6 DEF Listing, Lists
<1> HIDE DEF U, V, O, N, B, C, L
<1>8. L \cap N = {} /\ L \cup N = C \ (U \cup V)
  BY <1>7
<1>9. /\ Distinct(layout') /\ ToSet(layout') = L \cup N /\ layout'[1] = layout[1]
  BY <1>2, <1>3, <1>8, ListReplaced DEF L, N, Listing, Lists
<1> QED  BY <1>4, <1>8, <1>9 DEF U, V, C, Listing

\* New blocks in the order of their names.
LEMMA BornList ==
    ASSUME NEW n \in Nat, NEW m \in Nat, NEW new \in Seq(Nat), Len(new) = m,
           \A i \in 1 .. m : new[i] = n + i
    PROVE  Distinct(new) /\ ToSet(new) = (1 .. n + m) \ (1 .. n)
<1>1. DOMAIN new = 1 .. m
  BY LenProperties
<1>2. Distinct(new)
  BY <1>1 DEF Distinct
<1>3. \A x \in (1 .. n + m) \ (1 .. n) : x - n \in 1 .. m /\ x = new[x - n]
  OBVIOUS
<1>4. \A i \in 1 .. m : new[i] \in (1 .. n + m) \ (1 .. n)
  OBVIOUS
<1> QED  BY <1>1, <1>2, <1>3, <1>4 DEF ToSet

\* A step that makes blocks and lists them all.
LEMMA ListsNew ==
    ASSUME TypeOK, NEW m \in Nat, nblocks' = nblocks + m, NEW k, Top(k), k # "RhsEnd",
           NEW new \in Seq(Nat), Len(new) = m, \A i \in 1 .. m : new[i] = nblocks + i,
           layout' = layout \o new, NEW fs, Become(fs), Unheld(fs)
    PROVE  Lists(fs, new)
<1>1. Distinct(new) /\ ToSet(new) = Blocks' \ Blocks
  BY BornList DEF TypeOK, Blocks
<1>2. Blocks \subseteq Blocks'
  BY DEF TypeOK, Blocks
<1>3. stack # <<>> /\ Own(stack[1]) = {}
  BY OwnRules DEF Top
<1> QED  BY <1>1, <1>2, <1>3, UnheldShort DEF Lists, Unheld

\* A step that makes no block.
LEMMA ListsNothing ==
    ASSUME TypeOK, nblocks' = nblocks, layout' = layout, NEW k, Top(k), k # "RhsEnd",
           NEW fs, Become(fs), Unheld(fs)
    PROVE  Lists(fs, <<>>)
<1>1. layout' = layout \o <<>> /\ <<>> \in Seq(Nat) /\ Len(<<>>) = 0
  <2>1. layout \o <<>> = layout
    BY ConcatEmptySeq DEF TypeOK
  <2> QED  BY <2>1
<1>2. \A i \in 1 .. 0 : <<>>[i] = nblocks + i
  OBVIOUS
<1>3. nblocks' = nblocks + 0
  BY DEF TypeOK
<1> QED  BY <1>1, <1>2, <1>3, ListsNew

\* What all visitors do but those of && and || around their right operand: those that
\* make blocks or leave one are visitors of statements.
Walks ==
    \E fs, new :
        /\ Lists(fs, new) /\ Unheld(fs)
        /\ Returning(stack[1]) \/ UNCHANGED blockVars
        /\ at' # at \/ UNCHANGED blockVars

\* Visitors that only push or pop frames, and those that emit into the block
\* where they are.
LEMMA StmtLists ==
    ASSUME TypeOK, StmtStep, ~ArraySizeThrow
    PROVE  Walks
<1>1. CASE ArraySizeDynamic
  <2> DEFINE new == <<nblocks + 1, nblocks + 2>>
  <2>1. /\ Top("ArraySize") /\ nblocks' = nblocks + 2 /\ Become(<<>>)
        /\ layout' = layout \o new
    BY <1>1 DEF ArraySizeDynamic
  <2>2. nblocks \in Nat
    BY DEF TypeOK
  <2>3. new \in Seq(Nat) /\ Len(new) = 2 /\ \A i \in 1 .. 2 : new[i] = nblocks + i
    BY <2>2
  <2> HIDE DEF new
  <2>4. Lists(<<>>, new)
    BY <2>1, <2>3, ListsNew, UnheldShort
  <2>5. Returning(stack[1])
    BY <2>1, LightRules DEF Statements
  <2>6. at' # at
    BY <1>1, <2>2 DEF ArraySizeDynamic, TypeOK, Blocks
  <2> QED  BY <2>4, <2>5, <2>6, UnheldShort DEF Walks
<1>2. CASE ~ArraySizeDynamic
  <2>1. nblocks' = nblocks /\ layout' = layout /\ UNCHANGED blockVars
    BY <1>2 DEF StmtStep, VisitSeqStmt, SeqNext, SeqEnd, VisitCallStmt, VisitAssignStmt,
       VisitArrayAssignStmt, Store, VisitDeclStmt, VisitReturnStmt, ReturnEnd,
       VisitDeclArray, ArraySizeConst, Visit, blockVars
  <2>2. \E k \in {"stmt", "seq", "Store", "Ret", "ArraySize"} : Top(k)
    BY <1>2 DEF StmtStep, VisitSeqStmt, SeqNext, SeqEnd, VisitCallStmt, VisitAssignStmt,
       VisitArrayAssignStmt, Store, VisitDeclStmt, VisitReturnStmt, ReturnEnd,
       VisitDeclArray, ArraySizeConst, Visit
  <2>3. PICK k \in {"stmt", "seq", "Store", "Ret", "ArraySize"} : Top(k)
    BY <2>2
  <2>6. Returning(stack[1])
    BY <2>3, LightRules DEF Statements
  <2>4. PICK fs : Become(fs) /\ Unheld(fs)
    <3>1. CASE SeqEnd \/ Store \/ ReturnEnd \/ ArraySizeConst
      <4>1. Become(<<>>)
        BY <3>1 DEF SeqEnd, Store, ReturnEnd, ArraySizeConst
      <4> QED  BY <4>1, UnheldShort
    <3>2. CASE VisitSeqStmt
      <4>1. Become(<<Item("seq")>>)
        BY <3>2 DEF VisitSeqStmt
      <4>2. Light(Item("seq"))
        BY <2>6, LightRules DEF Keepers, Fillers
      <4> QED  BY <4>1, <4>2, UnheldShort
    <3>3. CASE SeqNext
      <4>1. Become(<<Stmt, Item("seq")>>)
        BY <3>3 DEF SeqNext
      <4>2. Light(Stmt) /\ Light(Item("seq"))
        BY <2>6, LightRules DEF Keepers, Fillers
      <4> QED  BY <4>1, <4>2, UnheldShort
    <3>4. CASE VisitCallStmt
      <4>1. PICK n \in 0 .. MaxArgs : Become(Arguments(n) \o <<Item("CallEnd")>>)
        BY <3>4 DEF VisitCallStmt
      <4>2. Light(Item("CallEnd"))
        BY <2>6, LightRules DEF Keepers, Fillers
      <4>3. Unheld(Arguments(n) \o <<Item("CallEnd")>>)
        BY <4>2, UnheldShort
      <4> QED  BY <4>1, <4>3
    <3>5. CASE VisitAssignStmt \/ VisitReturnStmt \/ VisitDeclArray \/ VisitDeclStmt
      <4>1. PICK e, h : (Become(<<>>) \/ Become(<<e, h>>)) /\ Light(e) /\ Light(h)
        <5>1. /\ VisitAssignStmt => Become(<<Exp(Types), Item("Store")>>)
              /\ VisitReturnStmt => Become(<<Exp({FnType}), Item("Ret")>>)
              /\ VisitDeclArray => Become(<<Exp({"i32"}), Item("ArraySize")>>)
              /\ VisitDeclStmt => Become(<<Exp(Types), Item("Store")>>) \/ Become(<<>>)
          BY DEF VisitAssignStmt, VisitReturnStmt, VisitDeclArray, VisitDeclStmt
        <5>2. /\ \A w : Light(Exp(w))
              /\ \A k2 \in {"Store", "Ret", "ArraySize"} : Light(Item(k2))
          BY <2>6, LightRules DEF Keepers, Fillers
        <5>3. CASE VisitAssignStmt \/ VisitDeclStmt
          BY <5>1, <5>2, <5>3
        <5>4. CASE VisitReturnStmt
          BY <5>1, <5>2, <5>4
        <5>5. CASE VisitDeclArray
          BY <5>1, <5>2, <5>5
        <5> QED  BY <3>5, <5>3, <5>4, <5>5
      <4>2. Unheld(<<>>) /\ Unheld(<<e, h>>)
        BY <4>1, UnheldShort
      <4> QED  BY <4>1, <4>2
    <3>6. CASE VisitArrayAssignStmt
      <4>1. Become(<<Exp(Types), Exp({"i32"}), Item("Store")>>)
        BY <3>6 DEF VisitArrayAssignStmt
      <4>3. Light(Exp(Types)) /\ Light(Exp({"i32"})) /\ Light(Item("Store"))
        BY <2>6, LightRules DEF Keepers, Fillers
      <4>2. Unheld(<<Exp(Types), Exp({"i32"}), Item("Store")>>)
        BY <4>3, UnheldShort
      <4> QED  BY <4>1, <4>2
    <3> QED  BY <1>2, <3>1, <3>2, <3>3, <3>4, <3>5, <3>6 DEF StmtStep
  <2>5. Lists(fs, <<>>)
    BY <2>1, <2>3, <2>4, ListsNothing
  <2> QED  BY <2>1, <2>4, <2>5, <2>6 DEF Walks
<1> QED  BY <1>1, <1>2

\* && and || list the end block only when it is filled.
LEMMA LhsLists ==
    ASSUME TypeOK, NEW op \in {"&&", "||"}, ShortCircuitLhs(op)
    PROVE  /\ Lists(<<Exp(LogicTypes), Frame("RhsEnd", stack[1].want, <<nblocks + 2>>, 0)>>,
                    <<nblocks + 1>>)
           /\ Unlisted(<<Exp(LogicTypes), Frame("RhsEnd", stack[1].want, <<nblocks + 2>>, 0)>>)
                 = {nblocks + 2}
<1> DEFINE rhs == nblocks + 1
           end == nblocks + 2
           e == Exp(LogicTypes)
           h == Frame("RhsEnd", stack[1].want, <<end>>, 0)
<1>0. nblocks \in Nat \ {0}
  BY DEF TypeOK
<1>1. /\ Top(op) /\ nblocks' = nblocks + 2 /\ layout' = layout \o <<rhs>>
      /\ Become(<<e, h>>)
  BY DEF ShortCircuitLhs, Listed
<1>2. stack # <<>> /\ Own(stack[1]) = {}
  BY <1>1, OwnRules DEF Top
<1>3. Own(e) = {} /\ Own(h) = {end}
  BY OwnRules, FrameFields
<1>4. Blocks \subseteq Blocks' /\ Blocks' \ Blocks = {rhs, end} /\ rhs # end
  BY <1>0, <1>1 DEF Blocks
<1>5. /\ <<rhs>> \in Seq({rhs}) /\ Distinct(<<rhs>>) /\ ToSet(<<rhs>>) = {rhs}
  BY DEF Distinct, ToSet
<1>6. <<e, h>> \in Seq({e, h})
  OBVIOUS
<1> HIDE DEF rhs, end, e, h
<1>7. Unlisted(<<e, h>>) = {end}
  BY <1>3, UnlistedShort
<1>8. Lists(<<e, h>>, <<rhs>>)
  BY <1>1, <1>2, <1>4, <1>5, <1>6, <1>7 DEF Lists
<1> QED  BY <1>7, <1>8 DEF rhs, end, e, h

LEMMA EndLists ==
    ASSUME TypeOK, ShortCircuitEnd
    PROVE  Lists(<<>>, <<stack[1].open[1]>>)
<1> DEFINE end == stack[1].open[1]
<1>1. Top("RhsEnd") /\ layout' = layout \o <<end>> /\ nblocks' = nblocks /\ Become(<<>>)
  BY DEF ShortCircuitEnd
<1>2. stack # <<>> /\ Own(stack[1]) = {end}
  BY <1>1, HeldRunning DEF Top, Own
<1>3. Blocks' = Blocks
  BY <1>1 DEF Blocks
<1>4. <<end>> \in Seq({end}) /\ Distinct(<<end>>) /\ ToSet(<<end>>) = {end}
  BY DEF Distinct, ToSet
<1>5. <<>> \in Seq({}) /\ Unlisted(<<>>) = {}
  BY UnlistedShort
<1> HIDE DEF end
<1>6. Lists(<<>>, <<end>>)
  BY <1>1, <1>2, <1>3, <1>4, <1>5 DEF Lists
<1> QED  BY <1>6 DEF end

LEMMA ExpLists ==
    ASSUME TypeOK, ExpStep
    PROVE  Walks \/ (\E op \in {"&&", "||"} : ShortCircuitLhs(op)) \/ ShortCircuitEnd
<1>3. ASSUME \/ Leaf \/ CallEnd \/ DivertedEnd
             \/ VisitCallExp \/ VisitDivertedExp \/ VisitArrayAccessExp
             \/ \E op \in {"&&", "||"} : VisitShortCircuit(op)
      PROVE  Walks
  <2>1. nblocks' = nblocks /\ layout' = layout /\ UNCHANGED blockVars
    BY <1>3 DEF Leaf, CallEnd, DivertedEnd, VisitCallExp, VisitDivertedExp,
       VisitArrayAccessExp, VisitShortCircuit, Visit, blockVars
  <2>2. PICK k \in {"exp", "CallEnd", "DivertedEnd"} : Top(k)
    BY <1>3 DEF Leaf, CallEnd, DivertedEnd, VisitCallExp, VisitDivertedExp,
       VisitArrayAccessExp, VisitShortCircuit, Visit
  <2>3. PICK fs : Become(fs) /\ Unheld(fs)
    <3>1. CASE Leaf \/ CallEnd \/ DivertedEnd
      <4>1. Become(<<>>)
        BY <3>1 DEF Leaf, CallEnd, DivertedEnd
      <4> QED  BY <4>1, UnheldShort
    <3>2. CASE VisitCallExp \/ VisitDivertedExp
      <4>1. PICK n, e, ty :
               /\ n \in 0 .. MaxArgs /\ e \in OperandUsers
               /\ Become(Arguments(n) \o <<Frame(e, {ty}, <<>>, 0)>>)
        <5>1. CASE VisitCallExp
          BY <5>1 DEF VisitCallExp, OperandUsers
        <5>2. CASE VisitDivertedExp
          <6>1. PICK n \in 1 .. MaxArgs, ty \in stack[1].want :
                   Become(Arguments(n) \o <<Frame("DivertedEnd", {ty}, <<>>, 0)>>)
            BY <5>2 DEF VisitDivertedExp
          <6>2. n \in 0 .. MaxArgs /\ "DivertedEnd" \in OperandUsers
            BY DEF MaxArgs, OperandUsers
          <6> QED  BY <6>1, <6>2
        <5> QED  BY <3>2, <5>1, <5>2
      <4> DEFINE h == Frame(e, {ty}, <<>>, 0)
      <4>2. Light(h)
        BY <4>1, LightRules, Zenon
      <4>3. Become(Arguments(n) \o <<h>>)
        BY <4>1
      <4> HIDE DEF h
      <4>4. Unheld(Arguments(n) \o <<h>>)
        BY <4>1, <4>2, UnheldShort
      <4> QED  BY <4>3, <4>4
    <3>3. CASE VisitArrayAccessExp
      <4>1. PICK ty \in stack[1].want :
               Become(<<Exp({"i32"}), Frame("CallEnd", {ty}, <<>>, 0)>>)
        BY <3>3 DEF VisitArrayAccessExp
      <4>3. Light(Exp({"i32"})) /\ Light(Frame("CallEnd", {ty}, <<>>, 0))
        <5>1. "CallEnd" \in OperandUsers
          BY DEF OperandUsers
        <5> QED  BY <5>1, LightRules, Zenon
      <4>2. Unheld(<<Exp({"i32"}), Frame("CallEnd", {ty}, <<>>, 0)>>)
        BY <4>3, UnheldShort
      <4> QED  BY <4>1, <4>2
    <3>4. ASSUME NEW op \in {"&&", "||"}, VisitShortCircuit(op)
          PROVE  \E fs : Become(fs) /\ Unheld(fs)
      <4>1. PICK ty : Become(<<Exp(LogicTypes), Frame(op, {ty}, <<>>, 0)>>)
        BY <3>4 DEF VisitShortCircuit
      <4>3. Light(Exp(LogicTypes)) /\ Light(Frame(op, {ty}, <<>>, 0))
        <5>1. op \in OperandUsers
          BY DEF OperandUsers
        <5> QED  BY <5>1, LightRules, Zenon
      <4>2. Unheld(<<Exp(LogicTypes), Frame(op, {ty}, <<>>, 0)>>)
        BY <4>3, UnheldShort
      <4> QED  BY <4>1, <4>2
    <3> QED  BY <1>3, <3>1, <3>2, <3>3, <3>4
  <2>4. Lists(fs, <<>>)
    BY <2>1, <2>2, <2>3, ListsNothing
  <2> QED  BY <2>1, <2>3, <2>4 DEF Walks
<1> QED  BY <1>3 DEF ExpStep

\* Conditionals and loops list their blocks when they make them.
LEMMA ControlLists ==
    ASSUME TypeOK, VisitorsOwnTheirBlocks, ControlStep
    PROVE  Walks
<1>0. nblocks \in Nat \ {0} /\ at \in 1 .. nblocks
  BY DEF TypeOK, Blocks
<1>1. CASE VisitIfStmt \/ VisitForStmt \/ IfBranchEnd \/ LoopEnd \/ ForCond \/ ForBodyEnd
  <2>1. nblocks' = nblocks /\ layout' = layout
    BY <1>1 DEF VisitIfStmt, VisitForStmt, IfBranchEnd, LoopEnd, ForCond, ForBodyEnd,
       Visit, blockVars
  <2>2. PICK k \in {"stmt", "IfBranchEnd", "LoopEnd", "ForCond", "ForBodyEnd"} : Top(k)
    BY <1>1 DEF VisitIfStmt, VisitForStmt, IfBranchEnd, LoopEnd, ForCond, ForBodyEnd, Visit
  <2>5. Returning(stack[1])
    BY <2>2, LightRules DEF Statements
  <2>6. at' # at \/ VisitIfStmt \/ VisitForStmt
    <3>1. ASSUME IfBranchEnd \/ LoopEnd \/ ForCond \/ ForBodyEnd
          PROVE  at' # at
      <4>1. at' = stack[1].open[1]
        BY <3>1 DEF IfBranchEnd, LoopEnd, ForCond, ForBodyEnd
      <4>2. stack[1].open[1] \in Held(stack[1])
        <5>1. stack # <<>> /\ stack[1].k \in Fillers
          BY <3>1 DEF IfBranchEnd, LoopEnd, ForCond, ForBodyEnd, Top, Fillers
        <5>2. stack[1].open # <<>> /\ stack[1].open \in Seq(Blocks)
          <6>1. /\ stack[1].open \in Seq(Blocks) /\ FrameOK(stack[1])
                /\ Len(<<>>) = 0
            BY <5>1, RunningFrame DEF Frames, Blocks
          <6>2. Len(stack[1].open) \in {1, 2, 3}
            BY <5>1, <6>1 DEF FrameOK, Fillers
          <6> QED  BY <6>1, <6>2
        <5> QED  BY <5>2, EmptySeq DEF Held
      <4> QED  BY <2>2, <4>1, <4>2, HeldAway DEF VisitorsOwnTheirBlocks
    <3> QED  BY <1>1, <3>1
  <2>7. at' # at \/ UNCHANGED blockVars
    BY <2>6 DEF VisitIfStmt, VisitForStmt
  <2>3. PICK fs : Become(fs) /\ Unheld(fs)
    <3>1. CASE VisitIfStmt
      <4>1. Become(<<Exp(CondTypes), Item("IfCond")>>)
        BY <3>1 DEF VisitIfStmt
      <4>2. Light(Exp(CondTypes)) /\ Light(Item("IfCond"))
        BY <2>5, LightRules DEF Keepers, Fillers
      <4> QED  BY <4>1, <4>2, UnheldShort
    <3>2. CASE VisitForStmt
      <4>1. Become(<<Stmt, Item("ForInit")>>)
        BY <3>2 DEF VisitForStmt
      <4>2. Light(Stmt) /\ Light(Item("ForInit"))
        BY <2>5, LightRules DEF Keepers, Fillers
      <4> QED  BY <4>1, <4>2, UnheldShort
    <3>3. CASE IfBranchEnd
      <4> DEFINE h == Frame("IfBranchEnd", {}, Tail(stack[1].open), 0)
      <4>1. Become(<<Stmt, h>>) \/ Become(<<>>)
        BY <3>3 DEF IfBranchEnd
      <4>3. at' # at
        BY <2>6, <3>3 DEF IfBranchEnd, VisitIfStmt, VisitForStmt, Visit, Top
      <4>2. Light(h) /\ Light(Stmt)
        BY <2>5, <4>3, LightRules
      <4> HIDE DEF h
      <4>4. Unheld(<<Stmt, h>>) /\ Unheld(<<>>)
        BY <4>2, UnheldShort
      <4> QED  BY <4>1, <4>4
    <3>4. CASE LoopEnd
      <4>1. Become(<<>>)
        BY <3>4 DEF LoopEnd
      <4> QED  BY <4>1, UnheldShort
    <3>5. CASE ForCond \/ ForBodyEnd
      <4>1. PICK k2 \in {"ForBodyEnd", "LoopEnd"} :
               Become(<<Stmt, Frame(k2, {}, Tail(stack[1].open), stack[1].back)>>)
        BY <3>5 DEF ForCond, ForBodyEnd
      <4> DEFINE h == Frame(k2, {}, Tail(stack[1].open), stack[1].back)
      <4>3. at' # at
        BY <2>6, <3>5 DEF ForCond, ForBodyEnd, VisitIfStmt, VisitForStmt, Visit, Top
      <4>2. Light(h) /\ Light(Stmt) /\ Become(<<Stmt, h>>)
        BY <2>5, <4>1, <4>3, LightRules
      <4> HIDE DEF h
      <4>4. Unheld(<<Stmt, h>>)
        BY <4>2, UnheldShort
      <4> QED  BY <4>2, <4>4
    <3> QED  BY <1>1, <3>1, <3>2, <3>3, <3>4, <3>5
  <2>4. Lists(fs, <<>>)
    BY <2>1, <2>2, <2>3, ListsNothing
  <2> QED  BY <2>3, <2>4, <2>5, <2>7 DEF Walks
<1>2. ASSUME NEW hasElse \in BOOLEAN, IfCond(hasElse)
      PROVE  Walks
  <2> DEFINE m == IF hasElse THEN 3 ELSE 2
             join == nblocks + m
             rest == IF hasElse THEN <<nblocks + 2, join>> ELSE <<join>>
             new == <<nblocks + 1>> \o rest
             h == Frame("IfBranchEnd", {}, rest, 0)
  <2>1. /\ Top("IfCond") /\ nblocks' = nblocks + m /\ layout' = layout \o new
        /\ Become(<<Stmt, h>>)
    BY <1>2 DEF IfCond
  <2>2. /\ rest \in Seq(Nat) /\ Len(rest) = m - 1 /\ m \in {2, 3}
        /\ \A i \in 1 .. m - 1 : rest[i] = nblocks + 1 + i
    <3>1. CASE hasElse
      BY <1>0, <3>1
    <3>2. CASE ~hasElse
      BY <1>0, <3>2
    <3> QED  BY <3>1, <3>2
  <2>9. Returning(stack[1])
    BY <2>1, LightRules DEF Statements
  <2>10. at' # at
    BY <1>0, <1>2 DEF IfCond
  <2>3. Light(h) /\ Light(Stmt)
    BY <2>9, <2>10, LightRules
  <2> HIDE DEF m, rest
  <2>4. <<nblocks + 1>> \in Seq(Nat) /\ Len(<<nblocks + 1>>) = 1
        /\ <<nblocks + 1>>[1] = nblocks + 1
    BY <1>0
  <2>5. new \in Seq(Nat) /\ Len(new) = m /\ \A i \in 1 .. m : new[i] = nblocks + i
    <3>1. new \in Seq(Nat) /\ Len(new) = 1 + Len(rest)
          /\ \A i \in 1 .. Len(new) :
                new[i] = IF i <= 1 THEN <<nblocks + 1>>[i] ELSE rest[i - 1]
      BY <2>2, <2>4, ConcatProperties
    <3> HIDE DEF new
    <3>2. Len(new) = m
      BY <2>2, <3>1
    <3>3. \A i \in 1 .. m : i = 1 \/ (i - 1 \in 1 .. m - 1 /\ ~(i <= 1))
      BY <2>2
    <3>4. \A i \in 1 .. m : new[i] = nblocks + i
      <4> TAKE i \in 1 .. m
      <4>1. CASE i = 1
        BY <4>1, <2>4, <3>1, <3>2
      <4>2. CASE i - 1 \in 1 .. m - 1 /\ ~(i <= 1)
        <5>1. new[i] = rest[i - 1] /\ rest[i - 1] = nblocks + 1 + (i - 1)
          BY <4>2, <2>2, <3>1, <3>2
        <5> QED  BY <5>1, <1>0, <2>2
      <4> QED  BY <3>3, <4>1, <4>2
    <3> QED  BY <3>1, <3>2, <3>4
  <2> HIDE DEF new, h
  <2>6. Unheld(<<Stmt, h>>)
    BY <2>3, UnheldShort
  <2>7. m \in Nat
    BY <2>2
  <2>8. Lists(<<Stmt, h>>, new)
    BY <2>1, <2>5, <2>6, <2>7, ListsNew
  <2> QED  BY <2>6, <2>8, <2>9, <2>10 DEF Walks
<1>3. CASE VisitWhileStmt
  <2> DEFINE new == <<nblocks + 1>>
             h == Frame("WhileCond", {}, <<>>, nblocks + 1)
  <2>1. /\ Top("stmt") /\ nblocks' = nblocks + 1 /\ Become(<<Exp(CondTypes), h>>)
        /\ layout' = layout \o new
    BY <1>3 DEF VisitWhileStmt, Visit
  <2>2. new \in Seq(Nat) /\ Len(new) = 1 /\ \A i \in 1 .. 1 : new[i] = nblocks + i
    BY <1>0
  <2>6. Returning(stack[1])
    BY <2>1, LightRules DEF Statements
  <2>7. at' = nblocks + 1 /\ nblocks + 1 \notin Blocks /\ at' # at
    BY <1>0, <1>3 DEF VisitWhileStmt, Blocks
  <2>3. Light(h) /\ Light(Exp(CondTypes))
    BY <2>6, <2>7, LightRules
  <2> HIDE DEF new, h
  <2>4. Unheld(<<Exp(CondTypes), h>>)
    BY <2>3, UnheldShort
  <2>5. Lists(<<Exp(CondTypes), h>>, new)
    BY <2>1, <2>2, <2>4, ListsNew
  <2> QED  BY <2>4, <2>5, <2>6, <2>7 DEF Walks
<1>4. CASE WhileCond
  <2> DEFINE new == <<nblocks + 1, nblocks + 2>>
             h == Frame("LoopEnd", {}, <<nblocks + 2>>, stack[1].back)
  <2>1. /\ Top("WhileCond") /\ nblocks' = nblocks + 2 /\ Become(<<Stmt, h>>)
        /\ layout' = layout \o new
    BY <1>4 DEF WhileCond
  <2>2. new \in Seq(Nat) /\ Len(new) = 2 /\ \A i \in 1 .. 2 : new[i] = nblocks + i
    BY <1>0
  <2>6. Returning(stack[1])
    BY <2>1, LightRules DEF Statements
  <2>7. at' # at
    BY <1>0, <1>4 DEF WhileCond
  <2>3. Light(h) /\ Light(Stmt)
    BY <2>6, <2>7, LightRules
  <2> HIDE DEF new, h
  <2>4. Unheld(<<Stmt, h>>)
    BY <2>3, UnheldShort
  <2>5. Lists(<<Stmt, h>>, new)
    BY <2>1, <2>2, <2>4, ListsNew
  <2> QED  BY <2>4, <2>5, <2>6, <2>7 DEF Walks
<1>5. CASE ForInit
  <2> DEFINE new == <<nblocks + 1, nblocks + 2, nblocks + 3, nblocks + 4>>
             h == Frame("ForCond", {}, <<nblocks + 2, nblocks + 3, nblocks + 4>>, nblocks + 1)
  <2>1. /\ Top("ForInit") /\ nblocks' = nblocks + 4 /\ Become(<<Exp(Types), h>>)
        /\ layout' = layout \o new
    BY <1>5 DEF ForInit
  <2>2. new \in Seq(Nat) /\ Len(new) = 4 /\ \A i \in 1 .. 4 : new[i] = nblocks + i
    BY <1>0
  <2>6. Returning(stack[1])
    BY <2>1, LightRules DEF Statements
  <2>7. at' = nblocks + 1 /\ nblocks + 1 \notin Blocks /\ at' # at
    BY <1>0, <1>5 DEF ForInit, Blocks
  <2>3. Light(h) /\ Light(Exp(Types))
    BY <2>6, <2>7, LightRules
  <2> HIDE DEF new, h
  <2>4. Unheld(<<Exp(Types), h>>)
    BY <2>3, UnheldShort
  <2>5. Lists(<<Exp(Types), h>>, new)
    BY <2>1, <2>2, <2>4, ListsNew
  <2> QED  BY <2>4, <2>5, <2>6, <2>7 DEF Walks
<1> QED  BY <1>1, <1>2, <1>3, <1>4, <1>5 DEF ControlStep

-----------------------------------------------------------------------------
(* The theorem. *)

LEMMA ListingStep ==
    ASSUME TypeOK, VisitorsOwnTheirBlocks, Listing, Next
    PROVE  Listing'
<1>1. CASE Finish \/ ArraySizeThrow
  <2>1. Blocks' = Blocks /\ layout' = layout /\ stack' = stack
    BY <1>1 DEF Finish, ArraySizeThrow, blockVars, Blocks
  <2>2. Done' => stack = <<>>
    BY LastStep DEF Finish
  <2> QED  BY <2>1, <2>2 DEF Listing, Distinct
<1>2. CASE ~Finish /\ ~ArraySizeThrow
  <2>1. Walks \/ (\E op \in {"&&", "||"} : ShortCircuitLhs(op)) \/ ShortCircuitEnd
    BY <1>2, StmtLists, ExpLists, ControlLists DEF Next
  <2>2. PICK fs, new : Lists(fs, new)
    BY <2>1, LhsLists, EndLists DEF Walks
  <2>3. ~Done'
    BY <1>2, LastStep
  <2> QED  BY <2>2, <2>3, ListStep DEF Listing, Distinct
<1> QED  BY <1>1, <1>2

LEMMA ListingStart ==
    ASSUME Init
    PROVE  Listing
<1>1. /\ layout = <<1>> /\ stack = <<Item("seq")>> /\ Blocks = {1} /\ Entry = 1 /\ ~Done
  BY DEF Init, Entry, Blocks, Done
<1>2. Distinct(layout) /\ ToSet(layout) = {1} /\ layout[1] = 1
  BY <1>1 DEF Distinct, ToSet
<1>3. Unlisted(stack) = {}
  BY <1>1, UnlistedShort, OwnRules, FrameFields
<1> QED  BY <1>1, <1>2, <1>3 DEF Listing

\* A list of all blocks that has none twice is as long as there are blocks.
LEMMA ListedOnce ==
    ASSUME TypeOK, Listing, Done
    PROVE  Len(layout) = nblocks /\ ToSet(layout) = Blocks
<1>1. ToSet(layout) = Blocks
  BY UnlistedShort DEF Listing
<1> DEFINE D == 1 .. Len(layout)
<1>2. layout \in Seq(Blocks) /\ nblocks \in Nat /\ Len(layout) \in Nat /\ DOMAIN layout = D
  BY LenProperties DEF TypeOK
<1>3. layout \in [D -> Blocks]
  BY <1>2, LenProperties
<1>4. \A b \in Blocks : \E i \in D : layout[i] = b
  BY <1>1, <1>2 DEF ToSet
<1>5. \A i, j \in D : layout[i] = layout[j] => i = j
  BY <1>2 DEF Listing, Distinct
<1> HIDE DEF D
<1>6. layout \in Bijection(D, Blocks)
  <2>1. layout \in Injection(D, Blocks)
    BY <1>2, <1>3, <1>5 DEF Injection, IsInjective
  <2>2. layout \in Surjection(D, Blocks)
    BY <1>3, <1>4 DEF Surjection
  <2> QED  BY <2>1, <2>2 DEF Bijection
<1>7. IsFiniteSet(D) /\ Cardinality(D) = Len(layout) /\ Cardinality(Blocks) = nblocks
  <2>1. ASSUME NEW n \in Nat
        PROVE  IsFiniteSet(1 .. n) /\ Cardinality(1 .. n) = n
    <3>1. IsFiniteSet(1 .. n) /\ Cardinality(1 .. n) = IF 1 > n THEN 0 ELSE n - 1 + 1
      BY FS_Interval
    <3>2. (IF 1 > n THEN 0 ELSE n - 1 + 1) = n
      OBVIOUS
    <3> QED  BY <3>1, <3>2
  <2> QED  BY <1>2, <2>1 DEF Blocks, D
<1>8. Cardinality(Blocks) = Cardinality(D)
  BY <1>6, <1>7, FS_Bijection DEF ExistsBijection
<1> QED  BY <1>1, <1>7, <1>8

\* The list of blocks of the function (Function::insert of CodegenStmt and
\* CodegenExp) has every block once when the function is finished, the entry block
\* first, and no branch ever goes back to the entry block.
THEOREM ListComplete == Spec => []LayoutComplete
<1>1. Init => Flowing /\ Listing
  BY FlowStart, ListingStart
<1>2. Flowing /\ Listing /\ [Next]_vars => Flowing' /\ Listing'
  <2> SUFFICES ASSUME Flowing, Listing, [Next]_vars
               PROVE  Flowing' /\ Listing'
    OBVIOUS
  <2>1. CASE Next
    BY <2>1, FlowingStep, ListingStep DEF Flowing
  <2>2. CASE UNCHANGED vars
    <3>1. Blocks' = Blocks /\ layout' = layout /\ stack' = stack /\ phase' = phase
      BY <2>2 DEF vars, Blocks
    <3> QED  BY <2>2, <3>1, FlowStutter DEF Listing, Distinct, Done
  <2> QED  BY <2>1, <2>2
<1>3. Flowing /\ Listing => LayoutComplete
  <2> SUFFICES ASSUME Flowing, Listing
               PROVE  LayoutComplete
    OBVIOUS
  <2>1. Preds(Entry) = {}
    <3> SUFFICES ASSUME NEW b \in Blocks, NEW i \in Branches(code[b]),
                        NEW j \in DOMAIN code[b][i].bs, code[b][i].bs[j] = Entry
                 PROVE  FALSE
      BY DEF Preds, Succs
    <3>1. code[b][i] \in ToSet(code[b]) /\ code[b][i].op \in {"br", "condbr"}
      BY DEF Branches, ToSet
    <3> QED  BY <3>1 DEF Flowing, EntryUntargeted, Inwards
  <2> QED  BY <2>1, ListedOnce DEF LayoutComplete, Flowing, Listing
<1> QED  BY <1>1, <1>2, <1>3, PTL DEF Spec

-----------------------------------------------------------------------------
(* The phis: the inductive invariant on top of the list's. *)

\* What the frame g may wait for: the visitor of a right operand never waits for a
\* statement, and its end block is older than those of operands nested in it.
Ordered(f, g) ==
    g.k = "RhsEnd" => ~Returning(f) /\ (f.k = "RhsEnd" => g.open[1] < f.open[1])
Nested(s) == \A i, j \in DOMAIN s : i < j => Ordered(s[i], s[j])

\* The head of a loop is being filled or closed, and begins without a phi.
HeadsFilled ==
    \A i \in DOMAIN stack : stack[i].back # 0 =>
        /\ stack[i].back \in Blocks \ OpenIn(stack)
        /\ ~HasPhi(stack[i].back)

\* The block of the left operand is closed, the only one yet that branches to the
\* end block e, and in the list before the block of the right operand, e - 1.
Joins(q, p, e) ==
    /\ q \in DOMAIN layout /\ p \in DOMAIN layout /\ q < p
    /\ layout[p] = e - 1
    /\ Preds(e) = {layout[q]}
    /\ layout[q] \notin {at} \cup OpenIn(stack)

\* The right operand's block is the last one in the list as long as code goes there,
\* and afterwards two others follow it: when an operand nested in it is done.
Placed(p, e) ==
    \/ p + 2 <= Len(layout)
    \/ (\E d \in Unlisted(stack) : d > e) /\ p + 1 <= Len(layout)
    \/ (\A d \in Unlisted(stack) : d <= e) /\ at = e - 1 /\ p = Len(layout)

Pending == \A e \in Unlisted(stack) : \E q, p : Joins(q, p, e) /\ Placed(p, e)

\* What PhiExactIffAdjacent says of the block b, the i-th of the list; it is not one
\* of the first two.
Merged(i, b) ==
    /\ i >= 3
    /\ Cardinality(Preds(b)) = 2
    /\ code[b][1].bs[2] \in Preds(b)
    /\ PhiIsExact(b) <=> Preds(b) = {layout[i - 2], layout[i - 1]}
AllMerged ==
    \A i \in DOMAIN layout : \A b \in Blocks : layout[i] = b /\ HasPhi(b) => Merged(i, b)

Merging ==
    /\ Nested(stack)
    /\ HeadsFilled
    /\ Pending
    /\ AllMerged

-----------------------------------------------------------------------------
(* What a step adds to the edges and to the phis. *)

LEMMA SuccsAreTargets == \A b : Succs(b) = Targets(code[b])
BY DEF Succs, Branches, Targets, To, ToSet

\* The instructions, and the first one, after emitting.
LEMMA PutElements ==
    ASSUME NEW S, NEW s \in Seq(S), NEW i
    PROVE  /\ ToSet(Put(s, i)) = ToSet(s) \cup {i}
           /\ ToSet(PutFront(s)) = ToSet(s) \cup {Plain}
           /\ Put(s, i) # <<>> /\ Put(s, i)[1] = IF s = <<>> THEN i ELSE s[1]
           /\ PutFront(s)[1] = Plain
<1>1. DOMAIN s = 1 .. Len(s) /\ Len(s) \in Nat /\ (s # <<>> => Len(s) >= 1)
  BY EmptySeq
<1>2. /\ ToSet(s) \cup {i} \subseteq ToSet(Put(s, i))
      /\ Put(s, i) # <<>> /\ Put(s, i)[1] = IF s = <<>> THEN i ELSE s[1]
  <2>1. CASE s # <<>> /\ i = Plain /\ s[Len(s)] = Plain
    <3>1. Put(s, i) = s /\ Len(s) \in DOMAIN s
      BY <2>1, <1>1 DEF Put
    <3> QED  BY <2>1, <3>1 DEF ToSet
  <2>2. CASE ~(s # <<>> /\ i = Plain /\ s[Len(s)] = Plain)
    <3> DEFINE t == Append(s, i)
    <3>1. /\ DOMAIN t = 1 .. Len(s) + 1 /\ t[Len(s) + 1] = i
          /\ \A j \in 1 .. Len(s) : t[j] = s[j]
      OBVIOUS
    <3>2. t # <<>> /\ (s = <<>> => Len(s) = 0)
      BY <3>1, <1>1
    <3>3. Put(s, i) = t
      BY <2>2 DEF Put
    <3> HIDE DEF t
    <3>4. \A j \in DOMAIN s : j \in DOMAIN t /\ t[j] = s[j]
      BY <1>1, <3>1
    <3>5. Len(s) + 1 \in DOMAIN t
      BY <1>1, <3>1
    <3>6. ToSet(s) \cup {i} \subseteq ToSet(t)
      BY <3>1, <3>4, <3>5 DEF ToSet
    <3>7. t[1] = IF s = <<>> THEN i ELSE s[1]
      BY <3>1, <3>2, <1>1
    <3> QED  BY <3>2, <3>3, <3>6, <3>7
  <2> QED  BY <2>1, <2>2
<1>3. ToSet(s) \cup {Plain} \subseteq ToSet(PutFront(s)) /\ PutFront(s)[1] = Plain
  <2>1. CASE s # <<>> /\ s[1] = Plain
    <3>1. PutFront(s) = s /\ 1 \in DOMAIN s
      BY <2>1, <1>1 DEF PutFront
    <3> QED  BY <2>1, <3>1 DEF ToSet
  <2>2. CASE ~(s # <<>> /\ s[1] = Plain)
    <3> DEFINE t == <<Plain>> \o s
    <3>1. <<Plain>> \in Seq(S \cup {Plain}) /\ Len(<<Plain>>) = 1 /\ <<Plain>>[1] = Plain
          /\ s \in Seq(S \cup {Plain})
      BY SeqMonotonic
    <3>2. /\ t \in Seq(S \cup {Plain}) /\ Len(t) = Len(s) + 1
          /\ \A j \in 1 .. Len(t) : t[j] = IF j <= 1 THEN Plain ELSE s[j - 1]
      BY <3>1, ConcatProperties
    <3>3. PutFront(s) = t
      BY <2>2 DEF PutFront
    <3> HIDE DEF t
    <3>4. 1 \in DOMAIN t /\ t[1] = Plain
      BY <1>1, <3>2
    <3>5. \A j \in DOMAIN s : j + 1 \in DOMAIN t /\ t[j + 1] = s[j]
      <4> TAKE j \in DOMAIN s
      <4>1. j + 1 \in 1 .. Len(t) /\ ~(j + 1 <= 1) /\ j + 1 - 1 = j
        BY <1>1, <3>2
      <4>2. t[j + 1] = s[j + 1 - 1]
        BY <4>1, <3>2
      <4> QED  BY <4>1, <4>2, <3>2
    <3> QED  BY <3>3, <3>4, <3>5 DEF ToSet
  <2> QED  BY <2>1, <2>2
<1> QED  BY <1>2, <1>3, PutSet

\* What the code written by a step adds to the edges.
LEMMA EdgesOf ==
    ASSUME TypeOK
    PROVE  /\ Silent => \A b : Preds(b)' = Preds(b)
           /\ \A i : Effect(i) =>
                 \A b : Preds(b)' = Preds(b) \cup (IF b \in To(i) THEN {at} ELSE {})
<1>1. /\ at \in Blocks /\ \A b \in Blocks : code[b] \in Seq(Instrs(nblocks))
  BY DEF TypeOK
<1>2. /\ Targets(<<>>) = {} /\ Targets(<<Plain>>) = {} /\ Targets(<<Plain, Unreachable>>) = {}
      /\ \A p, q, ty : Targets(<<Phi(p, q, ty)>>) = {}
  <2>1. /\ ToSet(<<>>) = {} /\ ToSet(<<Plain>>) = {Plain}
        /\ ToSet(<<Plain, Unreachable>>) = {Plain, Unreachable}
        /\ \A p, q, ty : ToSet(<<Phi(p, q, ty)>>) = {Phi(p, q, ty)}
    BY DEF ToSet
  <2> QED  BY <2>1, ToRules DEF Targets
<1>3. \A b \in Blocks : Targets(PutFront(code[b])) = Targets(code[b])
  <2> TAKE b \in Blocks
  <2>1. ToSet(PutFront(code[b])) = ToSet(code[b]) \cup {Plain}
    BY <1>1, PutElements
  <2>2. To(Plain) = {}
    BY ToRules
  <2> QED  BY <2>1, <2>2 DEF Targets
<1>4. ASSUME NEW b
      PROVE  /\ Preds(b) = {a \in Blocks : b \in Targets(code[a])}
             /\ Preds(b)' = {a \in Blocks' : b \in Targets(code'[a])}
  <2>1. Preds(b) = {a \in Blocks : b \in Targets(code[a])}
    BY SuccsAreTargets DEF Preds
  <2>2. Preds(b)' = {a \in Blocks' : b \in Targets(code'[a])}
    BY DEF Preds, Succs, Branches, Targets, To, ToSet
  <2> QED  BY <2>1, <2>2
<1>5. ASSUME Silent
      PROVE  \A b : Preds(b)' = Preds(b)
  <2>1. \A a \in Blocks : Targets(code'[a]) = Targets(code[a])
    BY <1>3, <1>5 DEF Silent, Same
  <2> QED  BY <1>4, <1>5, <2>1 DEF Silent
<1>6. ASSUME NEW i, Effect(i), NEW b
      PROVE  Preds(b)' = Preds(b) \cup (IF b \in To(i) THEN {at} ELSE {})
  <2>1. Targets(code'[at]) = Targets(code[at]) \cup To(i)
    <3> DEFINE s == code[at]
               t == Put(s, Plain)
    <3>1. s \in Seq(Instrs(nblocks)) /\ t \in Seq(Instrs(nblocks))
      BY <1>1, InstrTypes, PutType DEF TypeOK
    <3>2. code'[at] = Put(s, i) \/ code'[at] = Put(t, i)
      BY <1>6 DEF Effect
    <3>3. /\ ToSet(Put(s, i)) = ToSet(s) \cup {i} /\ ToSet(t) = ToSet(s) \cup {Plain}
      BY <3>1, PutElements
    <3> HIDE DEF t
    <3>4. ToSet(Put(t, i)) = ToSet(t) \cup {i}
      BY <3>1, PutElements
    <3> QED  BY ToRules, <3>2, <3>3, <3>4 DEF Targets
  <2>2. ASSUME NEW a \in Blocks \ {at}
        PROVE  Targets(code'[a]) = Targets(code[a])
    <3>1. CASE code'[a] = code[a]
      BY <3>1
    <3>2. CASE code[a] = <<>> /\ Merges(a)
      <4>1. code'[a] = <<Phi(TwoBefore(layout), RhsBlock, val.ty)>>
        BY <3>2 DEF Merges
      <4>2. Targets(code'[a]) = {}
        BY <1>2, <4>1
      <4> QED  BY <1>2, <3>2, <4>2
    <3> QED  BY <1>6, <3>1, <3>2 DEF Effect
  <2>3. \A a \in Blocks' \ Blocks : Targets(code'[a]) = {}
    BY <1>2, <1>6 DEF Effect
  <2>4. Blocks \subseteq Blocks'
    BY <1>6 DEF Effect
  <2> QED  BY <1>1, <1>4, <2>1, <2>2, <2>3, <2>4
<1> QED  BY <1>5, <1>6

\* A step adds edges from the insertion block only, to blocks that lie ahead.
LEMMA EdgesStep ==
    ASSUME TypeOK, Proceeds
    PROVE  \E T \in SUBSET Ahead : \A b :
              Preds(b)' = Preds(b) \cup (IF b \in T THEN {at} ELSE {})
<1>1. CASE Silent
  <2> WITNESS {} \in SUBSET Ahead
  <2> QED  BY <1>1, EdgesOf
<1>2. ASSUME NEW i, Writes(i)
      PROVE  \E T \in SUBSET Ahead : \A b :
                Preds(b)' = Preds(b) \cup (IF b \in T THEN {at} ELSE {})
  <2>1. To(i) \in SUBSET Ahead
    BY <1>2 DEF Writes, Aims, To
  <2> WITNESS To(i) \in SUBSET Ahead
  <2> QED  BY <1>2, EdgesOf DEF Writes
<1> QED  BY <1>1, <1>2 DEF Proceeds, Quietly

\* A block that begins with a phi did so before, or is the end block of a right operand
\* that was left.
LEMMA PhiStep ==
    ASSUME TypeOK, Proceeds, NEW b \in Blocks', HasPhi(b)'
    PROVE  \/ b \in Blocks /\ HasPhi(b) /\ code'[b][1] = code[b][1]
           \/ Merges(b)
<1>0. code'[b] # <<>> /\ code'[b][1].op = "phi"
  BY DEF HasPhi
<1>1. /\ at \in Blocks /\ \A c \in Blocks : code[c] \in Seq(Instrs(nblocks))
      /\ Plain.op # "phi"
  BY DEF TypeOK, Plain, Instr
<1>2. CASE Silent
  <2>1. b \in Blocks /\ (code'[b] = code[b] \/ code'[b] = PutFront(code[b]))
    BY <1>2 DEF Silent, Same
  <2>2. code'[b] = code[b]
    BY <1>0, <1>1, <2>1, PutElements
  <2> QED  BY <1>0, <2>1, <2>2 DEF HasPhi
<1>3. CASE \E i : Writes(i)
  <2>1. PICK i : Writes(i)
    BY <1>3
  <2>2. CASE b = at
    <3> DEFINE s == code[at]
               t == Put(s, Plain)
    <3>1. s \in Seq(Instrs(nblocks)) /\ t \in Seq(Instrs(nblocks))
      BY <1>1, InstrTypes, PutType DEF TypeOK
    <3>2. code'[at] = Put(s, i) \/ code'[at] = Put(t, i)
      BY <2>1 DEF Writes, Effect
    <3>3. i.op # "phi"
      BY <2>1 DEF Writes, Aims
    <3>4. /\ Put(s, i)[1] = IF s = <<>> THEN i ELSE s[1]
          /\ t # <<>> /\ t[1] = IF s = <<>> THEN Plain ELSE s[1]
      BY <3>1, PutElements
    <3> HIDE DEF t
    <3>5. Put(t, i)[1] = t[1]
      BY <3>1, <3>4, PutElements
    <3>6. s # <<>> /\ code'[at][1] = s[1]
      BY <1>0, <1>1, <2>2, <3>2, <3>3, <3>4, <3>5
    <3> QED  BY <1>0, <1>1, <2>2, <3>6 DEF HasPhi
  <2>3. CASE b \in Blocks /\ b # at
    BY <1>0, <2>1, <2>3 DEF Writes, Effect, HasPhi
  <2>4. CASE b \notin Blocks
    <3>1. code'[b] = <<>> \/ code'[b] = <<Plain>> \/ code'[b] = <<Plain, Unreachable>>
      BY <2>1, <2>4 DEF Writes, Effect
    <3>2. <<Plain>>[1] = Plain /\ <<Plain, Unreachable>>[1] = Plain
      OBVIOUS
    <3> QED  BY <1>0, <1>1, <3>1, <3>2
  <2> QED  BY <2>2, <2>3, <2>4
<1> QED  BY <1>2, <1>3 DEF Proceeds, Quietly

-----------------------------------------------------------------------------
(* The stack of visitors. *)

\* The unlisted blocks are the end blocks of the right operands under way.
LEMMA UnlistedEnds ==
    ASSUME TypeOK
    PROVE  /\ \A j \in DOMAIN stack : stack[j].k = "RhsEnd" =>
                 Own(stack[j]) = {stack[j].open[1]} /\ stack[j].open[1] \in Blocks
           /\ \A e \in Unlisted(stack) :
                 \E j \in DOMAIN stack : stack[j].k = "RhsEnd" /\ e = stack[j].open[1]
           /\ Unlisted(stack) \subseteq OpenIn(stack) /\ Unlisted(stack) \subseteq Blocks
<1>1. ASSUME NEW j \in DOMAIN stack, stack[j].k = "RhsEnd"
      PROVE  Own(stack[j]) = {stack[j].open[1]} /\ stack[j].open[1] \in Blocks
  <2>1. stack[j] \in Frames(nblocks)
    BY DEF TypeOK
  <2>2. stack[j].open \in Seq(Blocks) /\ Len(stack[j].open) = 1
    BY <1>1, <2>1 DEF Frames, FrameOK, Blocks
  <2>3. DOMAIN stack[j].open = {1}
    BY <2>2
  <2> QED  BY <1>1, <2>2, <2>3 DEF Own, Held
<1>2. ASSUME NEW e \in Unlisted(stack)
      PROVE  \E j \in DOMAIN stack : stack[j].k = "RhsEnd" /\ e = stack[j].open[1]
  <2>1. PICK j \in DOMAIN stack : e \in Own(stack[j])
    BY DEF Unlisted
  <2> QED  BY <2>1, <1>1, OwnRules
<1>3. Unlisted(stack) \subseteq OpenIn(stack)
  BY OwnRules DEF Unlisted, OpenIn
<1> QED  BY <1>1, <1>2, <1>3, OpenAreBlocks

\* Where a statement is visited no right operand is under way, and the innermost one
\* has the newest end block.
LEMMA Innermost ==
    ASSUME TypeOK, Nested(stack), stack # <<>>
    PROVE  /\ Returning(stack[1]) => Unlisted(stack) = {}
           /\ stack[1].k = "RhsEnd" => \A e \in Unlisted(stack) : e <= stack[1].open[1]
<1>1. 1 \in DOMAIN stack /\ \A j \in DOMAIN stack : j = 1 \/ 1 < j
  BY EmptySeq DEF TypeOK
<1>2. \A j \in DOMAIN stack : j = 1 \/ Ordered(stack[1], stack[j])
  BY <1>1 DEF Nested
<1>3. Returning(stack[1]) => stack[1].k # "RhsEnd"
  BY DEF Returning, Statements
<1>4. Returning(stack[1]) => \A j \in DOMAIN stack : stack[j].k # "RhsEnd"
  BY <1>2, <1>3 DEF Ordered
<1>5. ASSUME stack[1].k = "RhsEnd", NEW e \in Unlisted(stack)
      PROVE  e <= stack[1].open[1]
  <2>1. PICK j \in DOMAIN stack : stack[j].k = "RhsEnd" /\ e = stack[j].open[1]
    BY UnlistedEnds
  <2>2. e \in Nat /\ stack[1].open[1] \in Nat
    <3>1. e \in Blocks /\ stack[1].open[1] \in Blocks
      BY <1>1, <1>5, UnlistedEnds
    <3> QED  BY <3>1 DEF Blocks
  <2>3. j = 1 \/ e < stack[1].open[1]
    BY <1>2, <1>5, <2>1 DEF Ordered
  <2> QED  BY <2>1, <2>2, <2>3
<1> QED  BY <1>4, <1>5, UnlistedEnds

\* Replacing the running frame, seen pair by pair.
LEMMA PairsReplaced ==
    ASSUME NEW R, NEW F, NEW s \in Seq(F), s # <<>>, NEW G, NEW fs \in Seq(G),
           \A i, j \in DOMAIN s : i < j => <<s[i], s[j]>> \in R,
           \A i, j \in DOMAIN fs : i < j => <<fs[i], fs[j]>> \in R,
           \A i \in DOMAIN fs : \A j \in 2 .. Len(s) : <<fs[i], s[j]>> \in R
    PROVE  LET t == fs \o Tail(s)
           IN  /\ \A i, j \in DOMAIN t : i < j => <<t[i], t[j]>> \in R
               /\ \A i \in DOMAIN t : \/ \E j \in DOMAIN fs : t[i] = fs[j]
                                      \/ \E j \in 2 .. Len(s) : t[i] = s[j]
<1> DEFINE t == fs \o Tail(s)
<1>1. /\ Tail(s) \in Seq(F) /\ Len(Tail(s)) = Len(s) - 1 /\ Len(s) >= 1 /\ Len(s) \in Nat
      /\ \A i \in 1 .. Len(Tail(s)) : Tail(s)[i] = s[i + 1]
  BY EmptySeq, HeadTailProperties
<1>2. fs \in Seq(F \cup G) /\ Tail(s) \in Seq(F \cup G)
  BY <1>1, SeqMonotonic
<1>3. /\ t \in Seq(F \cup G) /\ Len(t) = Len(fs) + Len(Tail(s)) /\ Len(fs) \in Nat
      /\ \A i \in 1 .. Len(t) : t[i] = IF i <= Len(fs) THEN fs[i] ELSE Tail(s)[i - Len(fs)]
  BY <1>2, ConcatProperties, LenProperties
<1>4. /\ DOMAIN t = 1 .. Len(t) /\ DOMAIN fs = 1 .. Len(fs) /\ DOMAIN s = 1 .. Len(s)
  BY <1>3, LenProperties
<1> HIDE DEF t
<1>5. ASSUME NEW i \in DOMAIN t
      PROVE  \/ i \in DOMAIN fs /\ t[i] = fs[i]
             \/ i > Len(fs) /\ i - Len(fs) + 1 \in 2 .. Len(s) /\ t[i] = s[i - Len(fs) + 1]
  <2>1. CASE i <= Len(fs)
    BY <2>1, <1>3, <1>4
  <2>2. CASE i > Len(fs)
    <3>1. i - Len(fs) \in 1 .. Len(Tail(s))
      BY <2>2, <1>1, <1>3, <1>4
    <3>2. Tail(s)[i - Len(fs)] = s[i - Len(fs) + 1] /\ i - Len(fs) + 1 \in 2 .. Len(s)
      BY <3>1, <1>1
    <3>3. ~(i <= Len(fs)) /\ i \in 1 .. Len(t)
      BY <2>2, <1>3, <1>4
    <3>4. t[i] = Tail(s)[i - Len(fs)]
      BY <3>3, <1>3
    <3> QED  BY <2>2, <3>2, <3>4
  <2>3. i <= Len(fs) \/ i > Len(fs)
    BY <1>3, <1>4
  <2> QED  BY <2>1, <2>2, <2>3
<1>6. ASSUME NEW i \in DOMAIN t, NEW j \in DOMAIN t, i < j
      PROVE  <<t[i], t[j]>> \in R
  <2>1. CASE j \in DOMAIN fs
    <3>1. i \in DOMAIN fs /\ t[i] = fs[i] /\ t[j] = fs[j]
      BY <2>1, <1>3, <1>4, <1>5, <1>6
    <3> QED  BY <2>1, <3>1, <1>6
  <2>2. CASE j \notin DOMAIN fs /\ i \in DOMAIN fs
    <3>1. t[i] = fs[i] /\ j - Len(fs) + 1 \in 2 .. Len(s) /\ t[j] = s[j - Len(fs) + 1]
      BY <2>2, <1>3, <1>4, <1>5
    <3> QED  BY <2>2, <3>1
  <2>3. CASE j \notin DOMAIN fs /\ i \notin DOMAIN fs
    <3>1. /\ i - Len(fs) + 1 \in 2 .. Len(s) /\ t[i] = s[i - Len(fs) + 1]
          /\ j - Len(fs) + 1 \in 2 .. Len(s) /\ t[j] = s[j - Len(fs) + 1]
      BY <2>3, <1>5
    <3>2. /\ i - Len(fs) + 1 \in DOMAIN s /\ j - Len(fs) + 1 \in DOMAIN s
          /\ i - Len(fs) + 1 < j - Len(fs) + 1
      BY <3>1, <1>3, <1>4, <1>6
    <3> QED  BY <3>1, <3>2
  <2> QED  BY <2>1, <2>2, <2>3
<1>7. \A i \in DOMAIN t : \/ \E j \in DOMAIN fs : t[i] = fs[j]
                          \/ \E j \in 2 .. Len(s) : t[i] = s[j]
  BY <1>5
<1> QED  BY <1>6, <1>7 DEF t

LEMMA NestedReplaced ==
    ASSUME NEW F, NEW s \in Seq(F), s # <<>>, Nested(s), NEW G, NEW fs \in Seq(G), Nested(fs),
           \A i \in DOMAIN fs : \A j \in 2 .. Len(s) : Ordered(fs[i], s[j])
    PROVE  Nested(fs \o Tail(s))
<1> DEFINE R == {p \in (F \cup G) \X (F \cup G) : Ordered(p[1], p[2])}
           t == fs \o Tail(s)
<1>1. /\ \A i \in DOMAIN s : s[i] \in F \cup G
      /\ \A i \in DOMAIN fs : fs[i] \in F \cup G
      /\ \A j \in 2 .. Len(s) : j \in DOMAIN s
  OBVIOUS
<1>2. \A f, g \in F \cup G : <<f, g>> \in R <=> Ordered(f, g)
  OBVIOUS
<1> HIDE DEF R
<1>3. \A i, j \in DOMAIN t : i < j => <<t[i], t[j]>> \in R
  BY <1>1, <1>2, PairsReplaced DEF Nested
<1>4. \A i \in DOMAIN t : t[i] \in F \cup G
  BY <1>1, StackReplaced, SeqMonotonic
<1> HIDE DEF t
<1>5. Nested(t)
  BY <1>2, <1>3, <1>4 DEF Nested
<1> QED  BY <1>5 DEF t

\* What a step does to the stack.
Turns(fs) ==
    /\ stack # <<>> /\ Become(fs)
    /\ \E F : fs \in Seq(F)
    /\ Nested(fs)
    /\ \A i \in DOMAIN fs :
          /\ \A j \in 2 .. Len(stack) : Ordered(fs[i], stack[j])
          /\ fs[i].back \in {0, stack[1].back} \cup ({at'} \ Blocks)

LEMMA WalkTurns ==
    ASSUME TypeOK, Nested(stack), Walks
    PROVE  \E fs : Turns(fs)
<1>1. PICK fs, new : Lists(fs, new) /\ Unheld(fs)
  BY DEF Walks
<1>2. \A i \in DOMAIN fs : Light(fs[i])
  BY <1>1 DEF Unheld
<1>3. Nested(fs)
  BY <1>2 DEF Nested, Ordered, Light
<1>4. stack # <<>> /\ Become(fs) /\ \E F : fs \in Seq(F)
  BY <1>1 DEF Lists
<1>5. \A j \in 2 .. Len(stack) : Ordered(stack[1], stack[j])
  <2> TAKE j \in 2 .. Len(stack)
  <2>1. 1 \in DOMAIN stack /\ j \in DOMAIN stack /\ 1 < j
    BY <1>4, EmptySeq DEF TypeOK
  <2> QED  BY <2>1 DEF Nested
<1>6. \A i \in DOMAIN fs : \A j \in 2 .. Len(stack) : Ordered(fs[i], stack[j])
  BY <1>2, <1>5 DEF Ordered, Light
<1>7. \A i \in DOMAIN fs : fs[i].back \in {0, stack[1].back} \cup ({at'} \ Blocks)
  BY <1>2 DEF Light
<1> QED  BY <1>3, <1>4, <1>6, <1>7 DEF Turns

LEMMA LhsTurns ==
    ASSUME TypeOK, Nested(stack), NEW op \in {"&&", "||"}, ShortCircuitLhs(op)
    PROVE  \E fs : Turns(fs)
<1> DEFINE e == Exp(LogicTypes)
           h == Frame("RhsEnd", stack[1].want, <<nblocks + 2>>, 0)
<1>1. stack # <<>> /\ Become(<<e, h>>)
  BY DEF ShortCircuitLhs, Top
<1>2. /\ e.k = "exp" /\ e.back = 0 /\ ~Returning(e)
      /\ h.k = "RhsEnd" /\ h.back = 0 /\ ~Returning(h) /\ h.open = <<nblocks + 2>>
  BY DEF Exp, Frame, Returning, Statements
<1>3. h.open[1] = nblocks + 2
  BY <1>2
<1> HIDE DEF e, h
<1>4. <<e, h>> \in Seq({e, h}) /\ DOMAIN <<e, h>> = {1, 2}
      /\ <<e, h>>[1] = e /\ <<e, h>>[2] = h
  OBVIOUS
<1>5. Nested(<<e, h>>)
  <2>1. Ordered(e, h)
    BY <1>2 DEF Ordered
  <2>2. \A i, j \in {1, 2} : i < j => i = 1 /\ j = 2
    OBVIOUS
  <2> QED  BY <2>1, <2>2, <1>4 DEF Nested
<1>6. ASSUME NEW j \in 2 .. Len(stack)
      PROVE  Ordered(e, stack[j]) /\ Ordered(h, stack[j])
  <2>1. j \in DOMAIN stack /\ nblocks \in Nat
    BY DEF TypeOK
  <2>2. stack[j].k = "RhsEnd" => stack[j].open[1] < h.open[1]
    BY <1>3, <2>1, UnlistedEnds DEF Blocks
  <2> QED  BY <1>2, <2>2 DEF Ordered
<1>7. \A i \in DOMAIN <<e, h>> : <<e, h>>[i] = e \/ <<e, h>>[i] = h
  BY <1>4
<1>8. Turns(<<e, h>>)
  BY <1>1, <1>2, <1>4, <1>5, <1>6, <1>7 DEF Turns
<1> QED  BY <1>8

LEMMA EndTurns ==
    ASSUME TypeOK, ShortCircuitEnd
    PROVE  \E fs : Turns(fs)
<1>1. stack # <<>> /\ Become(<<>>)
  BY DEF ShortCircuitEnd, Top
<1>2. <<>> \in Seq({}) /\ DOMAIN <<>> = {}
  OBVIOUS
<1>3. Nested(<<>>)
  BY <1>2 DEF Nested
<1>4. Turns(<<>>)
  BY <1>1, <1>2, <1>3 DEF Turns
<1> QED  BY <1>4

\* Which steps there are.
LEMMA StepKinds ==
    ASSUME TypeOK, VisitorsOwnTheirBlocks, Next
    PROVE  \/ Walks
           \/ \E op \in {"&&", "||"} : ShortCircuitLhs(op)
           \/ ShortCircuitEnd
           \/ stack' = stack /\ UNCHANGED blockVars /\ (stack # <<>> => Returning(stack[1]))
<1>1. CASE Finish
  BY <1>1 DEF Finish
<1>2. CASE ArraySizeThrow
  <2>1. Top("ArraySize") /\ stack' = stack /\ UNCHANGED blockVars
    BY <1>2 DEF ArraySizeThrow
  <2>2. Returning(stack[1])
    BY <2>1, LightRules DEF Statements
  <2> QED  BY <2>1, <2>2
<1> QED  BY <1>1, <1>2, StmtLists, ExpLists, ControlLists DEF Next

LEMMA StackTurns ==
    ASSUME TypeOK, VisitorsOwnTheirBlocks, Nested(stack), Next
    PROVE  stack' = stack \/ \E fs : Turns(fs)
BY StepKinds, WalkTurns, LhsTurns, EndTurns

LEMMA NestedStep ==
    ASSUME TypeOK, VisitorsOwnTheirBlocks, Nested(stack), Next
    PROVE  Nested(stack')
<1>1. CASE stack' = stack
  BY <1>1
<1>2. ASSUME NEW fs, Turns(fs)
      PROVE  Nested(stack')
  <2>1. PICK F : fs \in Seq(F)
    BY <1>2 DEF Turns
  <2> QED  BY <1>2, <2>1, NestedReplaced DEF Turns, Become, TypeOK
<1> QED  BY <1>1, <1>2, StackTurns

LEMMA HeadsStep ==
    ASSUME Flowing, Nested(stack), HeadsFilled, Next
    PROVE  HeadsFilled'
<1>1. /\ TypeOK /\ VisitorsOwnTheirBlocks /\ TypeOK' /\ VisitorsOwnTheirBlocks'
      /\ Orderly /\ Proceeds
  BY Step, FlowingStep DEF Flowing
<1>2. ASSUME NEW b \in Blocks \ OpenIn(stack), ~HasPhi(b)
      PROVE  b \in Blocks' \ OpenIn(stack') /\ ~HasPhi(b)'
  <2>1. b \in Blocks' /\ b \notin OpenIn(stack')
    BY <1>1 DEF Orderly
  <2>2. ~Merges(b)
    <3>1. Top("RhsEnd") => stack[1].open[1] \in OpenIn(stack)
      BY <1>1, HeldRunning, HeldAway
    <3> QED  BY <3>1 DEF Merges
  <2> QED  BY <1>1, <1>2, <2>1, <2>2, PhiStep
<1>3. ASSUME NEW b, b = at', b \notin Blocks
      PROVE  b \in Blocks' \ OpenIn(stack') /\ ~HasPhi(b)'
  <2>1. b \in Blocks' /\ b \notin OpenIn(stack')
    BY <1>1, <1>3 DEF TypeOK, VisitorsOwnTheirBlocks
  <2>2. ~Merges(b)
    BY <1>1, <1>3, HeldRunning DEF Merges
  <2> QED  BY <1>1, <1>3, <2>1, <2>2, PhiStep
<1>4. ASSUME NEW i \in DOMAIN stack', stack'[i].back # 0
      PROVE  \/ stack'[i].back = at' /\ at' \notin Blocks
             \/ \E j \in DOMAIN stack : stack'[i].back = stack[j].back /\ stack[j].back # 0
  <2>1. CASE stack' = stack
    BY <1>4, <2>1
  <2>2. ASSUME NEW fs, Turns(fs)
        PROVE  \/ stack'[i].back = at' /\ at' \notin Blocks
               \/ \E j \in DOMAIN stack : stack'[i].back = stack[j].back /\ stack[j].back # 0
    <3>1. PICK F : fs \in Seq(F)
      BY <2>2 DEF Turns
    <3>0. stack \in Seq(Frames(nblocks)) /\ stack # <<>>
      BY <1>1, <2>2 DEF Turns, TypeOK
    <3>2. /\ fs \in Seq(F \cup Frames(nblocks)) /\ stack \in Seq(F \cup Frames(nblocks))
          /\ stack # <<>> /\ 1 \in DOMAIN stack
      BY <3>0, <3>1, SeqMonotonic, EmptySeq
    <3>3. \/ \E j \in DOMAIN fs : stack'[i] = fs[j]
          \/ \E j \in DOMAIN stack : stack'[i] = stack[j]
      BY <2>2, <3>2, StackReplaced DEF Turns, Become
    <3> QED  BY <1>4, <2>2, <3>2, <3>3 DEF Turns
  <2> QED  BY <1>1, <2>1, <2>2, StackTurns
<1>5. ASSUME NEW i \in DOMAIN stack', NEW b, b = stack'[i].back, b # 0
      PROVE  b \in Blocks' \ OpenIn(stack') /\ ~HasPhi(b)'
  BY <1>2, <1>3, <1>4, <1>5 DEF HeadsFilled
<1>6. \A b : HasPhi(b)' <=> code'[b] # <<>> /\ code'[b][1].op = "phi"
  BY DEF HasPhi
<1> QED  BY <1>5, <1>6 DEF HeadsFilled, HasPhi

-----------------------------------------------------------------------------
(* The end blocks of right operands under way. *)

\* The list only grows.
LEMMA Longer ==
    ASSUME TypeOK, VisitorsOwnTheirBlocks, Next
    PROVE  /\ Len(layout) \in Nat /\ Len(layout') \in Nat /\ Len(layout) <= Len(layout')
           /\ \A i \in DOMAIN layout : i \in DOMAIN layout' /\ layout'[i] = layout[i]
<1>1. layout \in Seq(Blocks) /\ Len(layout) \in Nat /\ DOMAIN layout = 1 .. Len(layout)
  BY LenProperties DEF TypeOK
<1>2. CASE layout' = layout
  BY <1>1, <1>2
<1>3. ASSUME NEW fs, NEW new, Lists(fs, new)
      PROVE  /\ Len(layout') \in Nat /\ Len(layout) <= Len(layout')
             /\ \A i \in DOMAIN layout : i \in DOMAIN layout' /\ layout'[i] = layout[i]
  <2>1. PICK T : new \in Seq(T)
    BY <1>3 DEF Lists
  <2>2. layout \in Seq(Blocks \cup T) /\ new \in Seq(Blocks \cup T) /\ Len(new) \in Nat
    BY <1>1, <2>1, SeqMonotonic
  <2> DEFINE t == layout \o new
  <2>3. /\ t \in Seq(Blocks \cup T) /\ Len(t) = Len(layout) + Len(new)
        /\ \A i \in 1 .. Len(t) :
              t[i] = IF i <= Len(layout) THEN layout[i] ELSE new[i - Len(layout)]
    BY <2>2, ConcatProperties
  <2>4. layout' = t
    BY <1>3 DEF Lists
  <2> HIDE DEF t
  <2>5. DOMAIN t = 1 .. Len(t)
    BY <2>3
  <2> QED  BY <1>1, <2>2, <2>3, <2>4, <2>5
<1>4. layout' = layout \/ \E fs, new : Lists(fs, new)
  BY StepKinds, LhsLists, EndLists DEF Walks, blockVars
<1> QED  BY <1>1, <1>2, <1>3, <1>4

\* No branch that is written now goes to a block whose visitor waits for another one,
\* nor to one with a phi.
LEMMA NotAhead ==
    ASSUME TypeOK, VisitorsOwnTheirBlocks, HeadsFilled, NEW b \in Blocks,
           HasPhi(b) \/ (stack # <<>> /\ b \in OpenIn(Tail(stack)))
    PROVE  b \notin Ahead
<1> SUFFICES ASSUME stack # <<>>
             PROVE  b \notin Ahead
  BY DEF Ahead
<1>1. /\ stack \in Seq(Frames(nblocks)) /\ 1 \in DOMAIN stack
      /\ <<>> \in Seq(Frames(nblocks)) /\ b # 0
  BY EmptySeq DEF TypeOK, Blocks
<1>2. /\ Held(stack[1]) \cap OpenIn(Tail(stack)) = {}
      /\ OpenIn(stack) = Held(stack[1]) \cup OpenIn(Tail(stack))
  BY <1>1, HeldOnceReplaced, StackReplaced DEF VisitorsOwnTheirBlocks
<1>3. stack[1].back # 0 => stack[1].back \notin OpenIn(stack) /\ ~HasPhi(stack[1].back)
  BY <1>1 DEF HeadsFilled
<1>4. HasPhi(b) => b \notin OpenIn(stack)
  BY DEF HasPhi, VisitorsOwnTheirBlocks
<1> QED  BY <1>1, <1>2, <1>3, <1>4 DEF Ahead

LEMMA JoinsKept ==
    ASSUME Flowing, Next, NEW q, NEW p, NEW e, Joins(q, p, e), e \notin Ahead
    PROVE  Joins(q, p, e)'
<1>1. /\ TypeOK /\ VisitorsOwnTheirBlocks /\ Orderly /\ Proceeds
  BY Step, FlowingStep DEF Flowing
<1>2. Preds(e)' = Preds(e)
  <2>1. Blocks \subseteq Blocks'
    BY <1>1 DEF Orderly
  <2>2. PICK T \in SUBSET Ahead : \A b :
           Preds(b)' = Preds(b) \cup (IF b \in T THEN {at} ELSE {})
    BY <1>1, <2>1, EdgesStep
  <2> QED  BY <2>2
<1>3. /\ q \in DOMAIN layout' /\ p \in DOMAIN layout'
      /\ layout'[q] = layout[q] /\ layout'[p] = layout[p]
  BY <1>1, Longer DEF Joins
<1>4. layout[q] \in Blocks
  BY <1>1 DEF Joins, TypeOK
<1>5. layout[q] \notin {at'} \cup OpenIn(stack')
  BY <1>1, <1>4 DEF Joins, Orderly
<1>6. Preds(e)' = {layout'[q]}
  BY <1>2, <1>3 DEF Joins
<1> QED  BY <1>3, <1>5, <1>6 DEF Joins

\* What is unlisted after a step.
LEMMA UnlistedAfter ==
    ASSUME TypeOK, NEW fs, NEW new, Lists(fs, new)
    PROVE  /\ Unlisted(stack') = Unlisted(fs) \cup Unlisted(Tail(stack))
           /\ Unlisted(stack) = Own(stack[1]) \cup Unlisted(Tail(stack))
           /\ Unlisted(Tail(stack)) \subseteq OpenIn(Tail(stack))
<1>1. PICK F : fs \in Seq(F)
  BY DEF Lists
<1>2. stack \in Seq(Frames(nblocks)) /\ stack # <<>> /\ stack' = fs \o Tail(stack)
  BY DEF TypeOK, Lists, Become
<1> QED  BY <1>1, <1>2, UnlistedReplaced

\* Nothing branches to a block that does not exist yet.
LEMMA NoPreds ==
    ASSUME TypeOK, NEW b, b \notin Blocks
    PROVE  Preds(b) = {}
<1> SUFFICES ASSUME NEW a \in Blocks, b \in Succs(a)
             PROVE  FALSE
  BY DEF Preds
<1>1. code[a] \in Seq(Instrs(nblocks))
  BY DEF TypeOK
<1>2. PICK x \in ToSet(code[a]) : b \in To(x)
  BY SuccsAreTargets DEF Targets
<1>3. x \in Instrs(nblocks)
  BY <1>1, <1>2 DEF ToSet
<1>4. x.bs \in Seq(Blocks)
  BY <1>3 DEF Instrs, Blocks
<1>5. To(x) \subseteq Blocks
  BY <1>4 DEF To
<1> QED  BY <1>2, <1>5

\* The edges to the end block: from the left operand, then from the right one.
LEMMA EndEdges ==
    ASSUME TypeOK, VisitorsOwnTheirBlocks, NEW end
    PROVE  /\ \A op \in {"&&", "||"} :
                 ShortCircuitLhs(op) /\ end = nblocks + 2 => at \in Preds(end)'
           /\ ShortCircuitEnd /\ end = stack[1].open[1] =>
                 /\ at \in Preds(end)' /\ code'[end] = <<Phi(TwoBefore(layout), at, val.ty)>>
                 /\ end \in Held(stack[1])
<1>1. /\ at \in Blocks /\ nblocks \in Nat /\ code \in [Blocks -> Seq(Instrs(nblocks))]
  BY DEF TypeOK
<1>2. \A ty, b, c : b \in To(Br(b)) /\ b \in To(CondBr(ty, b, c)) /\ c \in To(CondBr(ty, b, c))
  <2> TAKE ty, b, c
  <2>1. <<b>>[1] = b /\ 1 \in DOMAIN <<b>> /\ <<b, c>>[1] = b /\ <<b, c>>[2] = c
        /\ 1 \in DOMAIN <<b, c>> /\ 2 \in DOMAIN <<b, c>>
    OBVIOUS
  <2>2. /\ Br(b).op = "br" /\ Br(b).bs = <<b>>
        /\ CondBr(ty, b, c).op = "condbr" /\ CondBr(ty, b, c).bs = <<b, c>>
    BY DEF Br, CondBr, Instr
  <2> QED  BY <2>1, <2>2 DEF To
<1>3. ASSUME NEW i, end \in To(i), code'[at] = Put(code[at], i), Blocks \subseteq Blocks'
      PROVE  at \in Preds(end)'
  <2>1. i \in ToSet(code'[at])
    BY <1>1, <1>3, PutElements
  <2>2. end \in Targets(code'[at])
    BY <1>3, <2>1 DEF Targets
  <2>3. Preds(end)' = {a \in Blocks' : end \in Targets(code'[a])}
    BY DEF Preds, Succs, Branches, Targets, To, ToSet
  <2> QED  BY <1>1, <1>3, <2>2, <2>3
<1>4. ASSUME NEW op \in {"&&", "||"}, ShortCircuitLhs(op), end = nblocks + 2
      PROVE  at \in Preds(end)'
  <2> DEFINE i == IF op = "&&" THEN CondBr(val.ty, nblocks + 1, end)
                               ELSE CondBr(val.ty, end, nblocks + 1)
  <2>1. code' = [Grow(2) EXCEPT ![at] = Put(@, i)] /\ nblocks' = nblocks + 2
    BY <1>4 DEF ShortCircuitLhs
  <2>2. code'[at] = Put(code[at], i)
    <3>1. /\ Grow(2) \in [1 .. nblocks + 2 -> Seq(Instrs(nblocks + 2))]
          /\ at \in 1 .. nblocks + 2 /\ Grow(2)[at] = code[at]
      BY <1>1, GrowType
    <3> QED  BY <2>1, <3>1
  <2>3. Blocks \subseteq Blocks'
    BY <1>1, <2>1 DEF Blocks
  <2>4. end \in To(i)
    BY <1>2
  <2> HIDE DEF i
  <2> QED  BY <1>3, <2>2, <2>3, <2>4
<1>5. ASSUME ShortCircuitEnd, end = stack[1].open[1]
      PROVE  /\ at \in Preds(end)' /\ code'[end] = <<Phi(TwoBefore(layout), at, val.ty)>>
             /\ end \in Held(stack[1])
  <2>1. /\ Top("RhsEnd") /\ nblocks' = nblocks
        /\ code' = [code EXCEPT ![at] = Put(@, Br(end)),
                                ![end] = <<Phi(TwoBefore(layout), at, val.ty)>>]
    BY <1>5 DEF ShortCircuitEnd, RhsBlock
  <2>2. end \in Blocks /\ end \in OpenIn(stack) /\ end \in Held(stack[1])
    BY <1>5, <2>1, HeldRunning, HeldAway
  <2>3. end # at
    BY <2>2 DEF VisitorsOwnTheirBlocks
  <2>4. code'[at] = Put(code[at], Br(end)) /\ code'[end] = <<Phi(TwoBefore(layout), at, val.ty)>>
    BY <1>1, <2>1, <2>2, <2>3
  <2>5. Blocks' = Blocks
    BY <2>1 DEF Blocks
  <2> QED  BY <1>2, <1>3, <2>2, <2>4, <2>5
<1> QED  BY <1>4, <1>5

\* Before the visitor of && or || made its end block nothing branched to it; the block
\* of the left operand is left for that of the right one.
LEMMA LhsPending ==
    ASSUME Flowing, Listing, HeadsFilled, Pending, Next,
           NEW op \in {"&&", "||"}, ShortCircuitLhs(op),
           NEW rhs, rhs = nblocks + 1, NEW end, end = nblocks + 2
    PROVE  Pending'
<1> DEFINE fs == <<Exp(LogicTypes), Frame("RhsEnd", stack[1].want, <<end>>, 0)>>
<1>1. /\ TypeOK /\ VisitorsOwnTheirBlocks /\ TypeOK' /\ VisitorsOwnTheirBlocks'
      /\ Orderly /\ Proceeds /\ nblocks \in Nat
  BY Step, FlowingStep DEF Flowing, TypeOK
<1>2. /\ stack # <<>> /\ nblocks' = nblocks + 2 /\ at' = rhs /\ layout' = layout \o <<rhs>>
      /\ Lists(fs, <<rhs>>) /\ Unlisted(fs) = {end}
  BY <1>1, LhsLists DEF ShortCircuitLhs, Listed, Top
<1>3. layout' \in Seq(Blocks') /\ Len(layout') = Len(layout) + 1 /\ layout'[Len(layout) + 1] = rhs
  <2>1. layout' = Append(layout, rhs)
    BY <1>1, <1>2, AppendIsConcat DEF TypeOK
  <2> QED  BY <1>1, <2>1 DEF TypeOK
<1> HIDE DEF fs
<1>4. /\ Unlisted(stack') = {end} \cup Unlisted(Tail(stack))
      /\ Unlisted(Tail(stack)) \subseteq Unlisted(stack)
      /\ Unlisted(Tail(stack)) \subseteq OpenIn(Tail(stack))
  BY <1>1, <1>2, UnlistedAfter
<1>5. Unlisted(stack) \subseteq Blocks
  BY <1>1, UnlistedEnds
<1>6. ASSUME NEW e \in Unlisted(Tail(stack))
      PROVE  \E q, p : (Joins(q, p, e) /\ Placed(p, e))'
  <2>1. PICK q, p : Joins(q, p, e) /\ Placed(p, e)
    BY <1>4 DEF Pending
  <2>2. e \in Blocks /\ e \notin Ahead
    BY <1>1, <1>2, <1>4, <1>5, NotAhead
  <2>3. Joins(q, p, e)'
    BY <2>1, <2>2, JoinsKept
  <2>4. end > e /\ end \in Unlisted(stack')
    BY <1>1, <1>4, <2>2 DEF Blocks
  <2>5. p + 1 <= Len(layout')
    <3>1. p \in DOMAIN layout
      BY <2>1 DEF Joins
    <3>2. DOMAIN layout = 1 .. Len(layout) /\ Len(layout) \in Nat
      BY <1>1 DEF TypeOK
    <3>3. p \in Nat /\ Len(layout) \in Nat /\ p <= Len(layout)
      BY <3>1, <3>2
    <3> QED  BY <3>3, <1>3
  <2>6. Placed(p, e)'
    BY <2>4, <2>5 DEF Placed
  <2> QED  BY <2>3, <2>6
<1>7. \E q, p : (Joins(q, p, end) /\ Placed(p, end))'
  <2>1. at \in ToSet(layout)
    <3>1. at \in Blocks /\ at \notin Unlisted(stack)
      BY <1>1, UnlistedEnds DEF TypeOK, VisitorsOwnTheirBlocks
    <3> QED  BY <3>1 DEF Listing
  <2>2. PICK q \in DOMAIN layout : layout[q] = at
    BY <2>1 DEF ToSet
  <2>0. PICK p : p = Len(layout) + 1
    OBVIOUS
  <2>3. /\ q \in DOMAIN layout' /\ layout'[q] = at
        /\ p \in DOMAIN layout' /\ q < p /\ layout'[p] = end - 1 /\ p = Len(layout')
    <3>1. q \in DOMAIN layout' /\ layout'[q] = at
      BY <1>1, <2>2, Longer
    <3>2. q \in Nat /\ q <= Len(layout) /\ Len(layout) \in Nat
      BY <1>1, <2>2 DEF TypeOK
    <3>3. end - 1 = rhs /\ DOMAIN layout' = 1 .. Len(layout')
      BY <1>1, <1>3
    <3> QED  BY <2>0, <3>1, <3>2, <3>3, <1>3
  <2>4. Preds(end)' = {at}
    <3>1. PICK T \in SUBSET Ahead : \A b :
             Preds(b)' = Preds(b) \cup (IF b \in T THEN {at} ELSE {})
      BY <1>1, EdgesStep DEF Orderly
    <3>2. Preds(end) = {}
      BY <1>1, NoPreds DEF Blocks
    <3>3. at \in Preds(end)'
      BY <1>1, EndEdges
    <3> QED  BY <3>1, <3>2, <3>3
  <2>5. at \notin {at'} \cup OpenIn(stack')
    <3>1. at # at' /\ at \in Blocks
      BY <1>1, <1>2 DEF TypeOK, Blocks
    <3> QED  BY <1>1, <3>1 DEF Orderly, VisitorsOwnTheirBlocks
  <2>6. \A d \in Unlisted(stack') : d <= end
    BY <1>1, <1>4, <1>5 DEF Blocks
  <2>7. at' = end - 1
    BY <1>1, <1>2
  <2>8. Joins(q, p, end)' /\ Placed(p, end)'
    BY <2>3, <2>4, <2>5, <2>6, <2>7 DEF Joins, Placed
  <2> QED  BY <2>8
<1> QED  BY <1>4, <1>6, <1>7 DEF Pending

\* Emitting in the same block, among the same blocks, changes nothing.
LEMMA WalkPending ==
    ASSUME Flowing, Listing, Listing', Nested(stack), HeadsFilled, Pending, Next, Walks
    PROVE  Pending'
<1>1. PICK fs, new : /\ Lists(fs, new) /\ Unheld(fs)
                     /\ Returning(stack[1]) \/ UNCHANGED blockVars
  BY DEF Walks
<1>2. TypeOK /\ VisitorsOwnTheirBlocks /\ stack # <<>>
  BY <1>1 DEF Flowing, Lists
<1>3. /\ Unlisted(stack') = Unlisted(Tail(stack))
      /\ Unlisted(Tail(stack)) \subseteq Unlisted(stack)
      /\ Unlisted(Tail(stack)) \subseteq OpenIn(Tail(stack))
      /\ Unlisted(stack) \subseteq Blocks
  BY <1>1, <1>2, UnlistedAfter, UnheldShort, UnlistedEnds
<1>4. CASE Returning(stack[1])
  <2>1. Unlisted(stack') = {}
    BY <1>2, <1>3, <1>4, Innermost
  <2> QED  BY <2>1 DEF Pending
<1>5. CASE UNCHANGED blockVars
  <2>1. layout' = layout /\ at' = at /\ Blocks' = Blocks
    BY <1>5 DEF blockVars, Blocks
  <2>2. Unlisted(stack') = Unlisted(stack)
    <3>1. Blocks \ Unlisted(stack') = Blocks \ Unlisted(stack)
      BY <2>1 DEF Listing
    <3> QED  BY <3>1, <1>3
  <2>3. ASSUME NEW e \in Unlisted(stack')
        PROVE  \E q, p : (Joins(q, p, e) /\ Placed(p, e))'
    <3>1. e \in Unlisted(stack) /\ e \in Blocks /\ e \notin Ahead
      BY <1>2, <1>3, <2>3, NotAhead
    <3>2. PICK q, p : Joins(q, p, e) /\ Placed(p, e)
      BY <3>1 DEF Pending
    <3>3. Joins(q, p, e)'
      BY <3>1, <3>2, JoinsKept
    <3>4. Placed(p, e)'
      BY <2>1, <2>2, <3>2 DEF Placed
    <3> QED  BY <3>3, <3>4
  <2> QED  BY <2>3 DEF Pending
<1> QED  BY <1>1, <1>4, <1>5

\* The innermost right operand is done: its end block follows.
LEMMA EndPending ==
    ASSUME Flowing, Listing, Nested(stack), HeadsFilled, Pending, Next, ShortCircuitEnd,
           NEW end, end = stack[1].open[1]
    PROVE  Pending'
<1>1. /\ TypeOK /\ VisitorsOwnTheirBlocks /\ stack # <<>> /\ stack[1].k = "RhsEnd"
      /\ layout' = layout \o <<end>>
  BY DEF Flowing, ShortCircuitEnd, Top
<1>2. Lists(<<>>, <<end>>)
  BY <1>1, EndLists
<1>3. /\ Unlisted(stack') = Unlisted(Tail(stack))
      /\ Unlisted(stack) = Own(stack[1]) \cup Unlisted(Tail(stack))
      /\ Unlisted(Tail(stack)) \subseteq OpenIn(Tail(stack))
      /\ Unlisted(stack) \subseteq Blocks
  BY <1>1, <1>2, UnlistedAfter, UnlistedShort, UnlistedEnds
<1>4. end \in Unlisted(stack) /\ end \in Held(stack[1]) /\ Held(stack[1]) \cap OpenIn(Tail(stack)) = {}
  <2>1. stack \in Seq(Frames(nblocks)) /\ <<>> \in Seq(Frames(nblocks)) /\ 1 \in DOMAIN stack
    BY <1>1, EmptySeq DEF TypeOK
  <2>2. Own(stack[1]) = {end} /\ Own(stack[1]) \subseteq Held(stack[1])
    BY <1>1, <2>1, UnlistedEnds, OwnRules
  <2> QED  BY <1>1, <1>3, <2>1, <2>2, HeldOnceReplaced DEF VisitorsOwnTheirBlocks
<1>5. Len(layout) \in Nat /\ Len(layout') = Len(layout) + 1
  BY <1>1, AppendIsConcat DEF TypeOK
<1>6. ASSUME NEW e \in Unlisted(stack')
      PROVE  \E q, p : (Joins(q, p, e) /\ Placed(p, e))'
  <2>1. e \in Unlisted(stack) /\ e \in Blocks /\ e \notin Ahead /\ e # end
    BY <1>1, <1>3, <1>4, <1>6, NotAhead
  <2>2. PICK q, p : Joins(q, p, e) /\ Placed(p, e)
    BY <2>1 DEF Pending
  <2>3. Joins(q, p, e)'
    BY <2>1, <2>2, JoinsKept
  <2>4. p + 2 <= Len(layout')
    <3>1. e \in Nat /\ end \in Nat /\ e <= end
      <4>1. e <= end
        BY <1>1, <2>1, Innermost
      <4>2. e \in Blocks /\ end \in Blocks
        BY <1>3, <1>4, <2>1
      <4> QED  BY <4>1, <4>2 DEF Blocks
    <3>2. ~(\A d \in Unlisted(stack) : d <= e)
      BY <1>4, <2>1, <3>1
    <3>3. p \in Nat
      BY <1>1, <2>2 DEF Joins, TypeOK
    <3> QED  BY <1>5, <2>2, <3>2, <3>3 DEF Placed
  <2>5. Placed(p, e)'
    BY <2>4 DEF Placed
  <2> QED  BY <2>3, <2>5
<1> QED  BY <1>6 DEF Pending

LEMMA PendingStep ==
    ASSUME Flowing, Listing, Nested(stack), HeadsFilled, Pending, Next
    PROVE  Pending'
<1>1. /\ TypeOK /\ VisitorsOwnTheirBlocks /\ Listing'
  BY ListingStep DEF Flowing
<1>2. PICK rhs, end, join : rhs = nblocks + 1 /\ end = nblocks + 2 /\ join = stack[1].open[1]
  OBVIOUS
<1>3. ASSUME stack' = stack, stack # <<>> => Returning(stack[1])
      PROVE  Pending'
  <2>1. Unlisted(stack') = {}
    BY <1>1, <1>3, Innermost, UnlistedShort
  <2> QED  BY <2>1 DEF Pending
<1> QED  BY <1>1, <1>2, <1>3, StepKinds, WalkPending, LhsPending, EndPending

-----------------------------------------------------------------------------
(* The phis. *)

\* A phi that was there keeps its predecessors and its place.
LEMMA OldMerged ==
    ASSUME Flowing, Listing, Listing', HeadsFilled, AllMerged, Next, NEW i \in DOMAIN layout',
           NEW b \in Blocks, layout'[i] = b, HasPhi(b), code'[b][1] = code[b][1]
    PROVE  Merged(i, b)'
<1>1. TypeOK /\ VisitorsOwnTheirBlocks /\ Orderly /\ Proceeds
  BY Step, FlowingStep DEF Flowing
<1>2. b \in ToSet(layout)
  <2>1. b \notin Unlisted(stack)
    BY <1>1, UnlistedEnds DEF VisitorsOwnTheirBlocks, HasPhi
  <2> QED  BY <2>1 DEF Listing
<1>3. i \in DOMAIN layout /\ layout[i] = b
  <2>1. PICK j \in DOMAIN layout : layout[j] = b
    BY <1>2 DEF ToSet
  <2>2. j \in DOMAIN layout' /\ layout'[j] = b
    BY <1>1, <2>1, Longer
  <2>3. i = j
    BY <2>2 DEF Listing, Distinct
  <2> QED  BY <2>1, <2>3
<1>4. Merged(i, b)
  BY <1>3 DEF AllMerged
<1>5. Preds(b)' = Preds(b)
  <2>1. b \notin Ahead
    BY <1>1, NotAhead
  <2>2. PICK T \in SUBSET Ahead : \A c :
           Preds(c)' = Preds(c) \cup (IF c \in T THEN {at} ELSE {})
    BY <1>1, EdgesStep DEF Orderly
  <2> QED  BY <2>1, <2>2
<1>6. layout'[i - 2] = layout[i - 2] /\ layout'[i - 1] = layout[i - 1]
  <2>1. i \in Nat /\ i <= Len(layout) /\ i >= 3 /\ DOMAIN layout = 1 .. Len(layout)
    BY <1>1, <1>3, <1>4 DEF TypeOK, Merged
  <2>2. i - 2 \in DOMAIN layout /\ i - 1 \in DOMAIN layout
    BY <2>1
  <2> QED  BY <1>1, <2>2, Longer
<1> QED  BY <1>4, <1>5, <1>6 DEF Merged, PhiIsExact

LEMMA TwoElements ==
    ASSUME NEW x, NEW y, x # y
    PROVE  Cardinality({x, y}) = 2
<1>1. IsFiniteSet({x}) /\ Cardinality({x}) = 1
  BY FS_Singleton
<1>2. Cardinality({x} \cup {y}) = Cardinality({x}) + 1
  BY <1>1, FS_AddElement
<1>3. {x} \cup {y} = {x, y}
  OBVIOUS
<1> QED  BY <1>1, <1>2, <1>3

\* Only the end of a right operand makes a phi.
LEMMA OnlyEnd ==
    ASSUME Flowing, Next, NEW b, Merges(b)
    PROVE  ShortCircuitEnd
<1>1. TypeOK /\ Orderly /\ VisitorsOwnTheirBlocks /\ VisitorsOwnTheirBlocks'
  BY Step DEF Flowing
<1>2. stack # <<>> /\ stack[1].k = "RhsEnd" /\ b \in OpenIn(stack) /\ ~Returning(stack[1])
  BY <1>1, HeldRunning, HeldAway DEF Merges, Top, Returning, Statements
<1>3. at' # at
  <2>1. code'[b] # <<>>
    BY DEF Merges
  <2>2. b = at'
    BY <1>1, <1>2, <2>1 DEF Orderly, VisitorsOwnTheirBlocks
  <2> QED  BY <1>1, <1>2, <2>2 DEF VisitorsOwnTheirBlocks
<1>4. ~Walks
  BY <1>2, <1>3 DEF Walks, blockVars
<1>5. \A op \in {"&&", "||"} : ~ShortCircuitLhs(op)
  BY <1>2 DEF ShortCircuitLhs, Top
<1> QED  BY <1>1, <1>3, <1>4, <1>5, StepKinds DEF blockVars

\* A phi that is made now names the block two before its own in the list; the left
\* operand's is that one if the right operand listed one block, its own.
LEMMA NewMerged ==
    ASSUME Flowing, Listing, Listing', Nested(stack), Pending, Next,
           NEW i \in DOMAIN layout', NEW b, layout'[i] = b, Merges(b)
    PROVE  Merged(i, b)'
<1>1. /\ TypeOK /\ VisitorsOwnTheirBlocks /\ ShortCircuitEnd /\ stack # <<>>
      /\ Orderly /\ Proceeds
      /\ stack[1].k = "RhsEnd" /\ b = stack[1].open[1] /\ layout' = layout \o <<b>>
  BY OnlyEnd, Step, FlowingStep DEF Flowing, Merges, ShortCircuitEnd, Top
<1>2. at \in Preds(b)' /\ code'[b] = <<Phi(TwoBefore(layout), at, val.ty)>>
  BY <1>1, EndEdges
<1>3. b \in Unlisted(stack) /\ b \in Blocks
  <2>1. Own(stack[1]) = {b} /\ 1 \in DOMAIN stack /\ b \in Blocks
    BY <1>1, UnlistedEnds, EmptySeq DEF TypeOK
  <2> QED  BY <2>1 DEF Unlisted
<1>4. PICK q, p : Joins(q, p, b) /\ Placed(p, b)
  BY <1>3 DEF Pending
<1>5. PICK n : n = Len(layout)
  OBVIOUS
<1>6. /\ n \in Nat /\ q \in 1 .. n /\ p \in 1 .. n /\ q < p /\ DOMAIN layout = 1 .. n
      /\ n - 1 \in 1 .. n /\ n \in 1 .. n
  <2>1. n \in Nat /\ q \in 1 .. n /\ p \in 1 .. n /\ q < p /\ DOMAIN layout = 1 .. n
    BY <1>1, <1>4, <1>5 DEF TypeOK, Joins
  <2> QED  BY <2>1
<1>7. /\ i = n + 1 /\ \A j \in 1 .. n : layout'[j] = layout[j]
  <2>1. layout' = Append(layout, b)
    BY <1>1, AppendIsConcat DEF TypeOK
  <2>2. /\ n + 1 \in DOMAIN layout' /\ layout'[n + 1] = b
        /\ \A j \in 1 .. n : layout'[j] = layout[j]
    BY <1>1, <1>3, <1>5, <2>1 DEF TypeOK
  <2> QED  BY <2>2 DEF Listing, Distinct
<1>8. layout[q] # at /\ Preds(b)' = {layout[q], at}
  <2>1. PICK T \in SUBSET Ahead : \A c :
           Preds(c)' = Preds(c) \cup (IF c \in T THEN {at} ELSE {})
    BY <1>1, EdgesStep DEF Orderly
  <2>2. Preds(b) = {layout[q]} /\ layout[q] # at
    BY <1>4 DEF Joins
  <2> QED  BY <1>2, <2>1, <2>2
<1>9. code'[b][1].bs[1] = layout[n - 1] /\ code'[b][1].bs[2] = at
  <2>1. code'[b][1] = Phi(layout[n - 1], at, val.ty)
    BY <1>2, <1>5 DEF TwoBefore
  <2>2. code'[b][1].bs = <<layout[n - 1], at>>
    BY <2>1 DEF Phi, Instr
  <2> QED  BY <2>2
<1>10. Cardinality(Preds(b)') = 2
  <2>1. \A x, y : x # y => Cardinality({x, y}) = 2
    BY TwoElements
  <2>2. Cardinality({layout[q], at}) = 2
    BY <1>8, <2>1
  <2> QED  BY <1>8, <2>2
<1>11. i >= 3 /\ i - 2 = n - 1 /\ i - 1 = n
  BY <1>6, <1>7
<1>12. layout'[i - 2] = layout[n - 1] /\ layout'[i - 1] = layout[n]
  BY <1>6, <1>7, <1>11
<1>13. (Preds(b)' = {layout[n - 1], at}) <=> (Preds(b)' = {layout[n - 1], layout[n]})
  <2>1. CASE p + 2 <= n
    <3>1. q # n - 1 /\ q # n
      BY <1>6, <2>1
    <3>2. layout[q] # layout[n - 1] /\ layout[q] # layout[n]
      BY <1>6, <3>1 DEF Listing, Distinct
    <3> QED  BY <1>8, <3>2
  <2>2. CASE at = b - 1 /\ p = n
    <3>1. layout[n] = at
      BY <1>4, <2>2 DEF Joins
    <3> QED  BY <3>1
  <2>3. \A d \in Unlisted(stack) : ~(d > b)
    <3>1. \A d \in Unlisted(stack) : d <= b /\ d \in Blocks
      BY <1>1, Innermost, UnlistedEnds
    <3> QED  BY <1>3, <3>1 DEF Blocks
  <2> QED  BY <1>4, <1>5, <2>1, <2>2, <2>3 DEF Placed
<1> QED  BY <1>2, <1>8, <1>9, <1>10, <1>11, <1>12, <1>13 DEF Merged, PhiIsExact

LEMMA MergedStep ==
    ASSUME Flowing, Listing, Merging, Next
    PROVE  Merging'
<1>1. Flowing' /\ Proceeds /\ Listing' /\ TypeOK /\ VisitorsOwnTheirBlocks
  BY FlowingStep, ListingStep DEF Flowing
<1>2. Nested(stack)' /\ HeadsFilled' /\ Pending'
  BY <1>1, NestedStep, HeadsStep, PendingStep DEF Merging
<1>3. ASSUME NEW i \in DOMAIN layout', NEW b \in Blocks', layout'[i] = b, HasPhi(b)'
      PROVE  Merged(i, b)'
  BY <1>1, <1>3, PhiStep, OldMerged, NewMerged DEF Merging
<1>4. AllMerged'
  BY <1>3 DEF AllMerged
<1> QED  BY <1>2, <1>4 DEF Merging

\* At the start nothing is pending, no loop is open and no block has a phi.
LEMMA MergingStart ==
    ASSUME Init
    PROVE  Merging
<1>1. /\ nblocks = 1 /\ code = [b \in {1} |-> <<>>] /\ Blocks = {1}
      /\ stack = <<Item("seq")>>
  BY DEF Init, Entry, Blocks
<1>2. /\ DOMAIN stack = {1} /\ stack[1] = Item("seq")
  BY <1>1
<1>3. Item("seq").k = "seq" /\ Item("seq").back = 0
  BY DEF Item, Frame
<1>4. Nested(stack) /\ HeadsFilled
  BY <1>2, <1>3 DEF Nested, HeadsFilled
<1>5. Unlisted(stack) = {}
  BY <1>1, <1>3, UnlistedShort, OwnRules
<1>6. \A b \in Blocks : ~HasPhi(b)
  BY <1>1 DEF HasPhi
<1> QED  BY <1>4, <1>5, <1>6 DEF Merging, Pending, AllMerged

LEMMA MergingStutter ==
    ASSUME Merging, UNCHANGED vars
    PROVE  Merging'
<1>1. /\ layout' = layout /\ code' = code /\ at' = at /\ stack' = stack /\ Blocks' = Blocks
  BY DEF vars, Blocks
<1>2. \A b : Preds(b)' = Preds(b) /\ HasPhi(b)' = HasPhi(b)
  BY <1>1 DEF Preds, Succs, Branches, HasPhi
<1>3. HeadsFilled'
  BY <1>1 DEF Merging, HeadsFilled, HasPhi
<1>4. Pending'
  BY <1>1, <1>2 DEF Merging, Pending, Joins, Placed
<1>5. AllMerged'
  BY <1>1, <1>2 DEF Merging, AllMerged, Merged, PhiIsExact
<1> QED  BY <1>1, <1>3, <1>4, <1>5 DEF Merging

\* Every phi of && and || sits in a block with two predecessors, of which its second
\* incoming value names one: where the right operand ended (rhsBlock, Codegen.cpp:260
\* and 287).  The block that getPrevNode() finds for its first one (267, 292) is the
\* other exactly when the two predecessors are the two blocks before it in the list.
THEOREM PhisNamePredecessors == Spec => []PhiExactIffAdjacent
<1>1. Init => Flowing /\ Listing /\ Merging
  BY FlowStart, ListingStart, MergingStart
<1>2. Flowing /\ Listing /\ Merging /\ [Next]_vars => Flowing' /\ Listing' /\ Merging'
  <2> SUFFICES ASSUME Flowing, Listing, Merging, [Next]_vars
               PROVE  Flowing' /\ Listing' /\ Merging'
    OBVIOUS
  <2>1. CASE Next
    BY <2>1, FlowingStep, ListingStep, MergedStep DEF Flowing
  <2>2. CASE UNCHANGED vars
    <3>1. Blocks' = Blocks /\ layout' = layout /\ stack' = stack /\ phase' = phase
      BY <2>2 DEF vars, Blocks
    <3> QED  BY <2>2, <3>1, FlowStutter, MergingStutter DEF Listing, Distinct, Done
  <2> QED  BY <2>1, <2>2
<1>3. Flowing /\ Merging => PhiExactIffAdjacent
  <2> SUFFICES ASSUME Flowing, Merging, NEW i \in DOMAIN layout, layout[i] \in Phis
               PROVE  Merged(i, layout[i])
    BY DEF PhiExactIffAdjacent, Merged
  <2> QED  BY DEF Merging, AllMerged, Phis
<1> QED  BY <1>1, <1>2, <1>3, PTL DEF Spec

-----------------------------------------------------------------------------
(***************************************************************************)
(* The control flow graph that CodegenBlocks builds: its only cycles are   *)
(* the loops of the source, each entered by its head, and every block can  *)
(* be executed and can end the function.                                   *)
(*                                                                         *)
(* The invariant, on top of Flowing and Listing, has three parts.          *)
(* LoopsNest: a loop under way is entered by its head.  Ranked: the blocks *)
(* have ranks that rise along every edge but those back to the head of a   *)
(* loop, and those edges stay in a set of blocks that the head encloses,   *)
(* so the head dominates their source.  Lives: from every block one comes  *)
(* to one that the walk has not finished, or to an end of the function.    *)
(***************************************************************************)
-----------------------------------------------------------------------------
(* Induction over the natural numbers, for sets. *)

\* Every set of numbers that is not empty has a least one.
LEMMA LeastNumber ==
    ASSUME NEW S \in SUBSET Nat, S # {}
    PROVE  \E x \in S : \A y \in S : x <= y
<1> DEFINE R == {ss \in Nat \X Nat : ss[1] < ss[2]}
<1>1. IsWellFoundedOn(R, Nat)
  BY NatLessThanWellFounded DEF OpToRel
<1>2. PICK x \in S : \A y \in S : <<y, x>> \notin R
  <2> HIDE DEF R
  <2> QED  BY <1>1, WFMin
<1>3. ASSUME NEW y \in S
      PROVE  x <= y
  <2>1. x \in Nat /\ y \in Nat /\ <<y, x>> \in Nat \X Nat
    OBVIOUS
  <2>2. ~(y < x)
    BY <1>2, <2>1
  <2> QED  BY <2>1, <2>2
<1> QED  BY <1>3

\* A set with 0 and the successor of every number in it has all the numbers.
LEMMA Induction ==
    ASSUME NEW S, 0 \in S, \A n \in Nat : n \in S => n + 1 \in S
    PROVE  Nat \subseteq S
<1> SUFFICES ASSUME Nat \ S # {}
             PROVE  FALSE
  OBVIOUS
<1>1. PICK x \in Nat \ S : \A y \in Nat \ S : x <= y
  BY LeastNumber
<1>2. PICK m \in Nat : m + 1 = x
  <2>1. x # 0 /\ x - 1 \in Nat /\ x - 1 + 1 = x
    BY <1>1
  <2> QED  BY <2>1
<1>3. m \in S
  BY <1>1, <1>2
<1> QED  BY <1>2, <1>3

-----------------------------------------------------------------------------
(* What is reached. *)

\* One step of Reached, and the function by which it recurs.
Grown(r, edges) == r \cup {e[2] : e \in {d \in edges : d[1] \in r}}
Within(from, edges, n) ==
    CHOOSE g : g = [k \in 0 .. n |-> IF k = 0 THEN from ELSE Grown(g[k - 1], edges)]

\* The recursion defines a function.
LEMMA WithinIs ==
    ASSUME NEW from, NEW edges, NEW n \in Nat
    PROVE  LET g == Within(from, edges, n)
           IN  g = [k \in 0 .. n |-> IF k = 0 THEN from ELSE Grown(g[k - 1], edges)]
<1> DEFINE Is(g, m) == g = [k \in 0 .. m |-> IF k = 0 THEN from ELSE Grown(g[k - 1], edges)]
           S == {m \in Nat : \E g : Is(g, m)}
<1>1. 0 \in S
  <2> DEFINE g == [k \in 0 .. 0 |-> from]
  <2>1. Is(g, 0)
    OBVIOUS
  <2> QED  BY <2>1
<1>2. ASSUME NEW m \in Nat, m \in S
      PROVE  m + 1 \in S
  <2>1. PICK g : Is(g, m)
    BY <1>2
  <2> DEFINE h == [k \in 0 .. m + 1 |-> IF k = m + 1 THEN Grown(g[m], edges) ELSE g[k]]
  <2>2. ASSUME NEW k \in 0 .. m + 1
        PROVE  h[k] = IF k = 0 THEN from ELSE Grown(h[k - 1], edges)
    <3>1. CASE k = m + 1
      <4>1. k - 1 = m /\ m \in 0 .. m + 1 /\ m # m + 1 /\ k # 0
        BY <3>1
      <4>2. h[m] = g[m]
        BY <4>1
      <4> QED  BY <3>1, <4>1, <4>2
    <3>2. CASE k # m + 1
      <4>1. k \in 0 .. m
        BY <3>2
      <4>2. h[k] = g[k]
        BY <3>2
      <4>3. k # 0 => k - 1 \in 0 .. m + 1 /\ k - 1 # m + 1
        BY <3>2
      <4>4. k # 0 => h[k - 1] = g[k - 1]
        BY <4>3
      <4>5. g[k] = IF k = 0 THEN from ELSE Grown(g[k - 1], edges)
        BY <2>1, <4>1
      <4> QED  BY <4>2, <4>4, <4>5
    <3> QED  BY <3>1, <3>2
  <2>3. h = [k \in 0 .. m + 1 |-> h[k]]
    OBVIOUS
  <2> HIDE DEF h
  <2>4. Is(h, m + 1)
    BY <2>2, <2>3
  <2> QED  BY <2>4
<1> HIDE DEF S
<1>3. n \in S
  BY <1>1, <1>2, Induction
<1> QED  BY <1>3 DEF S, Within

\* Reached is that function at the number of blocks.
LEMMA ReachedIs ==
    ASSUME NEW from, NEW edges
    PROVE  Reached(from, edges) = Within(from, edges, nblocks)[nblocks]
BY DEF Reached, Within, Grown

\* Step by step.
LEMMA WithinSteps ==
    ASSUME NEW from, NEW edges, NEW n \in Nat, NEW g, g = Within(from, edges, n)
    PROVE  /\ g[0] = from
           /\ \A k \in Nat : k + 1 <= n => g[k + 1] = Grown(g[k], edges)
<1>1. g = [k \in 0 .. n |-> IF k = 0 THEN from ELSE Grown(g[k - 1], edges)]
  BY WithinIs
<1>2. \A k \in 0 .. n : g[k] = IF k = 0 THEN from ELSE Grown(g[k - 1], edges)
  BY <1>1
<1>3. g[0] = from
  BY <1>2
<1>4. ASSUME NEW k \in Nat, k + 1 <= n
      PROVE  g[k + 1] = Grown(g[k], edges)
  <2>1. k + 1 \in 0 .. n /\ k + 1 # 0 /\ k + 1 - 1 = k
    BY <1>4
  <2> QED  BY <1>2, <2>1
<1> QED  BY <1>3, <1>4

\* A set that the edges do not leave holds all that is reached from within it.
LEMMA ReachedInside ==
    ASSUME nblocks \in Nat, NEW from, NEW edges, NEW S, from \subseteq S,
           \A e \in edges : e[1] \in S => e[2] \in S
    PROVE  Reached(from, edges) \subseteq S
<1> DEFINE g == Within(from, edges, nblocks)
           K == {k \in Nat : k <= nblocks => g[k] \subseteq S}
<1>1. /\ g[0] = from
      /\ \A k \in Nat : k + 1 <= nblocks => g[k + 1] = Grown(g[k], edges)
  BY WithinSteps
<1>2. Reached(from, edges) = g[nblocks]
  BY ReachedIs
<1> HIDE DEF g
<1>3. 0 \in K
  BY <1>1
<1>4. ASSUME NEW k \in Nat, k \in K
      PROVE  k + 1 \in K
  <2>1. ASSUME k + 1 <= nblocks
        PROVE  g[k + 1] \subseteq S
    <3>1. g[k] \subseteq S
      BY <1>4, <2>1
    <3>2. g[k + 1] = Grown(g[k], edges)
      BY <1>1, <2>1
    <3> QED  BY <3>1, <3>2 DEF Grown
  <2> QED  BY <2>1
<1> HIDE DEF K
<1>5. nblocks \in K
  BY <1>3, <1>4, Induction
<1> QED  BY <1>2, <1>5 DEF K

\* As many steps as there are blocks are enough: what is reached is closed.
LEMMA ReachedClosed ==
    ASSUME nblocks \in Nat, NEW from \in SUBSET Blocks, from # {}, NEW edges,
           \A e \in edges : e[2] \in Blocks
    PROVE  LET r == Reached(from, edges)
           IN  /\ from \subseteq r /\ r \subseteq Blocks
               /\ \A e \in edges : e[1] \in r => e[2] \in r
<1> DEFINE g == Within(from, edges, nblocks)
           Closed(r) == \A e \in edges : e[1] \in r => e[2] \in r
           Fine(k) == /\ from \subseteq g[k] /\ g[k] \subseteq Blocks
                      /\ Closed(g[k]) \/ k + 1 <= Cardinality(g[k])
           K == {k \in Nat : k <= nblocks => Fine(k)}
<1>1. /\ g[0] = from
      /\ \A k \in Nat : k + 1 <= nblocks => g[k + 1] = Grown(g[k], edges)
  BY WithinSteps
<1>2. Reached(from, edges) = g[nblocks]
  BY ReachedIs
<1> HIDE DEF g
<1>3. IsFiniteSet(Blocks) /\ Cardinality(Blocks) = nblocks
  <2>1. IsFiniteSet(1 .. nblocks) /\ Cardinality(1 .. nblocks) = IF 1 > nblocks THEN 0 ELSE nblocks - 1 + 1
    BY FS_Interval
  <2>2. (IF 1 > nblocks THEN 0 ELSE nblocks - 1 + 1) = nblocks
    OBVIOUS
  <2> QED  BY <2>1, <2>2 DEF Blocks
<1>4. \A r \in SUBSET Blocks : /\ IsFiniteSet(r) /\ Cardinality(r) \in Nat
                               /\ Cardinality(r) <= nblocks
  BY <1>3, FS_Subset, FS_CardinalityType
<1>5. 0 \in K
  <2>1. IsFiniteSet(from) /\ Cardinality(from) \in Nat /\ Cardinality(from) # 0
    BY <1>4, FS_EmptySet
  <2> QED  BY <1>1, <2>1
<1>6. ASSUME NEW k \in Nat, k \in K
      PROVE  k + 1 \in K
  <2> SUFFICES ASSUME k + 1 <= nblocks
               PROVE  Fine(k + 1)
    OBVIOUS
  <2>1. Fine(k)
    BY <1>6
  <2>2. g[k + 1] = Grown(g[k], edges)
    BY <1>1
  <2>3. /\ g[k] \subseteq g[k + 1] /\ g[k + 1] \subseteq Blocks
    BY <2>1, <2>2 DEF Grown
  <2>4. CASE Closed(g[k])
    <3>1. g[k + 1] = g[k]
      BY <2>2, <2>4 DEF Grown
    <3> QED  BY <2>1, <2>4, <3>1
  <2>5. CASE ~Closed(g[k])
    <3>1. PICK x : x \in g[k + 1] /\ x \notin g[k]
      BY <2>2, <2>5 DEF Grown
    <3>2. /\ g[k] \in SUBSET g[k + 1] /\ g[k] # g[k + 1] /\ IsFiniteSet(g[k + 1])
          /\ Cardinality(g[k]) \in Nat /\ Cardinality(g[k + 1]) \in Nat
      BY <1>4, <2>3, <3>1
    <3>3. Cardinality(g[k]) <= Cardinality(g[k + 1]) /\ Cardinality(g[k + 1]) # Cardinality(g[k])
      BY <3>2, FS_Subset
    <3>4. k + 1 <= Cardinality(g[k])
      BY <2>1, <2>5
    <3>5. k + 1 + 1 <= Cardinality(g[k + 1])
      BY <3>2, <3>3, <3>4
    <3> QED  BY <2>1, <2>3, <3>5
  <2> QED  BY <2>4, <2>5
<1> HIDE DEF K
<1>7. nblocks \in K
  BY <1>5, <1>6, Induction
<1>8. Fine(nblocks)
  BY <1>7 DEF K
<1>9. ~(nblocks + 1 <= Cardinality(g[nblocks]))
  BY <1>4, <1>8
<1> QED  BY <1>2, <1>8, <1>9

-----------------------------------------------------------------------------
(* The frames that keep blocks. *)

\* The blocks that a frame keeps, the last of them, and those among them that have a
\* predecessor already.
Numbers(f) == (Held(f) \cup {f.back}) \ {0}
Exit(f) == f.open[Len(f.open)]
Awaits(f) == IF f.k \in {"LoopEnd", "ForBodyEnd"} THEN {Exit(f)}
             ELSE IF f.k = "IfBranchEnd" /\ Len(f.open) = 2 THEN {f.open[1]}
             ELSE {}

\* Inner visitors keep newer blocks.
Above(f, g) == \A a \in Numbers(f), b \in Numbers(g) : b < a
Stacked(s) == \A i, j \in DOMAIN s : i < j => Above(s[i], s[j])

\* The step puts g, or nothing that keeps a block if g does not, and in front of it
\* frames that keep no block in place of the running one.
Pushes(g) ==
    \E F, fs :
        /\ fs \in Seq(F) /\ Become(fs)
        /\ \A i \in DOMAIN fs : Rests(fs[i]) \/ fs[i] = g
        /\ \A i, j \in DOMAIN fs : i < j => Rests(fs[i])
        /\ Rests(g) \/ \E i \in DOMAIN fs : fs[i] = g

\* A frame that keeps no block owns and awaits none.
LEMMA RestRules ==
    /\ \A f : Rests(f) => Held(f) = {} /\ Numbers(f) = {} /\ Awaits(f) = {}
    /\ Rests(Stmt) /\ \A w : Rests(Exp(w))
    /\ \A f, g : Rests(f) \/ Rests(g) => Above(f, g)
<1>1. ASSUME NEW f, Rests(f)
      PROVE  Held(f) = {} /\ Numbers(f) = {} /\ Awaits(f) = {}
  <2>1. Held(f) = {}
    BY <1>1 DEF Rests, Held
  <2>2. f.k \notin {"LoopEnd", "ForBodyEnd"} /\ f.k # "IfBranchEnd"
    BY <1>1 DEF Rests, Keepers, Fillers
  <2> QED  BY <1>1, <2>1, <2>2 DEF Rests, Numbers, Awaits
<1>2. Rests(Stmt)
  BY DEF Stmt, Item, Frame, Rests, Keepers, Fillers
<1>3. \A w : Rests(Exp(w))
  BY DEF Exp, Frame, Rests, Keepers, Fillers
<1>4. \A f, g : Rests(f) \/ Rests(g) => Above(f, g)
  BY <1>1 DEF Above
<1> QED  BY <1>1, <1>2, <1>3, <1>4

\* What the stack is afterwards.
LEMMA PushRules ==
    ASSUME TypeOK, stack # <<>>, NEW g, Pushes(g)
    PROVE  /\ OpenIn(stack') = Held(g) \cup OpenIn(Tail(stack))
           /\ \A i \in DOMAIN stack' : \/ Rests(stack'[i])
                                       \/ stack'[i] = g
                                       \/ \E j \in 2 .. Len(stack) : stack'[i] = stack[j]
           /\ Stacked(stack) /\ (\A j \in 2 .. Len(stack) : Above(g, stack[j]))
                 => Stacked(stack')
<1>1. PICK F, fs : /\ fs \in Seq(F) /\ Become(fs)
                   /\ \A i \in DOMAIN fs : Rests(fs[i]) \/ fs[i] = g
                   /\ \A i, j \in DOMAIN fs : i < j => Rests(fs[i])
                   /\ Rests(g) \/ \E i \in DOMAIN fs : fs[i] = g
  BY DEF Pushes
<1>2. /\ stack \in Seq(Frames(nblocks)) /\ stack' = fs \o Tail(stack)
  BY <1>1 DEF TypeOK, Become
<1> DEFINE A == F \cup Frames(nblocks)
<1>3. stack \in Seq(A) /\ fs \in Seq(A)
  BY <1>1, <1>2, SeqMonotonic
<1> HIDE DEF A
<1>4. OpenIn(fs) = Held(g)
  BY <1>1, RestRules DEF OpenIn
<1>5. OpenIn(stack') = Held(g) \cup OpenIn(Tail(stack))
  BY <1>2, <1>3, <1>4, StackReplaced
<1> DEFINE R == {p \in A \X A : Above(p[1], p[2])}
           All == A \X A
<1>6. \A e, f \in A : <<e, f>> \in R <=> Above(e, f)
  OBVIOUS
<1>7. /\ \A i \in DOMAIN stack : stack[i] \in A
      /\ \A i \in DOMAIN fs : fs[i] \in A
      /\ \A j \in 2 .. Len(stack) : j \in DOMAIN stack
  BY <1>3
<1>8. \A e, f \in A : <<e, f>> \in All
  OBVIOUS
<1> HIDE DEF R, All
<1>9. \A i \in DOMAIN stack' : \/ \E j \in DOMAIN fs : stack'[i] = fs[j]
                               \/ \E j \in 2 .. Len(stack) : stack'[i] = stack[j]
  <2>1. /\ \A i, j \in DOMAIN stack : i < j => <<stack[i], stack[j]>> \in All
        /\ \A i, j \in DOMAIN fs : i < j => <<fs[i], fs[j]>> \in All
        /\ \A i \in DOMAIN fs : \A j \in 2 .. Len(stack) : <<fs[i], stack[j]>> \in All
    BY <1>7, <1>8
  <2>2. \A i \in DOMAIN (fs \o Tail(stack)) :
           \/ \E j \in DOMAIN fs : (fs \o Tail(stack))[i] = fs[j]
           \/ \E j \in 2 .. Len(stack) : (fs \o Tail(stack))[i] = stack[j]
    <3> DEFINE t == fs \o Tail(stack)
    <3>1. \A i \in DOMAIN t : \/ \E j \in DOMAIN fs : t[i] = fs[j]
                             \/ \E j \in 2 .. Len(stack) : t[i] = stack[j]
      BY <1>3, <2>1, PairsReplaced, SMTT(30)
    <3> QED  BY <3>1
  <2> QED  BY <1>2, <2>2
<1>10. ASSUME Stacked(stack), \A j \in 2 .. Len(stack) : Above(g, stack[j])
       PROVE  Stacked(stack')
  <2>1. \A i, j \in DOMAIN stack : i < j => <<stack[i], stack[j]>> \in R
    BY <1>6, <1>7, <1>10 DEF Stacked
  <2>2. \A i, j \in DOMAIN fs : i < j => <<fs[i], fs[j]>> \in R
    BY <1>1, <1>6, <1>7, RestRules
  <2>3. \A i \in DOMAIN fs : \A j \in 2 .. Len(stack) : <<fs[i], stack[j]>> \in R
    BY <1>1, <1>6, <1>7, <1>10, RestRules
  <2>4. \A i, j \in DOMAIN stack' : i < j => <<stack'[i], stack'[j]>> \in R
    BY <1>2, <1>3, <2>1, <2>2, <2>3, PairsReplaced
  <2>5. \A i \in DOMAIN stack' : stack'[i] \in A
    BY <1>7, <1>9
  <2> QED  BY <1>6, <2>4, <2>5 DEF Stacked
<1>11. \A i \in DOMAIN stack' : \/ Rests(stack'[i])
                                \/ stack'[i] = g
                                \/ \E j \in 2 .. Len(stack) : stack'[i] = stack[j]
  BY <1>1, <1>9
<1> QED  BY <1>5, <1>10, <1>11

\* A visitor that is done, and one that visits one thing first.
LEMMA PushShort ==
    /\ Become(<<>>) => Pushes(Stmt)
    /\ \A e, g : Rests(e) /\ Become(<<e, g>>) => Pushes(g)
<1>1. ASSUME Become(<<>>)
      PROVE  Pushes(Stmt)
  <2>1. <<>> \in Seq({}) /\ DOMAIN <<>> = {}
    OBVIOUS
  <2> QED  BY <1>1, <2>1, RestRules DEF Pushes
<1>2. ASSUME NEW e, NEW g, Rests(e), Become(<<e, g>>)
      PROVE  Pushes(g)
  <2> DEFINE fs == <<e, g>>
  <2>1. fs \in Seq({e, g}) /\ DOMAIN fs = {1, 2} /\ fs[1] = e /\ fs[2] = g
    OBVIOUS
  <2> HIDE DEF fs
  <2>2. \A i, j \in {1, 2} : i < j => i = 1
    OBVIOUS
  <2>3. \A i, j \in DOMAIN fs : i < j => Rests(fs[i])
    BY <1>2, <2>1, <2>2
  <2>4. Become(fs)
    BY <1>2 DEF fs
  <2> QED  BY <1>2, <2>1, <2>3, <2>4 DEF Pushes
<1> QED  BY <1>1, <1>2

-----------------------------------------------------------------------------
(* The steps that leave the insertion block. *)

\* The blocks that the step makes.
New == Blocks' \ Blocks

\* The edges that the step adds.
Adds(T) == \A b : Preds(b)' = Preds(b) \cup (IF b \in T THEN {at} ELSE {})

\* The branch back to the head of a loop.
Loops(T) ==
    LET f == stack[1]
    IN  /\ f.k = "LoopEnd" /\ T = {f.back} /\ Blocks' = Blocks
        /\ Held(f) = {at'} /\ Exit(f) = at'

\* What the frame g keeps comes from the running frame or is new.
Keeps(g, T) ==
    LET f == stack[1]
    IN  /\ Held(g) \subseteq Held(f) \cup New
        /\ Awaits(g) \subseteq Awaits(f) \cup T
        /\ \/ g.back \in {0, f.back}
           \/ /\ g.back = at' /\ at' = nblocks + 1 /\ T = {at'}
              /\ \A b \in Held(g) : at' < b
        /\ g.k \in {"WhileCond", "ForCond"} => g.back = at'
        /\ g.k \in {"LoopEnd", "ForBodyEnd"} =>
              /\ g.back = f.back
              /\ \/ f.k \in {"WhileCond", "ForCond"} /\ Exit(g) \in T
                 \/ f.k = "ForBodyEnd" /\ Exit(g) = Exit(f)

\* The step branches to the blocks T, or to none after a return of the source, goes on in
\* one that has a predecessor then, and leaves the other blocks to the visitor g.
Moves(g, T) ==
    /\ stack # <<>> /\ at' # at
    /\ Pushes(g) /\ Adds(T) /\ Keeps(g, T)
    /\ T = {} => EndsBlock(code[at]) /\ code' = code
    /\ New \subseteq {at'} \cup Held(g) \cup T
    /\ T \subseteq {at'} \cup Held(g) \cup New \/ Loops(T)
    /\ at' \in T \cup Awaits(stack[1]) \/ T = {}

\* What the instructions that leave the block branch to are the edges added.
LEMMA LeavesAdds ==
    ASSUME TypeOK, NEW T, Leaves(T)
    PROVE  Adds(T)
<1>1. PICK i : Effect(i) /\ To(i) = T
  BY DEF Leaves
<1>2. \A b : Preds(b)' = Preds(b) \cup (IF b \in To(i) THEN {at} ELSE {})
  BY <1>1, EdgesOf
<1> QED  BY <1>1, <1>2 DEF Adds

\* A visitor that keeps no block.
LEMMA StmtKeeps ==
    ASSUME NEW T
    PROVE  Keeps(Stmt, T) /\ Held(Stmt) = {}
<1>1. Held(Stmt) = {} /\ Awaits(Stmt) = {}
  BY RestRules
<1>2. Stmt.back = 0 /\ Stmt.k = "stmt"
  BY DEF Stmt, Item, Frame
<1> QED  BY <1>1, <1>2 DEF Keeps

\* What waits for a branch is the last block, or the else block.
LEMMA AwaitsShort ==
    /\ \A w, o, l : /\ Awaits(Frame("RhsEnd", w, o, l)) = {}
                    /\ Awaits(Frame("WhileCond", w, o, l)) = {}
                    /\ Awaits(Frame("ForCond", w, o, l)) = {}
    /\ \A w, b, l : /\ Awaits(Frame("IfBranchEnd", w, <<b>>, l)) = {}
                    /\ Awaits(Frame("LoopEnd", w, <<b>>, l)) = {b}
                    /\ Exit(Frame("LoopEnd", w, <<b>>, l)) = b
    /\ \A w, b, c, l : /\ Awaits(Frame("IfBranchEnd", w, <<b, c>>, l)) = {b}
                       /\ Awaits(Frame("ForBodyEnd", w, <<b, c>>, l)) = {c}
                       /\ Exit(Frame("ForBodyEnd", w, <<b, c>>, l)) = c
<1>1. \A k, w, o, l : Frame(k, w, o, l).k = k /\ Frame(k, w, o, l).open = o
  BY DEF Frame
<1>2. /\ \A b : Len(<<b>>) = 1 /\ <<b>>[1] = b
      /\ \A b, c : Len(<<b, c>>) = 2 /\ <<b, c>>[1] = b /\ <<b, c>>[2] = c
  OBVIOUS
<1>3. \A w, o, l : /\ Awaits(Frame("RhsEnd", w, o, l)) = {}
                   /\ Awaits(Frame("WhileCond", w, o, l)) = {}
                   /\ Awaits(Frame("ForCond", w, o, l)) = {}
  BY <1>1 DEF Awaits
<1>4. \A w, b, l : /\ Awaits(Frame("IfBranchEnd", w, <<b>>, l)) = {}
                   /\ Awaits(Frame("LoopEnd", w, <<b>>, l)) = {b}
                   /\ Exit(Frame("LoopEnd", w, <<b>>, l)) = b
  BY <1>1, <1>2 DEF Awaits, Exit
<1>5. \A w, b, c, l : /\ Awaits(Frame("IfBranchEnd", w, <<b, c>>, l)) = {b}
                      /\ Awaits(Frame("ForBodyEnd", w, <<b, c>>, l)) = {c}
                      /\ Exit(Frame("ForBodyEnd", w, <<b, c>>, l)) = c
  BY <1>1, <1>2 DEF Awaits, Exit
<1> QED  BY <1>3, <1>4, <1>5

\* New blocks, by their number.
LEMMA NewOnes ==
    ASSUME TypeOK, NEW n \in Nat, nblocks' = nblocks + n
    PROVE  New = nblocks + 1 .. nblocks + n /\ nblocks + 1 # at /\ nblocks + 2 # at
BY DEF TypeOK, Blocks, New

\* The array declaration branches to its exit call and past it.
LEMMA ArraySizeDynamicMoves ==
    ASSUME Flowing, ArraySizeDynamic
    PROVE  Moves(Stmt, {nblocks + 1, nblocks + 2})
<1> DEFINE T == {nblocks + 1, nblocks + 2}
<1>1. stack # <<>> /\ nblocks' = nblocks + 2 /\ at' = nblocks + 2 /\ Become(<<>>)
  BY DEF ArraySizeDynamic, Top
<1>2. TypeOK /\ nblocks \in Nat
  BY DEF Flowing, TypeOK
<1>3. New = T /\ at' # at
  BY <1>1, <1>2, NewOnes
<1>4. Leaves(T)
  BY ArraySizeDynamicFlow DEF Flowing
<1> HIDE DEF T
<1>5. Adds(T) /\ Pushes(Stmt) /\ Keeps(Stmt, T) /\ Held(Stmt) = {}
  BY <1>1, <1>2, <1>4, LeavesAdds, PushShort, StmtKeeps
<1>6. at' \in T /\ T # {}
  BY <1>1 DEF T
<1>7. Moves(Stmt, T)
  BY <1>1, <1>3, <1>5, <1>6 DEF Moves
<1> QED  BY <1>7 DEF T

\* The lhs of && and || branches to the rhs and to the end.
LEMMA ShortCircuitLhsMoves ==
    ASSUME Flowing, NEW op \in {"&&", "||"}, ShortCircuitLhs(op)
    PROVE  \E g, T : Moves(g, T)
<1> DEFINE T == {nblocks + 1, nblocks + 2}
           e == Exp(LogicTypes)
           g == Frame("RhsEnd", stack[1].want, <<nblocks + 2>>, 0)
<1>1. stack # <<>> /\ nblocks' = nblocks + 2 /\ at' = nblocks + 1 /\ Become(<<e, g>>)
  BY DEF ShortCircuitLhs, Top
<1>2. TypeOK /\ nblocks \in Nat
  BY DEF Flowing, TypeOK
<1>3. New = T /\ at' # at
  BY <1>1, <1>2, NewOnes
<1>4. Leaves(T)
  BY ShortCircuitLhsFlow DEF Flowing
<1>5. /\ Held(g) = {nblocks + 2} /\ Awaits(g) = {} /\ g.back = 0 /\ g.k = "RhsEnd"
      /\ Rests(e)
  BY HeldShort, AwaitsShort, RestRules, FrameFields
<1>6. at' \in T /\ T # {} /\ nblocks + 2 \in T
  BY <1>1
<1> HIDE DEF T, e, g
<1>7. Adds(T) /\ Pushes(g)
  BY <1>1, <1>2, <1>4, <1>5, LeavesAdds, PushShort
<1>8. Keeps(g, T)
  BY <1>3, <1>5, <1>6 DEF Keeps
<1>9. Moves(g, T)
  BY <1>1, <1>3, <1>6, <1>7, <1>8 DEF Moves
<1> QED  BY <1>9

\* The rhs branches to the end, where the walk goes on.
LEMMA ShortCircuitEndMoves ==
    ASSUME Flowing, ShortCircuitEnd
    PROVE  \E g, T : Moves(g, T)
<1> DEFINE T == {stack[1].open[1]}
<1>1. Top("RhsEnd") /\ nblocks' = nblocks /\ at' = stack[1].open[1] /\ Become(<<>>)
  BY DEF ShortCircuitEnd
<1>2. TypeOK /\ VisitorsOwnTheirBlocks
  BY DEF Flowing
<1>3. stack # <<>> /\ at' # at
  BY <1>1, <1>2, HeldRunning, HeldAway DEF VisitorsOwnTheirBlocks
<1>4. Leaves(T)
  BY ShortCircuitEndFlow DEF Flowing
<1>5. New = {} /\ at' \in T /\ T # {} /\ T = {at'}
  BY <1>1 DEF New, Blocks
<1> HIDE DEF T
<1>6. Adds(T) /\ Pushes(Stmt) /\ Keeps(Stmt, T)
  BY <1>1, <1>2, <1>4, LeavesAdds, PushShort, StmtKeeps
<1>7. Moves(Stmt, T)
  BY <1>3, <1>5, <1>6 DEF Moves
<1> QED  BY <1>7

\* The condition of an if branches to its two blocks.
LEMMA IfCondMoves ==
    ASSUME Flowing, NEW hasElse \in BOOLEAN, IfCond(hasElse)
    PROVE  \E g, T : Moves(g, T)
<1> DEFINE T == {nblocks + 1, nblocks + 2}
           d == IF hasElse THEN 3 ELSE 2
           join == nblocks + d
           rest == IF hasElse THEN <<nblocks + 2, join>> ELSE <<join>>
           g == Frame("IfBranchEnd", {}, rest, 0)
<1>1. Top("IfCond") /\ nblocks' = nblocks + d /\ at' = nblocks + 1 /\ Become(<<Stmt, g>>)
  BY DEF IfCond
<1>2. TypeOK /\ nblocks \in Nat /\ d \in Nat
  BY DEF Flowing, TypeOK
<1>3. New = nblocks + 1 .. nblocks + d /\ at' # at
  <2> HIDE DEF d
  <2> QED  BY <1>1, <1>2, NewOnes
<1>4. Leaves(T)
  BY IfCondFlow DEF Flowing
<1>5. /\ Held(g) = {nblocks + 2, nblocks + d} /\ Awaits(g) \subseteq {nblocks + 2}
      /\ g.back = 0 /\ g.k = "IfBranchEnd"
  <2>1. CASE hasElse
    BY <2>1, HeldShort, AwaitsShort, FrameFields
  <2>2. CASE ~hasElse
    BY <2>2, HeldShort, AwaitsShort, FrameFields
  <2> QED  BY <2>1, <2>2
<1>6. at' \in T /\ T # {} /\ nblocks + 2 \in T
  BY <1>1
<1>7. /\ New \subseteq {at', nblocks + 2, nblocks + d} /\ T \subseteq New
      /\ {nblocks + 2, nblocks + d} \subseteq New
  BY <1>1, <1>2, <1>3
<1>10. stack # <<>>
  BY <1>1 DEF Top
<1> HIDE DEF T, g, d, rest
<1>8. Adds(T) /\ Pushes(g)
  BY <1>1, <1>2, <1>4, LeavesAdds, PushShort, RestRules
<1>9. Keeps(g, T)
  BY <1>5, <1>6, <1>7 DEF Keeps
<1>11. Moves(g, T)
  BY <1>3, <1>5, <1>6, <1>7, <1>8, <1>9, <1>10 DEF Moves
<1> QED  BY <1>11

\* The next branch, or the join block, whether or not this one returned.
LEMMA IfBranchEndMoves ==
    ASSUME Flowing, IfBranchEnd
    PROVE  \E g, T : Moves(g, T)
<1> DEFINE o == stack[1].open
           T == IF EndsBlock(code[at]) THEN {} ELSE {o[Len(o)]}
           g == IF Len(o) = 2 THEN Frame("IfBranchEnd", {}, Tail(o), 0) ELSE Stmt
<1>1. /\ Top("IfBranchEnd") /\ nblocks' = nblocks /\ at' = o[1]
      /\ Become(IF Len(o) = 2 THEN <<Stmt, Frame("IfBranchEnd", {}, Tail(o), 0)>> ELSE <<>>)
  BY DEF IfBranchEnd
<1>2. TypeOK /\ VisitorsOwnTheirBlocks
  BY DEF Flowing
<1>3. stack # <<>> /\ Len(o) \in {1, 2}
  <2>1. stack # <<>>
    BY <1>1 DEF Top
  <2> QED  BY <2>1, <1>1, <1>2, RunningFrame DEF Top, Frames, FrameOK
<1>4. /\ Len(o) = 1 => Held(stack[1]) = {o[1]}
      /\ Len(o) = 2 => Held(stack[1]) = {o[1], o[2]} /\ Tail(o) = <<o[2]>>
  BY <1>1, <1>2, OpenSplit
<1>5. at' # at
  <2>1. at' \in Held(stack[1])
    BY <1>1, <1>3, <1>4
  <2> QED  BY <2>1, <1>1, <1>2, HeldAway DEF VisitorsOwnTheirBlocks
<1>6. IF EndsBlock(code[at]) THEN Silent /\ code' = code ELSE Leaves({o[Len(o)]})
  BY IfBranchEndFlow DEF Flowing
<1>7. Adds(T)
  <2>1. CASE EndsBlock(code[at])
    BY <2>1, <1>2, <1>6, EdgesOf DEF Adds
  <2>2. CASE ~EndsBlock(code[at])
    BY <2>2, <1>2, <1>6, LeavesAdds
  <2> QED  BY <2>1, <2>2
<1>8. /\ Len(o) = 2 => Awaits(stack[1]) = {o[1]}
      /\ Awaits(stack[1]) \subseteq {o[1]}
  BY <1>1 DEF Awaits, Top
<1>9. New = {}
  BY <1>1 DEF New, Blocks
<1>10. T = {} \/ T = {o[Len(o)]}
  OBVIOUS
<1>11. T = {} => EndsBlock(code[at]) /\ code' = code
  BY <1>6
<1> HIDE DEF T
<1>12. CASE Len(o) = 1
  <2>1. Become(<<>>)
    BY <1>1, <1>12
  <2>2. Pushes(Stmt) /\ Keeps(Stmt, T)
    BY <2>1, PushShort, StmtKeeps
  <2>3. T = {} \/ T = {at'}
    BY <1>1, <1>10, <1>12
  <2> HIDE DEF o, g
  <2>4. Moves(Stmt, T)
    BY <2>2, <2>3, <1>3, <1>5, <1>7, <1>9, <1>11 DEF Moves
  <2> QED  BY <2>4
<1>13. CASE Len(o) = 2
  <2> DEFINE h == Frame("IfBranchEnd", {}, Tail(o), 0)
  <2>1. Become(<<Stmt, h>>)
    BY <1>1, <1>13
  <2>2. Held(h) = {o[2]} /\ Awaits(h) = {} /\ h.back = 0 /\ h.k = "IfBranchEnd"
    <3> DEFINE b == o[2]
    <3>1. Tail(o) = <<b>>
      BY <1>4, <1>13
    <3>2. h = Frame("IfBranchEnd", {}, <<b>>, 0)
      BY <3>1
    <3> HIDE DEF o, h, b
    <3>3. Held(h) = {b} /\ Awaits(h) = {} /\ h.back = 0 /\ h.k = "IfBranchEnd"
      BY <3>2, HeldShort, AwaitsShort, FrameFields
    <3> QED  BY <3>3 DEF b
  <2>3. T = {} \/ T = {o[2]}
    BY <1>10, <1>13
  <2>5. at' \in Awaits(stack[1]) /\ Held(h) \subseteq Held(stack[1])
    BY <1>1, <1>4, <1>8, <1>13, <2>2
  <2> HIDE DEF o, g, h
  <2>6. Pushes(h)
    BY <2>1, PushShort, RestRules
  <2>7. Keeps(h, T)
    BY <2>2, <2>5 DEF Keeps
  <2>4. Moves(h, T)
    BY <2>2, <2>3, <2>5, <2>6, <2>7, <1>3, <1>5, <1>7, <1>9, <1>11 DEF Moves
  <2> QED  BY <2>4
<1> QED  BY <1>3, <1>12, <1>13

\* A while begins in a block of its own, to which its last block will branch back.
LEMMA WhileMoves ==
    ASSUME Flowing, VisitWhileStmt
    PROVE  \E g, T : Moves(g, T)
<1> DEFINE head == nblocks + 1
           T == {head}
           e == Exp(CondTypes)
           g == Frame("WhileCond", {}, <<>>, head)
<1>1. stack # <<>> /\ nblocks' = nblocks + 1 /\ at' = head /\ Become(<<e, g>>)
  BY DEF VisitWhileStmt, Visit, Top
<1>2. TypeOK /\ nblocks \in Nat
  BY DEF Flowing, TypeOK
<1>3. New = nblocks + 1 .. nblocks + 1 /\ at' # at
  BY <1>1, <1>2, NewOnes
<1>4. Leaves(T)
  BY WhileFlow DEF Flowing
<1>5. Held(g) = {} /\ Awaits(g) = {} /\ g.back = head /\ g.k = "WhileCond" /\ Rests(e)
  BY HeldShort, AwaitsShort, RestRules, FrameFields
<1>6. New = T /\ at' \in T /\ T # {} /\ at' = nblocks + 1 /\ T = {at'} /\ g.back = at'
  BY <1>1, <1>2, <1>3, <1>5
<1> HIDE DEF T, e, g, head
<1>7. Adds(T) /\ Pushes(g)
  BY <1>1, <1>2, <1>4, <1>5, LeavesAdds, PushShort
<1>8. Keeps(g, T)
  BY <1>5, <1>6 DEF Keeps
<1>9. Moves(g, T)
  BY <1>1, <1>3, <1>6, <1>7, <1>8 DEF Moves
<1> QED  BY <1>9

\* Its condition branches to the body and to the block after the loop.
LEMMA WhileCondMoves ==
    ASSUME Flowing, WhileCond
    PROVE  \E g, T : Moves(g, T)
<1> DEFINE exit == nblocks + 2
           T == {nblocks + 1, exit}
           g == Frame("LoopEnd", {}, <<exit>>, stack[1].back)
<1>1. /\ stack # <<>> /\ stack[1].k = "WhileCond" /\ nblocks' = nblocks + 2
      /\ at' = nblocks + 1 /\ Become(<<Stmt, g>>)
  BY DEF WhileCond, Top
<1>2. TypeOK /\ nblocks \in Nat
  BY DEF Flowing, TypeOK
<1>3. New = nblocks + 1 .. nblocks + 2 /\ at' # at
  BY <1>1, <1>2, NewOnes
<1>4. Leaves(T)
  BY WhileCondFlow DEF Flowing
<1>5. /\ Held(g) = {exit} /\ Awaits(g) = {exit} /\ g.back = stack[1].back
      /\ g.k = "LoopEnd" /\ Exit(g) = exit
  <2> HIDE DEF exit
  <2> QED  BY HeldShort, AwaitsShort, FrameFields
<1>6. New = T /\ at' \in T /\ T # {} /\ exit \in T
  BY <1>1, <1>2, <1>3
<1> HIDE DEF T, g, exit
<1>7. Adds(T) /\ Pushes(g)
  BY <1>1, <1>2, <1>4, <1>5, LeavesAdds, PushShort, RestRules
<1>8. Keeps(g, T)
  BY <1>1, <1>5, <1>6 DEF Keeps
<1>9. Moves(g, T)
  BY <1>1, <1>3, <1>6, <1>7, <1>8 DEF Moves
<1> QED  BY <1>9

\* The branch back to the head.
LEMMA LoopEndMoves ==
    ASSUME Flowing, LoopEnd
    PROVE  \E g, T : Moves(g, T)
<1> DEFINE f == stack[1]
           T == {f.back}
<1>1. /\ Top("LoopEnd") /\ f.k = "LoopEnd" /\ nblocks' = nblocks /\ at' = f.open[1]
      /\ Become(<<>>)
  BY DEF LoopEnd, Top
<1>2. TypeOK /\ VisitorsOwnTheirBlocks
  BY DEF Flowing
<1>3. stack # <<>> /\ Held(f) = {at'} /\ at' # at
  BY <1>1, <1>2, HeldRunning, HeldAway DEF VisitorsOwnTheirBlocks
<1>4. Len(f.open) = 1
  BY <1>1, <1>2, <1>3, RunningFrame DEF Frames, FrameOK
<1>5. Leaves(T)
  BY LoopEndFlow DEF Flowing
<1>6. Exit(f) = at' /\ Awaits(f) = {at'}
  BY <1>1, <1>4 DEF Exit, Awaits
<1>7. New = {} /\ Blocks' = Blocks /\ T # {}
  BY <1>1 DEF New, Blocks
<1>8. Loops(T)
  BY <1>1, <1>3, <1>6, <1>7 DEF Loops
<1> HIDE DEF T, f
<1>9. Adds(T) /\ Pushes(Stmt) /\ Keeps(Stmt, T)
  BY <1>1, <1>2, <1>5, LeavesAdds, PushShort, StmtKeeps
<1>10. at' \in Awaits(stack[1])
  BY <1>6 DEF f
<1>11. Moves(Stmt, T)
  BY <1>3, <1>7, <1>8, <1>9, <1>10 DEF Moves
<1> QED  BY <1>11

\* The header of a for statement comes before its other blocks.
LEMMA ForInitMoves ==
    ASSUME Flowing, ForInit
    PROVE  \E g, T : Moves(g, T)
<1> DEFINE head == nblocks + 1
           body == nblocks + 2
           update == nblocks + 3
           exit == nblocks + 4
           T == {head}
           e == Exp(Types)
           g == Frame("ForCond", {}, <<body, update, exit>>, head)
<1>1. stack # <<>> /\ nblocks' = nblocks + 4 /\ at' = head /\ Become(<<e, g>>)
  BY DEF ForInit, Top
<1>2. TypeOK /\ nblocks \in Nat
  BY DEF Flowing, TypeOK
<1>3. New = nblocks + 1 .. nblocks + 4 /\ at' # at
  BY <1>1, <1>2, NewOnes
<1>4. Leaves(T)
  BY ForInitFlow DEF Flowing
<1>5. /\ Held(g) = {body, update, exit} /\ Awaits(g) = {} /\ g.back = head
      /\ g.k = "ForCond" /\ Rests(e)
  <2> HIDE DEF body, update, exit
  <2> QED  BY HeldShort, AwaitsShort, RestRules, FrameFields
<1>6. /\ New = {head} \cup {body, update, exit} /\ head < body /\ head < update
      /\ head < exit
  BY <1>2, <1>3
<1>7. at' \in T /\ T # {} /\ at' = nblocks + 1 /\ T = {at'} /\ g.back = at'
  BY <1>1, <1>5
<1>8. T \subseteq New /\ New \subseteq {at'} \cup Held(g) /\ Held(g) \subseteq New
  BY <1>1, <1>5, <1>6
<1>9. \A b \in Held(g) : at' < b
  BY <1>1, <1>5, <1>6
<1> HIDE DEF T, e, g, head, body, update, exit
<1>10. Adds(T) /\ Pushes(g)
  BY <1>1, <1>2, <1>4, <1>5, LeavesAdds, PushShort
<1>11. Keeps(g, T)
  BY <1>5, <1>7, <1>8, <1>9 DEF Keeps
<1>12. Moves(g, T)
  BY <1>1, <1>3, <1>7, <1>8, <1>10, <1>11 DEF Moves
<1> QED  BY <1>12

\* The condition of a for branches to the body and to the block after the loop.
LEMMA ForCondMoves ==
    ASSUME Flowing, ForCond
    PROVE  \E g, T : Moves(g, T)
<1> DEFINE o == stack[1].open
           head == stack[1].back
           T == {o[1], o[3]}
           g == Frame("ForBodyEnd", {}, Tail(o), head)
<1>1. /\ Top("ForCond") /\ stack[1].k = "ForCond" /\ nblocks' = nblocks /\ at' = o[1]
      /\ Become(<<Stmt, g>>)
  BY DEF ForCond, Top
<1>2. TypeOK /\ VisitorsOwnTheirBlocks /\ stack # <<>>
  BY <1>1 DEF Flowing, Top
<1>3. Len(o) = 3
  BY <1>1, <1>2, RunningFrame DEF Frames, FrameOK
<1>4. Held(stack[1]) = {o[1], o[2], o[3]} /\ Tail(o) = <<o[2], o[3]>>
  BY <1>1, <1>2, <1>3, OpenSplit
<1>5. at' # at
  BY <1>1, <1>2, <1>4, HeldAway DEF VisitorsOwnTheirBlocks
<1>6. Leaves(T)
  BY ForCondFlow DEF Flowing
<1>7. New = {} /\ at' \in T /\ T # {} /\ o[3] \in T
  BY <1>1 DEF New, Blocks
<1>8. /\ Held(g) = {o[2], o[3]} /\ Awaits(g) = {o[3]} /\ g.back = head
      /\ g.k = "ForBodyEnd" /\ Exit(g) = o[3]
  <2> DEFINE b == o[2]
             c == o[3]
  <2>1. g = Frame("ForBodyEnd", {}, <<b, c>>, head)
    BY <1>4
  <2> HIDE DEF o, g, b, c, head
  <2>2. /\ Held(g) = {b, c} /\ Awaits(g) = {c} /\ g.back = head
        /\ g.k = "ForBodyEnd" /\ Exit(g) = c
    BY <2>1, HeldShort, AwaitsShort, FrameFields
  <2> QED  BY <2>2 DEF b, c
<1>9. T \subseteq {at'} \cup Held(g) /\ Held(g) \subseteq Held(stack[1])
  BY <1>1, <1>4, <1>8
<1>10. g.back = stack[1].back /\ Exit(g) \in T /\ Awaits(g) \subseteq T
  BY <1>7, <1>8
<1> HIDE DEF o, g, T, head
<1>11. Adds(T) /\ Pushes(g)
  BY <1>1, <1>2, <1>6, LeavesAdds, PushShort, RestRules
<1>12. Keeps(g, T)
  BY <1>1, <1>8, <1>9, <1>10 DEF Keeps
<1>13. Moves(g, T)
  BY <1>2, <1>5, <1>7, <1>9, <1>11, <1>12 DEF Moves
<1> QED  BY <1>13

\* The body of a for goes on in the block of its step.
LEMMA ForBodyEndMoves ==
    ASSUME Flowing, ForBodyEnd
    PROVE  \E g, T : Moves(g, T)
<1> DEFINE o == stack[1].open
           head == stack[1].back
           T == {o[1]}
           g == Frame("LoopEnd", {}, Tail(o), head)
<1>1. /\ Top("ForBodyEnd") /\ stack[1].k = "ForBodyEnd" /\ nblocks' = nblocks
      /\ at' = o[1] /\ Become(<<Stmt, g>>)
  BY DEF ForBodyEnd, Top
<1>2. TypeOK /\ VisitorsOwnTheirBlocks /\ stack # <<>>
  BY <1>1 DEF Flowing, Top
<1>3. Len(o) = 2
  BY <1>1, <1>2, RunningFrame DEF Frames, FrameOK
<1>4. Held(stack[1]) = {o[1], o[2]} /\ Tail(o) = <<o[2]>>
  BY <1>1, <1>2, <1>3, OpenSplit
<1>5. at' # at
  BY <1>1, <1>2, <1>4, HeldAway DEF VisitorsOwnTheirBlocks
<1>6. Leaves(T)
  BY ForBodyEndFlow DEF Flowing
<1>7. New = {} /\ at' \in T /\ T # {} /\ T = {at'}
  BY <1>1 DEF New, Blocks
<1>8. Held(g) = {o[2]} /\ Awaits(g) = {o[2]} /\ g.back = head /\ g.k = "LoopEnd" /\ Exit(g) = o[2]
  <2> DEFINE b == o[2]
  <2>1. g = Frame("LoopEnd", {}, <<b>>, head)
    BY <1>4
  <2> HIDE DEF o, g, b, head
  <2>2. Held(g) = {b} /\ Awaits(g) = {b} /\ g.back = head /\ g.k = "LoopEnd" /\ Exit(g) = b
    BY <2>1, HeldShort, AwaitsShort, FrameFields
  <2> QED  BY <2>2 DEF b
<1>9. Exit(stack[1]) = o[2] /\ Awaits(stack[1]) = {o[2]}
  BY <1>1, <1>3 DEF Exit, Awaits
<1>10. /\ Held(g) \subseteq Held(stack[1]) /\ g.back = stack[1].back
       /\ Exit(g) = Exit(stack[1]) /\ Awaits(g) \subseteq Awaits(stack[1])
  BY <1>4, <1>8, <1>9
<1> HIDE DEF o, g, T, head
<1>11. Adds(T) /\ Pushes(g)
  BY <1>1, <1>2, <1>6, LeavesAdds, PushShort, RestRules
<1>12. Keeps(g, T)
  BY <1>1, <1>8, <1>10 DEF Keeps
<1>13. Moves(g, T)
  BY <1>2, <1>5, <1>7, <1>11, <1>12 DEF Moves
<1> QED  BY <1>13

-----------------------------------------------------------------------------
(* Every step. *)

\* The step goes on in the insertion block, and pops or replaces a frame that keeps
\* no block.
Still ==
    /\ at' = at /\ Blocks' = Blocks
    /\ \A b : Preds(b)' = Preds(b)
    /\ OpenIn(stack') = OpenIn(stack)
    /\ stack' = stack \/ (stack # <<>> /\ Pushes(Stmt))

\* Which actions move the insertion point.
LEMMA Movers ==
    ASSUME Next, at' # at
    PROVE  \/ ArraySizeDynamic \/ (\E op \in {"&&", "||"} : ShortCircuitLhs(op))
           \/ ShortCircuitEnd \/ (\E hasElse \in BOOLEAN : IfCond(hasElse)) \/ IfBranchEnd
           \/ VisitWhileStmt \/ WhileCond \/ LoopEnd \/ ForInit \/ ForCond \/ ForBodyEnd
<1>1. CASE StmtStep
  BY <1>1 DEF StmtStep, VisitSeqStmt, SeqNext, SeqEnd, VisitCallStmt, VisitAssignStmt,
         VisitArrayAssignStmt, Store, VisitDeclStmt, VisitReturnStmt, ReturnEnd,
         VisitDeclArray, ArraySizeConst, ArraySizeThrow, blockVars
<1>2. CASE ExpStep
  BY <1>2 DEF ExpStep, Leaf, VisitCallExp, VisitDivertedExp, VisitArrayAccessExp, CallEnd,
         DivertedEnd, VisitShortCircuit, blockVars
<1>3. CASE ControlStep
  BY <1>3 DEF ControlStep, VisitIfStmt, VisitForStmt, blockVars
<1>4. CASE Finish
  BY <1>4 DEF Finish, blockVars
<1> QED  BY <1>1, <1>2, <1>3, <1>4 DEF Next

\* Without a move no edge is added.
LEMMA StillEdges ==
    ASSUME Flowing, Next, at' = at
    PROVE  \A b : Preds(b)' = Preds(b)
<1>1. TypeOK /\ Proceeds
  BY FlowingStep DEF Flowing
<1>2. CASE Silent
  BY <1>1, <1>2, EdgesOf
<1>3. ASSUME NEW i, Effect(i), To(i) = {}
      PROVE  \A b : Preds(b)' = Preds(b)
  BY <1>1, <1>3, EdgesOf
<1>4. CASE phase' = "emit"
  <2>1. ASSUME NEW i, Writes(i)
        PROVE  Effect(i) /\ To(i) = {}
    BY <1>4, <2>1, ToRules DEF Writes, Goes, To
  <2> QED  BY <1>1, <1>2, <1>3, <2>1 DEF Proceeds, Quietly
<1>5. CASE phase' # "emit"
  <2>1. phase = "emit"
    BY LastStep
  <2>2. Finish \/ ArraySizeThrow
    BY <1>5, <2>1 DEF Next, StmtStep, ExpStep, ControlStep, VisitSeqStmt, SeqNext, SeqEnd,
         VisitCallStmt, VisitAssignStmt, VisitArrayAssignStmt, Store, VisitDeclStmt,
         VisitReturnStmt, ReturnEnd, VisitDeclArray, ArraySizeConst,
         ArraySizeDynamic, Leaf, VisitCallExp, VisitDivertedExp, VisitArrayAccessExp,
         CallEnd, DivertedEnd, VisitShortCircuit, ShortCircuitLhs, ShortCircuitEnd,
         VisitIfStmt, IfCond, IfBranchEnd, VisitWhileStmt, WhileCond, LoopEnd, VisitForStmt,
         ForInit, ForCond, ForBodyEnd, Visit
  <2>3. nblocks' = nblocks /\ (code' = code \/ code' = Emit(Ret("i32")))
    BY <2>2 DEF Finish, ArraySizeThrow, blockVars
  <2>4. CASE code' = code
    <3>1. Silent
      BY <2>3, <2>4 DEF Silent, Same, Blocks
    <3> QED  BY <3>1, <1>2
  <2>5. CASE code' = Emit(Ret("i32"))
    BY <2>3, <2>5, <1>1, <1>3, EmitEffect, ToRules
  <2> QED  BY <2>3, <2>4, <2>5
<1> QED  BY <1>4, <1>5

\* What the blocks in a stack are, frame by frame.
LEMMA Opens ==
    ASSUME TypeOK, VisitorsOwnTheirBlocks
    PROVE  /\ OpenIn(stack) \subseteq Blocks /\ at \notin OpenIn(stack)
           /\ \A i \in DOMAIN stack : Held(stack[i]) \subseteq OpenIn(stack)
           /\ \A i, j \in DOMAIN stack : i # j => Held(stack[i]) \cap Held(stack[j]) = {}
           /\ \A b \in OpenIn(stack) : \A c : b \notin Preds(c)
           /\ stack # <<>> =>
                 /\ OpenIn(stack) = Held(stack[1]) \cup OpenIn(Tail(stack))
                 /\ Held(stack[1]) \cap OpenIn(Tail(stack)) = {}
<1>1. OpenIn(stack) \subseteq Blocks /\ at \notin OpenIn(stack)
  BY OpenAreBlocks DEF VisitorsOwnTheirBlocks
<1>2. \A i \in DOMAIN stack : Held(stack[i]) \subseteq OpenIn(stack)
  BY DEF OpenIn
<1>3. \A i, j \in DOMAIN stack : i # j => Held(stack[i]) \cap Held(stack[j]) = {}
  BY DEF VisitorsOwnTheirBlocks, HeldOnce, Held
<1>4. \A b \in OpenIn(stack) : \A c : b \notin Preds(c)
  <2> TAKE b \in OpenIn(stack)
  <2>1. code[b] = <<>> /\ DOMAIN <<>> = {}
    BY DEF VisitorsOwnTheirBlocks
  <2> QED  BY <2>1 DEF Preds, Succs, Branches
<1>5. ASSUME stack # <<>>
      PROVE  /\ OpenIn(stack) = Held(stack[1]) \cup OpenIn(Tail(stack))
             /\ Held(stack[1]) \cap OpenIn(Tail(stack)) = {}
  <2>1. stack \in Seq(Frames(nblocks)) /\ <<>> \in Seq(Frames(nblocks))
    BY DEF TypeOK
  <2> QED  BY <1>5, <2>1, HeldOnceReplaced, StackReplaced DEF VisitorsOwnTheirBlocks
<1> QED  BY <1>1, <1>2, <1>3, <1>4, <1>5

\* Every step of the generator is one or the other.
LEMMA StepMoves ==
    ASSUME Flowing, Next
    PROVE  Still \/ \E g, T : Moves(g, T)
<1>1. /\ TypeOK /\ VisitorsOwnTheirBlocks /\ Orderly
  BY Step DEF Flowing
<1>2. CASE at' # at
  BY <1>2, Movers, ArraySizeDynamicMoves, ShortCircuitLhsMoves, ShortCircuitEndMoves,
     IfCondMoves, IfBranchEndMoves, WhileMoves, WhileCondMoves, LoopEndMoves, ForInitMoves,
     ForCondMoves, ForBodyEndMoves
<1>3. CASE at' = at
  <2>1. \A b : Preds(b)' = Preds(b)
    BY <1>3, StillEdges
  <2>2. CASE stack' = stack /\ UNCHANGED blockVars
    BY <1>3, <2>1, <2>2 DEF Still, Blocks, blockVars
  <2>3. CASE Walks
    <3>1. PICK fs, new : Lists(fs, new) /\ Unheld(fs)
      BY <2>3 DEF Walks
    <3>2. UNCHANGED blockVars
      BY <1>3, <2>3 DEF Walks
    <3>3. \A i \in DOMAIN fs : Rests(fs[i])
      BY <1>3, <3>1 DEF Unheld, Light
    <3>4. stack # <<>> /\ Pushes(Stmt)
      BY <3>1, <3>3, RestRules DEF Pushes, Lists
    <3>5. OpenIn(stack') = OpenIn(Tail(stack))
      BY <1>1, <3>4, PushRules, RestRules
    <3>6. OpenIn(stack') = OpenIn(stack)
      BY <1>1, <1>3, <3>4, <3>5, Opens DEF Orderly
    <3> QED  BY <1>3, <2>1, <3>2, <3>4, <3>6 DEF Still, Blocks, blockVars
  <2>4. ASSUME NEW op, ShortCircuitLhs(op)
        PROVE  FALSE
    BY <1>1, <1>3, <2>4 DEF ShortCircuitLhs, TypeOK, Blocks
  <2>5. CASE ShortCircuitEnd
    <3>1. Top("RhsEnd") /\ at' = stack[1].open[1]
      BY <2>5 DEF ShortCircuitEnd
    <3> QED  BY <1>1, <1>3, <3>1, HeldRunning, HeldAway DEF VisitorsOwnTheirBlocks
  <2> QED  BY <1>1, <2>2, <2>3, <2>4, <2>5, StepKinds
<1> QED  BY <1>2, <1>3

\* What a move does to the blocks.
LEMMA MoveFacts ==
    ASSUME Flowing, Next, NEW g, NEW T, Moves(g, T)
    PROVE  /\ Blocks \subseteq Blocks' /\ at \in Blocks /\ at' \in Blocks' /\ at # at'
           /\ OpenIn(stack') = Held(g) \cup OpenIn(Tail(stack))
           /\ OpenIn(stack') \subseteq Blocks' /\ at' \notin OpenIn(stack')
           /\ at' \in Held(stack[1]) \cup New
           /\ Held(stack[1]) \subseteq {at'} \cup Held(g)
           /\ OpenIn(stack) \subseteq {at'} \cup OpenIn(stack')
           /\ \A c : at' \notin Preds(c)
           /\ \A b \in New \ ({at'} \cup Held(g)) : b \in Dead'
           /\ T \subseteq Blocks'
<1>1. /\ TypeOK /\ VisitorsOwnTheirBlocks /\ TypeOK' /\ VisitorsOwnTheirBlocks' /\ Orderly
      /\ Proceeds
  BY Step, FlowingStep DEF Flowing
<1>2. /\ Blocks \subseteq Blocks' /\ at \in Blocks /\ at' \in Blocks' /\ at # at'
      /\ stack # <<>>
  BY <1>1 DEF Orderly, TypeOK, Moves
<1>3. OpenIn(stack') = Held(g) \cup OpenIn(Tail(stack))
  BY <1>1, <1>2, PushRules DEF Moves
<1>4. at' \notin OpenIn(stack')
  BY <1>1 DEF VisitorsOwnTheirBlocks
<1>5. OpenIn(stack') \subseteq Blocks' /\ OpenIn(stack) \subseteq {at'} \cup OpenIn(stack')
  BY <1>1, <1>2, Opens DEF Orderly
<1>6. at' \in Held(stack[1]) \cup New
  BY <1>1, <1>2, <1>3, <1>4, Opens DEF Orderly, New
<1>7. Held(stack[1]) \subseteq {at'} \cup Held(g)
  BY <1>1, <1>2, <1>3, <1>5, Opens
<1>8. \A c : at' \notin Preds(c)
  <2>1. CASE at' \in Held(stack[1])
    BY <2>1, <1>1, <1>2, Opens
  <2>2. CASE at' \in New
    BY <2>2 DEF Preds, New
  <2> QED  BY <1>6, <2>1, <2>2
<1>9. ASSUME NEW b \in New \ ({at'} \cup Held(g))
      PROVE  b \in Dead'
  <2>1. b \in Blocks' /\ b \notin Blocks /\ b \notin OpenIn(stack')
    BY <1>1, <1>2, <1>3, <1>9, Opens DEF New
  <2>2. EndsBlock(code'[b])
    BY <1>1, <1>9, <2>1 DEF Orderly
  <2>3. ~Silent
    BY <2>1 DEF Silent
  <2>4. code'[b] = <<>> \/ code'[b] = <<Plain>> \/ code'[b] = <<Plain, Unreachable>>
    BY <1>1, <2>1, <2>3 DEF Proceeds, Quietly, Writes, Effect
  <2>5. /\ ~EndsBlock(<<>>) /\ ~EndsBlock(<<Plain>>)
        /\ <<Plain, Unreachable>>[Len(<<Plain, Unreachable>>)].op = "unreachable"
        /\ <<Plain, Unreachable>> # <<>>
    BY DEF EndsBlock, Plain, Unreachable, Instr, Terminators
  <2>6. code'[b] # <<>> /\ code'[b][Len(code'[b])].op = "unreachable"
    BY <2>2, <2>4, <2>5
  <2> QED  BY <2>1, <2>6 DEF Dead
<1>10. T \subseteq Blocks'
  <2>1. CASE Loops(T)
    <3>1. Top("LoopEnd")
      BY <1>2, <2>1, LastStep DEF Loops, Top
    <3> QED  BY <1>1, <1>2, <2>1, <3>1, HeldRunning DEF Loops
  <2>2. CASE T \subseteq {at'} \cup Held(g) \cup New
    BY <1>2, <1>3, <1>5, <2>2 DEF New
  <2> QED  BY <2>1, <2>2 DEF Moves
<1> QED  BY <1>2, <1>3, <1>4, <1>5, <1>6, <1>7, <1>8, <1>9, <1>10

-----------------------------------------------------------------------------
(* Loops nest. *)

\* The first blocks of the loops under way.
Heads == {stack[i].back : i \in DOMAIN stack}

\* A visitor's loop begins before the blocks that it keeps, and from its head on no
\* block is the target of an older one: the body of a loop is entered by its head.
Inner(h) == h <= at /\ \A c \in Blocks : c > h => \A a \in Preds(c) : h <= a

\* What a visitor says that it keeps, it keeps in order; and where the walk goes on by
\* itself something has branched to.
Keeping(f) ==
    /\ \A b \in Held(f) : f.back < b
    /\ f.back # 0 => Inner(f.back)
    /\ \A b \in Awaits(f) : Preds(b) # {}

\* The same after a step.
InnerNext(h) == h <= at' /\ \A c \in Blocks' : c > h => \A a \in Preds(c)' : h <= a
KeepingNext(f) ==
    /\ \A b \in Held(f) : f.back < b
    /\ f.back # 0 => InnerNext(f.back)
    /\ \A b \in Awaits(f) : Preds(b)' # {}

\* The first part of the invariant.
LoopsNest == Stacked(stack) /\ \A i \in DOMAIN stack : Keeping(stack[i])

\* The frames after a step that does not move.
LEMMA StillFrames ==
    ASSUME TypeOK, Still
    PROVE  /\ \A i \in DOMAIN stack' :
                 Rests(stack'[i]) \/ \E j \in DOMAIN stack : stack'[i] = stack[j]
           /\ Stacked(stack) => Stacked(stack')
<1>1. CASE stack' = stack
  BY <1>1
<1>2. CASE stack # <<>> /\ Pushes(Stmt)
  <2>1. \A j \in 2 .. Len(stack) : j \in DOMAIN stack
    BY DEF TypeOK
  <2>2. Rests(Stmt) /\ \A f : Above(Stmt, f)
    BY RestRules
  <2> QED  BY <1>2, <2>1, <2>2, PushRules
<1> QED  BY <1>1, <1>2 DEF Still

\* The numbers in a stack.
LEMMA NumbersKnown ==
    ASSUME TypeOK
    PROVE  /\ \A i \in DOMAIN stack : /\ stack[i].back \in 0 .. nblocks
                                      /\ Held(stack[i]) \subseteq Blocks
                                      /\ Numbers(stack[i]) \subseteq Blocks
                                      /\ stack[i].back \in Nat
           /\ stack # <<>> => 1 \in DOMAIN stack
           /\ \A j \in 2 .. Len(stack) : j \in DOMAIN stack /\ j # 1 /\ 1 < j
           /\ nblocks \in Nat /\ \A b \in Blocks : b \in Nat /\ b # 0 /\ b <= nblocks
<1>1. nblocks \in Nat /\ stack \in Seq(Frames(nblocks))
  BY DEF TypeOK
<1>2. ASSUME NEW i \in DOMAIN stack
      PROVE  /\ stack[i].back \in 0 .. nblocks /\ stack[i].back \in Nat
             /\ Held(stack[i]) \subseteq Blocks
             /\ Numbers(stack[i]) \subseteq Blocks
  <2>1. stack[i] \in Frames(nblocks)
    BY <1>1
  <2>2. stack[i].back \in 0 .. nblocks /\ stack[i].open \in Seq(Blocks)
    BY <2>1 DEF Frames, Blocks
  <2>3. Held(stack[i]) \subseteq Blocks
    BY <2>2 DEF Held
  <2>4. stack[i].back \in Nat /\ (stack[i].back # 0 => stack[i].back \in Blocks)
    BY <1>1, <2>2 DEF Blocks
  <2> QED  BY <2>2, <2>3, <2>4 DEF Numbers
<1>3. stack # <<>> => 1 \in DOMAIN stack
  BY <1>1, EmptySeq
<1>4. \A j \in 2 .. Len(stack) : j \in DOMAIN stack /\ j # 1 /\ 1 < j
  BY <1>1
<1>5. \A b \in Blocks : b \in Nat /\ b # 0 /\ b <= nblocks
  BY <1>1 DEF Blocks
<1> QED  BY <1>1, <1>2, <1>3, <1>4, <1>5

\* A new block has a higher number than all before it.
LEMMA NewNumbers ==
    ASSUME TypeOK, TypeOK', NEW b \in New
    PROVE  b \in Nat /\ \A a \in 0 .. nblocks : a < b
<1>1. nblocks \in Nat /\ nblocks' \in Nat /\ b \in 1 .. nblocks' /\ b \notin 1 .. nblocks
  BY DEF TypeOK, New, Blocks
<1> QED  BY <1>1

\* The new visitor's blocks are newer than those of the visitors around it.
LEMMA MoveAbove ==
    ASSUME Flowing, Next, Stacked(stack), NEW g, NEW T, Moves(g, T)
    PROVE  /\ \A j \in 2 .. Len(stack) : Above(g, stack[j])
           /\ \A a \in Numbers(g) : a \in Numbers(stack[1]) \cup New
<1>1. TypeOK /\ TypeOK' /\ stack # <<>> /\ Keeps(g, T)
  BY Step DEF Flowing, Moves
<1>2. at' = nblocks + 1 => at' \in New
  BY <1>1 DEF New, Blocks, TypeOK
<1>3. \A a \in Numbers(g) : a \in Numbers(stack[1]) \cup New
  BY <1>1, <1>2 DEF Keeps, Numbers, New, Blocks
<1>4. ASSUME NEW j \in 2 .. Len(stack), NEW a \in Numbers(g), NEW b \in Numbers(stack[j])
      PROVE  b < a
  <2>1. j \in DOMAIN stack /\ 1 \in DOMAIN stack /\ 1 < j
    BY <1>1, NumbersKnown
  <2>2. CASE a \in Numbers(stack[1])
    BY <2>1, <2>2 DEF Stacked, Above
  <2>3. CASE a \in New
    <3>1. b \in Blocks
      BY <1>1, <2>1, NumbersKnown
    <3>2. b \in 0 .. nblocks
      BY <3>1, <1>1, NumbersKnown DEF Blocks
    <3> QED  BY <1>1, <2>3, <3>2, NewNumbers
  <2> QED  BY <1>3, <2>2, <2>3
<1> QED  BY <1>3, <1>4 DEF Above

\* A loop under way stays closed from above.
LEMMA InnerMoves ==
    ASSUME Flowing, Next, LoopsNest, NEW g, NEW T, Moves(g, T), NEW j \in DOMAIN stack,
           NEW h, h = stack[j].back, h # 0
    PROVE  InnerNext(h)
<1>1. /\ TypeOK /\ TypeOK' /\ stack # <<>> /\ Adds(T) /\ h \in Blocks /\ h \in Nat
      /\ at \in Nat /\ nblocks \in Nat /\ h \in 0 .. nblocks /\ at' \in Nat /\ at' # 0
  <2>1. TypeOK /\ TypeOK' /\ stack # <<>> /\ Adds(T)
    BY Step DEF Flowing, Moves
  <2>2. h \in 0 .. nblocks /\ h \in Nat /\ nblocks \in Nat
    BY <2>1, NumbersKnown
  <2>3. at \in Nat /\ at' \in Nat /\ at' # 0
    BY <2>1 DEF TypeOK, Blocks
  <2> QED  BY <2>1, <2>2, <2>3 DEF Blocks
<1>2. Inner(h) /\ \A b \in Held(stack[j]) : h < b
  BY DEF LoopsNest, Keeping
<1>3. h <= at'
  <2>1. at' \in Held(stack[1]) \cup New
    BY MoveFacts
  <2>2. CASE at' \in New
    BY <1>1, <2>2, NewNumbers
  <2>3. CASE at' \in Held(stack[1]) /\ j = 1
    BY <1>1, <1>2, <2>3
  <2>4. CASE at' \in Held(stack[1]) /\ j # 1
    <3>1. 1 \in DOMAIN stack /\ 1 < j
      BY <1>1, <2>4, NumbersKnown DEF TypeOK
    <3>3. h \in Numbers(stack[j]) /\ at' \in Numbers(stack[1])
      BY <2>4, <1>1 DEF Numbers
    <3>4. h < at'
      BY <3>1, <3>3 DEF LoopsNest, Stacked, Above
    <3> QED  BY <1>1, <3>4
  <2> QED  BY <2>1, <2>2, <2>3, <2>4
<1>4. ASSUME NEW c \in Blocks', c > h, NEW a \in Preds(c)'
      PROVE  h <= a
  <2>1. a \in Preds(c) \/ a = at
    BY <1>1, <1>4 DEF Adds
  <2>2. CASE a \in Preds(c)
    <3>1. c \in Blocks
      BY <1>1, <2>2, NoPreds
    <3> QED  BY <1>2, <1>4, <2>2, <3>1 DEF Inner
  <2> QED  BY <1>2, <2>1, <2>2 DEF Inner
<1>5. \A c \in Blocks' : c > h => \A a \in Preds(c)' : h <= a
  BY <1>4
<1> QED  BY <1>3, <1>5 DEF InnerNext

\* So does what else a visitor keeps.
LEMMA KeepingMoves ==
    ASSUME Flowing, Next, LoopsNest, NEW g, NEW T, Moves(g, T)
    PROVE  LoopsNest'
<1>1. /\ TypeOK /\ TypeOK' /\ stack # <<>> /\ Adds(T) /\ Keeps(g, T) /\ Pushes(g)
      /\ Blocks \subseteq Blocks'
  BY Step, MoveFacts DEF Flowing, Moves
<1>2. Stacked(stack')
  BY <1>1, MoveAbove, PushRules DEF LoopsNest
<1>3. \A b : Preds(b) # {} => Preds(b)' # {}
  BY <1>1 DEF Adds
<1>4. ASSUME NEW j \in DOMAIN stack
      PROVE  KeepingNext(stack[j])
  <2>1. Keeping(stack[j])
    BY DEF LoopsNest
  <2>2. stack[j].back # 0 => InnerNext(stack[j].back)
    BY InnerMoves
  <2> QED  BY <1>3, <2>1, <2>2 DEF Keeping, KeepingNext
<1>5. 1 \in DOMAIN stack /\ Keeping(stack[1]) /\ stack[1].back \in 0 .. nblocks
  BY <1>1, NumbersKnown DEF LoopsNest
<1>6. \A b \in Held(g) : g.back < b
  <2> SUFFICES ASSUME NEW b \in Held(g)
               PROVE  g.back < b
    OBVIOUS
  <2>1. CASE g.back = at' /\ \A c \in Held(g) : at' < c
    BY <2>1
  <2>2. CASE g.back \in {0, stack[1].back} /\ b \in New
    <3>1. g.back \in 0 .. nblocks
      <4>1. nblocks \in Nat
        BY <1>1 DEF TypeOK
      <4>2. 0 \in 0 .. nblocks
        BY <4>1
      <4> QED  BY <1>5, <2>2, <4>2
    <3> QED  BY <1>1, <2>2, <3>1, NewNumbers
  <2>3. CASE g.back \in {0, stack[1].back} /\ b \in Held(stack[1])
    <3>1. b \in Blocks
      BY <1>1, <1>5, <2>3, NumbersKnown
    <3>2. b \in Nat /\ b # 0 /\ stack[1].back < b
      BY <1>1, <1>5, <2>3, <3>1, NumbersKnown DEF Keeping
    <3> QED  BY <2>3, <3>2
  <2> QED  BY <1>1, <2>1, <2>2, <2>3 DEF Keeps
<1>7. ASSUME g.back # 0
      PROVE  InnerNext(g.back)
  <2>1. CASE g.back = stack[1].back
    BY <1>4, <1>5, <1>7, <2>1 DEF KeepingNext
  <2>2. CASE g.back = at' /\ at' = nblocks + 1 /\ T = {at'}
    <3>1. ASSUME NEW c \in Blocks', c > at'
          PROVE  Preds(c)' = {}
      <4>1. c \notin Blocks /\ c # at'
        <5>1. nblocks \in Nat /\ c \in 1 .. nblocks'
          BY <1>1, <3>1 DEF TypeOK, Blocks
        <5>2. c \in Int /\ c > nblocks + 1
          BY <2>2, <3>1, <5>1
        <5>3. c \notin 1 .. nblocks /\ c # nblocks + 1
          BY <5>1, <5>2
        <5> QED  BY <2>2, <5>3 DEF Blocks
      <4>2. Preds(c) = {}
        BY <1>1, <4>1, NoPreds
      <4> QED  BY <1>1, <2>2, <4>1, <4>2 DEF Adds
    <3>2. at' <= at'
      BY <1>1 DEF TypeOK, Blocks
    <3> QED  BY <2>2, <3>1, <3>2 DEF InnerNext
  <2> QED  BY <1>1, <1>7, <2>1, <2>2 DEF Keeps
<1>8. KeepingNext(g)
  <2>1. \A b \in Awaits(g) : Preds(b)' # {}
    BY <1>1, <1>4, <1>5 DEF Keeps, Adds, KeepingNext
  <2> QED  BY <2>1, <1>6, <1>7 DEF KeepingNext
<1>9. \A f : Rests(f) => KeepingNext(f)
  BY RestRules DEF KeepingNext, Rests
<1>10. ASSUME NEW i \in DOMAIN stack'
       PROVE  KeepingNext(stack'[i])
  <2>1. \/ Rests(stack'[i])
        \/ stack'[i] = g
        \/ \E j \in 2 .. Len(stack) : stack'[i] = stack[j]
    BY <1>1, PushRules
  <2>2. \A j \in 2 .. Len(stack) : j \in DOMAIN stack
    BY <1>1, NumbersKnown
  <2> QED  BY <1>4, <1>8, <1>9, <2>1, <2>2
<1> QED  BY <1>2, <1>10 DEF LoopsNest, Keeping, KeepingNext, Inner, InnerNext

\* A step that does not move keeps the nesting.
LEMMA KeepingStays ==
    ASSUME TypeOK, LoopsNest, Still
    PROVE  LoopsNest'
<1>1. /\ at' = at /\ Blocks' = Blocks /\ \A b : Preds(b)' = Preds(b)
  BY DEF Still
<1>2. \A f : Keeping(f) => KeepingNext(f)
  BY <1>1 DEF Keeping, KeepingNext, Inner, InnerNext
<1>3. \A f : Rests(f) => KeepingNext(f)
  BY RestRules DEF KeepingNext, Rests
<1>4. \A i \in DOMAIN stack' : KeepingNext(stack'[i])
  BY <1>2, <1>3, StillFrames DEF LoopsNest
<1>5. Stacked(stack')
  BY StillFrames DEF LoopsNest
<1> QED  BY <1>4, <1>5 DEF LoopsNest, Keeping, KeepingNext, Inner, InnerNext

\* So does every step.
LEMMA NestStep ==
    ASSUME Flowing, LoopsNest, Next
    PROVE  LoopsNest'
BY StepMoves, KeepingMoves, KeepingStays DEF Flowing

-----------------------------------------------------------------------------
(* The branches back to the heads of loops. *)

\* The blocks X are entered from the block h only, and the walk is done with them.
Enclosed(X, h) ==
    /\ X \subseteq Blocks /\ Entry \notin X
    /\ X \cap ({at} \cup OpenIn(stack) \cup Heads) = {}
    /\ \A c \in X : Preds(c) \subseteq X \cup {h}

\* The block a lies in the loop of h.
Back(a, h) == \E X : Enclosed(X, h) /\ a \in X \cup {h}

\* The same after a step.
EnclosedNext(X, h) ==
    /\ X \subseteq Blocks' /\ Entry \notin X
    /\ X \cap ({at'} \cup OpenIn(stack') \cup Heads') = {}
    /\ \A c \in X : Preds(c)' \subseteq X \cup {h}
BackNext(a, h) == \E X : EnclosedNext(X, h) /\ a \in X \cup {h}

\* Only the block where the walk goes on becomes the head of a loop.
LEMMA HeadsAfter ==
    ASSUME Flowing, Next
    PROVE  Heads' \subseteq Heads \cup {0, at'}
<1>1. /\ TypeOK /\ Heads' = {stack'[i].back : i \in DOMAIN stack'}
      /\ \A f : Rests(f) => f.back = 0
  BY DEF Flowing, Heads, Rests
<1>2. CASE Still
  BY <1>1, <1>2, StillFrames DEF Heads
<1>3. ASSUME NEW g, NEW T, Moves(g, T)
      PROVE  Heads' \subseteq Heads \cup {0, at'}
  <2>1. /\ stack # <<>> /\ 1 \in DOMAIN stack /\ \A j \in 2 .. Len(stack) : j \in DOMAIN stack
    BY <1>1, <1>3, NumbersKnown DEF Moves
  <2>2. g.back \in {0, stack[1].back, at'} /\ Pushes(g)
    BY <1>3 DEF Moves, Keeps
  <2>3. \A i \in DOMAIN stack' : \/ Rests(stack'[i])
                                 \/ stack'[i] = g
                                 \/ \E j \in 2 .. Len(stack) : stack'[i] = stack[j]
    BY <1>1, <2>1, <2>2, PushRules
  <2>4. ASSUME NEW i \in DOMAIN stack'
        PROVE  stack'[i].back \in Heads \cup {0, at'}
    BY <1>1, <2>1, <2>2, <2>3 DEF Heads
  <2> QED  BY <1>1, <2>4
<1> QED  BY <1>2, <1>3, StepMoves

\* What is enclosed stays so.
LEMMA EnclosedStays ==
    ASSUME Flowing, Next, NEW X, NEW h, Enclosed(X, h)
    PROVE  EnclosedNext(X, h)
<1>1. /\ TypeOK /\ VisitorsOwnTheirBlocks /\ Orderly /\ Proceeds
  BY Step, FlowingStep DEF Flowing
<1>2. PICK T \in SUBSET Ahead : \A b :
         Preds(b)' = Preds(b) \cup (IF b \in T THEN {at} ELSE {})
  BY <1>1, EdgesStep
<1>3. X \cap T = {}
  <2>1. ASSUME stack # <<>>
        PROVE  Held(stack[1]) \subseteq OpenIn(stack) /\ stack[1].back \in Heads
    BY <1>1, <2>1, Opens, NumbersKnown DEF Heads
  <2> QED  BY <1>2, <2>1 DEF Ahead, Enclosed
<1>4. \A c \in X : Preds(c)' \subseteq X \cup {h}
  BY <1>2, <1>3 DEF Enclosed
<1>5. X \subseteq Blocks' /\ at' \notin X
  BY <1>1 DEF Enclosed, Orderly
<1>6. X \cap OpenIn(stack') = {}
  BY <1>1 DEF Enclosed, Orderly
<1>7. 0 \notin X
  BY <1>1, NumbersKnown DEF Enclosed
<1>8. X \cap Heads' = {}
  BY <1>5, <1>7, HeadsAfter DEF Enclosed
<1> QED  BY <1>4, <1>5, <1>6, <1>8 DEF Enclosed, EnclosedNext

\* A branch back stays one.
LEMMA BackStays ==
    ASSUME Flowing, Next
    PROVE  \A a, h : Back(a, h) => BackNext(a, h)
BY EnclosedStays DEF Back, BackNext

\* The end of a loop closes it: everything after its head but the join block.
LEMMA LoopCloses ==
    ASSUME Flowing, LoopsNest, Next, NEW g, NEW T, Moves(g, T), Loops(T)
    PROVE  BackNext(at, stack[1].back)
<1> DEFINE f == stack[1]
           h == f.back
           X == {b \in Blocks : b > h} \ {at'}
<1>1. /\ TypeOK /\ VisitorsOwnTheirBlocks /\ TypeOK' /\ stack # <<>> /\ f.k = "LoopEnd"
      /\ Blocks' = Blocks /\ Held(f) = {at'} /\ T = {h} /\ Adds(T) /\ at # at'
      /\ 1 \in DOMAIN stack /\ Keeps(g, T) /\ Pushes(g)
  <2>1. TypeOK /\ VisitorsOwnTheirBlocks /\ TypeOK' /\ stack # <<>>
    BY Step DEF Flowing, Moves
  <2>2. 1 \in DOMAIN stack
    BY <2>1, NumbersKnown
  <2> QED  BY <2>1, <2>2 DEF Moves, Loops
<1>2. h \in Blocks /\ h \in Nat /\ at \in Blocks /\ at \in Nat
  <2>1. Top("LoopEnd")
    BY <1>1, LastStep DEF Top
  <2>2. h \in Blocks
    BY <1>1, <2>1, HeldRunning
  <2> QED  BY <1>1, <2>2, NumbersKnown DEF TypeOK
<1>3. Inner(h)
  BY <1>1, <1>2, NumbersKnown DEF LoopsNest, Keeping
<1>4. \A b \in Blocks : b \in Nat /\ b # 0
  BY <1>1, NumbersKnown
<1>5. Entry \notin X
  BY <1>2, <1>4 DEF Entry
<1>0. \A x \in X : x \in Nat /\ x # 0 /\ x > h /\ ~(x < h) /\ x # h
  BY <1>2, <1>4
<1>6. ASSUME NEW j \in 2 .. Len(stack), NEW b \in Numbers(stack[j])
      PROVE  b < h
  <2>1. j \in DOMAIN stack /\ 1 < j
    BY <1>1, NumbersKnown
  <2>2. h \in Numbers(f)
    BY <1>2, <1>4 DEF Numbers
  <2>3. Above(f, stack[j])
    BY <1>1, <2>1 DEF LoopsNest, Stacked
  <2> QED  BY <2>2, <2>3 DEF Above
<1>7. /\ Held(g) \subseteq {at'} /\ g.back \in {0, h, at'}
  <2>1. New = {}
    BY <1>1 DEF New
  <2> QED  BY <1>1, <2>1 DEF Keeps
<1>8. X \cap (OpenIn(stack') \cup Heads') = {}
  <2>1. \A i \in DOMAIN stack' : \/ Rests(stack'[i])
                                 \/ stack'[i] = g
                                 \/ \E j \in 2 .. Len(stack) : stack'[i] = stack[j]
    BY <1>1, PushRules
  <2>2. ASSUME NEW i \in DOMAIN stack', NEW x \in Held(stack'[i]) \cup {stack'[i].back}
        PROVE  x \notin X
    <3>1. CASE Rests(stack'[i])
      BY <1>4, <2>2, <3>1, RestRules DEF Rests
    <3>2. CASE stack'[i] = g
      <4>1. x \in {0, h, at'}
        BY <1>7, <2>2, <3>2
      <4> QED  BY <1>2, <1>4, <4>1
    <3>3. ASSUME NEW j \in 2 .. Len(stack), stack'[i] = stack[j]
          PROVE  x \notin X
      <4>1. x = 0 \/ x \in Numbers(stack[j])
        BY <2>2, <3>3 DEF Numbers
      <4>2. x \in Numbers(stack[j]) => x < h
        BY <1>6
      <4> HIDE DEF X, h
      <4> QED  BY <1>0, <4>1, <4>2
    <3> QED  BY <2>1, <3>1, <3>2, <3>3
  <2>3. /\ Heads' = {stack'[i].back : i \in DOMAIN stack'}
        /\ OpenIn(stack') = UNION {Held(stack'[i]) : i \in DOMAIN stack'}
    BY DEF Heads, OpenIn
  <2> HIDE DEF X
  <2> QED  BY <2>2, <2>3
<1>9. ASSUME NEW c \in X
      PROVE  Preds(c)' \subseteq X \cup {h}
  <2>1. Preds(c)' = Preds(c)
    <3>1. c \notin T
      BY <1>0, <1>1, <1>9
    <3> QED  BY <1>1, <3>1 DEF Adds
  <2>2. ASSUME NEW a \in Preds(c)
        PROVE  a \in X \cup {h}
    <3>1. a \in Blocks /\ a \in Nat
      BY <1>4 DEF Preds
    <3>2. h <= a
      BY <1>3, <1>9 DEF Inner
    <3>3. a # at'
      BY MoveFacts
    <3> QED  BY <1>2, <3>1, <3>2, <3>3
  <2> QED  BY <2>1, <2>2
<1>10. at \in X \cup {h}
  BY <1>1, <1>2, <1>3 DEF Inner
<1>11. X \subseteq Blocks' /\ at' \notin X
  BY <1>1
<1> HIDE DEF X, h
<1>12. EnclosedNext(X, h)
  BY <1>5, <1>8, <1>9, <1>11 DEF EnclosedNext
<1> QED  BY <1>10, <1>12 DEF BackNext, h

-----------------------------------------------------------------------------
(* The order in which the walk comes to the blocks. *)

\* No return but in the block where the walk is.
Unreturned == \A b \in Blocks \ {at} : \A x \in ToSet(code[b]) : x.op # "ret"

\* The blocks that are not held have ranks that rise along every edge but those back to
\* the head of a loop; and without a return each has an edge from a lower rank.
Rising(r) ==
    /\ \A c \in Blocks : \A a \in Preds(c) :
          c \in OpenIn(stack) \/ r[a] < r[c] \/ Back(a, c)
    /\ Unreturned =>
          \A c \in Blocks \ (OpenIn(stack) \cup {Entry}) :
             \E a \in Preds(c) : r[a] < r[c]
Ranked == \E t \in Nat : \E r \in [Blocks -> 0 .. t] : Rising(r)

\* The same after a step.
RisingNext(r) ==
    /\ \A c \in Blocks' : \A a \in Preds(c)' :
          c \in OpenIn(stack') \/ r[a] < r[c] \/ BackNext(a, c)
    /\ Unreturned' =>
          \A c \in Blocks' \ (OpenIn(stack') \cup {Entry}) :
             \E a \in Preds(c)' : r[a] < r[c]

\* Ranks for the state after the step are what the invariant asks for there.
LEMMA RankedNext ==
    ASSUME NEW t \in Nat, NEW r \in [Blocks' -> 0 .. t], RisingNext(r)
    PROVE  Ranked'
<1>1. \A a, c : Back(a, c)' <=> BackNext(a, c)
  BY DEF Back, BackNext, Enclosed, EnclosedNext
<1> QED  BY <1>1 DEF Ranked, Rising, RisingNext, Entry

\* Blocks that the walk left keep what they have.
LEMMA LeftAlone ==
    ASSUME Flowing, Next, NEW b \in Blocks \ {at}, code[b] # <<>>
    PROVE  /\ b \in Blocks' /\ b # at'
           /\ code'[b] # <<>> /\ code'[b][Len(code'[b])] = code[b][Len(code[b])]
           /\ ToSet(code[b]) \subseteq ToSet(code'[b])
<1>1. /\ TypeOK /\ VisitorsOwnTheirBlocks /\ Orderly
  BY Step DEF Flowing
<1>2. b \notin OpenIn(stack)
  BY <1>1 DEF VisitorsOwnTheirBlocks
<1>3. b \in Blocks' /\ b # at' /\ (code'[b] = code[b] \/ code'[b] = PutFront(code[b]))
  BY <1>1, <1>2 DEF Orderly, Same
<1>4. code[b] \in Seq(Instrs(nblocks)) /\ <<Plain>> \in Seq(Instrs(nblocks))
  BY <1>1, InstrTypes DEF TypeOK
<1>5. CASE code'[b] = code[b]
  BY <1>3, <1>5
<1>6. CASE code'[b] = <<Plain>> \o code[b]
  <2> DEFINE s == code[b]
             t == <<Plain>> \o s
  <2>1. Len(<<Plain>>) = 1 /\ Len(s) \in Nat /\ Len(s) # 0 /\ s # <<>>
    BY <1>4, EmptySeq
  <2>2. /\ t \in Seq(Instrs(nblocks)) /\ Len(t) = Len(s) + 1
        /\ \A j \in 1 .. Len(t) : t[j] = IF j <= 1 THEN <<Plain>>[j] ELSE s[j - 1]
    BY <1>4, <2>1, ConcatProperties
  <2> HIDE DEF s, t
  <2>3. Len(t) \in 1 .. Len(t) /\ ~(Len(t) <= 1) /\ Len(t) - 1 = Len(s)
    BY <2>1, <2>2
  <2>4. t[Len(t)] = s[Len(s)] /\ t # <<>>
    BY <2>2, <2>3, EmptySeq
  <2>5. ToSet(PutFront(s)) = ToSet(s) \cup {Plain}
    BY <1>4, PutElements DEF s
  <2>6. CASE code'[b] = PutFront(s)
    BY <1>3, <1>6, <2>4, <2>5, <2>6 DEF s, t
  <2>7. CASE code'[b] = s
    BY <1>3, <2>1, <2>7 DEF s
  <2> QED  BY <1>3, <2>6, <2>7 DEF s
<1> QED  BY <1>3, <1>5, <1>6 DEF PutFront

\* A return that is left behind stays.
LEMMA UnreturnedBefore ==
    ASSUME Flowing, Next, Unreturned'
    PROVE  Unreturned
<1> SUFFICES ASSUME NEW b \in Blocks \ {at}, NEW x \in ToSet(code[b])
             PROVE  x.op # "ret"
  BY DEF Unreturned
<1>1. code[b] # <<>>
  BY DEF ToSet
<1>2. b \in Blocks' /\ b # at' /\ x \in ToSet(code'[b])
  BY <1>1, LeftAlone
<1> QED  BY <1>2 DEF Unreturned

\* A move without an edge leaves a block that returned.
LEMMA MoveReturned ==
    ASSUME Flowing, Next, NEW g, Moves(g, {})
    PROVE  at \in Rets' /\ ~Unreturned'
<1>1. /\ TypeOK /\ EndsBlock(code[at]) /\ code' = code /\ AtOpen /\ phase = "emit"
  BY LastStep DEF Flowing, CodeRuns, Moves
<1>2. code[at] # <<>> /\ code[at][Len(code[at])].op = "ret"
  BY <1>1 DEF AtOpen, EndsBlock
<1>3. at \in Blocks' /\ at # at'
  BY MoveFacts
<1>4. at \in Rets'
  BY <1>1, <1>2, <1>3 DEF Rets
<1>5. code[at][Len(code[at])] \in ToSet(code[at])
  <2>1. code[at] \in Seq(Instrs(nblocks))
    BY <1>1 DEF TypeOK
  <2>2. Len(code[at]) \in DOMAIN code[at]
    BY <1>2, <2>1, EmptySeq
  <2> QED  BY <2>2 DEF ToSet
<1> QED  BY <1>1, <1>2, <1>3, <1>4, <1>5 DEF Unreturned

\* A step that does not move keeps the ranks.
LEMMA RanksStay ==
    ASSUME Flowing, Ranked, Next, Still
    PROVE  Ranked'
<1>1. PICK t \in Nat : \E r \in [Blocks -> 0 .. t] : Rising(r)
  BY DEF Ranked
<1>2. PICK r \in [Blocks -> 0 .. t] : Rising(r)
  BY <1>1
<1>3. Blocks' = Blocks /\ OpenIn(stack') = OpenIn(stack) /\ \A b : Preds(b)' = Preds(b)
  BY DEF Still
<1>4. \A a, c : Back(a, c) => BackNext(a, c)
  BY BackStays
<1>5. Unreturned' => Unreturned
  BY UnreturnedBefore
<1>6. RisingNext(r)
  BY <1>2, <1>3, <1>4, <1>5 DEF Rising, RisingNext
<1> QED  BY <1>3, <1>6, RankedNext

\* The block where the walk goes on, and the new ones, come after all others.
LEMMA RanksMove ==
    ASSUME Flowing, LoopsNest, Ranked, Next, NEW g, NEW T, Moves(g, T)
    PROVE  Ranked'
<1>1. PICK t \in Nat : \E q \in [Blocks -> 0 .. t] : Rising(q)
  BY DEF Ranked
<1>2. PICK q \in [Blocks -> 0 .. t] : Rising(q)
  BY <1>1
<1> DEFINE r == [b \in Blocks' |-> IF b \in New \cup {at'} THEN t + 1 ELSE q[b]]
<1>3. /\ TypeOK /\ TypeOK' /\ stack # <<>> /\ Adds(T) /\ Blocks \subseteq Blocks' /\ at \in Blocks
      /\ at' \in Blocks' /\ at # at'
  BY Step, MoveFacts DEF Flowing, Moves
<1>4. /\ t + 1 \in Nat /\ r \in [Blocks' -> 0 .. t + 1]
      /\ \A b \in New \cup {at'} : b \in Blocks' /\ r[b] = t + 1
      /\ \A b \in Blocks \ {at'} : r[b] = q[b] /\ q[b] \in Nat /\ q[b] < t + 1
  <2>1. \A b \in Blocks : q[b] \in 0 .. t /\ b \notin New
    BY DEF New
  <2>2. New \subseteq Blocks' /\ \A b \in Blocks' \ New : b \in Blocks
    BY DEF New
  <2> QED  BY <1>3, <2>1, <2>2
<1> HIDE DEF r
<1>5. \A c : at' \notin Preds(c)
  BY MoveFacts
<1>6. ASSUME NEW c, NEW a \in Preds(c)
      PROVE  c \in Blocks /\ a \in Blocks /\ a # at'
  BY <1>3, <1>5, NoPreds DEF Preds
<1>7. OpenIn(stack') = Held(g) \cup OpenIn(Tail(stack)) /\ OpenIn(stack) \subseteq {at'} \cup OpenIn(stack')
  BY MoveFacts
<1>8. ASSUME NEW c \in Blocks', NEW a \in Preds(c)'
      PROVE  c \in OpenIn(stack') \/ r[a] < r[c] \/ BackNext(a, c)
  <2>1. CASE a \in Preds(c)
    <3>1. c \in Blocks /\ a \in Blocks /\ a # at'
      BY <1>6, <2>1
    <3>2. CASE c = at'
      BY <1>4, <3>1, <3>2
    <3>3. CASE c # at'
      <4>1. c \in OpenIn(stack) \/ q[a] < q[c] \/ Back(a, c)
        BY <1>2, <2>1, <3>1 DEF Rising
      <4>2. Back(a, c) => BackNext(a, c)
        BY BackStays
      <4> QED  BY <1>4, <1>7, <3>1, <3>3, <4>1, <4>2
    <3> QED  BY <3>2, <3>3
  <2>2. CASE a \notin Preds(c)
    <3>1. a = at /\ c \in T
      BY <1>3, <1>8, <2>2 DEF Adds
    <3>2. CASE Loops(T)
      <4>1. c = stack[1].back
        BY <3>1, <3>2 DEF Loops
      <4> QED  BY <3>1, <3>2, <4>1, LoopCloses
    <3>3. CASE T \subseteq {at'} \cup Held(g) \cup New
      <4>1. c \in Held(g) \/ c \in New \cup {at'}
        BY <3>1, <3>3
      <4> QED  BY <1>3, <1>4, <1>7, <3>1, <4>1
    <3> QED  BY <3>2, <3>3 DEF Moves
  <2> QED  BY <2>1, <2>2
<1>9. ASSUME Unreturned', NEW c \in Blocks' \ (OpenIn(stack') \cup {Entry})
      PROVE  \E a \in Preds(c)' : r[a] < r[c]
  <2>1. T # {} /\ Unreturned
    BY <1>9, UnreturnedBefore, MoveReturned
  <2>2. CASE c \in T /\ c \in New \cup {at'}
    <3>1. at \in Preds(c)'
      BY <1>3, <2>2 DEF Adds
    <3> QED  BY <1>3, <1>4, <2>2, <3>1
  <2>3. CASE c = at' /\ c \notin T
    <3>1. 1 \in DOMAIN stack /\ c \in Awaits(stack[1])
      BY <1>3, <2>1, <2>3, NumbersKnown DEF Moves
    <3>2. PICK a : a \in Preds(c)
      BY <3>1 DEF LoopsNest, Keeping
    <3>3. a \in Blocks /\ a # at' /\ a \in Preds(c)'
      BY <1>3, <1>6, <3>2 DEF Adds
    <3> QED  BY <1>4, <2>3, <3>3
  <2>4. CASE c \in New /\ c # at'
    <3>1. c \in T
      BY <1>7, <1>9, <2>4 DEF Moves
    <3> QED  BY <2>2, <2>4, <3>1
  <2>5. CASE c \in Blocks /\ c # at'
    <3>1. c \in Blocks \ (OpenIn(stack) \cup {Entry})
      BY <1>7, <1>9, <2>5
    <3>2. PICK a \in Preds(c) : q[a] < q[c]
      BY <1>2, <2>1, <3>1 DEF Rising
    <3>3. a \in Blocks /\ a # at' /\ a \in Preds(c)'
      BY <1>3, <1>6 DEF Adds
    <3> QED  BY <1>4, <2>5, <3>2, <3>3
  <2> QED  BY <2>2, <2>3, <2>4, <2>5 DEF New
<1>10. RisingNext(r)
  BY <1>8, <1>9 DEF RisingNext
<1> QED  BY <1>4, <1>10, RankedNext

\* Every step has ranks again.
LEMMA RankedStep ==
    ASSUME Flowing, LoopsNest, Ranked, Next
    PROVE  Ranked'
BY StepMoves, RanksMove, RanksStay

-----------------------------------------------------------------------------
(* Where the code can end. *)

\* Blocks that end the function and that the walk has left.
Ends == (Rets \cup Dead) \ {at}

\* From the block x one comes to a block of G, or to an end: whatever holds x and all
\* that its blocks branch to holds one of them.
Onward(C) == \A c \in Blocks : Preds(c) \cap C # {} => c \in C
Leads(x, G) == \A C \in SUBSET Blocks : x \in C /\ Onward(C) => C \cap (G \cup Ends) # {}

\* From the head of a loop one comes to the block that the loop leaves to, once there is
\* one, and before to where the condition is under way.
Leaving(f) ==
    /\ f.k \in {"LoopEnd", "ForBodyEnd"} => Leads(f.back, {Exit(f)})
    /\ f.k \in {"WhileCond", "ForCond"} =>
          Leads(f.back, {at} \cup {b \in OpenIn(stack) \ Held(f) : b > f.back})

\* From every block one comes to one that the walk has not finished, or to an end.
Lives ==
    /\ \A b \in Blocks \ OpenIn(stack) : Leads(b, {at} \cup OpenIn(stack))
    /\ \A i \in DOMAIN stack : Leaving(stack[i])

\* The same after a step.
OnwardNext(C) == \A c \in Blocks' : Preds(c)' \cap C # {} => c \in C
LeadsNext(x, G) ==
    \A C \in SUBSET Blocks' : x \in C /\ OnwardNext(C) => C \cap (G \cup Ends') # {}
LeavingNext(f) ==
    /\ f.k \in {"LoopEnd", "ForBodyEnd"} => LeadsNext(f.back, {Exit(f)})
    /\ f.k \in {"WhileCond", "ForCond"} =>
          LeadsNext(f.back, {at'} \cup {b \in OpenIn(stack') \ Held(f) : b > f.back})

\* The primed forms are what the invariant asks for after the step.
LEMMA LivesNext ==
    ASSUME \A b \in Blocks' \ OpenIn(stack') : LeadsNext(b, {at'} \cup OpenIn(stack')),
           \A i \in DOMAIN stack' : LeavingNext(stack'[i])
    PROVE  Lives'
BY DEF Lives, Leaving, LeavingNext, Leads, LeadsNext, Onward, OnwardNext

\* What ends the function stays.
LEMMA EndsStay ==
    ASSUME Flowing, Next
    PROVE  Ends \subseteq Ends'
<1> SUFFICES ASSUME NEW b \in Ends
             PROVE  b \in Ends'
  OBVIOUS
<1>1. b \in Blocks \ {at} /\ code[b] # <<>>
  BY DEF Ends, Rets, Dead
<1>2. /\ b \in Blocks' /\ b # at' /\ code'[b] # <<>>
      /\ code'[b][Len(code'[b])] = code[b][Len(code[b])]
  BY <1>1, LeftAlone
<1> QED  BY <1>1, <1>2 DEF Ends, Rets, Dead

\* Where one came before, and from the insertion block on.
LEMMA LeadsOn ==
    ASSUME Flowing, Next, NEW x, NEW G, Leads(x, G), x \in Blocks, NEW H, G \ {at} \subseteq H,
           at \in G => LeadsNext(at, H)
    PROVE  LeadsNext(x, H)
<1> SUFFICES ASSUME NEW C \in SUBSET Blocks', x \in C, OnwardNext(C)
             PROVE  C \cap (H \cup Ends') # {}
  BY DEF LeadsNext
<1> DEFINE D == C \cap Blocks
<1>1. Blocks \subseteq Blocks' /\ TypeOK /\ Proceeds
  BY Step, FlowingStep DEF Flowing, Orderly
<1>2. PICK T \in SUBSET Ahead : \A b :
         Preds(b)' = Preds(b) \cup (IF b \in T THEN {at} ELSE {})
  BY <1>1, EdgesStep
<1>3. \A c : Preds(c) \subseteq Preds(c)'
  BY <1>2
<1>4. D \in SUBSET Blocks /\ x \in D /\ Onward(D)
  BY <1>1, <1>3 DEF Onward, OnwardNext
<1>5. PICK y : y \in D /\ y \in G \cup Ends
  BY <1>4 DEF Leads
<1>6. CASE y \in Ends
  BY <1>5, <1>6, EndsStay
<1>7. CASE y \in G /\ y # at
  BY <1>5, <1>7
<1>8. CASE y = at /\ at \in G
  BY <1>5, <1>8 DEF LeadsNext
<1> QED  BY <1>5, <1>6, <1>7, <1>8

\* A block of H leads to H.
LEMMA LeadsThere ==
    ASSUME NEW x, NEW H, x \in H
    PROVE  LeadsNext(x, H)
BY DEF LeadsNext

\* From the block that the step leaves to those it branches to.
LEMMA LeadsTo ==
    ASSUME Flowing, Next, NEW g, NEW T, Moves(g, T), NEW H, T \cap H # {}
    PROVE  LeadsNext(at, H)
<1>1. Adds(T) /\ T \subseteq Blocks'
  BY MoveFacts DEF Moves
<1>2. PICK y : y \in T /\ y \in H
  OBVIOUS
<1>3. y \in Blocks' /\ at \in Preds(y)'
  BY <1>1, <1>2 DEF Adds
<1> QED  BY <1>2, <1>3 DEF LeadsNext, OnwardNext

\* The running visitor of a loop's end knows where the loop leaves to.
LEMMA ExitHeld ==
    ASSUME TypeOK, VisitorsOwnTheirBlocks, NEW i \in DOMAIN stack,
           stack[i].k \in {"LoopEnd", "ForBodyEnd"}
    PROVE  Exit(stack[i]) \in Held(stack[i]) /\ Exit(stack[i]) # at
<1>1. stack[i] \in Frames(nblocks)
  BY DEF TypeOK
<1>2. stack[i].open \in Seq(1 .. nblocks) /\ Len(stack[i].open) \in {1, 2}
  BY <1>1 DEF Frames, FrameOK
<1>3. Len(stack[i].open) \in DOMAIN stack[i].open
  <2> DEFINE o == stack[i].open
  <2>1. DOMAIN o = 1 .. Len(o)
    BY <1>2, LenProperties
  <2>2. \A n \in {1, 2} : n \in 1 .. n
    OBVIOUS
  <2>3. Len(o) \in 1 .. Len(o)
    BY <1>2, <2>2
  <2> QED  BY <2>1, <2>3
<1>4. Exit(stack[i]) \in Held(stack[i])
  BY <1>3 DEF Exit, Held
<1> QED  BY <1>4, Opens

\* From the block that the step leaves to where the walk goes on, to a block that the new
\* visitor keeps, or to an end.
LEMMA LeadsAhead ==
    ASSUME Flowing, Lives, Next, NEW g, NEW T, Moves(g, T),
           NEW H, {at'} \cup Held(g) \subseteq H
    PROVE  LeadsNext(at, H)
<1>1. /\ TypeOK /\ VisitorsOwnTheirBlocks /\ at \in Blocks /\ at # at' /\ stack # <<>>
      /\ at' \in Blocks' /\ T \subseteq Blocks'
  BY MoveFacts DEF Flowing, Moves
<1>2. CASE T = {}
  <2>1. at \in Ends'
    BY <1>1, <1>2, MoveReturned DEF Ends
  <2> QED  BY <2>1 DEF LeadsNext
<1>3. CASE Loops(T)
  <2> DEFINE h == stack[1].back
  <2>1. Leads(h, {at'}) /\ h \in Blocks
    <3>1. stack[1].k = "LoopEnd" /\ Exit(stack[1]) = at' /\ Top("LoopEnd")
      BY <1>1, <1>3, LastStep DEF Loops, Top
    <3>2. 1 \in DOMAIN stack
      BY <1>1, NumbersKnown
    <3> QED  BY <1>1, <3>1, <3>2, HeldRunning DEF Lives, Leaving
  <2>2. LeadsNext(h, H)
    BY <1>1, <2>1, LeadsOn
  <2>3. LeadsNext(at, {h})
    BY <1>3, LeadsTo DEF Loops
  <2>4. ASSUME NEW C \in SUBSET Blocks', at \in C, OnwardNext(C)
        PROVE  C \cap (H \cup Ends') # {}
    <3>1. C \cap ({h} \cup Ends') # {}
      BY <2>3, <2>4 DEF LeadsNext
    <3> QED  BY <2>2, <2>4, <3>1 DEF LeadsNext
  <2> QED  BY <2>4 DEF LeadsNext
<1>4. CASE T # {} /\ T \subseteq {at'} \cup Held(g) \cup New
  <2>1. PICK y : y \in T
    BY <1>4
  <2>2. CASE y \in H
    BY <2>1, <2>2, LeadsTo
  <2>3. CASE y \notin H
    <3>1. y \in New \ ({at'} \cup Held(g))
      BY <1>4, <2>1, <2>3
    <3>2. y \in Ends'
      BY <3>1, MoveFacts DEF Ends
    <3>3. LeadsNext(at, {y})
      BY <2>1, LeadsTo
    <3>4. \A C : C \cap ({y} \cup Ends') # {} => C \cap (H \cup Ends') # {}
      BY <3>2
    <3> QED  BY <3>3, <3>4 DEF LeadsNext
  <2> QED  BY <2>2, <2>3
<1> QED  BY <1>2, <1>3, <1>4 DEF Moves

\* A step that moves keeps every block leading to an unfinished one or to an end.
LEMMA LivesMoves ==
    ASSUME Flowing, LoopsNest, Lives, Next, NEW g, NEW T, Moves(g, T)
    PROVE  Lives'
<1>1. /\ TypeOK /\ VisitorsOwnTheirBlocks /\ TypeOK' /\ VisitorsOwnTheirBlocks'
      /\ stack # <<>> /\ Keeps(g, T) /\ Pushes(g) /\ 1 \in DOMAIN stack
  <2>1. TypeOK /\ VisitorsOwnTheirBlocks /\ TypeOK' /\ VisitorsOwnTheirBlocks' /\ stack # <<>>
    BY Step DEF Flowing, Moves
  <2> QED  BY <2>1, NumbersKnown DEF Moves
<1>2. /\ Blocks \subseteq Blocks' /\ at' \notin OpenIn(stack')
      /\ OpenIn(stack') = Held(g) \cup OpenIn(Tail(stack))
      /\ OpenIn(stack) \subseteq {at'} \cup OpenIn(stack')
      /\ \A b \in New \ ({at'} \cup Held(g)) : b \in Dead'
  BY MoveFacts
<1>3. ASSUME NEW b \in Blocks' \ OpenIn(stack')
      PROVE  LeadsNext(b, {at'} \cup OpenIn(stack'))
  <2> DEFINE H == {at'} \cup OpenIn(stack')
  <2>1. CASE b = at'
    BY <2>1, LeadsThere
  <2>2. CASE b \in New /\ b # at'
    <3>1. b \in Ends'
      BY <1>2, <1>3, <2>2 DEF Ends
    <3> QED  BY <3>1 DEF LeadsNext
  <2>3. CASE b \in Blocks /\ b # at'
    <3>1. b \notin OpenIn(stack)
      BY <1>2, <1>3, <2>3
    <3> DEFINE G == {at} \cup OpenIn(stack)
    <3>2. Leads(b, G) /\ b \in Blocks
      BY <2>3, <3>1 DEF Lives
    <3>3. LeadsNext(at, H)
      BY <1>2, LeadsAhead
    <3>4. G \ {at} \subseteq H
      BY <1>2
    <3> HIDE DEF G, H
    <3>5. LeadsNext(b, H)
      BY <3>2, <3>3, <3>4, LeadsOn
    <3> QED  BY <3>5 DEF H
  <2> QED  BY <1>3, <2>1, <2>2, <2>3 DEF New
<1>4. ASSUME NEW i \in DOMAIN stack, stack[i].k \in {"LoopEnd", "ForBodyEnd"}
      PROVE  LeadsNext(stack[i].back, {Exit(stack[i])}) /\ stack[i].back \in Blocks
  <2>1. Leads(stack[i].back, {Exit(stack[i])}) /\ Exit(stack[i]) # at
    BY <1>1, <1>4, ExitHeld DEF Lives, Leaving
  <2>2. stack[i].back \in Blocks
    <3>1. stack[i] \in Frames(nblocks)
      BY <1>1 DEF TypeOK
    <3> QED  BY <1>4, <3>1 DEF Frames, FrameOK, Blocks
  <2> QED  BY <2>1, <2>2, LeadsOn
<1>5. ASSUME NEW i \in DOMAIN stack, stack[i].k \in {"WhileCond", "ForCond"}
      PROVE  /\ stack[i].back \in Blocks
             /\ Leads(stack[i].back, {at} \cup {b \in OpenIn(stack) \ Held(stack[i]) : b > stack[i].back})
  <2>1. stack[i] \in Frames(nblocks)
    BY <1>1 DEF TypeOK
  <2>2. stack[i].back \in Blocks
    BY <1>5, <2>1 DEF Frames, FrameOK, Blocks
  <2>3. Leaving(stack[i])
    BY DEF Lives
  <2> QED  BY <1>5, <2>2, <2>3 DEF Leaving
<1>6. ASSUME NEW j \in 2 .. Len(stack)
      PROVE  LeavingNext(stack[j])
  <2> DEFINE f == stack[j]
             G == {at} \cup {b \in OpenIn(stack) \ Held(f) : b > f.back}
             H == {at'} \cup {b \in OpenIn(stack') \ Held(f) : b > f.back}
  <2>1. j \in DOMAIN stack /\ j # 1 /\ 1 < j
    BY <1>1, NumbersKnown
  <2>2. ASSUME f.k \in {"WhileCond", "ForCond"}
        PROVE  LeadsNext(f.back, H)
    <3>1. Leads(f.back, G) /\ f.back \in Blocks
      BY <1>5, <2>1, <2>2
    <3>2. G \ {at} \subseteq H
      BY <1>2
    <3>3. Held(g) \subseteq H
      <4> SUFFICES ASSUME NEW b \in Held(g)
                   PROVE  b \in OpenIn(stack') /\ b \notin Held(f) /\ b > f.back
        OBVIOUS
      <4>1. b \in Held(stack[1]) \cup New /\ b \in OpenIn(stack')
        BY <1>1, <1>2 DEF Keeps
      <4>2. Held(f) \subseteq Blocks /\ Held(stack[1]) \cap Held(f) = {}
        BY <1>1, <2>1, Opens, NumbersKnown
      <4>3. b \notin Held(f)
        BY <4>1, <4>2 DEF New
      <4>4. b # 0 /\ b \in Nat /\ f.back # 0 /\ f.back \in Nat
        <5>1. OpenIn(stack') \subseteq Blocks'
          BY MoveFacts
        <5>2. b \in Blocks'
          BY <4>1, <5>1
        <5>3. b \in Nat /\ b # 0
          BY <1>1, <5>2 DEF TypeOK, Blocks
        <5> QED  BY <1>1, <3>1, <5>3, NumbersKnown
      <4>5. b \in Numbers(g) /\ f.back \in Numbers(f)
        BY <4>4 DEF Numbers
      <4>6. Above(g, f)
        BY MoveAbove DEF LoopsNest
      <4>7. f.back < b
        BY <4>5, <4>6 DEF Above
      <4> QED  BY <4>1, <4>3, <4>4, <4>7
    <3>4. LeadsNext(at, H)
      <4>1. {at'} \cup Held(g) \subseteq H
        BY <3>3
      <4> HIDE DEF H
      <4> QED  BY <4>1, LeadsAhead
    <3> HIDE DEF G, H
    <3> QED  BY <3>1, <3>2, <3>4, LeadsOn
  <2> QED  BY <1>4, <2>1, <2>2 DEF LeavingNext
<1>7. LeavingNext(g)
  <2>1. ASSUME g.k \in {"LoopEnd", "ForBodyEnd"}
        PROVE  LeadsNext(g.back, {Exit(g)})
    <3>1. g.back = stack[1].back
      BY <1>1, <2>1 DEF Keeps
    <3>2. CASE stack[1].k = "ForBodyEnd" /\ Exit(g) = Exit(stack[1])
      BY <1>1, <1>4, <3>1, <3>2
    <3>3. CASE stack[1].k \in {"WhileCond", "ForCond"} /\ Exit(g) \in T
      <4> DEFINE h == stack[1].back
                 G == {at} \cup {b \in OpenIn(stack) \ Held(stack[1]) : b > h}
      <4>1. Leads(h, G) /\ h \in Blocks
        BY <1>1, <1>5, <3>3
      <4>2. LeadsNext(at, {Exit(g)})
        BY <3>3, LeadsTo
      <4>3. ASSUME NEW b \in OpenIn(stack) \ Held(stack[1])
            PROVE  ~(b > h)
        <5>1. PICK i \in DOMAIN stack : b \in Held(stack[i])
          BY <4>3 DEF OpenIn
        <5>2. i # 1 /\ 1 < i
          BY <1>1, <4>3, <5>1 DEF TypeOK
        <5>3. h # 0 /\ b # 0 /\ h \in Nat /\ b \in Nat
          BY <1>1, <4>1, <5>1, NumbersKnown
        <5>4. h \in Numbers(stack[1]) /\ b \in Numbers(stack[i])
          BY <5>1, <5>3 DEF Numbers
        <5>5. b < h
          BY <1>1, <5>2, <5>4 DEF LoopsNest, Stacked, Above
        <5> QED  BY <5>3, <5>5
      <4>4. G = {at}
        BY <4>3
      <4> HIDE DEF G, h
      <4>5. LeadsNext(h, {Exit(g)})
        BY <4>1, <4>2, <4>4, LeadsOn
      <4> QED  BY <3>1, <4>5 DEF h
    <3> QED  BY <1>1, <2>1, <3>2, <3>3 DEF Keeps
  <2>2. ASSUME g.k \in {"WhileCond", "ForCond"}
        PROVE  LeadsNext(g.back, {at'} \cup {b \in OpenIn(stack') \ Held(g) : b > g.back})
    <3>1. g.back = at'
      BY <1>1, <2>2 DEF Keeps
    <3> QED  BY <3>1, LeadsThere
  <2> QED  BY <2>1, <2>2 DEF LeavingNext
<1>8. \A f : Rests(f) => LeavingNext(f)
  BY DEF LeavingNext, Rests, Keepers, Fillers
<1>9. \A i \in DOMAIN stack' : \/ Rests(stack'[i])
                               \/ stack'[i] = g
                               \/ \E j \in 2 .. Len(stack) : stack'[i] = stack[j]
  BY <1>1, PushRules
<1>10. \A i \in DOMAIN stack' : LeavingNext(stack'[i])
  BY <1>6, <1>7, <1>8, <1>9
<1> QED  BY <1>3, <1>10, LivesNext

\* So does one that does not move.
LEMMA LivesStays ==
    ASSUME Flowing, Lives, Next, Still
    PROVE  Lives'
<1>1. /\ at' = at /\ Blocks' = Blocks /\ OpenIn(stack') = OpenIn(stack) /\ TypeOK
      /\ VisitorsOwnTheirBlocks
  BY DEF Still, Flowing
<1>2. \A x \in Blocks : \A G : Leads(x, G) => LeadsNext(x, G)
  <2> TAKE x \in Blocks
  <2> TAKE G
  <2>1. at \in G => LeadsNext(at, G)
    BY LeadsThere
  <2> QED  BY <2>1, LeadsOn
<1>3. \A b \in Blocks' \ OpenIn(stack') : LeadsNext(b, {at'} \cup OpenIn(stack'))
  BY <1>1, <1>2 DEF Lives
<1>4. ASSUME NEW j \in DOMAIN stack
      PROVE  LeavingNext(stack[j])
  <2>1. stack[j].k \in {"LoopEnd", "ForBodyEnd", "WhileCond", "ForCond"} => stack[j].back \in Blocks
    <3>1. stack[j] \in Frames(nblocks)
      BY <1>1 DEF TypeOK
    <3> QED  BY <3>1 DEF Frames, FrameOK, Blocks
  <2>2. Leaving(stack[j])
    BY DEF Lives
  <2> QED  BY <1>1, <1>2, <2>1, <2>2 DEF Leaving, LeavingNext
<1>5. \A f : Rests(f) => LeavingNext(f)
  BY DEF LeavingNext, Rests, Keepers, Fillers
<1>6. \A i \in DOMAIN stack' :
         Rests(stack'[i]) \/ \E j \in DOMAIN stack : stack'[i] = stack[j]
  BY <1>1, StillFrames
<1>7. \A i \in DOMAIN stack' : LeavingNext(stack'[i])
  BY <1>4, <1>5, <1>6
<1> QED  BY <1>3, <1>7, LivesNext

\* So does every step.
LEMMA LivesStep ==
    ASSUME Flowing, LoopsNest, Lives, Next
    PROVE  Lives'
BY StepMoves, LivesMoves, LivesStays

-----------------------------------------------------------------------------
(* The invariants together. *)

\* The inductive invariant on top of Flowing and Listing.
Graph == LoopsNest /\ Ranked /\ Lives /\ (Done => at \in Rets)

\* An empty function has it.
LEMMA GraphStart ==
    ASSUME Init
    PROVE  Graph
<1>1. /\ nblocks = 1 /\ at = 1 /\ Entry = 1 /\ stack = <<Item("seq")>> /\ ~Done
      /\ code = [b \in {1} |-> <<>>] /\ Blocks = {1}
  BY DEF Init, Entry, Blocks, Done
<1>2. /\ DOMAIN stack = {1} /\ stack[1] = Item("seq") /\ stack[1].k = "seq"
      /\ Rests(stack[1])
  BY <1>1 DEF Item, Frame, Rests, Keepers, Fillers
<1>3. code[1] = <<>> /\ \A c : Preds(c) = {}
  <2>1. code[1] = <<>> /\ DOMAIN <<>> = {}
    BY <1>1
  <2> QED  BY <1>1, <2>1 DEF Preds, Succs, Branches
<1>4. LoopsNest
  <2>1. Stacked(stack)
    BY <1>2 DEF Stacked
  <2>2. Keeping(stack[1])
    BY <1>2, RestRules DEF Keeping, Rests
  <2> QED  BY <1>2, <2>1, <2>2 DEF LoopsNest
<1>5. Ranked
  <2> DEFINE r == [b \in Blocks |-> 0]
  <2>1. r \in [Blocks -> 0 .. 0] /\ 0 \in Nat
    OBVIOUS
  <2>2. Rising(r)
    BY <1>1, <1>3 DEF Rising
  <2> HIDE DEF r
  <2> QED  BY <2>1, <2>2 DEF Ranked
<1>6. Lives
  BY <1>1, <1>2 DEF Lives, Leaving, Leads
<1> QED  BY <1>1, <1>4, <1>5, <1>6 DEF Graph

\* The last step ends the insertion block with a return, its own if there is none.
LEMMA ReturnLast ==
    ASSUME Flowing, Listing, Next, Done'
    PROVE  at' \in Rets'
<1>1. TypeOK /\ AtOpen /\ phase = "emit" /\ Finish
  BY LastStep DEF Flowing, CodeRuns
<1>2. /\ Blocks' = Blocks /\ at' = at
      /\ IF EndsBlock(code[at]) THEN code' = code ELSE code' = Emit(Ret("i32"))
  BY <1>1 DEF Finish, Blocks, blockVars
<1>3. at \in Blocks /\ code[at] \in Seq(Instrs(nblocks)) /\ code \in [Blocks -> Seq(Instrs(nblocks))]
  BY <1>1 DEF TypeOK
<1>4. CASE EndsBlock(code[at])
  <2>1. code[at][Len(code[at])].op = "ret" /\ code[at] # <<>>
    BY <1>1, <1>4 DEF AtOpen, EndsBlock
  <2> QED  BY <1>2, <1>3, <1>4, <2>1 DEF Rets
<1>5. CASE ~EndsBlock(code[at])
  <2> DEFINE i == Ret("i32")
             s == code[at]
             S == Instrs(nblocks) \cup {i}
  <2>1. code'[at] = Put(s, i)
    BY <1>2, <1>3, <1>5 DEF Emit
  <2>2. i.op = "ret"
    BY DEF Ret, Instr
  <2>3. s \in Seq(Instrs(nblocks)) /\ Instrs(nblocks) \subseteq S /\ i \in S
    BY <1>3
  <2> HIDE DEF i, s, S
  <2>4. s \in Seq(S)
    BY <2>3, SeqMonotonic
  <2>5. Put(s, i) # <<>> /\ Put(s, i)[Len(Put(s, i))] = i
    BY <2>3, <2>4 DEF Put
  <2> QED  BY <1>2, <1>3, <2>1, <2>2, <2>5 DEF Rets
<1> QED  BY <1>4, <1>5

\* Every step keeps it.
LEMMA GraphStep ==
    ASSUME Flowing, Listing, Graph, Next
    PROVE  Graph'
BY NestStep, RankedStep, LivesStep, ReturnLast DEF Graph

\* So does a step that changes nothing.
LEMMA GraphStutter ==
    ASSUME Flowing, Graph, UNCHANGED vars
    PROVE  Graph'
<1>1. /\ code' = code /\ at' = at /\ stack' = stack /\ phase' = phase /\ nblocks' = nblocks
      /\ Blocks' = Blocks
  BY DEF vars, Blocks
<1>2. \A b : Preds(b)' = Preds(b)
  BY <1>1 DEF Preds, Succs, Branches
<1>3. Rets' = Rets /\ Dead' = Dead /\ Ends' = Ends /\ Heads' = Heads
  BY <1>1 DEF Rets, Dead, Ends, Heads
<1>4. LoopsNest'
  BY <1>1, <1>2 DEF Graph, LoopsNest, Keeping, Inner
<1>5. Ranked'
  <2>1. Unreturned' <=> Unreturned
    BY <1>1 DEF Unreturned
  <2>2. \A a, h : Back(a, h) => BackNext(a, h)
    BY <1>1, <1>2, <1>3 DEF Back, BackNext, Enclosed, EnclosedNext
  <2>3. PICK t \in Nat : \E r \in [Blocks -> 0 .. t] : Rising(r)
    BY DEF Graph, Ranked
  <2>4. PICK r \in [Blocks -> 0 .. t] : Rising(r)
    BY <2>3
  <2>5. RisingNext(r)
    BY <1>1, <1>2, <2>1, <2>2, <2>4 DEF Rising, RisingNext
  <2> QED  BY <1>1, <2>5, RankedNext
<1>6. Lives'
  <2>1. \A x, G : Leads(x, G) => LeadsNext(x, G)
    BY <1>1, <1>2, <1>3 DEF Leads, LeadsNext, Onward, OnwardNext
  <2>2. \A b \in Blocks' \ OpenIn(stack') : LeadsNext(b, {at'} \cup OpenIn(stack'))
    BY <1>1, <2>1 DEF Graph, Lives
  <2>3. \A i \in DOMAIN stack' : LeavingNext(stack'[i])
    BY <1>1, <2>1 DEF Graph, Lives, Leaving, LeavingNext
  <2> QED  BY <2>2, <2>3, LivesNext
<1> QED  BY <1>1, <1>3, <1>4, <1>5, <1>6 DEF Graph, Done

-----------------------------------------------------------------------------
(* What follows for a finished function. *)

\* The edges of the finished function are its predecessors.
LEMMA EdgesArePreds ==
    ASSUME TypeOK
    PROVE  /\ \A e \in Edges : e[1] \in Preds(e[2]) /\ e[1] \in Blocks /\ e[2] \in Blocks
           /\ \A c : \A a \in Preds(c) : <<a, c>> \in Edges
<1>1. ASSUME NEW e \in Edges
      PROVE  e[1] \in Preds(e[2]) /\ e[1] \in Blocks /\ e[2] \in Blocks
  <2>1. PICK b \in Blocks : \E c \in Succs(b) : e = <<b, c>>
    BY <1>1 DEF Edges
  <2>2. PICK c \in Succs(b) : e = <<b, c>>
    BY <2>1
  <2>3. b \in Preds(c)
    BY <2>1, <2>2 DEF Preds
  <2>4. c \in Blocks
    BY <2>3, NoPreds
  <2> QED  BY <2>2, <2>3, <2>4
<1>2. ASSUME NEW c, NEW a \in Preds(c)
      PROVE  <<a, c>> \in Edges
  BY DEF Edges, Preds
<1> QED  BY <1>1, <1>2

\* The head of a loop dominates what lies in the loop.
LEMMA BackDominates ==
    ASSUME TypeOK, NEW a, NEW h, Back(a, h)
    PROVE  Dominates(h, a)
<1>1. PICK X : Enclosed(X, h) /\ a \in X \cup {h}
  BY DEF Back
<1> DEFINE S == Blocks \ X
           from == {Entry} \ {h}
           edges == {e \in Edges : e[2] # h}
<1>2. nblocks \in Nat /\ Entry \in Blocks
  BY DEF TypeOK, Blocks, Entry
<1>3. from \subseteq S
  BY <1>1, <1>2 DEF Enclosed
<1>4. ASSUME NEW e \in edges, e[1] \in S \ {h}
      PROVE  e[2] \in S \ {h}
  <2>1. e[1] \in Preds(e[2]) /\ e[2] \in Blocks /\ e[2] # h
    BY EdgesArePreds
  <2> QED  BY <1>1, <1>4, <2>1 DEF Enclosed
<1>5. from \subseteq S \ {h}
  BY <1>3
<1> HIDE DEF from, edges, S
<1>6. Reached(from, edges) \subseteq S \ {h}
  BY <1>2, <1>4, <1>5, ReachedInside
<1> QED  BY <1>1, <1>6 DEF Dominates, from, edges, S

\* Along the edges that do not go back to a dominator the ranks rise: no cycle.
LEMMA NoForwardCycle ==
    ASSUME Flowing, Listing, Graph
    PROVE  LoopsAreNatural
<1> DEFINE forward == {e \in Edges : ~Dominates(e[2], e[1])}
<1> SUFFICES ASSUME Done, NEW d \in forward
             PROVE  d[1] \notin Reached({d[2]}, forward)
  BY DEF LoopsAreNatural
<1>1. TypeOK /\ nblocks \in Nat
  BY DEF Flowing, TypeOK
<1>2. OpenIn(stack) = {}
  BY OpenInShort DEF Listing
<1>3. PICK t \in Nat : \E r \in [Blocks -> 0 .. t] : Rising(r)
  BY DEF Graph, Ranked
<1>4. PICK r \in [Blocks -> 0 .. t] : Rising(r)
  BY <1>3
<1>5. \A b \in Blocks : r[b] \in Nat
  BY <1>4
<1>6. ASSUME NEW e \in forward
      PROVE  e[1] \in Blocks /\ e[2] \in Blocks /\ r[e[1]] < r[e[2]]
  <2>1. e \in Edges /\ ~Dominates(e[2], e[1])
    OBVIOUS
  <2>2. e[1] \in Preds(e[2]) /\ e[1] \in Blocks /\ e[2] \in Blocks
    BY <1>1, <2>1, EdgesArePreds
  <2>3. ~Back(e[1], e[2])
    BY <1>1, <2>1, BackDominates
  <2> QED  BY <1>2, <1>4, <2>2, <2>3 DEF Rising
<1> DEFINE S == {b \in Blocks : r[d[2]] <= r[b]}
<1>7. {d[2]} \subseteq S
  BY <1>5, <1>6
<1>8. \A e \in forward : e[1] \in S => e[2] \in S
  BY <1>5, <1>6
<1>9. d[1] \notin S
  BY <1>5, <1>6
<1> HIDE DEF forward, S
<1>10. Reached({d[2]}, forward) \subseteq S
  BY <1>1, <1>7, <1>8, ReachedInside
<1> QED  BY <1>9, <1>10

\* With one return only, and it at the end of the insertion block, no other has any.
LEMMA OneReturn ==
    ASSUME TypeOK, at \in Rets, Cardinality(Returns) = 1
    PROVE  Unreturned
<1>1. /\ at \in Blocks /\ nblocks \in Nat
      /\ \A b \in Blocks : code[b] \in Seq(Instrs(nblocks))
  BY DEF TypeOK
<1> DEFINE P == [b \in Blocks |-> {b} \X DOMAIN code[b]]
           Q == {P[b] : b \in Blocks}
<1>2. IsFiniteSet(Returns)
  <2>1. IsFiniteSet(Blocks)
    BY <1>1, FS_Interval DEF Blocks
  <2>2. P \in Surjection(Blocks, Q)
    BY DEF Surjection
  <2>3. IsFiniteSet(Q)
    <3> HIDE DEF P, Q
    <3> QED  BY <2>1, <2>2, FS_Surjection
  <2>4. ASSUME NEW b \in Blocks
        PROVE  IsFiniteSet(P[b])
    <3>1. DOMAIN code[b] = 1 .. Len(code[b]) /\ Len(code[b]) \in Nat
      BY <1>1
    <3>2. \A n \in Nat : IsFiniteSet(1 .. n)
      BY FS_Interval
    <3>3. IsFiniteSet(DOMAIN code[b])
      BY <3>1, <3>2
    <3>4. IsFiniteSet({b})
      BY FS_Singleton
    <3>5. IsFiniteSet({b} \X DOMAIN code[b])
      <4> DEFINE D == DOMAIN code[b]
      <4> HIDE DEF P, Q, D
      <4>1. IsFiniteSet(D)
        BY <3>3 DEF D
      <4>2. IsFiniteSet({b} \X D)
        BY <4>1, <3>4, FS_Product
      <4> QED  BY <4>2 DEF D
    <3> QED  BY <3>5
  <2>5. IsFiniteSet(UNION Q)
    <3>1. \A s \in Q : IsFiniteSet(s)
      BY <2>4
    <3> HIDE DEF Q
    <3> QED  BY <2>3, <3>1, FS_UNION
  <2>6. Returns \subseteq UNION Q
    BY DEF Returns
  <2> QED  BY <2>5, <2>6, FS_Subset
<1>3. PICK p : Returns = {p}
  BY <1>2, FS_Singleton
<1>4. ASSUME NEW b \in Blocks, NEW i \in DOMAIN code[b], code[b][i].op = "ret"
      PROVE  <<b, i>> \in Returns
  <2>1. <<b, i>> \in {b} \X DOMAIN code[b]
    OBVIOUS
  <2> QED  BY <1>4, <2>1 DEF Returns
<1>5. <<at, Len(code[at])>> \in Returns
  <2>1. Len(code[at]) \in DOMAIN code[at] /\ code[at][Len(code[at])].op = "ret"
    BY <1>1, EmptySeq DEF Rets
  <2> QED  BY <1>1, <1>4, <2>1
<1> SUFFICES ASSUME NEW b \in Blocks \ {at}, NEW x \in ToSet(code[b]), x.op = "ret"
             PROVE  FALSE
  BY DEF Unreturned
<1>6. PICK i \in DOMAIN code[b] : x = code[b][i]
  BY DEF ToSet
<1>7. <<b, i>> \in Returns
  BY <1>4, <1>6
<1> QED  BY <1>3, <1>5, <1>7

\* A function with one return: every block has an edge from a lower rank, so the entry
\* reaches it, and leads to an end, the walk being over.
LEMMA AllLive ==
    ASSUME Flowing, Listing, Graph
    PROVE  EveryBlockLives
<1> SUFFICES ASSUME Done, Cardinality(Returns) = 1
             PROVE  /\ Reached({Entry}, Edges) = Blocks
                    /\ \A b \in Blocks : Reached({b}, Edges) \cap (Rets \cup Dead) # {}
  BY DEF EveryBlockLives
<1>1. TypeOK /\ nblocks \in Nat /\ Entry \in Blocks /\ OpenIn(stack) = {} /\ at \in Rets
  BY OpenInShort DEF Flowing, Listing, Graph, TypeOK, Entry, Blocks
<1>2. Unreturned
  BY <1>1, OneReturn
<1>3. ASSUME NEW b \in Blocks
      PROVE  LET R == Reached({b}, Edges)
             IN  /\ b \in R /\ R \subseteq Blocks
                 /\ \A c : \A a \in Preds(c) : a \in R => c \in R
  <2> DEFINE R == Reached({b}, Edges)
  <2>1. {b} \in SUBSET Blocks /\ {b} # {} /\ \A e \in Edges : e[2] \in Blocks
    BY <1>1, EdgesArePreds
  <2>2. {b} \subseteq R /\ R \subseteq Blocks /\ \A e \in Edges : e[1] \in R => e[2] \in R
    BY <1>1, <2>1, ReachedClosed
  <2>3. \A c : \A a \in Preds(c) : <<a, c>> \in Edges
    BY <1>1, EdgesArePreds
  <2> HIDE DEF R
  <2>4. ASSUME NEW c, NEW a \in Preds(c), a \in R
        PROVE  c \in R
    <3>1. <<a, c>> \in Edges
      BY <2>3
    <3>2. <<a, c>>[1] = a /\ <<a, c>>[2] = c
      OBVIOUS
    <3>3. \A e \in Edges : e[1] \in R => e[2] \in R
      BY <2>2
    <3>4. <<a, c>>[1] \in R => <<a, c>>[2] \in R
      BY <3>1, <3>3
    <3> QED  BY <2>4, <3>2, <3>4
  <2> QED  BY <2>2, <2>4 DEF R
<1>4. ASSUME Blocks \ Reached({Entry}, Edges) # {}
      PROVE  FALSE
  <2> DEFINE S == Blocks \ Reached({Entry}, Edges)
  <2>1. PICK t \in Nat : \E r \in [Blocks -> 0 .. t] : Rising(r)
    BY DEF Graph, Ranked
  <2>2. PICK r \in [Blocks -> 0 .. t] : Rising(r)
    BY <2>1
  <2>3. {r[c] : c \in S} \in SUBSET Nat /\ {r[c] : c \in S} # {}
    BY <1>4, <2>2
  <2>4. PICK c \in S : \A d \in S : r[c] <= r[d]
    <3>1. PICK x \in {r[c] : c \in S} : \A y \in {r[c] : c \in S} : x <= y
      BY <2>3, LeastNumber
    <3>2. PICK c \in S : x = r[c]
      BY <3>1
    <3>3. \A d \in S : r[d] \in {r[e] : e \in S}
      OBVIOUS
    <3> HIDE DEF S
    <3> QED  BY <3>1, <3>2, <3>3
  <2>5. Entry \in Reached({Entry}, Edges)
    BY <1>1, <1>3
  <2>6. c \in Blocks \ (OpenIn(stack) \cup {Entry})
    BY <1>1, <2>5
  <2>7. PICK a \in Preds(c) : r[a] < r[c]
    BY <1>2, <2>2, <2>6 DEF Rising
  <2>8. a \in Blocks
    BY DEF Preds
  <2>9. a \notin S
    BY <2>2, <2>4, <2>6, <2>7, <2>8
  <2> QED  BY <1>1, <1>3, <2>7, <2>8, <2>9
<1>5. ASSUME NEW b \in Blocks
      PROVE  Reached({b}, Edges) \cap (Rets \cup Dead) # {}
  <2> DEFINE R == Reached({b}, Edges)
  <2>1. b \in R /\ R \in SUBSET Blocks /\ Onward(R)
    BY <1>3 DEF Onward
  <2>2. Leads(b, {at})
    <3>1. {at} \cup OpenIn(stack) = {at}
      BY <1>1
    <3> QED  BY <1>1, <3>1 DEF Graph, Lives
  <2> HIDE DEF R
  <2>3. R \cap ({at} \cup Ends) # {}
    BY <2>1, <2>2 DEF Leads
  <2>4. R \cap (Rets \cup Dead) # {}
    BY <1>1, <2>3 DEF Ends
  <2> QED  BY <2>4 DEF R
<1>6. Reached({Entry}, Edges) \subseteq Blocks
  BY <1>1, <1>3
<1> QED  BY <1>4, <1>5, <1>6

\* The three invariants together hold in every state.
LEMMA AlwaysGraph == Spec => [](Flowing /\ Listing /\ Graph)
<1> DEFINE Inv == Flowing /\ Listing /\ Graph
<1>1. Init => Inv
  BY FlowStart, ListingStart, GraphStart
<1>2. Inv /\ [Next]_vars => Inv'
  <2> SUFFICES ASSUME Flowing, Listing, Graph, [Next]_vars
               PROVE  Flowing' /\ Listing' /\ Graph'
    OBVIOUS
  <2>1. CASE Next
    BY <2>1, FlowingStep, ListingStep, GraphStep DEF Flowing
  <2>2. CASE UNCHANGED vars
    <3>1. Blocks' = Blocks /\ layout' = layout /\ stack' = stack /\ phase' = phase
      BY <2>2 DEF vars, Blocks
    <3> QED  BY <2>2, <3>1, FlowStutter, GraphStutter DEF Listing, Distinct, Done
  <2> QED  BY <2>1, <2>2
<1> QED  BY <1>1, <1>2, PTL DEF Spec

\* Every cycle of the generated code goes back to a block that dominates it: only the
\* branches of Visit(WhileStmt&) and Visit(ForStmt&) back to the block of the condition
\* close one (Codegen.cpp:663-735), and no branch of an if, of && or || or of an array
\* declaration does, nor does any enter a loop but by its head.
THEOREM NoOtherCycles == Spec => []LoopsAreNatural
<1>1. Flowing /\ Listing /\ Graph => LoopsAreNatural
  BY NoForwardCycle
<1> QED  BY <1>1, AlwaysGraph, PTL

\* In a function with one return the generator leaves no block without a way to it from
\* the entry, and none from which the code can neither return nor come to the exit(-1)
\* of an array declaration: no branch is forgotten in any nesting of statements.
THEOREM BlocksLive == Spec => []EveryBlockLives
<1>1. Flowing /\ Listing /\ Graph => EveryBlockLives
  BY AllLive
<1> QED  BY <1>1, AlwaysGraph, PTL

===============================================================================
