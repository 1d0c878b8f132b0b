------------------------- MODULE CodegenBlocksProofs -------------------------
(***************************************************************************)
(* Theorems about CodegenBlocks, for every bound on the tree, every return *)
(* type and every set of node kinds: the type invariant, that no block is  *)
(* ever left without a terminator, that finished blocks stay finished, and *)
(* that the safety part of BlockLifecycle is implemented.                  *)
(***************************************************************************)
EXTENDS MCCodegenBlocks, SequenceTheorems, TLAPS

-----------------------------------------------------------------------------
(* Instruction sequences. *)

\* Emitting keeps a block a sequence of instructions.
LEMMA PutType ==
    ASSUME NEW S, NEW s \in Seq(S), NEW i \in S
    PROVE  Put(s, i) \in Seq(S)
BY DEF Put

\* Emitting a terminator terminates a block.
LEMMA PutEnds ==
    ASSUME NEW S, NEW s \in Seq(S), NEW i \in S, i.op \in Terminators
    PROVE  EndsBlock(Put(s, i))
<1>1. i # Plain
  BY DEF Plain, Instr, Terminators
<1>2. Put(s, i) = Append(s, i)
  BY <1>1 DEF Put
<1> QED  BY <1>2 DEF EndsBlock

\* An alloca at the front changes neither the type nor the terminator.
LEMMA PutFrontKeeps ==
    ASSUME NEW S, Plain \in S, NEW s \in Seq(S)
    PROVE  /\ PutFront(s) \in Seq(S)
           /\ EndsBlock(s) => EndsBlock(PutFront(s))
<1>1. CASE PutFront(s) = s
  BY <1>1
<1>2. CASE PutFront(s) = <<Plain>> \o s
  <2>1. <<Plain>> \in Seq(S) /\ Len(<<Plain>>) = 1
    OBVIOUS
  <2>2. PutFront(s) \in Seq(S)
    BY <1>2, <2>1
  <2>3. ASSUME s # <<>>
        PROVE  /\ Len(PutFront(s)) = Len(s) + 1
               /\ PutFront(s)[Len(s) + 1] = s[Len(s)]
    BY <1>2, <2>1, <2>3, ConcatProperties
  <2>4. EndsBlock(s) => EndsBlock(PutFront(s))
    BY <2>2, <2>3, EmptySeq DEF EndsBlock
  <2> QED  BY <2>2, <2>4
<1> QED  BY <1>1, <1>2 DEF PutFront

\* The instructions the generator emits are instructions.
LEMMA InstrTypes ==
    ASSUME NEW n \in Nat
    PROVE  /\ Plain \in Instrs(n) /\ Unreachable \in Instrs(n)
           /\ \A ty \in Types \cup {"none"} : Ret(ty) \in Instrs(n)
           /\ \A b \in 1 .. n : Br(b) \in Instrs(n)
           /\ \A b, c \in 1 .. n, ty \in Types \cup {"none"} :
                 CondBr(ty, b, c) \in Instrs(n)
           /\ \A b, c \in 1 .. n, ty \in Types \cup {"none"} :
                 Phi(b, c, ty) \in Instrs(n)
BY DEF Plain, Unreachable, Ret, Br, CondBr, Phi, Instr, Instrs, Terminators, Types

\* Which of them are terminators.
LEMMA InstrOps ==
    /\ Unreachable.op \in Terminators
    /\ \A ty : Ret(ty).op \in Terminators
    /\ \A b : Br(b).op \in Terminators
    /\ \A ty, b, c : CondBr(ty, b, c).op \in Terminators
BY DEF Unreachable, Ret, Br, CondBr, Instr, Terminators

-----------------------------------------------------------------------------
(* The call stack. *)

\* What the stack is after the running frame was replaced by fs.
LEMMA StackReplaced ==
    ASSUME NEW F, NEW s \in Seq(F), s # <<>>, NEW fs \in Seq(F)
    PROVE  /\ fs \o Tail(s) \in Seq(F)
           /\ \A i \in DOMAIN (fs \o Tail(s)) :
                 \/ \E j \in DOMAIN fs : (fs \o Tail(s))[i] = fs[j]
                 \/ \E j \in DOMAIN s : (fs \o Tail(s))[i] = s[j]
           /\ OpenIn(fs \o Tail(s)) = OpenIn(fs) \cup OpenIn(Tail(s))
           /\ OpenIn(s) = Held(s[1]) \cup OpenIn(Tail(s))
<1> DEFINE t == fs \o Tail(s)
<1>1. /\ Tail(s) \in Seq(F) /\ Len(Tail(s)) = Len(s) - 1 /\ Len(s) >= 1
      /\ \A i \in 1 .. Len(Tail(s)) : Tail(s)[i] = s[i + 1]
  BY HeadTailProperties, EmptySeq, LenProperties
<1>2. /\ t \in Seq(F)
      /\ Len(t) = Len(fs) + Len(Tail(s))
      /\ \A i \in 1 .. Len(t) :
            t[i] = IF i <= Len(fs) THEN fs[i] ELSE Tail(s)[i - Len(fs)]
  BY <1>1, ConcatProperties
<1>3. /\ DOMAIN s = 1 .. Len(s) /\ DOMAIN fs = 1 .. Len(fs)
      /\ DOMAIN t = 1 .. Len(t) /\ DOMAIN Tail(s) = 1 .. Len(Tail(s))
      /\ Len(s) \in Nat /\ Len(fs) \in Nat /\ Len(t) \in Nat
  BY <1>1, <1>2, LenProperties
<1>4. \A i \in DOMAIN t : \/ \E j \in DOMAIN fs : t[i] = fs[j]
                          \/ \E j \in DOMAIN Tail(s) : t[i] = Tail(s)[j]
  BY <1>1, <1>2, <1>3
<1>5. \A j \in DOMAIN Tail(s) : j + 1 \in DOMAIN s /\ Tail(s)[j] = s[j + 1]
  BY <1>1, <1>3
<1>6. \A j \in DOMAIN fs : j \in DOMAIN t /\ t[j] = fs[j]
  BY <1>1, <1>2, <1>3
<1>7. \A j \in DOMAIN Tail(s) :
         Len(fs) + j \in DOMAIN t /\ t[Len(fs) + j] = Tail(s)[j]
  BY <1>1, <1>2, <1>3
<1>8. OpenIn(t) = OpenIn(fs) \cup OpenIn(Tail(s))
  <2> HIDE DEF t
  <2> QED  BY <1>4, <1>6, <1>7 DEF OpenIn
<1>9. \A i \in DOMAIN s : i = 1 \/ (i - 1 \in DOMAIN Tail(s) /\ s[i] = Tail(s)[i - 1])
  BY <1>1, <1>3
<1>10. 1 \in DOMAIN s
  BY <1>1, <1>3
<1>11. OpenIn(s) = Held(s[1]) \cup OpenIn(Tail(s))
  BY <1>5, <1>9, <1>10 DEF OpenIn
<1> HIDE DEF t
<1>12. \A i \in DOMAIN t : \/ \E j \in DOMAIN fs : t[i] = fs[j]
                           \/ \E j \in DOMAIN s : t[i] = s[j]
  BY <1>4, <1>5
<1> QED  BY <1>2, <1>8, <1>11, <1>12 DEF t

\* ... and that blocks are still held once when fs holds only blocks that the
\* rest of the stack does not.
LEMMA HeldOnceReplaced ==
    ASSUME NEW F, NEW s \in Seq(F), s # <<>>, NEW fs \in Seq(F), HeldOnce(s)
    PROVE  /\ Held(s[1]) \cap OpenIn(Tail(s)) = {}
           /\ HeldOnce(fs) /\ OpenIn(fs) \cap OpenIn(Tail(s)) = {}
                 => HeldOnce(fs \o Tail(s))
<1> DEFINE t == fs \o Tail(s)
<1>1. /\ Tail(s) \in Seq(F) /\ Len(Tail(s)) = Len(s) - 1 /\ Len(s) >= 1
      /\ \A i \in 1 .. Len(Tail(s)) : Tail(s)[i] = s[i + 1]
  BY HeadTailProperties, EmptySeq, LenProperties
<1>2. /\ t \in Seq(F)
      /\ Len(t) = Len(fs) + Len(Tail(s))
      /\ \A i \in 1 .. Len(t) :
            t[i] = IF i <= Len(fs) THEN fs[i] ELSE Tail(s)[i - Len(fs)]
  BY <1>1, ConcatProperties
<1>3. /\ DOMAIN s = 1 .. Len(s) /\ DOMAIN fs = 1 .. Len(fs)
      /\ DOMAIN t = 1 .. Len(t) /\ DOMAIN Tail(s) = 1 .. Len(Tail(s))
      /\ Len(s) \in Nat /\ Len(fs) \in Nat /\ Len(t) \in Nat
  BY <1>1, <1>2, LenProperties
<1>4. \A j \in DOMAIN Tail(s) :
         j \in Nat /\ j + 1 # 1 /\ j + 1 \in DOMAIN s /\ Tail(s)[j] = s[j + 1]
  BY <1>1, <1>3
<1>5. 1 \in DOMAIN s
  BY <1>1, <1>3
<1>6. Held(s[1]) \cap OpenIn(Tail(s)) = {}
  <2> SUFFICES ASSUME NEW m \in DOMAIN s[1].open, NEW j \in DOMAIN Tail(s),
                      NEW n \in DOMAIN Tail(s)[j].open,
                      s[1].open[m] = Tail(s)[j].open[n]
               PROVE  FALSE
    BY DEF Held, OpenIn
  <2> QED  BY <1>4, <1>5 DEF HeldOnce
<1>7. HeldOnce(Tail(s))
  BY <1>4 DEF HeldOnce
<1>8. \A i \in DOMAIN t :
         \/ i \in DOMAIN fs /\ t[i] = fs[i]
         \/ i - Len(fs) \in DOMAIN Tail(s) /\ t[i] = Tail(s)[i - Len(fs)]
  BY <1>1, <1>2, <1>3
<1>9. DOMAIN t \subseteq Int /\ Len(fs) \in Int
  BY <1>3
<1> HIDE DEF t
<1>10. ASSUME HeldOnce(fs), OpenIn(fs) \cap OpenIn(Tail(s)) = {}
       PROVE  HeldOnce(t)
  <2> SUFFICES ASSUME NEW i \in DOMAIN t, NEW j \in DOMAIN t,
                      NEW m \in DOMAIN t[i].open, NEW n \in DOMAIN t[j].open,
                      t[i].open[m] = t[j].open[n]
               PROVE  i = j /\ m = n
    BY DEF HeldOnce
  <2> DEFINE InFs(x) == x \in DOMAIN fs /\ t[x] = fs[x]
             InTail(x) == x - Len(fs) \in DOMAIN Tail(s) /\ t[x] = Tail(s)[x - Len(fs)]
  <2>1. CASE InFs(i) /\ InFs(j)
    BY <2>1, <1>10 DEF HeldOnce
  <2>2. CASE InTail(i) /\ InTail(j)
    <3>1. i - Len(fs) = j - Len(fs) /\ m = n
      BY <2>2, <1>7 DEF HeldOnce
    <3> QED  BY <3>1, <1>9
  <2>3. CASE InFs(i) /\ InTail(j)
    <3>1. t[i].open[m] \in OpenIn(fs) /\ t[j].open[n] \in OpenIn(Tail(s))
      BY <2>3 DEF OpenIn, Held
    <3> QED  BY <3>1, <1>10
  <2>4. CASE InTail(i) /\ InFs(j)
    <3>1. t[j].open[n] \in OpenIn(fs) /\ t[i].open[m] \in OpenIn(Tail(s))
      BY <2>4 DEF OpenIn, Held
    <3> QED  BY <3>1, <1>10
  <2> QED  BY <1>8, <2>1, <2>2, <2>3, <2>4
<1> QED  BY <1>6, <1>10 DEF t

\* What a short list of frames holds.
LEMMA OpenInShort ==
    /\ OpenIn(<<>>) = {}
    /\ \A f : OpenIn(<<f>>) = Held(f)
    /\ \A f, g : OpenIn(<<f, g>>) = Held(f) \cup Held(g)
    /\ \A f, g, h : OpenIn(<<f, g, h>>) = Held(f) \cup Held(g) \cup Held(h)
<1>1. OpenIn(<<>>) = {}
  BY DEF OpenIn
<1>2. \A f : OpenIn(<<f>>) = Held(f)
  BY DEF OpenIn
<1>3. \A f, g : OpenIn(<<f, g>>) = Held(f) \cup Held(g)
  <2> TAKE f, g
  <2>1. /\ DOMAIN <<f, g>> = {1, 2} /\ <<f, g>>[1] = f /\ <<f, g>>[2] = g
    OBVIOUS
  <2> QED  BY <2>1 DEF OpenIn
<1>4. \A f, g, h : OpenIn(<<f, g, h>>) = Held(f) \cup Held(g) \cup Held(h)
  <2> TAKE f, g, h
  <2>1. /\ DOMAIN <<f, g, h>> = {1, 2, 3} /\ <<f, g, h>>[1] = f
        /\ <<f, g, h>>[2] = g /\ <<f, g, h>>[3] = h
    OBVIOUS
  <2> QED  BY <2>1 DEF OpenIn
<1> QED  BY <1>1, <1>2, <1>3, <1>4

\* The frames the visitors push are frames.
LEMMA FrameTypes ==
    ASSUME NEW n \in Nat
    PROVE  /\ Stmt \in Frames(n)
           /\ \A k \in {"seq", "CallEnd", "Store", "Ret", "ArraySize", "&&", "||",
                       "IfCond", "ForInit"} : Item(k) \in Frames(n)
           /\ \A k \in {"CallEnd", "DivertedEnd", "&&", "||"}, w \in SUBSET Types :
                 Frame(k, w, <<>>, 0) \in Frames(n)
           /\ \A w \in SUBSET Types : w # {} => Exp(w) \in Frames(n)
           /\ \A b \in 1 .. n, w \in SUBSET Types :
                 Frame("RhsEnd", w, <<b>>, 0) \in Frames(n)
           /\ \A o \in Seq(1 .. n) :
                 Len(o) \in {1, 2} => Frame("IfBranchEnd", {}, o, 0) \in Frames(n)
           /\ \A l \in 1 .. n : Frame("WhileCond", {}, <<>>, l) \in Frames(n)
           /\ \A o \in Seq(1 .. n), l \in 1 .. n :
                 /\ Len(o) = 1 => Frame("LoopEnd", {}, o, l) \in Frames(n)
                 /\ Len(o) = 2 => Frame("ForBodyEnd", {}, o, l) \in Frames(n)
                 /\ Len(o) = 3 => Frame("ForCond", {}, o, l) \in Frames(n)
<1>1. /\ Stmt \in Frames(n)
      /\ \A k \in {"seq", "CallEnd", "Store", "Ret", "ArraySize", "&&", "||",
                  "IfCond", "ForInit"} : Item(k) \in Frames(n)
  BY DEF Stmt, Item, Frame, Frames, FrameOK, FrameKinds
<1>2. /\ \A k \in {"CallEnd", "DivertedEnd", "&&", "||"}, w \in SUBSET Types :
            Frame(k, w, <<>>, 0) \in Frames(n)
      /\ \A w \in SUBSET Types : w # {} => Exp(w) \in Frames(n)
  BY DEF Exp, Frame, Frames, FrameOK, FrameKinds
<1>3. \A b \in 1 .. n, w \in SUBSET Types : Frame("RhsEnd", w, <<b>>, 0) \in Frames(n)
  BY DEF Frame, Frames, FrameOK, FrameKinds
<1>4. \A o \in Seq(1 .. n) :
        Len(o) \in {1, 2} => Frame("IfBranchEnd", {}, o, 0) \in Frames(n)
  BY DEF Frame, Frames, FrameOK, FrameKinds
<1>5. \A l \in 1 .. n : Frame("WhileCond", {}, <<>>, l) \in Frames(n)
  BY DEF Frame, Frames, FrameOK, FrameKinds
<1>6. \A o \in Seq(1 .. n), l \in 1 .. n :
                 /\ Len(o) = 1 => Frame("LoopEnd", {}, o, l) \in Frames(n)
                 /\ Len(o) = 2 => Frame("ForBodyEnd", {}, o, l) \in Frames(n)
                 /\ Len(o) = 3 => Frame("ForCond", {}, o, l) \in Frames(n)
  BY DEF Frame, Frames, FrameOK, FrameKinds
<1> QED  BY <1>1, <1>2, <1>3, <1>4, <1>5, <1>6

\* Nothing is lost when more blocks exist.
LEMMA MoreBlocks ==
    ASSUME NEW n \in Nat, NEW m \in Nat, n <= m
    PROVE  /\ 1 .. n \subseteq 1 .. m
           /\ Frames(n) \subseteq Frames(m)
           /\ Instrs(n) \subseteq Instrs(m)
           /\ \A s \in Seq(1 .. n) : s \in Seq(1 .. m)
           /\ \A s \in Seq(Frames(n)) : s \in Seq(Frames(m))
           /\ \A s \in Seq(Instrs(n)) : s \in Seq(Instrs(m))
<1>1. 1 .. n \subseteq 1 .. m /\ 0 .. n \subseteq 0 .. m
  OBVIOUS
<1>2. \A s \in Seq(1 .. n) : s \in Seq(1 .. m)
  BY <1>1, SeqMonotonic
<1>3. Frames(n) \subseteq Frames(m)
  BY <1>1, <1>2 DEF Frames
<1>4. Instrs(n) \subseteq Instrs(m)
  BY <1>1, <1>2 DEF Instrs
<1>5. /\ \A s \in Seq(Frames(n)) : s \in Seq(Frames(m))
      /\ \A s \in Seq(Instrs(n)) : s \in Seq(Instrs(m))
  BY <1>3, <1>4, SeqMonotonic
<1> QED  BY <1>1, <1>2, <1>3, <1>4, <1>5

-----------------------------------------------------------------------------
(* One step, seen from outside. *)

Same(b) == code'[b] = code[b] \/ (b = Entry /\ code'[b] = PutFront(code[b]))

\* What every step does to the blocks: it takes new blocks or held ones, writes
\* to the insertion block and to held or new ones (and an alloca to the entry
\* block), ends the block it leaves, and forgets none.
Orderly ==
    /\ Blocks \subseteq Blocks'
    /\ OpenIn(stack') \subseteq OpenIn(stack) \cup (Blocks' \ Blocks)
    /\ at' \in {at} \cup OpenIn(stack) \cup (Blocks' \ Blocks)
    /\ \A b \in Blocks \ ({at} \cup OpenIn(stack)) : Same(b)
    /\ at' = at \/ EndsBlock(code'[at])
    /\ OpenIn(stack) \subseteq OpenIn(stack') \cup {at'}
    /\ \A b \in Blocks' \ Blocks :
          b = at' \/ b \in OpenIn(stack') \/ EndsBlock(code'[b])

\* The call stack and the list of blocks keep their types.
LEMMA StackStep ==
    ASSUME TypeOK, stack # <<>>, nblocks' \in Nat, nblocks <= nblocks',
           NEW fs \in Seq(Frames(nblocks')), stack' = fs \o Tail(stack),
           NEW new \in Seq(1 .. nblocks'), layout' = layout \o new,
           (\E j \in DOMAIN fs : fs[j].k = "RhsEnd") => Len(layout') >= 2
    PROVE  /\ nblocks' \in Nat \ {0}
           /\ layout' \in Seq(Blocks')
           /\ stack' \in Seq(Frames(nblocks'))
           /\ layout' # <<>>
           /\ (\E i \in DOMAIN stack' : stack'[i].k = "RhsEnd") => Len(layout') >= 2
           /\ OpenIn(stack') = OpenIn(fs) \cup OpenIn(Tail(stack))
           /\ OpenIn(stack) = Held(stack[1]) \cup OpenIn(Tail(stack))
<1>1. /\ nblocks \in Nat \ {0} /\ layout \in Seq(1 .. nblocks) /\ layout # <<>>
      /\ stack \in Seq(Frames(nblocks))
      /\ (\E i \in DOMAIN stack : stack[i].k = "RhsEnd") => Len(layout) >= 2
  BY DEF TypeOK, Blocks
<1>2. layout \in Seq(1 .. nblocks') /\ stack \in Seq(Frames(nblocks'))
  BY <1>1, MoreBlocks
<1>3. /\ layout' \in Seq(1 .. nblocks') /\ Len(layout') = Len(layout) + Len(new)
      /\ Len(layout) \in Nat \ {0} /\ Len(new) \in Nat
  BY <1>1, <1>2, ConcatProperties, EmptySeq, LenProperties
<1>4. layout' # <<>> /\ Len(layout') >= Len(layout)
  BY <1>3, EmptySeq
<1>5. /\ stack' \in Seq(Frames(nblocks'))
      /\ \A i \in DOMAIN stack' : \/ \E j \in DOMAIN fs : stack'[i] = fs[j]
                                 \/ \E j \in DOMAIN stack : stack'[i] = stack[j]
      /\ OpenIn(stack') = OpenIn(fs) \cup OpenIn(Tail(stack))
      /\ OpenIn(stack) = Held(stack[1]) \cup OpenIn(Tail(stack))
  <2> DEFINE F == Frames(nblocks')
  <2>1. stack \in Seq(F) /\ fs \in Seq(F)
    BY <1>2
  <2> HIDE DEF F
  <2>2. /\ fs \o Tail(stack) \in Seq(F)
        /\ \A i \in DOMAIN (fs \o Tail(stack)) :
              \/ \E j \in DOMAIN fs : (fs \o Tail(stack))[i] = fs[j]
              \/ \E j \in DOMAIN stack : (fs \o Tail(stack))[i] = stack[j]
        /\ OpenIn(fs \o Tail(stack)) = OpenIn(fs) \cup OpenIn(Tail(stack))
        /\ OpenIn(stack) = Held(stack[1]) \cup OpenIn(Tail(stack))
    BY <2>1, StackReplaced
  <2>3. stack' = fs \o Tail(stack)
    OBVIOUS
  <2> QED  BY <2>2, <2>3 DEF F
<1>6. ASSUME NEW i \in DOMAIN stack', stack'[i].k = "RhsEnd"
      PROVE  Len(layout') >= 2
  <2>1. CASE \E j \in DOMAIN fs : stack'[i] = fs[j]
    BY <1>6, <2>1
  <2>2. CASE \E j \in DOMAIN stack : stack'[i] = stack[j]
    <3>1. Len(layout) >= 2
      BY <1>1, <1>6, <2>2
    <3> QED  BY <1>3, <3>1
  <2> QED  BY <1>5, <2>1, <2>2
<1> QED  BY <1>1, <1>3, <1>4, <1>5, <1>6 DEF Blocks

\* The frame that runs is a frame.
LEMMA RunningFrame ==
    ASSUME TypeOK, stack # <<>>
    PROVE  stack[1] \in Frames(nblocks)
BY EmptySeq, ElementOfSeq DEF TypeOK

\* Emitting one instruction into the insertion block, which has more blocks
\* created with it or not.
LEMMA GrowType ==
    ASSUME TypeOK, NEW n \in Nat
    PROVE  /\ Grow(n) \in [1 .. nblocks + n -> Seq(Instrs(nblocks + n))]
           /\ \A b \in Blocks : Grow(n)[b] = code[b]
           /\ at \in 1 .. nblocks + n
           /\ code[at] \in Seq(Instrs(nblocks + n))
<1>1. /\ nblocks \in Nat /\ code \in [1 .. nblocks -> Seq(Instrs(nblocks))]
      /\ at \in 1 .. nblocks
  BY DEF TypeOK, Blocks
<1>2. \A b \in 1 .. nblocks : code[b] \in Seq(Instrs(nblocks + n))
  BY <1>1, MoreBlocks
<1>3. <<>> \in Seq(Instrs(nblocks + n))
  BY EmptySeq
<1>4. Grow(n) \in [1 .. nblocks + n -> Seq(Instrs(nblocks + n))]
  <2> DEFINE S == Seq(Instrs(nblocks + n))
  <2>1. /\ \A b \in 1 .. nblocks : code[b] \in S /\ <<>> \in S
    BY <1>2, <1>3
  <2> HIDE DEF S
  <2>2. Grow(n) \in [1 .. nblocks + n -> S]
    BY <1>1, <1>3, <2>1 DEF Grow
  <2> QED  BY <2>2 DEF S
<1> QED  BY <1>1, <1>2, <1>4 DEF Grow, Blocks

\* Emitting one instruction and creating no block.
LEMMA EmitType ==
    ASSUME TypeOK, NEW i \in Instrs(nblocks)
    PROVE  /\ Emit(i) \in [Blocks -> Seq(Instrs(nblocks))]
           /\ \A b \in Blocks \ {at} : Emit(i)[b] = code[b]
           /\ i.op \in Terminators => EndsBlock(Emit(i)[at])
<1>1. /\ code \in [Blocks -> Seq(Instrs(nblocks))] /\ at \in Blocks
  BY DEF TypeOK
<1>2. Put(code[at], i) \in Seq(Instrs(nblocks))
  BY <1>1, PutType
<1>3. i.op \in Terminators => EndsBlock(Put(code[at], i))
  BY <1>1, PutEnds
<1> QED  BY <1>1, <1>2, <1>3 DEF Emit

\* Visitors hold blocks that exist.
LEMMA OpenAreBlocks ==
    ASSUME TypeOK
    PROVE  OpenIn(stack) \subseteq Blocks
<1>1. \A i \in DOMAIN stack : stack[i] \in Frames(nblocks)
  BY DEF TypeOK
<1>2. \A i \in DOMAIN stack : stack[i].open \in Seq(Blocks)
  BY <1>1 DEF Frames, Blocks
<1> QED  BY <1>2 DEF OpenIn, Held

\* Two frames of which only the second holds blocks, all different.
LEMMA HeldOncePair ==
    ASSUME NEW f, NEW g, f.open = <<>>,
           \A m, n \in DOMAIN g.open : g.open[m] = g.open[n] => m = n
    PROVE  HeldOnce(<<f, g>>)
<1>1. DOMAIN <<f, g>> = {1, 2} /\ <<f, g>>[1] = f /\ <<f, g>>[2] = g /\ DOMAIN f.open = {}
  OBVIOUS
<1> QED  BY <1>1 DEF HeldOnce

\* A step that creates no block, leaves the insertion block and the list alone
\* and pushes frames that hold nothing in place of one that held nothing.
LEMMA QuietStep ==
    ASSUME TypeOK, VisitorsOwnTheirBlocks, stack # <<>>, stack[1].open = <<>>,
           NEW fs \in Seq(Frames(nblocks)), stack' = fs \o Tail(stack),
           OpenIn(fs) = {}, \A j \in DOMAIN fs : fs[j].k # "RhsEnd",
           UNCHANGED blockVars,
           code' \in [Blocks -> Seq(Instrs(nblocks))],
           \A b \in Blocks \ {at} : Same(b),
           val' \in Vals, fuel' \in 0 .. MaxNodes,
           phase' \in {"emit", "done", "aborted"},
           flow' \in {"falls", "returned", "overrun"}
    PROVE  TypeOK' /\ VisitorsOwnTheirBlocks' /\ Orderly
<1>1. nblocks' = nblocks /\ layout' = layout /\ at' = at
  BY DEF blockVars
<1>2. nblocks \in Nat \ {0} /\ layout \in Seq(Blocks) /\ at \in Blocks
  BY DEF TypeOK
<1>3. Blocks' = Blocks
  BY <1>1 DEF Blocks
<1>4. layout' = layout \o <<>> /\ <<>> \in Seq(1 .. nblocks')
  BY <1>1, <1>2, ConcatEmptySeq, EmptySeq
<1>5. /\ layout' \in Seq(Blocks')
      /\ stack' \in Seq(Frames(nblocks'))
      /\ layout' # <<>>
      /\ (\E i \in DOMAIN stack' : stack'[i].k = "RhsEnd") => Len(layout') >= 2
      /\ OpenIn(stack') = OpenIn(fs) \cup OpenIn(Tail(stack))
      /\ OpenIn(stack) = Held(stack[1]) \cup OpenIn(Tail(stack))
  <2>1. nblocks' \in Nat /\ nblocks <= nblocks' /\ fs \in Seq(Frames(nblocks'))
    BY <1>1, <1>2
  <2>2. (\E j \in DOMAIN fs : fs[j].k = "RhsEnd") => Len(layout') >= 2
    OBVIOUS
  <2>3. stack' = fs \o Tail(stack)
    OBVIOUS
  <2> HIDE DEF TypeOK
  <2> QED  BY <1>4, <2>1, <2>2, <2>3, StackStep
<1>6. TypeOK'
  BY <1>1, <1>2, <1>3, <1>5 DEF TypeOK
<1>7. Held(stack[1]) = {}
  BY DEF Held
<1>8. OpenIn(stack') = OpenIn(stack)
  BY <1>5, <1>7
<1>9. Orderly
  BY <1>1, <1>2, <1>3, <1>8 DEF Orderly
<1>10. HeldOnce(stack')
  <2>1. stack \in Seq(Frames(nblocks)) /\ HeldOnce(stack)
    BY DEF TypeOK, VisitorsOwnTheirBlocks
  <2>2. HeldOnce(fs) /\ OpenIn(fs) \cap OpenIn(Tail(stack)) = {}
    <3>1. \A i \in DOMAIN fs : DOMAIN fs[i].open = {}
      <4> SUFFICES ASSUME NEW i \in DOMAIN fs, NEW j \in DOMAIN fs[i].open
                   PROVE  FALSE
        OBVIOUS
      <4>1. fs[i].open[j] \in OpenIn(fs)
        BY DEF OpenIn, Held
      <4> QED  BY <4>1
    <3> QED  BY <3>1 DEF HeldOnce
  <2> QED  BY <2>1, <2>2, HeldOnceReplaced
<1>11. VisitorsOwnTheirBlocks'
  <2>1. OpenIn(stack) \subseteq Blocks
    BY OpenAreBlocks
  <2> QED  BY <1>1, <1>8, <1>10, <2>1 DEF VisitorsOwnTheirBlocks, Same
<1> QED  BY <1>6, <1>9, <1>11

-----------------------------------------------------------------------------
(* Steps that create no block. *)

Fillers == {"RhsEnd", "LoopEnd", "IfBranchEnd", "ForBodyEnd", "ForCond"}

\* Most visitors hold no block while they wait.
LEMMA TopHoldsNothing ==
    ASSUME TypeOK, NEW k \in FrameKinds \ Fillers, Top(k)
    PROVE  stack # <<>> /\ stack[1].open = <<>>
BY RunningFrame DEF Top, Frames, FrameOK, Fillers

\* The frames of a call hold no block.
LEMMA CallFrames ==
    ASSUME NEW n \in Nat, NEW m \in 0 .. MaxArgs, NEW w \in SUBSET Types,
           NEW k \in {"CallEnd", "DivertedEnd"},
           NEW fs, fs = Arguments(m) \o <<Frame(k, w, <<>>, 0)>>
    PROVE  /\ fs \in Seq(Frames(n))
           /\ OpenIn(fs) = {}
           /\ \A j \in DOMAIN fs : fs[j].k # "RhsEnd"
<1> DEFINE f == Frame(k, w, <<>>, 0)
           G == {g \in Frames(n) : g.open = <<>> /\ g.k # "RhsEnd"}
<1>1. f \in G /\ Exp(Types) \in G
  BY FrameTypes DEF Frame, Exp, Types
<1> HIDE DEF f, G
<1>2. Arguments(m) \in Seq(G) /\ <<f>> \in Seq(G)
  BY <1>1 DEF Arguments, MaxArgs
<1>3. fs \in Seq(G)
  BY <1>2, ConcatProperties DEF f
<1>4. \A j \in DOMAIN fs : fs[j] \in G
  BY <1>3
<1>5. G \subseteq Frames(n)
  BY DEF G
<1>6. fs \in Seq(Frames(n))
  BY <1>3, <1>5, SeqMonotonic
<1>7. OpenIn(fs) = {}
  BY <1>4 DEF OpenIn, Held, G
<1> QED  BY <1>4, <1>6, <1>7 DEF G

\* What && and || are defined for is some type.
LEMMA LogicTypesHave == LogicTypes \in SUBSET Types /\ LogicTypes # {}
BY DEF LogicTypes, Types

\* Visiting a node only pushes frames.
LEMMA VisitSteps ==
    ASSUME TypeOK, VisitorsOwnTheirBlocks,
           \/ VisitSeqStmt \/ SeqNext \/ SeqEnd \/ VisitCallStmt
           \/ VisitAssignStmt \/ VisitArrayAssignStmt \/ VisitReturnStmt
           \/ VisitDeclArray \/ VisitCallExp \/ VisitDivertedExp \/ VisitArrayAccessExp
           \/ (\E op \in {"&&", "||"} : VisitShortCircuit(op))
           \/ VisitIfStmt \/ VisitForStmt
    PROVE  TypeOK' /\ VisitorsOwnTheirBlocks' /\ Orderly
<1> DEFINE Pushes(fs) ==
        /\ fs \in Seq(Frames(nblocks))
        /\ stack' = fs \o Tail(stack)
        /\ OpenIn(fs) = {}
        /\ \A j \in DOMAIN fs : fs[j].k # "RhsEnd"
<1>0. /\ nblocks \in Nat /\ code \in [Blocks -> Seq(Instrs(nblocks))]
      /\ val \in Vals /\ fuel \in 0 .. MaxNodes
      /\ phase \in {"emit", "done", "aborted"}
      /\ flow \in {"falls", "returned", "overrun"}
  BY DEF TypeOK
<1>1. /\ UNCHANGED blockVars /\ code' = code /\ val' = val /\ phase' = phase
      /\ flow' \in {"falls", "returned", "overrun"}
  BY <1>0 DEF VisitSeqStmt, SeqNext, SeqEnd, VisitCallStmt, VisitAssignStmt,
         VisitArrayAssignStmt, VisitReturnStmt, VisitDeclArray, VisitCallExp,
         VisitArrayAccessExp, VisitDivertedExp, VisitShortCircuit, VisitIfStmt, VisitForStmt,
         Followed, blockVars
<1>2. fuel' \in 0 .. MaxNodes
  BY <1>0, MaxNodesAssumption DEF VisitSeqStmt, SeqNext, SeqEnd, VisitCallStmt,
         VisitAssignStmt, VisitArrayAssignStmt, VisitReturnStmt, VisitDeclArray,
         VisitCallExp, VisitArrayAccessExp, VisitDivertedExp, VisitShortCircuit, VisitIfStmt,
         VisitForStmt, Visit
<1>3. \E k \in {"stmt", "seq", "exp"} : Top(k)
  BY DEF VisitSeqStmt, SeqNext, SeqEnd, VisitCallStmt, VisitAssignStmt,
         VisitArrayAssignStmt, VisitReturnStmt, VisitDeclArray, VisitCallExp,
         VisitArrayAccessExp, VisitDivertedExp, VisitShortCircuit, VisitIfStmt, VisitForStmt, Visit
<1>4. stack # <<>> /\ stack[1].open = <<>>
  BY <1>3, TopHoldsNothing DEF FrameKinds, Fillers
<1>5. \A want : Held(Exp(want)) = {}
  BY DEF Exp, Frame, Held
<1>6. \A k : Held(Item(k)) = {}
  BY DEF Item, Frame, Held
<1>7. \A k : Item(k).k = k /\ \A w : Exp(w).k = "exp"
  BY DEF Item, Exp, Frame
<1>8. {"i32"} \in SUBSET Types /\ {"i1"} \in SUBSET Types /\ CondTypes \in SUBSET Types
      /\ {FnType} \in SUBSET Types /\ Types \in SUBSET Types /\ Types # {} /\ CondTypes # {}
  BY FnTypeAssumption DEF Types, CondTypes
<1>9. /\ Stmt \in Frames(nblocks) /\ Held(Stmt) = {} /\ Stmt.k = "stmt"
      /\ \A k \in {"seq", "CallEnd", "Store", "Ret", "ArraySize", "&&", "||",
                   "IfCond", "ForInit"} : Item(k) \in Frames(nblocks)
      /\ \A w \in SUBSET Types : w # {} => Exp(w) \in Frames(nblocks)
  BY <1>0, <1>6, <1>7, FrameTypes DEF Stmt
<1>10. ASSUME NEW f \in Frames(nblocks), Held(f) = {}, f.k # "RhsEnd", Become(<<f>>)
       PROVE  Pushes(<<f>>)
  BY <1>10, OpenInShort DEF Become
<1>11. ASSUME NEW f \in Frames(nblocks), Held(f) = {}, f.k # "RhsEnd",
              NEW g \in Frames(nblocks), Held(g) = {}, g.k # "RhsEnd", Become(<<f, g>>)
       PROVE  Pushes(<<f, g>>)
  BY <1>11, OpenInShort DEF Become
<1>20. ASSUME NEW fs, Pushes(fs)
       PROVE  TypeOK' /\ VisitorsOwnTheirBlocks' /\ Orderly
  <2>0. code' = code
    BY <1>1
  <2>1. \A b \in Blocks \ {at} : Same(b)
    BY <2>0 DEF Same
  <2>2. /\ val' \in Vals /\ code' \in [Blocks -> Seq(Instrs(nblocks))]
        /\ phase' \in {"emit", "done", "aborted"}
    BY <1>0, <1>1
  <2>3. fs \in Seq(Frames(nblocks)) /\ stack' = fs \o Tail(stack)
        /\ OpenIn(fs) = {} /\ \A j \in DOMAIN fs : fs[j].k # "RhsEnd"
    BY <1>20
  <2> HIDE DEF Pushes
  <2> QED  BY <2>1, <2>2, <2>3, <1>1, <1>2, <1>4, QuietStep
<1> DEFINE Keys == {"Store", "Ret", "ArraySize", "&&", "||", "IfCond"}
<1>21. ASSUME NEW w \in SUBSET Types, w # {}, NEW k \in Keys, Become(<<Exp(w), Item(k)>>)
       PROVE  TypeOK' /\ VisitorsOwnTheirBlocks' /\ Orderly
  <2>1. /\ Exp(w) \in Frames(nblocks) /\ Held(Exp(w)) = {} /\ Exp(w).k # "RhsEnd"
        /\ Item(k) \in Frames(nblocks) /\ Held(Item(k)) = {} /\ Item(k).k # "RhsEnd"
    BY <1>21, <1>5, <1>6, <1>7, <1>9
  <2>2. Pushes(<<Exp(w), Item(k)>>)
    BY <2>1, <1>11, <1>21
  <2> QED  BY <2>2, <1>20
<1> HIDE DEF Pushes
<1>30. CASE SeqEnd
  <2>1. Pushes(<<>>)
    BY <1>30, OpenInShort, EmptySeq DEF SeqEnd, Become, Pushes
  <2> QED  BY <2>1, <1>20
<1>31. CASE VisitSeqStmt
  <2>1. Pushes(<<Item("seq")>>)
    BY <1>31, <1>6, <1>7, <1>9, <1>10 DEF VisitSeqStmt
  <2> QED  BY <2>1, <1>20
<1>32. CASE SeqNext
  <2>1. Pushes(<<Stmt, Item("seq")>>)
    BY <1>32, <1>6, <1>7, <1>9, <1>11 DEF SeqNext
  <2> QED  BY <2>1, <1>20
<1>33. CASE VisitCallStmt \/ VisitCallExp \/ VisitDivertedExp
  <2>1. PICK n \in 0 .. MaxArgs, w \in SUBSET Types, k \in {"CallEnd", "DivertedEnd"} :
           Become(Arguments(n) \o <<Frame(k, w, <<>>, 0)>>)
    <3>1. CASE VisitCallStmt
      BY <3>1 DEF VisitCallStmt, Item
    <3>2. CASE VisitCallExp
      <4>1. stack[1].want \subseteq Types
        BY <1>4, RunningFrame DEF Frames
      <4>2. PICK n \in 0 .. MaxArgs, ty \in stack[1].want :
               Become(Arguments(n) \o <<Frame("CallEnd", {ty}, <<>>, 0)>>)
        BY <3>2 DEF VisitCallExp
      <4>3. {ty} \in SUBSET Types
        BY <4>1
      <4> QED  BY <4>2, <4>3
    <3>3. CASE VisitDivertedExp
      <4>1. stack[1].want \subseteq Types
        BY <1>4, RunningFrame DEF Frames
      <4>2. PICK n \in 1 .. MaxArgs, ty \in stack[1].want :
               Become(Arguments(n) \o <<Frame("DivertedEnd", {ty}, <<>>, 0)>>)
        BY <3>3 DEF VisitDivertedExp
      <4>3. {ty} \in SUBSET Types /\ n \in 0 .. MaxArgs
        BY <4>1 DEF MaxArgs
      <4> QED  BY <4>2, <4>3
    <3> QED  BY <1>33, <3>1, <3>2, <3>3
  <2> DEFINE fs == Arguments(n) \o <<Frame(k, w, <<>>, 0)>>
  <2>2. Pushes(fs)
    BY <2>1, <1>0, CallFrames DEF Become, Pushes
  <2> QED  BY <2>2, <1>20
<1>34. CASE VisitAssignStmt
  BY <1>34, <1>8, <1>21 DEF VisitAssignStmt
<1>35. CASE VisitArrayAssignStmt
  <2> DEFINE e == Exp(Types)  i == Exp({"i32"})  st == Item("Store")
  <2>1. /\ e \in Frames(nblocks) /\ Held(e) = {} /\ e.k # "RhsEnd"
        /\ i \in Frames(nblocks) /\ Held(i) = {} /\ i.k # "RhsEnd"
        /\ st \in Frames(nblocks) /\ Held(st) = {} /\ st.k # "RhsEnd"
    BY <1>5, <1>6, <1>7, <1>8, <1>9
  <2>2. Become(<<e, i, st>>)
    BY <1>35 DEF VisitArrayAssignStmt
  <2> HIDE DEF e, i, st
  <2>3. Pushes(<<e, i, st>>)
    BY <2>1, <2>2, OpenInShort DEF Become, Pushes
  <2> QED  BY <2>3, <1>20
<1>36. CASE VisitReturnStmt
  BY <1>36, <1>8, <1>21 DEF VisitReturnStmt
<1>37. CASE VisitDeclArray
  BY <1>37, <1>8, <1>21 DEF VisitDeclArray
<1>38. CASE VisitArrayAccessExp
  <2>1. stack[1].want \subseteq Types
    BY <1>4, RunningFrame DEF Frames
  <2>2. PICK ty \in stack[1].want :
           Become(<<Exp({"i32"}), Frame("CallEnd", {ty}, <<>>, 0)>>)
    BY <1>38 DEF VisitArrayAccessExp
  <2>3. {ty} \in SUBSET Types
    BY <2>1
  <2> DEFINE f == Frame("CallEnd", {ty}, <<>>, 0)
  <2>4. f \in Frames(nblocks) /\ Held(f) = {} /\ f.k # "RhsEnd"
    BY <2>3, <1>0, FrameTypes DEF Frame, Held
  <2>5. Pushes(<<Exp({"i32"}), f>>)
    BY <2>2, <2>4, <1>5, <1>7, <1>8, <1>9, <1>11
  <2> QED  BY <2>5, <1>20
<1>39. CASE \E op \in {"&&", "||"} : VisitShortCircuit(op)
  <2>1. stack[1].want \subseteq Types
    BY <1>4, RunningFrame DEF Frames
  <2>2. PICK op \in {"&&", "||"}, ty \in stack[1].want :
           Become(<<Exp(LogicTypes), Frame(op, {ty}, <<>>, 0)>>)
    BY <1>39 DEF VisitShortCircuit
  <2> DEFINE e == Exp(LogicTypes)  f == Frame(op, {ty}, <<>>, 0)
  <2>3. e \in Frames(nblocks) /\ Held(e) = {} /\ e.k # "RhsEnd"
    BY <1>5, <1>7, <1>8, <1>9, LogicTypesHave
  <2>4. f \in Frames(nblocks) /\ Held(f) = {} /\ f.k # "RhsEnd"
    BY <2>1, <1>0, FrameTypes DEF Frame, Held
  <2> HIDE DEF e, f
  <2>5. Pushes(<<e, f>>)
    BY <2>2, <2>3, <2>4, <1>11 DEF e, f
  <2> QED  BY <2>5, <1>20
<1>40. CASE VisitIfStmt
  BY <1>40, <1>8, <1>21 DEF VisitIfStmt
<1>41. CASE VisitForStmt
  <2>1. Pushes(<<Stmt, Item("ForInit")>>)
    BY <1>41, <1>6, <1>7, <1>9, <1>11 DEF VisitForStmt
  <2> QED  BY <2>1, <1>20
<1> QED  BY <1>30, <1>31, <1>32, <1>33, <1>34, <1>35, <1>36, <1>37, <1>38, <1>39,
            <1>40, <1>41

\* Emitting one instruction into the insertion block, and no more.
LEMMA EmitSteps ==
    ASSUME TypeOK, VisitorsOwnTheirBlocks, Store \/ ReturnEnd \/ ArraySizeConst \/ CallEnd
    PROVE  TypeOK' /\ VisitorsOwnTheirBlocks' /\ Orderly
<1>0. /\ nblocks \in Nat /\ code \in [Blocks -> Seq(Instrs(nblocks))] /\ at \in Blocks
      /\ val \in Vals /\ fuel \in 0 .. MaxNodes
      /\ phase \in {"emit", "done", "aborted"}
      /\ flow \in {"falls", "returned", "overrun"}
  BY DEF TypeOK
<1>1. \E k \in {"Store", "Ret", "ArraySize", "CallEnd"} : Top(k)
  BY DEF Store, ReturnEnd, ArraySizeConst, CallEnd
<1>2. stack # <<>> /\ stack[1].open = <<>>
  BY <1>1, TopHoldsNothing DEF FrameKinds, Fillers
<1>3. PICK i \in Instrs(nblocks) : code' = Emit(i)
  BY <1>0, InstrTypes DEF Store, ReturnEnd, ArraySizeConst, CallEnd, Vals
<1>4. code' \in [Blocks -> Seq(Instrs(nblocks))] /\ \A b \in Blocks \ {at} : Same(b)
  BY <1>3, EmitType DEF Same
<1>5. val' \in Vals
  <2>1. CASE CallEnd
    <3>1. stack[1].want \subseteq Types
      BY <1>2, RunningFrame DEF Frames
    <3>2. stack[1].want # {} => (CHOOSE ty \in stack[1].want : TRUE) \in Types
      BY <3>1
    <3> QED  BY <2>1, <3>2 DEF CallEnd, Vals, NoVal, Value
  <2>2. CASE ~CallEnd
    BY <2>2 DEF Store, ReturnEnd, ArraySizeConst, Vals, NoVal, Value
  <2> QED  BY <2>1, <2>2
<1>6. flow' \in {"falls", "returned", "overrun"}
  BY <1>0 DEF Store, ReturnEnd, ArraySizeConst, CallEnd, Left
<1>7. /\ UNCHANGED blockVars /\ fuel' = fuel /\ phase' = phase /\ stack' = <<>> \o Tail(stack)
  BY DEF Store, ReturnEnd, ArraySizeConst, CallEnd, Become
<1>8. /\ <<>> \in Seq(Frames(nblocks)) /\ OpenIn(<<>>) = {}
      /\ \A j \in DOMAIN <<>> : <<>>[j].k # "RhsEnd"
  BY OpenInShort
<1>9. fuel' \in 0 .. MaxNodes /\ phase' \in {"emit", "done", "aborted"}
  BY <1>0, <1>7
<1> QED  BY <1>2, <1>4, <1>5, <1>6, <1>7, <1>8, <1>9, QuietStep

\* A leaf may be loaded, a diverted call may be folded.
LEMMA LeafStep ==
    ASSUME TypeOK, VisitorsOwnTheirBlocks, Leaf \/ DivertedEnd
    PROVE  TypeOK' /\ VisitorsOwnTheirBlocks' /\ Orderly
<1>0. /\ nblocks \in Nat /\ code \in [Blocks -> Seq(Instrs(nblocks))] /\ at \in Blocks
      /\ fuel \in 0 .. MaxNodes /\ phase \in {"emit", "done", "aborted"}
      /\ flow \in {"falls", "returned", "overrun"}
  BY DEF TypeOK
<1>1. stack # <<>> /\ stack[1].open = <<>>
  BY TopHoldsNothing DEF Leaf, DivertedEnd, FrameKinds, Fillers
<1>2. stack[1].want \subseteq Types
  BY <1>1, RunningFrame DEF Frames
<1>3. val' \in Vals
  BY <1>2 DEF Leaf, DivertedEnd, Vals, Value
<1>4. code' = code \/ code' = Emit(Plain)
  BY DEF Leaf, DivertedEnd
<1>5. Plain \in Instrs(nblocks)
  BY <1>0, InstrTypes
<1>6. code' \in [Blocks -> Seq(Instrs(nblocks))] /\ \A b \in Blocks \ {at} : Same(b)
  BY <1>0, <1>4, <1>5, EmitType DEF Same
<1>7. /\ UNCHANGED blockVars /\ stack' = <<>> \o Tail(stack)
      /\ fuel' = fuel /\ phase' = phase /\ flow' = flow
  BY DEF Leaf, DivertedEnd, Become
<1>8. /\ <<>> \in Seq(Frames(nblocks)) /\ OpenIn(<<>>) = {}
      /\ \A j \in DOMAIN <<>> : <<>>[j].k # "RhsEnd"
  BY OpenInShort
<1>9. /\ fuel' \in 0 .. MaxNodes /\ phase' \in {"emit", "done", "aborted"}
      /\ flow' \in {"falls", "returned", "overrun"}
  BY <1>0, <1>7
<1> QED  BY <1>1, <1>3, <1>6, <1>7, <1>8, <1>9, QuietStep

\* A declaration puts its alloca in front of the entry block.
LEMMA DeclStep ==
    ASSUME TypeOK, VisitorsOwnTheirBlocks, VisitDeclStmt
    PROVE  TypeOK' /\ VisitorsOwnTheirBlocks' /\ Orderly
<1>0. /\ nblocks \in Nat \ {0} /\ code \in [Blocks -> Seq(Instrs(nblocks))]
      /\ val \in Vals /\ fuel \in 0 .. MaxNodes
      /\ phase \in {"emit", "done", "aborted"}
      /\ flow \in {"falls", "returned", "overrun"}
  BY DEF TypeOK
<1>1. stack # <<>> /\ stack[1].open = <<>>
  BY TopHoldsNothing DEF VisitDeclStmt, Visit, FrameKinds, Fillers
<1>2. /\ UNCHANGED blockVars /\ val' = val /\ phase' = phase /\ flow' = flow
      /\ code' = [code EXCEPT ![Entry] = PutFront(@)]
  BY DEF VisitDeclStmt
<1>3. Entry \in Blocks /\ Plain \in Instrs(nblocks)
  BY <1>0, InstrTypes DEF Entry, Blocks
<1>4. PutFront(code[Entry]) \in Seq(Instrs(nblocks))
  BY <1>0, <1>3, PutFrontKeeps
<1>5. code' \in [Blocks -> Seq(Instrs(nblocks))] /\ \A b \in Blocks \ {at} : Same(b)
  BY <1>0, <1>2, <1>3, <1>4 DEF Same
<1>6. fuel' \in 0 .. MaxNodes
  BY <1>0, MaxNodesAssumption DEF VisitDeclStmt, Visit
<1>7. PICK fs \in {<<>>, <<Exp(Types), Item("Store")>>} : stack' = fs \o Tail(stack)
  BY DEF VisitDeclStmt, Become
<1>8. /\ Exp(Types) \in Frames(nblocks) /\ Item("Store") \in Frames(nblocks)
      /\ Held(Exp(Types)) = {} /\ Held(Item("Store")) = {}
      /\ Exp(Types).k # "RhsEnd" /\ Item("Store").k # "RhsEnd"
  <2>1. Types \in SUBSET Types /\ Types # {}
    BY DEF Types
  <2> QED  BY <1>0, <2>1, FrameTypes DEF Exp, Item, Frame, Held
<1>9. /\ fs \in Seq(Frames(nblocks)) /\ OpenIn(fs) = {}
      /\ \A j \in DOMAIN fs : fs[j].k # "RhsEnd"
  <2>1. CASE fs = <<>>
    BY <2>1, OpenInShort
  <2>2. CASE fs = <<Exp(Types), Item("Store")>>
    <3> DEFINE e == Exp(Types)  i == Item("Store")
    <3>1. /\ e \in Frames(nblocks) /\ i \in Frames(nblocks) /\ Held(e) = {}
          /\ Held(i) = {} /\ e.k # "RhsEnd" /\ i.k # "RhsEnd" /\ fs = <<e, i>>
      BY <1>8, <2>2
    <3> HIDE DEF e, i
    <3> QED  BY <3>1, OpenInShort
  <2> QED  BY <2>1, <2>2
<1>10. /\ val' \in Vals /\ phase' \in {"emit", "done", "aborted"}
       /\ flow' \in {"falls", "returned", "overrun"}
  BY <1>0, <1>2
<1> QED  BY <1>1, <1>2, <1>5, <1>6, <1>7, <1>9, <1>10, QuietStep

\* Steps that touch neither the stack nor the blocks' structure.
LEMMA EndSteps ==
    ASSUME TypeOK, VisitorsOwnTheirBlocks, ArraySizeThrow \/ Finish
    PROVE  TypeOK' /\ VisitorsOwnTheirBlocks' /\ Orderly
<1>0. /\ nblocks \in Nat \ {0} /\ code \in [Blocks -> Seq(Instrs(nblocks))]
      /\ at \in Blocks
  BY DEF TypeOK
<1>1. /\ UNCHANGED <<blockVars, stack, val, fuel, flow>>
      /\ phase' \in {"done", "aborted"}
      /\ code' = code \/ code' = Emit(Ret("i32"))
  BY DEF ArraySizeThrow, Finish
<1>2. nblocks' = nblocks /\ layout' = layout /\ at' = at /\ Blocks' = Blocks
  BY <1>1 DEF blockVars, Blocks
<1>3. Ret("i32") \in Instrs(nblocks)
  BY <1>0, InstrTypes DEF Types
<1>4. code' \in [Blocks -> Seq(Instrs(nblocks))] /\ \A b \in Blocks \ {at} : Same(b)
  BY <1>0, <1>1, <1>3, EmitType DEF Same
<1>5. TypeOK'
  BY <1>1, <1>2, <1>4 DEF TypeOK
<1>6. OpenIn(stack') = OpenIn(stack)
  BY <1>1
<1>7. Orderly
  BY <1>2, <1>4, <1>6 DEF Orderly
<1>8. VisitorsOwnTheirBlocks'
  <2>1. OpenIn(stack) \subseteq Blocks
    BY OpenAreBlocks
  <2> QED  BY <1>1, <1>2, <1>4, <1>6, <2>1 DEF VisitorsOwnTheirBlocks, Same
<1> QED  BY <1>5, <1>7, <1>8

-----------------------------------------------------------------------------
(* Steps that move the insertion point. *)

\* The blocks made when n become n + 1, ..., n + 4.
LEMMA NewBlocks ==
    ASSUME NEW n \in Nat
    PROVE  /\ (1 .. n + 1) \ (1 .. n) = {n + 1}
           /\ (1 .. n + 2) \ (1 .. n) = {n + 1, n + 2}
           /\ (1 .. n + 3) \ (1 .. n) = {n + 1, n + 2, n + 3}
           /\ (1 .. n + 4) \ (1 .. n) = {n + 1, n + 2, n + 3, n + 4}
<1>1. (1 .. n + 1) \ (1 .. n) = {n + 1}
  OBVIOUS
<1>2. (1 .. n + 2) \ (1 .. n) = {n + 1, n + 2}
  OBVIOUS
<1>3. (1 .. n + 3) \ (1 .. n) = {n + 1, n + 2, n + 3}
  OBVIOUS
<1>4. (1 .. n + 4) \ (1 .. n) = {n + 1, n + 2, n + 3, n + 4}
  OBVIOUS
<1> QED  BY <1>1, <1>2, <1>3, <1>4

\* A step that ends the insertion block and moves on to a new block or to one
\* that the running visitor held.
LEMMA MoveStep ==
    ASSUME TypeOK, VisitorsOwnTheirBlocks, stack # <<>>, nblocks' \in Nat, nblocks <= nblocks',
           NEW fs \in Seq(Frames(nblocks')), stack' = fs \o Tail(stack),
           NEW new \in Seq(1 .. nblocks'), layout' = layout \o new,
           (\E j \in DOMAIN fs : fs[j].k = "RhsEnd") => Len(layout') >= 2,
           code' \in [1 .. nblocks' -> Seq(Instrs(nblocks'))],
           at' \in 1 .. nblocks', val' \in Vals, fuel' \in 0 .. MaxNodes,
           phase' \in {"emit", "done", "aborted"},
           flow' \in {"falls", "returned", "overrun"},
           EndsBlock(code'[at]),
           Held(stack[1]) \subseteq OpenIn(fs) \cup {at'},
           OpenIn(fs) \subseteq Held(stack[1]) \cup (Blocks' \ Blocks),
           HeldOnce(fs), at' \notin OpenIn(fs),
           \A b \in OpenIn(fs) : code'[b] = <<>>,
           at' \in Held(stack[1]) \cup (Blocks' \ Blocks),
           \A b \in Blocks \ ({at} \cup Held(stack[1])) : code'[b] = code[b],
           \A b \in (Blocks' \ Blocks) : b = at' \/ b \in OpenIn(fs) \/ EndsBlock(code'[b])
    PROVE  TypeOK' /\ VisitorsOwnTheirBlocks' /\ Orderly
<1>1. /\ nblocks' \in Nat \ {0}
      /\ layout' \in Seq(Blocks')
      /\ stack' \in Seq(Frames(nblocks'))
      /\ layout' # <<>>
      /\ (\E i \in DOMAIN stack' : stack'[i].k = "RhsEnd") => Len(layout') >= 2
      /\ OpenIn(stack') = OpenIn(fs) \cup OpenIn(Tail(stack))
      /\ OpenIn(stack) = Held(stack[1]) \cup OpenIn(Tail(stack))
  BY StackStep
<1>2. Blocks' = 1 .. nblocks'
  BY DEF Blocks
<1>3. TypeOK'
  BY <1>1, <1>2 DEF TypeOK
<1>4. Blocks \subseteq Blocks'
  <2>1. nblocks \in Nat
    BY DEF TypeOK
  <2> QED  BY <2>1 DEF Blocks
<1>5. Orderly
  BY <1>1, <1>4 DEF Orderly, Same
<1>6. /\ OpenIn(stack) \subseteq Blocks /\ nblocks \in Nat \ {0}
      /\ Held(stack[1]) \cap OpenIn(Tail(stack)) = {}
      /\ OpenIn(fs) \cap OpenIn(Tail(stack)) = {} => HeldOnce(fs \o Tail(stack))
  <2>1. stack \in Seq(Frames(nblocks')) /\ HeldOnce(stack)
    BY MoreBlocks DEF TypeOK, VisitorsOwnTheirBlocks
  <2> DEFINE F == Frames(nblocks')
  <2>2. stack \in Seq(F) /\ fs \in Seq(F)
    BY <2>1
  <2> HIDE DEF F
  <2>3. /\ Held(stack[1]) \cap OpenIn(Tail(stack)) = {}
        /\ OpenIn(fs) \cap OpenIn(Tail(stack)) = {} => HeldOnce(fs \o Tail(stack))
    BY <2>1, <2>2, HeldOnceReplaced
  <2> QED  BY <2>3, OpenAreBlocks DEF TypeOK
<1>7. OpenIn(fs) \cap OpenIn(Tail(stack)) = {} /\ at' \notin OpenIn(Tail(stack))
  BY <1>1, <1>6
<1>8. HeldOnce(stack')
  BY <1>6, <1>7
<1>9. Entry \notin OpenIn(stack) /\ Entry \in Blocks
  BY <1>6 DEF VisitorsOwnTheirBlocks, Entry, Blocks
<1>10. \A b \in OpenIn(stack') : b # at' /\ b # Entry /\ code'[b] = <<>>
  <2> SUFFICES ASSUME NEW b \in OpenIn(stack')
               PROVE  b # at' /\ b # Entry /\ code'[b] = <<>>
    OBVIOUS
  <2>1. CASE b \in OpenIn(fs)
    BY <2>1, <1>1, <1>9
  <2>2. CASE b \in OpenIn(Tail(stack))
    <3>1. b \in Blocks /\ b # at /\ b \notin Held(stack[1]) /\ b # Entry /\ code[b] = <<>>
      BY <2>2, <1>1, <1>6 DEF VisitorsOwnTheirBlocks
    <3> QED  BY <2>2, <3>1, <1>7
  <2> QED  BY <1>1, <2>1, <2>2
<1> QED  BY <1>3, <1>5, <1>8, <1>10 DEF VisitorsOwnTheirBlocks

\* The code after n blocks were made and the insertion block, whose code was s,
\* got its last instruction i.
After(n, s, i) == [Grow(n) EXCEPT ![at] = Put(s, i)]

LEMMA GrowPut ==
    ASSUME TypeOK, NEW n \in Nat, NEW i \in Instrs(nblocks + n), i.op \in Terminators,
           NEW s, s = code[at] \/ s = Put(code[at], Plain),
           NEW c, c = After(n, s, i)
    PROVE  /\ c \in [1 .. nblocks + n -> Seq(Instrs(nblocks + n))]
           /\ EndsBlock(c[at])
           /\ \A b \in Blocks \ {at} : c[b] = code[b]
           /\ \A b \in nblocks + 1 .. nblocks + n : c[b] = <<>>
<1> DEFINE S == Instrs(nblocks + n)  D == 1 .. nblocks + n
<1>1. /\ Grow(n) \in [D -> Seq(S)] /\ \A b \in Blocks : Grow(n)[b] = code[b]
      /\ at \in D /\ code[at] \in Seq(S)
  BY GrowType
<1>2. Plain \in S /\ i \in S
  <2>1. nblocks + n \in Nat
    BY DEF TypeOK
  <2> QED  BY <2>1, InstrTypes
<1>3. Blocks \subseteq D
  BY DEF TypeOK, Blocks
<1>7. \A b \in nblocks + 1 .. nblocks + n : b \in D /\ b # at /\ Grow(n)[b] = <<>>
  BY DEF TypeOK, Blocks, Grow
<1> HIDE DEF S, D
<1>4. s \in Seq(S)
  BY <1>1, <1>2, PutType
<1>5. Put(s, i) \in Seq(S) /\ EndsBlock(Put(s, i))
  BY <1>2, <1>4, PutType, PutEnds
<1>6. c \in [D -> Seq(S)] /\ c[at] = Put(s, i) /\ \A b \in Blocks \ {at} : c[b] = code[b]
  BY <1>1, <1>3, <1>5 DEF After
<1>8. \A b \in nblocks + 1 .. nblocks + n : c[b] = <<>>
  BY <1>1, <1>5, <1>7 DEF After
<1> QED  BY <1>5, <1>6, <1>8 DEF S, D

\* What a suspended visitor holds, for the lengths that occur.
LEMMA HeldShort ==
    /\ \A k, w, l : Held(Frame(k, w, <<>>, l)) = {}
    /\ \A k, w, b, l : Held(Frame(k, w, <<b>>, l)) = {b}
    /\ \A k, w, b, c, l : Held(Frame(k, w, <<b, c>>, l)) = {b, c}
    /\ \A k, w, b, c, d, l : Held(Frame(k, w, <<b, c, d>>, l)) = {b, c, d}
<1>1. \A k, w, o, l : Frame(k, w, o, l).open = o
  BY DEF Frame
<1>2. /\ DOMAIN <<>> = {}
      /\ \A b : DOMAIN <<b>> = {1}
      /\ \A b, c : DOMAIN <<b, c>> = {1, 2}
      /\ \A b, c, d : DOMAIN <<b, c, d>> = {1, 2, 3}
  OBVIOUS
<1>3. \A k, w, l : Held(Frame(k, w, <<>>, l)) = {}
  BY <1>1, <1>2 DEF Held
<1>4. \A k, w, b, l : Held(Frame(k, w, <<b>>, l)) = {b}
  BY <1>1, <1>2 DEF Held
<1>5. \A k, w, b, c, l : Held(Frame(k, w, <<b, c>>, l)) = {b, c}
  BY <1>1, <1>2 DEF Held
<1>6. \A k, w, b, c, d, l : Held(Frame(k, w, <<b, c, d>>, l)) = {b, c, d}
  BY <1>1, <1>2 DEF Held
<1> QED  BY <1>3, <1>4, <1>5, <1>6

\* Splitting the held blocks of the running frame.
LEMMA HeldRunning ==
    ASSUME TypeOK, NEW k, Top(k)
    PROVE  /\ stack # <<>>
           /\ stack[1].open \in Seq(Blocks)
           /\ Held(stack[1]) \subseteq Blocks
           /\ k \in {"RhsEnd", "LoopEnd"} =>
                 stack[1].open[1] \in Blocks /\ Held(stack[1]) = {stack[1].open[1]}
           /\ k \in {"LoopEnd", "WhileCond", "ForBodyEnd", "ForCond"} =>
                 stack[1].back \in Blocks
<1>1. stack # <<>> /\ stack[1].k = k /\ stack[1] \in Frames(nblocks) /\ nblocks \in Nat
  BY RunningFrame DEF Top, TypeOK
<1>2. stack[1].open \in Seq(Blocks) /\ FrameOK(stack[1]) /\ stack[1].back \in 0 .. nblocks
  BY <1>1 DEF Frames, Blocks
<1>3. DOMAIN stack[1].open = 1 .. Len(stack[1].open)
      /\ \A i \in DOMAIN stack[1].open : stack[1].open[i] \in Blocks
  BY <1>2
<1>4. k \in {"RhsEnd", "LoopEnd"} => DOMAIN stack[1].open = {1}
  <2> HAVE k \in {"RhsEnd", "LoopEnd"}
  <2>1. stack[1].k \in {"RhsEnd", "LoopEnd"}
    BY <1>1
  <2>2. Len(stack[1].open) = 1
    BY <1>2, <2>1 DEF FrameOK
  <2> QED  BY <1>3, <2>2
<1>5. k \in {"LoopEnd", "WhileCond", "ForBodyEnd", "ForCond"} => stack[1].back \in Blocks
  BY <1>1, <1>2 DEF FrameOK, Blocks
<1> QED  BY <1>1, <1>2, <1>3, <1>4, <1>5 DEF Held

\* A run-time array size: two new blocks, one of them finished at once.
LEMMA ArraySizeDynamicStep ==
    ASSUME TypeOK, VisitorsOwnTheirBlocks, ArraySizeDynamic
    PROVE  TypeOK' /\ VisitorsOwnTheirBlocks' /\ Orderly
<1> DEFINE error == nblocks + 1
           continue == nblocks + 2
           n == nblocks + 2
           i == CondBr("i1", continue, error)
           c == [Grow(2) EXCEPT ![at] = Put(Put(@, Plain), i)]
<1>0. /\ nblocks \in Nat \ {0} /\ code \in [Blocks -> Seq(Instrs(nblocks))]
      /\ at \in Blocks /\ fuel \in 0 .. MaxNodes
      /\ phase \in {"emit", "done", "aborted"}
      /\ flow \in {"falls", "returned", "overrun"}
  BY DEF TypeOK
<1>1. stack # <<>> /\ Held(stack[1]) = {}
  BY TopHoldsNothing DEF ArraySizeDynamic, FrameKinds, Fillers, Held
<1>2. /\ nblocks' = n /\ layout' = layout \o <<error, continue>> /\ at' = continue
      /\ stack' = <<>> \o Tail(stack)
      /\ fuel' = fuel /\ phase' = phase /\ flow' = flow /\ val' \in Vals
      /\ code' = [Grow(2) EXCEPT ![at] = Put(Put(@, Plain), i),
                                 ![error] = <<Plain, Unreachable>>,
                                 ![continue] = <<Plain>>]
  BY DEF ArraySizeDynamic, Become, NoVal, Vals, Value
<1>3. /\ Plain \in Instrs(n) /\ Unreachable \in Instrs(n) /\ i \in Instrs(n)
      /\ i.op \in Terminators /\ Unreachable.op \in Terminators
  BY <1>0, InstrTypes, InstrOps DEF Types
<1>4. /\ c \in [1 .. n -> Seq(Instrs(n))] /\ EndsBlock(c[at])
      /\ \A b \in Blocks \ {at} : c[b] = code[b]
  <2>1. c = After(2, Put(code[at], Plain), i)
    BY <1>0, GrowType DEF After
  <2>2. i \in Instrs(nblocks + 2) /\ i.op \in Terminators
    BY <1>3
  <2> HIDE DEF c, i
  <2> QED  BY <2>1, <2>2, GrowPut
<1>5. at \in 1 .. n /\ error \in 1 .. n /\ continue \in 1 .. n
      /\ error # at /\ continue # at /\ error # continue
      /\ error \notin Blocks /\ continue \notin Blocks
  BY <1>0 DEF Blocks
<1>6. /\ <<Plain, Unreachable>> \in Seq(Instrs(n)) /\ <<Plain>> \in Seq(Instrs(n))
      /\ EndsBlock(<<Plain, Unreachable>>)
  BY <1>3 DEF EndsBlock
<1>7. code' = [[c EXCEPT ![error] = <<Plain, Unreachable>>] EXCEPT ![continue] = <<Plain>>]
  BY <1>2
<1>8. /\ code' \in [1 .. n -> Seq(Instrs(n))]
      /\ code'[at] = c[at] /\ code'[error] = <<Plain, Unreachable>>
      /\ \A b \in Blocks \ {at} : code'[b] = code[b]
  <2>1. Blocks \subseteq 1 .. n
    BY <1>0 DEF Blocks
  <2> DEFINE S == Seq(Instrs(n))
  <2>2. <<Plain, Unreachable>> \in S /\ <<Plain>> \in S /\ c \in [1 .. n -> S]
    BY <1>4, <1>6
  <2> HIDE DEF c, error, continue, n, S
  <2>3. /\ code' \in [1 .. n -> S]
        /\ code'[at] = c[at] /\ code'[error] = <<Plain, Unreachable>>
    BY <2>2, <1>5, <1>7
  <2>4. \A b \in Blocks \ {at} : code'[b] = c[b]
    BY <2>1, <2>2, <1>5, <1>7
  <2> QED  BY <2>3, <2>4, <1>4 DEF S
<1>9. Blocks' \ Blocks = {error, continue}
  BY <1>0, <1>2, NewBlocks DEF Blocks
<1>10. <<error, continue>> \in Seq(1 .. n) /\ <<>> \in Seq(Frames(n))
  BY <1>5
<1>11. /\ nblocks' \in Nat /\ nblocks <= nblocks' /\ at' \in 1 .. nblocks'
       /\ fuel' \in 0 .. MaxNodes /\ phase' \in {"emit", "done", "aborted"}
       /\ flow' \in {"falls", "returned", "overrun"}
  BY <1>0, <1>2, <1>5
<1>12. EndsBlock(code'[at]) /\ EndsBlock(code'[error])
  BY <1>4, <1>6, <1>8
<1>13. /\ Held(stack[1]) \subseteq OpenIn(<<>>) \cup {at'}
       /\ OpenIn(<<>>) \subseteq Held(stack[1]) \cup (Blocks' \ Blocks)
       /\ at' \in Held(stack[1]) \cup (Blocks' \ Blocks)
       /\ \A b \in Blocks \ ({at} \cup Held(stack[1])) : code'[b] = code[b]
       /\ \A b \in Blocks' \ Blocks :
             b = at' \/ b \in OpenIn(<<>>) \/ EndsBlock(code'[b])
  <2> HIDE DEF error, continue
  <2> QED  BY <1>1, <1>2, <1>8, <1>9, <1>12, OpenInShort
<1>14. (\E j \in DOMAIN <<>> : <<>>[j].k = "RhsEnd") => Len(layout') >= 2
  OBVIOUS
<1>15. HeldOnce(<<>>) /\ at' \notin OpenIn(<<>>) /\ \A b \in OpenIn(<<>>) : code'[b] = <<>>
  BY OpenInShort DEF HeldOnce
<1>16. /\ <<>> \in Seq(Frames(nblocks')) /\ <<error, continue>> \in Seq(1 .. nblocks')
       /\ code' \in [1 .. nblocks' -> Seq(Instrs(nblocks'))]
  BY <1>2, <1>8, <1>10
<1>17. layout' = layout \o <<error, continue>> /\ stack' = <<>> \o Tail(stack) /\ val' \in Vals
  BY <1>2
<1> HIDE DEF c, error, continue, i, n
<1> QED  BY <1>1, <1>11, <1>12, <1>13, <1>14, <1>15, <1>16, <1>17, MoveStep

\* The usual move: end the insertion block with one instruction, make n blocks,
\* and leave every new or held block to itself or to a suspended visitor.
LEMMA MoveOn ==
    ASSUME TypeOK, VisitorsOwnTheirBlocks, NEW k, Top(k), NEW n \in Nat, nblocks' = nblocks + n,
           NEW fs \in Seq(Frames(nblocks + n)), stack' = fs \o Tail(stack),
           NEW new \in Seq(1 .. nblocks + n), layout' = layout \o new,
           (\E j \in DOMAIN fs : fs[j].k = "RhsEnd") => Len(layout') >= 2,
           NEW i \in Instrs(nblocks + n), i.op \in Terminators,
           NEW s, s = code[at] \/ s = Put(code[at], Plain),
           code' = After(n, s, i),
           val' \in Vals, fuel' \in 0 .. MaxNodes, phase' = phase,
           flow' \in {"falls", "returned", "overrun"},
           HeldOnce(fs), at' \notin OpenIn(fs),
           {at'} \cup OpenIn(fs) = Held(stack[1]) \cup (nblocks + 1 .. nblocks + n)
    PROVE  TypeOK' /\ VisitorsOwnTheirBlocks' /\ Orderly
<1>1. /\ stack # <<>> /\ Held(stack[1]) \subseteq Blocks /\ nblocks \in Nat
      /\ phase \in {"emit", "done", "aborted"}
  BY HeldRunning DEF TypeOK
<1>2. /\ code' \in [1 .. nblocks + n -> Seq(Instrs(nblocks + n))]
      /\ EndsBlock(code'[at])
      /\ \A b \in Blocks \ {at} : code'[b] = code[b]
      /\ \A b \in nblocks + 1 .. nblocks + n : code'[b] = <<>>
  BY GrowPut
<1>3. Blocks' \ Blocks = nblocks + 1 .. nblocks + n
  BY <1>1 DEF Blocks
<1>4. Blocks \subseteq 1 .. nblocks + n /\ nblocks + 1 .. nblocks + n \subseteq 1 .. nblocks + n
  BY <1>1 DEF Blocks
<1>5. /\ Held(stack[1]) \subseteq OpenIn(fs) \cup {at'}
      /\ OpenIn(fs) \subseteq Held(stack[1]) \cup (Blocks' \ Blocks)
      /\ at' \in Held(stack[1]) \cup (Blocks' \ Blocks)
      /\ \A b \in Blocks \ ({at} \cup Held(stack[1])) : code'[b] = code[b]
      /\ \A b \in (Blocks' \ Blocks) : b = at' \/ b \in OpenIn(fs) \/ EndsBlock(code'[b])
  BY <1>2, <1>3
<1>6. at' \in 1 .. nblocks'
  BY <1>1, <1>3, <1>4, <1>5
<1>7. nblocks' \in Nat /\ nblocks <= nblocks' /\ phase' \in {"emit", "done", "aborted"}
  BY <1>1
<1>8. /\ fs \in Seq(Frames(nblocks')) /\ new \in Seq(1 .. nblocks')
      /\ code' \in [1 .. nblocks' -> Seq(Instrs(nblocks'))]
  BY <1>2
<1>9. \A b \in OpenIn(fs) : code'[b] = <<>>
  <2>1. \A b \in Held(stack[1]) : b \in OpenIn(stack)
    BY <1>1, StackReplaced, EmptySeq DEF TypeOK
  <2>2. \A b \in Held(stack[1]) : b # at /\ code[b] = <<>>
    BY <2>1 DEF VisitorsOwnTheirBlocks
  <2> QED  BY <2>2, <1>1, <1>2
<1> QED  BY <1>1, <1>2, <1>5, <1>6, <1>7, <1>8, <1>9, MoveStep

\* No new block: the code changes in the insertion block only.
LEMMA GrowNone ==
    ASSUME TypeOK, NEW i
    PROVE  /\ Emit(i) = After(0, code[at], i)
           /\ layout = layout \o <<>>
<1>1. nblocks \in Nat /\ code \in [1 .. nblocks -> Seq(Instrs(nblocks))] /\ layout \in Seq(Blocks)
  BY DEF TypeOK, Blocks
<1>2. Grow(0) = code
  BY <1>1 DEF Grow
<1> QED  BY <1>1, <1>2, ConcatEmptySeq DEF Emit, After

\* codegenCondExp adds a comparison or nothing.
LEMMA CondCodeShape ==
    ASSUME NEW s
    PROVE  CondCode(s) = s \/ CondCode(s) = Put(s, Plain)
BY DEF CondCode

LEMMA CondTypeHas == TypeOK => CondType \in Types \cup {"none"}
BY DEF TypeOK, Vals, CondType, Types

\* && and ||: the lhs block branches to the rhs block or to the end block.
LEMMA ShortCircuitLhsStep ==
    ASSUME TypeOK, VisitorsOwnTheirBlocks, NEW op \in {"&&", "||"}, ShortCircuitLhs(op)
    PROVE  TypeOK' /\ VisitorsOwnTheirBlocks' /\ Orderly
<1> DEFINE rhs == nblocks + 1
           end == nblocks + 2
           i == IF op = "&&" THEN CondBr(val.ty, rhs, end) ELSE CondBr(val.ty, end, rhs)
           f == Exp(LogicTypes)
           w == stack[1].want
           g == Frame("RhsEnd", w, <<end>>, 0)
           n == nblocks + 2
<1>0. /\ nblocks \in Nat \ {0} /\ fuel \in 0 .. MaxNodes /\ val.ty \in Types \cup {"none"}
      /\ flow \in {"falls", "returned", "overrun"} /\ at \in Blocks
      /\ layout \in Seq(Blocks) /\ layout # <<>>
  BY DEF TypeOK, Vals
<1>1. /\ Top(op) /\ nblocks' = nblocks + 2 /\ layout' = layout \o <<rhs>> /\ at' = rhs
      /\ stack' = <<f, g>> \o Tail(stack) /\ val' \in Vals
      /\ fuel' = fuel /\ phase' = phase /\ flow' = flow
  BY DEF ShortCircuitLhs, Listed, Become, NoVal, Vals, Value
<1>2. code' = After(2, code[at], i)
  BY <1>0, GrowType DEF ShortCircuitLhs, After
<1>3. rhs \in 1 .. n /\ end \in 1 .. n /\ nblocks + 1 .. n = {rhs, end}
  BY <1>0
<1>4. i \in Instrs(n) /\ i.op \in Terminators
  BY <1>0, <1>3, InstrTypes, InstrOps
<1>5. f \in Frames(n) /\ g \in Frames(n) /\ Held(f) = {} /\ Held(g) = {end}
      /\ HeldOnce(<<f, g>>)
  <2>1. f \in Frames(n)
    <3>1. n \in Nat
      BY <1>0
    <3> QED  BY <3>1, LogicTypesHave, FrameTypes
  <2>2. g \in Frames(n)
    <3>1. w \in SUBSET Types /\ n \in Nat
      BY <1>0, <1>1, RunningFrame DEF Top, Frames
    <3> QED  BY <3>1, <1>3, FrameTypes
  <2>3. Held(f) = {} /\ Held(g) = {end}
    BY HeldShort DEF Exp
  <2>4. f.open = <<>> /\ f.k = "exp"
    BY DEF Exp, Frame
  <2>5. \A m1, m2 \in DOMAIN g.open : m1 = m2
    BY DEF Frame
  <2> QED  BY <2>1, <2>2, <2>3, <2>4, <2>5, HeldOncePair
<1>6. Held(stack[1]) = {}
  BY <1>1, TopHoldsNothing DEF Held, FrameKinds, Fillers
<1>7. Len(layout') >= 2
  <2>1. layout \in Seq(1 .. n) /\ <<rhs>> \in Seq(1 .. n) /\ Len(<<rhs>>) = 1
    BY <1>0, <1>3, MoreBlocks DEF Blocks
  <2>2. Len(layout) \in Nat \ {0}
    BY <1>0, EmptySeq
  <2> QED  BY <1>1, <2>1, <2>2, ConcatProperties
<1> HIDE DEF rhs, end, i, f, g
<1>8. <<f, g>> \in Seq(Frames(n)) /\ OpenIn(<<f, g>>) = {end} /\ <<rhs>> \in Seq(1 .. n)
  BY <1>3, <1>5, OpenInShort
<1>9. {at'} \cup OpenIn(<<f, g>>) = Held(stack[1]) \cup (nblocks + 1 .. n)
  BY <1>1, <1>3, <1>6, <1>8
<1>10. at' \notin OpenIn(<<f, g>>)
  <2>1. rhs # end
    BY <1>0 DEF rhs, end
  <2> QED  BY <2>1, <1>1, <1>8
<1>11. fuel' \in 0 .. MaxNodes /\ flow' \in {"falls", "returned", "overrun"}
  BY <1>0, <1>1
<1> QED  BY <1>1, <1>2, <1>4, <1>5, <1>7, <1>8, <1>9, <1>10, <1>11, MoveOn

\* The end block of && and || joins the list and starts with its phi.
LEMMA ShortCircuitEndStep ==
    ASSUME TypeOK, VisitorsOwnTheirBlocks, ShortCircuitEnd
    PROVE  TypeOK' /\ VisitorsOwnTheirBlocks' /\ Orderly
<1> DEFINE end == stack[1].open[1]
           m == Phi(TwoBefore(layout), RhsBlock, val.ty)
<1>0. /\ nblocks \in Nat \ {0} /\ fuel \in 0 .. MaxNodes /\ at \in Blocks
      /\ code \in [Blocks -> Seq(Instrs(nblocks))] /\ layout \in Seq(Blocks)
      /\ flow \in {"falls", "returned", "overrun"}
      /\ phase \in {"emit", "done", "aborted"}
  BY DEF TypeOK
<1>1. /\ Top("RhsEnd") /\ layout' = layout \o <<end>> /\ at' = end /\ nblocks' = nblocks
      /\ code' = [code EXCEPT ![at] = Put(@, Br(end)), ![end] = <<m>>]
      /\ stack' = <<>> \o Tail(stack) /\ val' \in Vals
      /\ fuel' = fuel /\ phase' = phase /\ flow' = flow
  <2>1. stack # <<>> /\ stack[1].want \subseteq Types
    BY RunningFrame DEF ShortCircuitEnd, Top, Frames
  <2> QED  BY <2>1 DEF ShortCircuitEnd, Become, Vals, Value, Types
<1>2. stack # <<>> /\ end \in Blocks /\ Held(stack[1]) = {end}
  BY <1>1, HeldRunning
<1>3. TwoBefore(layout) \in Blocks
  <2>1. stack \in Seq(Frames(nblocks)) /\ 1 \in DOMAIN stack /\ stack[1].k = "RhsEnd"
    BY <1>1, <1>2, EmptySeq DEF TypeOK, Top
  <2>2. Len(layout) >= 2
    BY <2>1 DEF TypeOK
  <2> QED  BY <1>0, <2>2 DEF TwoBefore
<1>4. end # at /\ end # Entry
  <2>1. end \in OpenIn(stack)
    BY <1>2, StackReplaced, EmptySeq DEF TypeOK
  <2> QED  BY <2>1 DEF VisitorsOwnTheirBlocks
<1>5. m \in Instrs(nblocks) /\ Br(end) \in Instrs(nblocks) /\ Br(end).op \in Terminators
  <2>1. /\ end \in 1 .. nblocks /\ at \in 1 .. nblocks
        /\ TwoBefore(layout) \in 1 .. nblocks /\ val.ty \in Types \cup {"none"}
    BY <1>0, <1>2, <1>3 DEF Blocks, TypeOK, Vals
  <2> QED  BY <1>0, <2>1, InstrTypes, InstrOps DEF RhsBlock
<1> DEFINE S == Instrs(nblocks)
<1> HIDE DEF end, m, S
<1>6. /\ Put(code[at], Br(end)) \in Seq(S) /\ EndsBlock(Put(code[at], Br(end)))
      /\ <<m>> \in Seq(S)
  <2>1. code[at] \in Seq(S) /\ Br(end) \in S /\ m \in S /\ Br(end).op \in Terminators
    BY <1>0, <1>5 DEF S
  <2>2. Put(code[at], Br(end)) \in Seq(S)
    BY <2>1, PutType
  <2>3. EndsBlock(Put(code[at], Br(end)))
    BY <2>1, PutEnds
  <2> QED  BY <2>1, <2>2, <2>3
<1>7. /\ code' \in [Blocks -> Seq(S)] /\ code'[at] = Put(code[at], Br(end))
      /\ \A b \in Blocks \ {at, end} : code'[b] = code[b]
  BY <1>0, <1>1, <1>2, <1>4, <1>6 DEF S
<1>8. Blocks = 1 .. nblocks /\ Blocks' = Blocks
  BY <1>1 DEF Blocks
<1>9. /\ <<>> \in Seq(Frames(nblocks')) /\ <<end>> \in Seq(1 .. nblocks')
      /\ HeldOnce(<<>>) /\ OpenIn(<<>>) = {}
      /\ (\E j \in DOMAIN <<>> : <<>>[j].k = "RhsEnd") => Len(layout') >= 2
  BY <1>1, <1>2, <1>8, OpenInShort DEF HeldOnce
<1>10. /\ nblocks' \in Nat /\ nblocks <= nblocks' /\ at' \in 1 .. nblocks'
       /\ code' \in [1 .. nblocks' -> Seq(Instrs(nblocks'))] /\ EndsBlock(code'[at])
       /\ fuel' \in 0 .. MaxNodes /\ phase' \in {"emit", "done", "aborted"}
       /\ flow' \in {"falls", "returned", "overrun"}
  BY <1>0, <1>1, <1>2, <1>6, <1>7, <1>8 DEF S
<1>11. /\ Held(stack[1]) \subseteq OpenIn(<<>>) \cup {at'}
       /\ OpenIn(<<>>) \subseteq Held(stack[1]) \cup (Blocks' \ Blocks)
       /\ at' \notin OpenIn(<<>>) /\ \A b \in OpenIn(<<>>) : code'[b] = <<>>
       /\ at' \in Held(stack[1]) \cup (Blocks' \ Blocks)
       /\ \A b \in Blocks \ ({at} \cup Held(stack[1])) : code'[b] = code[b]
       /\ \A b \in (Blocks' \ Blocks) : b = at' \/ b \in OpenIn(<<>>) \/ EndsBlock(code'[b])
  BY <1>1, <1>2, <1>7, <1>8, <1>9
<1> QED  BY <1>1, <1>2, <1>9, <1>10, <1>11, MoveStep

\* The condition of an if is done: then, perhaps else, and join are made.
LEMMA IfCondStep ==
    ASSUME TypeOK, VisitorsOwnTheirBlocks, NEW hasElse \in BOOLEAN, IfCond(hasElse)
    PROVE  TypeOK' /\ VisitorsOwnTheirBlocks' /\ Orderly
<1> DEFINE then == nblocks + 1
           d == IF hasElse THEN 3 ELSE 2
           join == nblocks + d
           rest == IF hasElse THEN <<nblocks + 2, join>> ELSE <<join>>
           i == CondBr(CondType, then, rest[1])
           g == Frame("IfBranchEnd", {}, rest, 0)
           new == <<then>> \o rest
<1>0. /\ nblocks \in Nat \ {0} /\ fuel \in 0 .. MaxNodes
      /\ flow \in {"falls", "returned", "overrun"}
  BY DEF TypeOK
<1>1. /\ Top("IfCond") /\ nblocks' = nblocks + d /\ layout' = layout \o new /\ at' = then
      /\ stack' = <<Stmt, g>> \o Tail(stack) /\ val' \in Vals
      /\ fuel' = fuel /\ phase' = phase /\ flow' = flow
  BY <1>0 DEF IfCond, Become, NoVal, Vals, Value
<1>2. code' = After(d, CondCode(code[at]), i)
  <2>1. code' = [Grow(join - nblocks) EXCEPT ![at] = Put(CondCode(@), i)]
    BY DEF IfCond
  <2>2. join - nblocks = d /\ d \in Nat
    BY <1>0
  <2>3. Grow(d)[at] = code[at]
    BY <2>2, GrowType DEF TypeOK
  <2> QED  BY <2>1, <2>2, <2>3 DEF After
<1>3. /\ d \in Nat /\ then \in 1 .. nblocks + d /\ rest \in Seq(1 .. nblocks + d)
      /\ Len(rest) \in {1, 2} /\ rest[1] \in 1 .. nblocks + d
  <2>1. CASE hasElse
    <3>1. /\ d = 3 /\ rest = <<nblocks + 2, nblocks + 3>>
      BY <2>1
    <3>2. /\ 3 \in Nat /\ then \in 1 .. nblocks + 3 /\ nblocks + 2 \in 1 .. nblocks + 3
          /\ nblocks + 3 \in 1 .. nblocks + 3
      BY <1>0
    <3>3. /\ <<nblocks + 2, nblocks + 3>> \in Seq(1 .. nblocks + 3)
          /\ Len(<<nblocks + 2, nblocks + 3>>) = 2
          /\ <<nblocks + 2, nblocks + 3>>[1] = nblocks + 2
      BY <3>2
    <3> HIDE DEF then, d, join, rest
    <3> QED  BY <3>1, <3>2, <3>3
  <2>2. CASE ~hasElse
    <3>1. /\ d = 2 /\ rest = <<nblocks + 2>>
      BY <2>2
    <3> QED  BY <3>1, <1>0
  <2> QED  BY <2>1, <2>2
<1>4. i \in Instrs(nblocks + d) /\ i.op \in Terminators
  <2>1. nblocks + d \in Nat /\ CondType \in Types \cup {"none"}
    BY <1>0, CondTypeHas
  <2> QED  BY <2>1, <1>3, InstrTypes, InstrOps
<1>5. /\ Stmt \in Frames(nblocks + d) /\ g \in Frames(nblocks + d)
      /\ Stmt.k # "RhsEnd" /\ g.k # "RhsEnd"
  <2>1. nblocks + d \in Nat
    BY <1>0
  <2> QED  BY <2>1, <1>3, FrameTypes DEF Stmt, Item, Frame
<1>6. Held(Stmt) = {} /\ Stmt.open = <<>>
  BY HeldShort DEF Stmt, Item, Frame
<1>7. {then} \cup Held(g) = nblocks + 1 .. nblocks + d /\ then \notin Held(g)
  <2>1. CASE hasElse
    BY <2>1, <1>0, HeldShort
  <2>2. CASE ~hasElse
    BY <2>2, <1>0, HeldShort
  <2> QED  BY <2>1, <2>2
<1>8. HeldOnce(<<Stmt, g>>)
  <2>1. \A m1, m2 \in DOMAIN g.open : g.open[m1] = g.open[m2] => m1 = m2
    BY <1>0 DEF Frame
  <2> HIDE DEF g
  <2> QED  BY <2>1, <1>6, HeldOncePair
<1>9. Held(stack[1]) = {}
  BY <1>1, TopHoldsNothing DEF Held, FrameKinds, Fillers
<1>10. new \in Seq(1 .. nblocks + d)
  BY <1>3
<1> HIDE DEF then, d, join, rest, i, g, new
<1>11. /\ <<Stmt, g>> \in Seq(Frames(nblocks + d)) /\ OpenIn(<<Stmt, g>>) = Held(g)
       /\ (\E j \in DOMAIN <<Stmt, g>> : <<Stmt, g>>[j].k = "RhsEnd") => Len(layout') >= 2
  <2>1. OpenIn(<<Stmt, g>>) = Held(g)
    BY <1>6, OpenInShort
  <2>2. \A j \in DOMAIN <<Stmt, g>> : <<Stmt, g>>[j].k # "RhsEnd"
    BY <1>5
  <2> QED  BY <1>5, <2>1, <2>2
<1>12. fuel' \in 0 .. MaxNodes /\ flow' \in {"falls", "returned", "overrun"}
  BY <1>0, <1>1
<1> QED  BY <1>1, <1>2, <1>3, <1>4, <1>7, <1>8, <1>9, <1>10, <1>11, <1>12, CondCodeShape, MoveOn

\* A while statement: the loop block.
LEMMA WhileStep ==
    ASSUME TypeOK, VisitorsOwnTheirBlocks, VisitWhileStmt
    PROVE  TypeOK' /\ VisitorsOwnTheirBlocks' /\ Orderly
<1> DEFINE loop == nblocks + 1
           n == nblocks + 1
           i == Br(loop)
           f == Exp(CondTypes)
           g == Frame("WhileCond", {}, <<>>, loop)
<1>0. /\ nblocks \in Nat \ {0} /\ flow \in {"falls", "returned", "overrun"} /\ val \in Vals
      /\ fuel \in 0 .. MaxNodes
  BY DEF TypeOK
<1>1. /\ Top("stmt") /\ nblocks' = nblocks + 1 /\ layout' = layout \o <<loop>> /\ at' = loop
      /\ stack' = <<f, g>> \o Tail(stack) /\ val' \in Vals
      /\ phase' = phase /\ flow' = flow
  BY <1>0 DEF VisitWhileStmt, Visit, Become
<1>2. code' = After(1, code[at], i)
  BY GrowType DEF VisitWhileStmt, After, TypeOK
<1>3. fuel' \in 0 .. MaxNodes
  BY <1>0, MaxNodesAssumption DEF VisitWhileStmt, Visit
<1>4. loop \in 1 .. n /\ n \in Nat /\ nblocks + 1 .. n = {loop}
  BY <1>0
<1>5. i \in Instrs(n) /\ i.op \in Terminators
  BY <1>4, InstrTypes, InstrOps
<1>6. f \in Frames(n) /\ f.k # "RhsEnd" /\ f.open = <<>> /\ Held(f) = {}
  <2>1. CondTypes \in SUBSET Types /\ CondTypes # {}
    BY DEF CondTypes, Types
  <2> QED  BY <2>1, <1>4, FrameTypes, HeldShort DEF Exp, Frame
<1>7. g \in Frames(n) /\ g.k # "RhsEnd" /\ g.open = <<>> /\ Held(g) = {}
  BY <1>4, FrameTypes, HeldShort DEF Frame
<1>8. Held(stack[1]) = {}
  BY <1>1, TopHoldsNothing DEF Held, FrameKinds, Fillers
<1> HIDE DEF loop, i, f, g
<1>9. HeldOnce(<<f, g>>)
  BY <1>6, <1>7, HeldOncePair
<1>10. /\ <<f, g>> \in Seq(Frames(n)) /\ OpenIn(<<f, g>>) = {} /\ <<loop>> \in Seq(1 .. n)
       /\ (\E j \in DOMAIN <<f, g>> : <<f, g>>[j].k = "RhsEnd") => Len(layout') >= 2
  BY <1>4, <1>6, <1>7, OpenInShort
<1> QED  BY <1>0, <1>1, <1>2, <1>3, <1>4, <1>5, <1>8, <1>9, <1>10, MoveOn

\* The condition of a while is done: body and join are made.
LEMMA WhileCondStep ==
    ASSUME TypeOK, VisitorsOwnTheirBlocks, WhileCond
    PROVE  TypeOK' /\ VisitorsOwnTheirBlocks' /\ Orderly
<1> DEFINE body == nblocks + 1
           join == nblocks + 2
           n == nblocks + 2
           i == CondBr(CondType, body, join)
           g == Frame("LoopEnd", {}, <<join>>, stack[1].back)
<1>0. /\ nblocks \in Nat \ {0} /\ flow \in {"falls", "returned", "overrun"}
      /\ fuel \in 0 .. MaxNodes
  BY DEF TypeOK
<1>1. /\ Top("WhileCond") /\ nblocks' = nblocks + 2 /\ layout' = layout \o <<body, join>>
      /\ at' = body /\ stack' = <<Stmt, g>> \o Tail(stack) /\ val' \in Vals
      /\ fuel' = fuel /\ phase' = phase /\ flow' = flow
  BY <1>0 DEF WhileCond, Become, NoVal, Vals, Value
<1>2. code' = After(2, CondCode(code[at]), i)
  BY GrowType DEF WhileCond, After, TypeOK
<1>3. body \in 1 .. n /\ join \in 1 .. n /\ n \in Nat /\ nblocks + 1 .. n = {body, join}
      /\ body # join
  BY <1>0
<1>4. i \in Instrs(n) /\ i.op \in Terminators
  BY <1>3, CondTypeHas, InstrTypes, InstrOps
<1>5. Stmt \in Frames(n) /\ Stmt.k # "RhsEnd" /\ Stmt.open = <<>> /\ Held(Stmt) = {}
  BY <1>3, FrameTypes, HeldShort DEF Stmt, Item, Frame
<1>6. g \in Frames(n)
  <2>1. stack[1].back \in 1 .. n
    BY <1>0, <1>1, HeldRunning DEF Blocks
  <2>2. <<join>> \in Seq(1 .. n) /\ Len(<<join>>) = 1
    BY <1>3
  <2> HIDE DEF n, join
  <2> QED  BY <2>1, <2>2, <1>3, FrameTypes
<1>7. /\ g.k # "RhsEnd" /\ Held(g) = {join}
      /\ \A m1, m2 \in DOMAIN g.open : g.open[m1] = g.open[m2] => m1 = m2
  BY HeldShort DEF Frame
<1>8. Held(stack[1]) = {}
  BY <1>1, TopHoldsNothing DEF Held, FrameKinds, Fillers
<1> HIDE DEF body, join, i, g
<1>9. HeldOnce(<<Stmt, g>>)
  BY <1>5, <1>7, HeldOncePair
<1>10. /\ <<Stmt, g>> \in Seq(Frames(n)) /\ OpenIn(<<Stmt, g>>) = {join}
       /\ <<body, join>> \in Seq(1 .. n) /\ at' \notin OpenIn(<<Stmt, g>>)
       /\ (\E j \in DOMAIN <<Stmt, g>> : <<Stmt, g>>[j].k = "RhsEnd") => Len(layout') >= 2
  <2>1. OpenIn(<<Stmt, g>>) = {join}
    BY <1>5, <1>7, OpenInShort
  <2>2. \A j \in DOMAIN <<Stmt, g>> : <<Stmt, g>>[j].k # "RhsEnd"
    BY <1>5, <1>7
  <2>3. <<Stmt, g>> \in Seq(Frames(n))
    BY <1>5, <1>6
  <2>4. <<body, join>> \in Seq(1 .. n)
    BY <1>3
  <2>5. at' \notin OpenIn(<<Stmt, g>>)
    BY <1>1, <1>3, <2>1
  <2> QED  BY <2>1, <2>2, <2>3, <2>4, <2>5
<1>11. fuel' \in 0 .. MaxNodes /\ flow' \in {"falls", "returned", "overrun"}
  BY <1>0, <1>1
<1>12. {at'} \cup OpenIn(<<Stmt, g>>) = Held(stack[1]) \cup (nblocks + 1 .. n)
  BY <1>1, <1>3, <1>8, <1>10
<1> QED  BY <1>1, <1>2, <1>4, <1>9, <1>10, <1>11, <1>12, CondCodeShape, MoveOn

\* The initialisation of a for is done: its four blocks are made.
LEMMA ForInitStep ==
    ASSUME TypeOK, VisitorsOwnTheirBlocks, ForInit
    PROVE  TypeOK' /\ VisitorsOwnTheirBlocks' /\ Orderly
<1> DEFINE header == nblocks + 1
           body == nblocks + 2
           update == nblocks + 3
           exit == nblocks + 4
           n == nblocks + 4
           i == Br(header)
           f == Exp(Types)
           g == Frame("ForCond", {}, <<body, update, exit>>, header)
           new == <<header, body, update, exit>>
<1>0. /\ nblocks \in Nat \ {0} /\ flow \in {"falls", "returned", "overrun"}
      /\ fuel \in 0 .. MaxNodes /\ val \in Vals
  BY DEF TypeOK
<1>1. /\ Top("ForInit") /\ nblocks' = nblocks + 4 /\ layout' = layout \o new
      /\ at' = header /\ stack' = <<f, g>> \o Tail(stack) /\ val' \in Vals
      /\ fuel' = fuel /\ phase' = phase /\ flow' \in {"falls", "returned", "overrun"}
  BY <1>0 DEF ForInit, Become, Followed
<1>2. code' = After(4, code[at], i)
  BY GrowType DEF ForInit, After, TypeOK
<1>3. /\ header \in 1 .. n /\ body \in 1 .. n /\ update \in 1 .. n /\ exit \in 1 .. n
      /\ n \in Nat /\ nblocks + 1 .. n = {header, body, update, exit}
      /\ header \notin {body, update, exit} /\ body \notin {update, exit} /\ update # exit
  BY <1>0
<1>4. i \in Instrs(n) /\ i.op \in Terminators
  BY <1>3, InstrTypes, InstrOps
<1>5. f \in Frames(n) /\ f.k # "RhsEnd" /\ f.open = <<>> /\ Held(f) = {}
  <2>1. Types \in SUBSET Types /\ Types # {}
    BY DEF Types
  <2> QED  BY <2>1, <1>3, FrameTypes, HeldShort DEF Exp, Frame
<1> HIDE DEF header, body, update, exit, n, i, f
<1>6. /\ g \in Frames(n) /\ g.k # "RhsEnd" /\ Held(g) = {body, update, exit}
      /\ \A m1, m2 \in DOMAIN g.open : g.open[m1] = g.open[m2] => m1 = m2
  <2>1. <<body, update, exit>> \in Seq(1 .. n) /\ Len(<<body, update, exit>>) = 3
    BY <1>3
  <2>2. g \in Frames(n)
    BY <2>1, <1>3, FrameTypes
  <2>3. g.k # "RhsEnd" /\ g.open = <<body, update, exit>>
    BY DEF Frame
  <2>4. Held(g) = {body, update, exit}
    BY HeldShort
  <2>5. \A m1, m2 \in DOMAIN g.open : g.open[m1] = g.open[m2] => m1 = m2
    BY <2>3, <1>3
  <2> QED  BY <2>2, <2>3, <2>4, <2>5
<1>7. new \in Seq(1 .. n)
  BY <1>3
<1>8. Held(stack[1]) = {}
  BY <1>1, TopHoldsNothing DEF Held, FrameKinds, Fillers
<1> HIDE DEF g, new
<1>9. HeldOnce(<<f, g>>)
  BY <1>5, <1>6, HeldOncePair
<1>10. OpenIn(<<f, g>>) = {body, update, exit}
  BY <1>5, <1>6, OpenInShort
<1>11. /\ <<f, g>> \in Seq(Frames(n))
       /\ (\E j \in DOMAIN <<f, g>> : <<f, g>>[j].k = "RhsEnd") => Len(layout') >= 2
  BY <1>5, <1>6
<1>12. /\ at' \notin OpenIn(<<f, g>>)
       /\ {at'} \cup OpenIn(<<f, g>>) = Held(stack[1]) \cup (nblocks + 1 .. n)
  BY <1>1, <1>3, <1>8, <1>10
<1>13. fuel' \in 0 .. MaxNodes
  BY <1>0, <1>1
<1> QED  BY <1>1, <1>2, <1>4, <1>7, <1>9, <1>11, <1>12, <1>13, MoveOn DEF n

\* The end of a loop: branch back, go on in the block after it.
LEMMA LoopEndStep ==
    ASSUME TypeOK, VisitorsOwnTheirBlocks, LoopEnd
    PROVE  TypeOK' /\ VisitorsOwnTheirBlocks' /\ Orderly
<1> DEFINE i == Br(stack[1].back)
           join == stack[1].open[1]
<1>0. /\ nblocks \in Nat \ {0} /\ flow \in {"falls", "returned", "overrun"}
      /\ fuel \in 0 .. MaxNodes /\ val \in Vals
  BY DEF TypeOK
<1>1. /\ Top("LoopEnd") /\ nblocks' = nblocks /\ layout' = layout
      /\ at' = join /\ stack' = <<>> \o Tail(stack) /\ val' = val
      /\ fuel' = fuel /\ phase' = phase /\ flow' \in {"falls", "returned", "overrun"}
      /\ code' = Emit(i)
  BY <1>0 DEF LoopEnd, Become, Followed
<1>2. Held(stack[1]) = {join} /\ stack[1].back \in 1 .. nblocks
  BY <1>1, HeldRunning DEF Blocks
<1>3. i \in Instrs(nblocks) /\ i.op \in Terminators
  BY <1>0, <1>2, InstrTypes, InstrOps
<1>4. code' = After(0, code[at], i) /\ layout' = layout \o <<>>
  BY <1>1, GrowNone
<1>5. nblocks + 0 = nblocks /\ nblocks + 1 .. nblocks + 0 = {}
  BY <1>0
<1>6. /\ <<>> \in Seq(Frames(nblocks)) /\ <<>> \in Seq(1 .. nblocks)
      /\ OpenIn(<<>>) = {} /\ HeldOnce(<<>>)
      /\ (\E j \in DOMAIN <<>> : <<>>[j].k = "RhsEnd") => Len(layout') >= 2
  BY OpenInShort DEF HeldOnce
<1> HIDE DEF i, join
<1>7. /\ at' \notin OpenIn(<<>>)
      /\ {at'} \cup OpenIn(<<>>) = Held(stack[1]) \cup (nblocks + 1 .. nblocks + 0)
  BY <1>1, <1>2, <1>5, <1>6
<1>8. val' \in Vals /\ fuel' \in 0 .. MaxNodes /\ nblocks' = nblocks + 0
  BY <1>0, <1>1
<1> QED  BY <1>1, <1>3, <1>4, <1>5, <1>6, <1>7, <1>8, MoveOn

\* The blocks a visitor holds are different, and what is left when it gives the
\* first of them up.
LEMMA OpenSplit ==
    ASSUME TypeOK, VisitorsOwnTheirBlocks, NEW k, Top(k), NEW o, o = stack[1].open
    PROVE  /\ Len(o) = 1 => Held(stack[1]) = {o[1]} /\ o[1] \in Blocks
           /\ Len(o) = 2 => /\ Held(stack[1]) = {o[1], o[2]} /\ o[1] # o[2]
                            /\ o[1] \in Blocks /\ o[2] \in Blocks /\ Tail(o) = <<o[2]>>
           /\ Len(o) = 3 => /\ Held(stack[1]) = {o[1], o[2], o[3]}
                            /\ o[1] # o[2] /\ o[1] # o[3] /\ o[2] # o[3]
                            /\ o[1] \in Blocks /\ o[2] \in Blocks /\ o[3] \in Blocks
                            /\ Tail(o) = <<o[2], o[3]>>
<1>1. stack # <<>> /\ o \in Seq(Blocks)
  BY HeldRunning
<1>2. 1 \in DOMAIN stack
  BY <1>1, EmptySeq DEF TypeOK
<1>3. \A i, j \in DOMAIN o : o[i] = o[j] => i = j
  BY <1>2 DEF VisitorsOwnTheirBlocks, HeldOnce
<1>4. Held(stack[1]) = {o[j] : j \in DOMAIN o}
  BY DEF Held
<1>5. DOMAIN o = 1 .. Len(o) /\ \A i \in DOMAIN o : o[i] \in Blocks
  BY <1>1
<1>6. ASSUME Len(o) = 1 PROVE Held(stack[1]) = {o[1]} /\ o[1] \in Blocks
  <2>1. DOMAIN o = {1}
    BY <1>5, <1>6
  <2> QED  BY <2>1, <1>4, <1>5
<1>7. ASSUME Len(o) = 2
      PROVE  /\ Held(stack[1]) = {o[1], o[2]} /\ o[1] # o[2]
             /\ o[1] \in Blocks /\ o[2] \in Blocks /\ Tail(o) = <<o[2]>>
  <2>1. DOMAIN o = {1, 2}
    BY <1>5, <1>7
  <2>2. Tail(o) = <<o[2]>>
    <3>0. o # <<>>
      BY <1>7, <1>1, EmptySeq
    <3>1. /\ Tail(o) \in Seq(Blocks) /\ Len(Tail(o)) = 1
          /\ \A i \in 1 .. Len(Tail(o)) : Tail(o)[i] = o[i + 1]
      <4>1. /\ Tail(o) \in Seq(Blocks) /\ Len(Tail(o)) = Len(o) - 1
            /\ \A i \in 1 .. Len(Tail(o)) : Tail(o)[i] = o[i + 1]
        BY <1>1, <3>0, HeadTailProperties
      <4> QED  BY <4>1, <1>7
    <3>2. <<o[2]>> \in Seq(Blocks) /\ Len(<<o[2]>>) = 1 /\ Tail(o)[1] = <<o[2]>>[1]
      BY <2>1, <3>1, <1>5
    <3>3. \A i \in 1 .. Len(Tail(o)) : Tail(o)[i] = <<o[2]>>[i]
      BY <3>1, <3>2
    <3> QED  BY <3>1, <3>2, <3>3, SeqEqual
  <2> QED  BY <2>1, <2>2, <1>3, <1>4, <1>5
<1>8. ASSUME Len(o) = 3
      PROVE  /\ Held(stack[1]) = {o[1], o[2], o[3]}
             /\ o[1] # o[2] /\ o[1] # o[3] /\ o[2] # o[3]
             /\ o[1] \in Blocks /\ o[2] \in Blocks /\ o[3] \in Blocks
             /\ Tail(o) = <<o[2], o[3]>>
  <2>1. DOMAIN o = {1, 2, 3}
    BY <1>5, <1>8
  <2>2. Tail(o) = <<o[2], o[3]>>
    <3>0. o # <<>>
      <4>1. Len(<<>>) = 0
        BY EmptySeq
      <4> QED  BY <1>8, <4>1
    <3>1. /\ Tail(o) \in Seq(Blocks) /\ Len(Tail(o)) = 2
          /\ \A i \in 1 .. Len(Tail(o)) : Tail(o)[i] = o[i + 1]
      <4>1. /\ Tail(o) \in Seq(Blocks) /\ Len(Tail(o)) = Len(o) - 1
            /\ \A i \in 1 .. Len(Tail(o)) : Tail(o)[i] = o[i + 1]
        BY <1>1, <3>0, HeadTailProperties
      <4> QED  BY <4>1, <1>8
    <3>2. /\ <<o[2], o[3]>> \in Seq(Blocks) /\ Len(<<o[2], o[3]>>) = 2
          /\ <<o[2], o[3]>>[1] = o[2] /\ <<o[2], o[3]>>[2] = o[3]
      BY <2>1, <1>5
    <3>3. Tail(o)[1] = o[2] /\ Tail(o)[2] = o[3] /\ 1 .. Len(Tail(o)) = {1, 2}
      <4>0. 1 .. 2 = {1, 2} /\ 1 + 1 = 2 /\ 2 + 1 = 3
        OBVIOUS
      <4>1. 1 .. Len(Tail(o)) = {1, 2} /\ 1 + 1 = 2 /\ 2 + 1 = 3
        BY <3>1, <4>0
      <4> QED  BY <3>1, <4>1
    <3>4. \A i \in 1 .. Len(Tail(o)) : Tail(o)[i] = <<o[2], o[3]>>[i]
      BY <3>2, <3>3
    <3> QED  BY <3>1, <3>2, <3>4, SeqEqual
  <2> QED  BY <2>1, <2>2, <1>3, <1>4, <1>5
<1> QED  BY <1>6, <1>7, <1>8

\* A visitor moves on to a block that it holds and keeps the others.
LEMMA MoveHeld ==
    ASSUME TypeOK, VisitorsOwnTheirBlocks, NEW k, Top(k),
           nblocks' = nblocks, layout' = layout,
           NEW fs \in Seq(Frames(nblocks)), stack' = fs \o Tail(stack),
           \A j \in DOMAIN fs : fs[j].k # "RhsEnd",
           code' \in [Blocks -> Seq(Instrs(nblocks))], EndsBlock(code'[at]),
           \A b \in Blocks \ {at} : code'[b] = code[b],
           val' \in Vals, fuel' = fuel, phase' = phase,
           flow' \in {"falls", "returned", "overrun"},
           HeldOnce(fs), at' \notin OpenIn(fs),
           {at'} \cup OpenIn(fs) = Held(stack[1])
    PROVE  TypeOK' /\ VisitorsOwnTheirBlocks' /\ Orderly
<1>1. /\ stack # <<>> /\ Held(stack[1]) \subseteq Blocks /\ nblocks \in Nat
      /\ phase \in {"emit", "done", "aborted"} /\ fuel \in 0 .. MaxNodes
      /\ layout \in Seq(Blocks)
  BY HeldRunning DEF TypeOK
<1>2. Blocks' = Blocks /\ Blocks = 1 .. nblocks
  BY DEF Blocks
<1>3. /\ Held(stack[1]) \subseteq OpenIn(fs) \cup {at'}
      /\ OpenIn(fs) \subseteq Held(stack[1]) \cup (Blocks' \ Blocks)
      /\ at' \in Held(stack[1]) \cup (Blocks' \ Blocks)
      /\ \A b \in Blocks \ ({at} \cup Held(stack[1])) : code'[b] = code[b]
      /\ \A b \in (Blocks' \ Blocks) : b = at' \/ b \in OpenIn(fs) \/ EndsBlock(code'[b])
  BY <1>2
<1>4. \A b \in OpenIn(fs) : code'[b] = <<>>
  <2>1. Held(stack[1]) \subseteq OpenIn(stack)
    BY <1>1, StackReplaced, EmptySeq DEF TypeOK
  <2> QED  BY <2>1, <1>1 DEF VisitorsOwnTheirBlocks
<1>5. /\ nblocks' \in Nat /\ nblocks <= nblocks' /\ at' \in 1 .. nblocks'
      /\ fuel' \in 0 .. MaxNodes /\ phase' \in {"emit", "done", "aborted"}
  BY <1>1, <1>2
<1>6. /\ <<>> \in Seq(1 .. nblocks') /\ layout' = layout \o <<>>
      /\ fs \in Seq(Frames(nblocks'))
      /\ code' \in [1 .. nblocks' -> Seq(Instrs(nblocks'))]
  BY <1>1, <1>2, ConcatEmptySeq, EmptySeq
<1>7. (\E j \in DOMAIN fs : fs[j].k = "RhsEnd") => Len(layout') >= 2
  OBVIOUS
<1> QED  BY <1>1, <1>3, <1>4, <1>5, <1>6, <1>7, MoveStep

\* The condition of a for is done: on to the body.
LEMMA ForCondStep ==
    ASSUME TypeOK, VisitorsOwnTheirBlocks, ForCond
    PROVE  TypeOK' /\ VisitorsOwnTheirBlocks' /\ Orderly
<1> DEFINE o == stack[1].open
           i == CondBr(val.ty, o[1], o[3])
           g == Frame("ForBodyEnd", {}, Tail(o), stack[1].back)
<1>0. /\ nblocks \in Nat \ {0} /\ val.ty \in Types \cup {"none"}
      /\ flow \in {"falls", "returned", "overrun"}
  BY DEF TypeOK, Vals
<1>1. /\ Top("ForCond") /\ nblocks' = nblocks /\ layout' = layout /\ at' = o[1]
      /\ stack' = <<Stmt, g>> \o Tail(stack) /\ val' \in Vals /\ fuel' = fuel
      /\ phase' = phase /\ flow' = flow /\ code' = Emit(i)
  BY DEF ForCond, Become, NoVal, Vals, Value
<1>2. Len(o) = 3 /\ stack[1].back \in 1 .. nblocks
  <2>1. stack # <<>> /\ stack[1].back \in 1 .. nblocks
    BY <1>1, HeldRunning DEF Blocks
  <2> QED  BY <2>1, <1>1, RunningFrame DEF Top, Frames, FrameOK
<1>3. /\ Held(stack[1]) = {o[1], o[2], o[3]} /\ o[1] # o[2] /\ o[1] # o[3] /\ o[2] # o[3]
      /\ o[1] \in 1 .. nblocks /\ o[2] \in 1 .. nblocks /\ o[3] \in 1 .. nblocks
      /\ Tail(o) = <<o[2], o[3]>>
  BY <1>1, <1>2, OpenSplit DEF Blocks
<1>4. i \in Instrs(nblocks) /\ i.op \in Terminators
  BY <1>0, <1>3, InstrTypes, InstrOps
<1>5. Stmt \in Frames(nblocks) /\ Stmt.k # "RhsEnd" /\ Stmt.open = <<>> /\ Held(Stmt) = {}
  BY <1>0, FrameTypes, HeldShort DEF Stmt, Item, Frame
<1> HIDE DEF o, i
<1>6. /\ g \in Frames(nblocks) /\ g.k # "RhsEnd" /\ Held(g) = {o[2], o[3]}
      /\ \A m, n \in DOMAIN g.open : g.open[m] = g.open[n] => m = n
  <2>1. <<o[2], o[3]>> \in Seq(1 .. nblocks) /\ Len(<<o[2], o[3]>>) = 2
    BY <1>3
  <2>2. g = Frame("ForBodyEnd", {}, <<o[2], o[3]>>, stack[1].back)
    BY <1>3
  <2>3. g \in Frames(nblocks)
    BY <2>1, <2>2, <1>0, <1>2, FrameTypes
  <2>4. g.k # "RhsEnd" /\ g.open = <<o[2], o[3]>>
    BY <2>2 DEF Frame
  <2>5. Held(g) = {o[2], o[3]}
    BY <2>2, HeldShort
  <2>6. \A m, n \in DOMAIN g.open : g.open[m] = g.open[n] => m = n
    BY <2>4, <1>3
  <2> QED  BY <2>3, <2>4, <2>5, <2>6
<1> HIDE DEF g
<1>7. HeldOnce(<<Stmt, g>>) /\ OpenIn(<<Stmt, g>>) = {o[2], o[3]}
  BY <1>5, <1>6, HeldOncePair, OpenInShort
<1>8. <<Stmt, g>> \in Seq(Frames(nblocks)) /\ \A j \in DOMAIN <<Stmt, g>> : <<Stmt, g>>[j].k # "RhsEnd"
  BY <1>5, <1>6
<1>9. /\ code' \in [Blocks -> Seq(Instrs(nblocks))] /\ EndsBlock(code'[at])
      /\ \A b \in Blocks \ {at} : code'[b] = code[b]
  BY <1>1, <1>4, EmitType
<1>10. at' \notin OpenIn(<<Stmt, g>>) /\ {at'} \cup OpenIn(<<Stmt, g>>) = Held(stack[1])
  BY <1>1, <1>3, <1>7
<1>11. flow' \in {"falls", "returned", "overrun"}
  BY <1>0, <1>1
<1> QED  BY <1>1, <1>7, <1>8, <1>9, <1>10, <1>11, MoveHeld

\* The body of a for is done: on to the update.
LEMMA ForBodyEndStep ==
    ASSUME TypeOK, VisitorsOwnTheirBlocks, ForBodyEnd
    PROVE  TypeOK' /\ VisitorsOwnTheirBlocks' /\ Orderly
<1> DEFINE o == stack[1].open
           i == Br(o[1])
           g == Frame("LoopEnd", {}, Tail(o), stack[1].back)
<1>0. nblocks \in Nat \ {0} /\ val \in Vals /\ flow \in {"falls", "returned", "overrun"}
  BY DEF TypeOK
<1>1. /\ Top("ForBodyEnd") /\ nblocks' = nblocks /\ layout' = layout /\ at' = o[1]
      /\ stack' = <<Stmt, g>> \o Tail(stack) /\ val' \in Vals /\ fuel' = fuel
      /\ phase' = phase /\ flow' \in {"falls", "returned", "overrun"} /\ code' = Emit(i)
  BY <1>0 DEF ForBodyEnd, Become, Followed
<1>2. Len(o) = 2 /\ stack[1].back \in 1 .. nblocks
  <2>1. stack # <<>> /\ stack[1].back \in 1 .. nblocks
    BY <1>1, HeldRunning DEF Blocks
  <2> QED  BY <2>1, <1>1, RunningFrame DEF Top, Frames, FrameOK
<1>3. /\ Held(stack[1]) = {o[1], o[2]} /\ o[1] # o[2]
      /\ o[1] \in 1 .. nblocks /\ o[2] \in 1 .. nblocks /\ Tail(o) = <<o[2]>>
  BY <1>1, <1>2, OpenSplit DEF Blocks
<1>4. i \in Instrs(nblocks) /\ i.op \in Terminators
  BY <1>0, <1>3, InstrTypes, InstrOps
<1>5. Stmt \in Frames(nblocks) /\ Stmt.k # "RhsEnd" /\ Stmt.open = <<>> /\ Held(Stmt) = {}
  BY <1>0, FrameTypes, HeldShort DEF Stmt, Item, Frame
<1> HIDE DEF o, i
<1>6. /\ g \in Frames(nblocks) /\ g.k # "RhsEnd" /\ Held(g) = {o[2]}
      /\ \A m, n \in DOMAIN g.open : g.open[m] = g.open[n] => m = n
  <2>1. <<o[2]>> \in Seq(1 .. nblocks) /\ Len(<<o[2]>>) = 1
    BY <1>3
  <2>2. g = Frame("LoopEnd", {}, <<o[2]>>, stack[1].back)
    BY <1>3
  <2>3. g \in Frames(nblocks)
    BY <2>1, <2>2, <1>0, <1>2, FrameTypes
  <2>4. g.k # "RhsEnd" /\ g.open = <<o[2]>>
    BY <2>2 DEF Frame
  <2>5. Held(g) = {o[2]}
    BY <2>2, HeldShort
  <2>6. \A m, n \in DOMAIN g.open : g.open[m] = g.open[n] => m = n
    BY <2>4
  <2> QED  BY <2>3, <2>4, <2>5, <2>6
<1> HIDE DEF g
<1>7. HeldOnce(<<Stmt, g>>) /\ OpenIn(<<Stmt, g>>) = {o[2]}
  BY <1>5, <1>6, HeldOncePair, OpenInShort
<1>8. <<Stmt, g>> \in Seq(Frames(nblocks)) /\ \A j \in DOMAIN <<Stmt, g>> : <<Stmt, g>>[j].k # "RhsEnd"
  BY <1>5, <1>6
<1>9. /\ code' \in [Blocks -> Seq(Instrs(nblocks))] /\ EndsBlock(code'[at])
      /\ \A b \in Blocks \ {at} : code'[b] = code[b]
  BY <1>1, <1>4, EmitType
<1>10. at' \notin OpenIn(<<Stmt, g>>) /\ {at'} \cup OpenIn(<<Stmt, g>>) = Held(stack[1])
  BY <1>1, <1>3, <1>7
<1> QED  BY <1>1, <1>7, <1>8, <1>9, <1>10, MoveHeld

\* A branch of an if is done: on to the else branch or to the join block.
LEMMA IfBranchEndStep ==
    ASSUME TypeOK, VisitorsOwnTheirBlocks, IfBranchEnd
    PROVE  TypeOK' /\ VisitorsOwnTheirBlocks' /\ Orderly
<1> DEFINE o == stack[1].open
           i == Br(o[Len(o)])
           g == Frame("IfBranchEnd", {}, Tail(o), 0)
<1>0. /\ nblocks \in Nat \ {0} /\ val \in Vals /\ flow \in {"falls", "returned", "overrun"}
      /\ code \in [Blocks -> Seq(Instrs(nblocks))] /\ at \in Blocks
  BY DEF TypeOK
<1>1. /\ Top("IfBranchEnd") /\ nblocks' = nblocks /\ layout' = layout /\ at' = o[1]
      /\ Become(IF Len(o) = 2 THEN <<Stmt, g>> ELSE <<>>)
      /\ val' \in Vals /\ fuel' = fuel /\ phase' = phase
      /\ flow' \in {"falls", "returned", "overrun"} /\ code' = BranchCode(o[Len(o)])
  BY <1>0 DEF IfBranchEnd, Left
<1>2. Len(o) \in {1, 2} /\ stack # <<>>
  <2>1. stack # <<>>
    BY <1>1, HeldRunning
  <2> QED  BY <2>1, <1>1, RunningFrame DEF Top, Frames, FrameOK
<1>3. /\ Len(o) = 1 => Held(stack[1]) = {o[1]} /\ o[1] \in 1 .. nblocks
      /\ Len(o) = 2 => /\ Held(stack[1]) = {o[1], o[2]} /\ o[1] # o[2]
                       /\ o[1] \in 1 .. nblocks /\ o[2] \in 1 .. nblocks /\ Tail(o) = <<o[2]>>
  BY <1>1, OpenSplit DEF Blocks
<1>4. i \in Instrs(nblocks) /\ i.op \in Terminators
  <2>1. o[Len(o)] \in 1 .. nblocks
    BY <1>2, <1>3
  <2> QED  BY <2>1, <1>0, InstrTypes, InstrOps
<1>5. /\ code' \in [Blocks -> Seq(Instrs(nblocks))] /\ EndsBlock(code'[at])
      /\ \A b \in Blocks \ {at} : code'[b] = code[b]
  <2>1. CASE EndsBlock(code[at])
    BY <2>1, <1>0, <1>1 DEF BranchCode
  <2>2. CASE ~EndsBlock(code[at])
    BY <2>2, <1>1, <1>4, EmitType DEF BranchCode
  <2> QED  BY <2>1, <2>2
<1>6. Stmt \in Frames(nblocks) /\ Stmt.k # "RhsEnd" /\ Stmt.open = <<>> /\ Held(Stmt) = {}
  BY <1>0, FrameTypes, HeldShort DEF Stmt, Item, Frame
<1> HIDE DEF o, i
<1>7. CASE Len(o) = 2
  <2>1. stack' = <<Stmt, g>> \o Tail(stack)
    BY <1>1, <1>7 DEF Become
  <2>2. g = Frame("IfBranchEnd", {}, <<o[2]>>, 0)
    BY <1>3, <1>7
  <2>3. g \in Frames(nblocks)
    <3>1. <<o[2]>> \in Seq(1 .. nblocks) /\ Len(<<o[2]>>) = 1
      BY <1>3, <1>7
    <3> QED  BY <3>1, <2>2, <1>0, FrameTypes
  <2>4. g.k # "RhsEnd" /\ g.open = <<o[2]>> /\ Held(g) = {o[2]}
    <3>1. Held(g) = {o[2]}
      BY <2>2, HeldShort
    <3> QED  BY <2>2, <3>1 DEF Frame
  <2>5. \A m, n \in DOMAIN g.open : g.open[m] = g.open[n] => m = n
    BY <2>4
  <2> HIDE DEF g
  <2>6. HeldOnce(<<Stmt, g>>) /\ OpenIn(<<Stmt, g>>) = {o[2]}
    BY <1>6, <2>4, <2>5, HeldOncePair, OpenInShort
  <2>7. <<Stmt, g>> \in Seq(Frames(nblocks)) /\ \A j \in DOMAIN <<Stmt, g>> : <<Stmt, g>>[j].k # "RhsEnd"
    BY <1>6, <2>3, <2>4
  <2>8. at' \notin OpenIn(<<Stmt, g>>) /\ {at'} \cup OpenIn(<<Stmt, g>>) = Held(stack[1])
    BY <1>1, <1>3, <1>7, <2>6
  <2> QED  BY <1>1, <1>5, <2>1, <2>6, <2>7, <2>8, MoveHeld
<1>8. CASE Len(o) = 1
  <2>1. stack' = <<>> \o Tail(stack)
    BY <1>1, <1>8 DEF Become
  <2>2. /\ <<>> \in Seq(Frames(nblocks)) /\ HeldOnce(<<>>) /\ OpenIn(<<>>) = {}
        /\ \A j \in DOMAIN <<>> : <<>>[j].k # "RhsEnd"
    BY OpenInShort DEF HeldOnce
  <2>3. at' \notin OpenIn(<<>>) /\ {at'} \cup OpenIn(<<>>) = Held(stack[1])
    BY <1>1, <1>3, <1>8, <2>2
  <2> QED  BY <1>1, <1>5, <2>1, <2>2, <2>3, MoveHeld
<1> QED  BY <1>2, <1>7, <1>8

-----------------------------------------------------------------------------
(* Every step, and what follows. *)

\* The walk starts with one empty block, held by nobody.
LEMMA Start ==
    ASSUME Init
    PROVE  TypeOK /\ VisitorsOwnTheirBlocks /\ BlocksSealed
<1>1. /\ nblocks = 1 /\ layout = <<1>> /\ code = [b \in {1} |-> <<>>] /\ at = 1
      /\ stack = <<Item("seq")>> /\ val = NoVal /\ fuel = MaxNodes
      /\ phase = "emit" /\ flow = "falls" /\ Blocks = {1}
  BY DEF Init, Entry, Blocks
<1>2. OpenIn(stack) = {} /\ stack[1].open = <<>> /\ DOMAIN stack = {1} /\ stack[1].k = "seq"
  BY <1>1, OpenInShort, HeldShort DEF Item, Frame
<1>3. stack \in Seq(Frames(nblocks))
  BY <1>1, FrameTypes
<1>4. code \in [Blocks -> Seq(Instrs(nblocks))]
  BY <1>1
<1>5. TypeOK
  BY <1>1, <1>2, <1>3, <1>4, MaxNodesAssumption DEF TypeOK, NoVal, Value, Vals
<1>6. VisitorsOwnTheirBlocks
  BY <1>2 DEF VisitorsOwnTheirBlocks, HeldOnce
<1>7. BlocksSealed
  BY <1>1 DEF BlocksSealed, Done
<1> QED  BY <1>5, <1>6, <1>7

\* Every step of the walk is orderly.
LEMMA Step ==
    ASSUME TypeOK, VisitorsOwnTheirBlocks, Next
    PROVE  TypeOK' /\ VisitorsOwnTheirBlocks' /\ Orderly
<1>1. CASE StmtStep
  BY <1>1, VisitSteps, EmitSteps, DeclStep, EndSteps, ArraySizeDynamicStep DEF StmtStep
<1>2. CASE ExpStep
  BY <1>2, LeafStep, VisitSteps, EmitSteps, ShortCircuitLhsStep, ShortCircuitEndStep
     DEF ExpStep
<1>3. CASE ControlStep
  BY <1>3, VisitSteps, IfCondStep, IfBranchEndStep, WhileStep, WhileCondStep, LoopEndStep,
     ForInitStep, ForCondStep, ForBodyEndStep DEF ControlStep
<1>4. CASE Finish
  BY <1>4, EndSteps
<1> QED  BY <1>1, <1>2, <1>3, <1>4 DEF Next

\* When nothing changes, the invariants stay.
LEMMA Stutter ==
    ASSUME TypeOK, VisitorsOwnTheirBlocks, UNCHANGED vars
    PROVE  TypeOK' /\ VisitorsOwnTheirBlocks' /\ (BlocksSealed => BlocksSealed')
<1>1. /\ nblocks' = nblocks /\ layout' = layout /\ code' = code /\ at' = at
      /\ stack' = stack /\ val' = val /\ fuel' = fuel /\ phase' = phase /\ flow' = flow
      /\ Blocks' = Blocks
  BY DEF vars, Blocks
<1>2. TypeOK'
  BY <1>1 DEF TypeOK
<1>3. VisitorsOwnTheirBlocks'
  BY <1>1 DEF VisitorsOwnTheirBlocks
<1>4. BlocksSealed => BlocksSealed'
  BY <1>1 DEF BlocksSealed, Done
<1> QED  BY <1>2, <1>3, <1>4

\* Every step is one of the walk, and only the last one finishes the function.
LEMMA LastStep ==
    ASSUME Next
    PROVE  phase = "emit" /\ (Done' => Finish)
<1>1. phase = "emit"
  BY DEF Next, StmtStep, ExpStep, ControlStep, VisitSeqStmt, SeqNext, SeqEnd,
         VisitCallStmt, VisitAssignStmt, VisitArrayAssignStmt, Store, VisitDeclStmt,
         VisitReturnStmt, ReturnEnd, VisitDeclArray, ArraySizeConst, ArraySizeThrow,
         ArraySizeDynamic, Leaf, VisitCallExp, VisitArrayAccessExp, VisitDivertedExp, CallEnd, DivertedEnd,
         VisitShortCircuit, ShortCircuitLhs, ShortCircuitEnd, VisitIfStmt, IfCond,
         IfBranchEnd, VisitWhileStmt, WhileCond, LoopEnd, VisitForStmt, ForInit,
         ForCond, ForBodyEnd, Finish, Visit, Top
<1>2. ArraySizeThrow => phase' = "aborted"
  BY DEF ArraySizeThrow
<1>3. phase' = phase \/ ArraySizeThrow \/ Finish
  BY DEF Next, StmtStep, ExpStep, ControlStep, VisitSeqStmt, SeqNext, SeqEnd,
         VisitCallStmt, VisitAssignStmt, VisitArrayAssignStmt, Store, VisitDeclStmt,
         VisitReturnStmt, ReturnEnd, VisitDeclArray, ArraySizeConst,
         ArraySizeDynamic, Leaf, VisitCallExp, VisitArrayAccessExp, VisitDivertedExp, CallEnd, DivertedEnd,
         VisitShortCircuit, ShortCircuitLhs, ShortCircuitEnd, VisitIfStmt, IfCond,
         IfBranchEnd, VisitWhileStmt, WhileCond, LoopEnd, VisitForStmt, ForInit,
         ForCond, ForBodyEnd, Visit
<1> QED  BY <1>1, <1>2, <1>3 DEF Done

\* An orderly step forgets no block; the last one also ends the insertion block.
LEMMA SealedStep ==
    ASSUME TypeOK, VisitorsOwnTheirBlocks, BlocksSealed, Next
    PROVE  BlocksSealed'
<1>1. TypeOK' /\ Orderly
  BY Step
<1>2. /\ nblocks \in Nat /\ code \in [Blocks -> Seq(Instrs(nblocks))]
      /\ Plain \in Instrs(nblocks)
  BY InstrTypes DEF TypeOK
<1>3. \A b \in Blocks : Same(b) /\ EndsBlock(code[b]) => EndsBlock(code'[b])
  BY <1>2, PutFrontKeeps DEF Same
<1>4. \A b \in Blocks' : b = at' \/ b \in OpenIn(stack') \/ EndsBlock(code'[b])
  <2> SUFFICES ASSUME NEW b \in Blocks'
               PROVE  b = at' \/ b \in OpenIn(stack') \/ EndsBlock(code'[b])
    OBVIOUS
  <2>1. CASE b \notin Blocks
    BY <2>1, <1>1 DEF Orderly
  <2>2. CASE b = at
    BY <2>2, <1>1 DEF Orderly
  <2>3. CASE b \in OpenIn(stack)
    BY <2>3, <1>1 DEF Orderly
  <2>4. CASE b \in Blocks /\ b # at /\ b \notin OpenIn(stack)
    BY <2>4, <1>1, <1>3 DEF Orderly, BlocksSealed
  <2> QED  BY <2>1, <2>2, <2>3, <2>4
<1>5. Done' => \A b \in Blocks' : EndsBlock(code'[b])
  <2> HAVE Done'
  <2>1. Finish
    BY LastStep
  <2>2. /\ OpenIn(stack') = {} /\ at' = at /\ at \in Blocks
        /\ code' = code \/ code' = Emit(Ret("i32"))
        /\ EndsBlock(code[at]) => code' = code
        /\ ~EndsBlock(code[at]) => code' = Emit(Ret("i32"))
    BY <2>1, OpenInShort DEF Finish, blockVars, TypeOK
  <2>3. Ret("i32") \in Instrs(nblocks) /\ Ret("i32").op \in Terminators
    BY <1>2, InstrTypes, InstrOps DEF Types
  <2>4. EndsBlock(code'[at])
    BY <2>2, <2>3, EmitType
  <2> QED  BY <1>4, <2>2, <2>4
<1> QED  BY <1>4, <1>5 DEF BlocksSealed

\* An orderly step leaves finished blocks alone.
LEMMA FrozenStepHolds ==
    ASSUME TypeOK, VisitorsOwnTheirBlocks, Next
    PROVE  FrozenStep
<1>1. Orderly
  BY Step
<1> QED  BY <1>1 DEF Orderly, FrozenStep, Same

\* The variables keep their types, however large the tree (the whole state of
\* CodegenStmt and CodegenExp): in particular getPrevNode()->getPrevNode() of
\* && and || always finds a block, and no visitor names a block that does not
\* exist.
THEOREM TypeCorrect == Spec => []TypeOK
<1>1. Init => TypeOK /\ VisitorsOwnTheirBlocks
  BY Start
<1>2. TypeOK /\ VisitorsOwnTheirBlocks /\ [Next]_vars => TypeOK' /\ VisitorsOwnTheirBlocks'
  BY Step, Stutter
<1> QED  BY <1>1, <1>2, PTL DEF Spec

\* Visitors nest: no instruction of a nested statement or expression ever lands
\* in a block that an enclosing visitor of Codegen.cpp still has to fill.
THEOREM VisitorsNest == Spec => []VisitorsOwnTheirBlocks
<1>1. Init => TypeOK /\ VisitorsOwnTheirBlocks
  BY Start
<1>2. TypeOK /\ VisitorsOwnTheirBlocks /\ [Next]_vars => TypeOK' /\ VisitorsOwnTheirBlocks'
  BY Step, Stutter
<1> QED  BY <1>1, <1>2, PTL DEF Spec

\* No block of a function that CodegenFunc finished lacks its terminator.
THEOREM Sealed == Spec => []BlocksSealed
<1>1. Init => TypeOK /\ VisitorsOwnTheirBlocks /\ BlocksSealed
  BY Start
<1>2. TypeOK /\ VisitorsOwnTheirBlocks /\ BlocksSealed /\ [Next]_vars
         => TypeOK' /\ VisitorsOwnTheirBlocks' /\ BlocksSealed'
  BY Step, SealedStep, Stutter
<1> QED  BY <1>1, <1>2, PTL DEF Spec

\* The builder never returns to a finished block (SetInsertPoint).
THEOREM Frozen == Spec => FrozenOnceClosed
<1>1. TypeOK /\ VisitorsOwnTheirBlocks /\ [Next]_vars => [FrozenStep]_vars
  BY FrozenStepHolds
<1> QED  BY <1>1, TypeCorrect, VisitorsNest, PTL DEF Spec, FrozenOnceClosed

-----------------------------------------------------------------------------
(* CodegenBlocks implements the safety part of BlockLifecycle, whatever    *)
(* the number of blocks: the instance here has all of them, the one of     *)
(* MCCodegenBlocks only those that a bounded tree can need.                *)

AnyBlock == Nat \ {0}
Status == [b \in AnyBlock |-> StatusOf(b)]

Promised == INSTANCE BlockLifecycle WITH
    Block <- AnyBlock,
    Entry <- Entry,
    status <- Status,
    outcome <- Outcome

\* Blocks are only made by steps that move on to one of them.
LEMMA BirthMoves ==
    ASSUME TypeOK, Next, nblocks' # nblocks
    PROVE  at' \notin Blocks
<1>0. nblocks \in Nat
  BY DEF TypeOK
<1>1. \/ ArraySizeDynamic \/ \E op \in {"&&", "||"} : ShortCircuitLhs(op)
      \/ \E hasElse \in BOOLEAN : IfCond(hasElse)
      \/ VisitWhileStmt \/ WhileCond \/ ForInit
  BY DEF Next, StmtStep, ExpStep, ControlStep, VisitSeqStmt, SeqNext, SeqEnd,
         VisitCallStmt, VisitAssignStmt, VisitArrayAssignStmt, Store, VisitDeclStmt,
         VisitReturnStmt, ReturnEnd, VisitDeclArray, ArraySizeConst, ArraySizeThrow,
         Leaf, VisitCallExp, VisitArrayAccessExp, VisitDivertedExp, CallEnd, DivertedEnd, VisitShortCircuit,
         ShortCircuitEnd, VisitIfStmt, IfBranchEnd, LoopEnd, VisitForStmt, ForCond,
         ForBodyEnd, Finish, Visit, blockVars
<1>2. at' = nblocks + 1 \/ at' = nblocks + 2
  BY <1>1 DEF ArraySizeDynamic, ShortCircuitLhs, IfCond, VisitWhileStmt, WhileCond, ForInit
<1> QED  BY <1>0, <1>2 DEF Blocks

\* The status of every block, before and after a step.
StatusIs(s, n, cur, held) ==
    \A b \in AnyBlock :
        s[b] = IF b > n THEN "unborn" ELSE IF b \in cur THEN "current"
               ELSE IF b \in held THEN "waiting" ELSE "closed"

Current == IF Done THEN {} ELSE {at}

LEMMA StatusHere ==
    /\ StatusIs(Status, nblocks, Current, OpenIn(stack))
    /\ StatusIs(Status', nblocks', Current', OpenIn(stack'))
    /\ DOMAIN Status = AnyBlock /\ DOMAIN Status' = AnyBlock
BY DEF Status, StatusOf, StatusIs, Current, Done

LEMMA OutcomeHere ==
    /\ phase = "emit" => Outcome = "working"
    /\ phase = "done" => Outcome = "finished"
    /\ phase = "aborted" => Outcome = "abandoned"
    /\ phase' = "emit" => Outcome' = "working"
    /\ phase' = "done" => Outcome' = "finished"
    /\ phase' = "aborted" => Outcome' = "abandoned"
BY DEF Outcome

\* Status functions that say the same are the same.
LEMMA SameStatus ==
    ASSUME nblocks' = nblocks, Current' = Current, OpenIn(stack') = OpenIn(stack)
    PROVE  Status' = Status
<1>1. \A b \in AnyBlock : Status'[b] = Status[b]
  BY StatusHere DEF StatusIs
<1>2. Status = [b \in AnyBlock |-> Status[b]] /\ Status' = [b \in AnyBlock |-> Status'[b]]
  BY DEF Status
<1> QED  BY <1>1, <1>2

\* The walk begins as the lifecycle does.
LEMMA BeginsSo ==
    ASSUME Init
    PROVE  Promised!Init
<1>1. nblocks = 1 /\ at = 1 /\ phase = "emit" /\ Entry = 1
  BY DEF Init, Entry
<1>2. \A b \in AnyBlock : Status[b] = IF b = Entry THEN "current" ELSE "unborn"
  <2>1. Current = {1}
    BY <1>1 DEF Current, Done
  <2>2. \A b \in AnyBlock : b # 1 => b > 1
    BY DEF AnyBlock
  <2> QED  BY <1>1, <2>1, <2>2, StatusHere DEF StatusIs
<1>3. Status = [b \in AnyBlock |-> Status[b]]
  BY DEF Status
<1>4. Status = [b \in AnyBlock |-> IF b = Entry THEN "current" ELSE "unborn"]
  BY <1>2, <1>3
<1> QED  BY <1>1, <1>4, OutcomeHere DEF Promised!Init

\* A step that leaves the insertion block takes up another and closes it.
LEMMA LeavingAdvances ==
    ASSUME TypeOK, TypeOK', VisitorsOwnTheirBlocks, VisitorsOwnTheirBlocks', Orderly,
           phase = "emit", phase' = "emit", at' # at
    PROVE  Promised!Advance
<1>1. /\ nblocks \in Nat /\ nblocks' \in Nat /\ at \in Blocks /\ at' \in Blocks'
      /\ \A b \in AnyBlock : (b > nblocks <=> b \notin Blocks)
                             /\ (b > nblocks' <=> b \notin Blocks')
      /\ Blocks \subseteq AnyBlock /\ Blocks' \subseteq AnyBlock
  <2>1. nblocks \in Nat /\ nblocks' \in Nat /\ at \in Blocks /\ at' \in Blocks'
    BY DEF TypeOK
  <2>2. \A n \in Nat : /\ 1 .. n \subseteq AnyBlock
                     /\ \A b \in AnyBlock : b > n <=> b \notin 1 .. n
    BY DEF AnyBlock
  <2>3. Blocks = 1 .. nblocks /\ Blocks' = 1 .. nblocks'
    BY DEF Blocks
  <2> QED  BY <2>1, <2>2, <2>3
<1>2. Current = {at} /\ Current' = {at'}
  BY DEF Current, Done
<1>3. /\ at \notin OpenIn(stack) /\ OpenIn(stack) \subseteq Blocks
      /\ Blocks \subseteq Blocks'
      /\ OpenIn(stack') \subseteq OpenIn(stack) \cup (Blocks' \ Blocks)
      /\ at' \in OpenIn(stack) \cup (Blocks' \ Blocks)
  BY OpenAreBlocks DEF VisitorsOwnTheirBlocks, Orderly
<1>4. \A b \in AnyBlock :
         /\ b \notin Blocks => Status[b] = "unborn"
         /\ b \in OpenIn(stack) => Status[b] = "waiting"
         /\ b = at <=> Status[b] = "current"
         /\ b \in Blocks /\ b # at /\ b \notin OpenIn(stack) => Status[b] = "closed"
  BY <1>1, <1>2, <1>3, StatusHere DEF StatusIs
<1>5. \A b \in AnyBlock :
         /\ b \notin Blocks' <=> Status'[b] = "unborn"
         /\ b = at' <=> Status'[b] = "current"
         /\ b \in Blocks' /\ b # at' /\ b \notin OpenIn(stack') => Status'[b] = "closed"
         /\ Status'[b] \in {"unborn", "waiting", "current", "closed"}
  BY <1>1, <1>2, StatusHere DEF StatusIs
<1>6. \A b \in AnyBlock : Promised!Forward(Status[b], Status'[b])
  <2> SUFFICES ASSUME NEW b \in AnyBlock
               PROVE  Promised!Forward(Status[b], Status'[b])
    OBVIOUS
  <2>1. CASE b \notin Blocks
    BY <2>1, <1>4 DEF Promised!Forward
  <2>2. CASE b \in OpenIn(stack)
    BY <2>2, <1>3, <1>4, <1>5 DEF Promised!Forward
  <2>3. CASE b \in Blocks /\ b \notin OpenIn(stack)
    <3>1. Status'[b] = "closed"
      BY <2>3, <1>3, <1>5
    <3> QED  BY <2>3, <3>1, <1>4 DEF Promised!Forward
  <2> QED  BY <2>1, <2>2, <2>3
<1>7. \A b \in AnyBlock : Status[b] = "current" => Status'[b] = "closed"
  BY <1>1, <1>3, <1>4, <1>5
<1>8. at' \in AnyBlock /\ \A c \in AnyBlock : Status'[c] = "current" <=> c = at'
  BY <1>1, <1>5
<1>9. Status' \in [AnyBlock -> {"unborn", "waiting", "current", "closed"}]
  <2>1. Status' = [b \in AnyBlock |-> Status'[b]]
    BY DEF Status
  <2> QED  BY <2>1, <1>5
<1>10. Outcome = "working" /\ Outcome' = Outcome
  BY OutcomeHere
<1> QED  BY <1>6, <1>7, <1>8, <1>9, <1>10 DEF Promised!Advance, Promised!Statuses

\* Every step is a step of the lifecycle or leaves every status as it was.
LEMMA StepsSo ==
    ASSUME TypeOK, VisitorsOwnTheirBlocks, Next
    PROVE  Promised!Next \/ UNCHANGED <<Status, Outcome>>
<1>1. TypeOK' /\ VisitorsOwnTheirBlocks' /\ Orderly /\ phase = "emit" /\ Outcome = "working"
  BY Step, LastStep, OutcomeHere
<1>2. CASE ArraySizeThrow
  <2>1. nblocks' = nblocks /\ at' = at /\ stack' = stack /\ phase' = "aborted"
    BY <1>2 DEF ArraySizeThrow, blockVars
  <2>2. Status' = Status
    BY <1>1, <2>1, SameStatus DEF Current, Done
  <2> QED  BY <1>1, <2>1, <2>2, OutcomeHere DEF Promised!Next, Promised!Abandon
<1>3. CASE Finish
  <2>1. nblocks' = nblocks /\ stack = <<>> /\ stack' = stack /\ phase' = "done"
    BY <1>3 DEF Finish, blockVars
  <2>2. OpenIn(stack) = {} /\ OpenIn(stack') = {}
    BY <2>1, OpenInShort
  <2>3. Current' = {}
    BY <2>1 DEF Current, Done
  <2>4. \A b \in AnyBlock :
           /\ Status[b] # "waiting"
           /\ Status'[b] = IF Status[b] = "current" THEN "closed" ELSE Status[b]
    BY <2>1, <2>2, <2>3, StatusHere DEF StatusIs
  <2>5. Status' = [b \in AnyBlock |-> Status'[b]]
    BY DEF Status
  <2>6. Status' = [b \in AnyBlock |->
                      IF Status[b] = "current" THEN "closed" ELSE Status[b]]
    BY <2>4, <2>5
  <2> QED  BY <1>1, <2>1, <2>4, <2>6, OutcomeHere DEF Promised!Next, Promised!Finish
<1>4. CASE ~ArraySizeThrow /\ ~Finish
  <2>1. phase' = "emit"
    BY <1>1, <1>4 DEF Next, StmtStep, ExpStep, ControlStep, VisitSeqStmt, SeqNext, SeqEnd,
       VisitCallStmt, VisitAssignStmt, VisitArrayAssignStmt, Store, VisitDeclStmt,
       VisitReturnStmt, ReturnEnd, VisitDeclArray, ArraySizeConst,
       ArraySizeDynamic, Leaf, VisitCallExp, VisitArrayAccessExp, VisitDivertedExp, CallEnd, DivertedEnd,
       VisitShortCircuit, ShortCircuitLhs, ShortCircuitEnd, VisitIfStmt, IfCond,
       IfBranchEnd, VisitWhileStmt, WhileCond, LoopEnd, VisitForStmt, ForInit,
       ForCond, ForBodyEnd, Visit
  <2>2. CASE at' # at
    BY <1>1, <2>1, <2>2, LeavingAdvances DEF Promised!Next
  <2>3. CASE at' = at
    <3>1. nblocks' = nblocks /\ Blocks' = Blocks
      BY <2>3, BirthMoves DEF TypeOK, Blocks
    <3>2. OpenIn(stack') = OpenIn(stack)
      BY <1>1, <2>3, <3>1 DEF Orderly, VisitorsOwnTheirBlocks
    <3>3. Current' = Current
      BY <1>1, <2>1, <2>3 DEF Current, Done
    <3> QED  BY <1>1, <2>1, <3>1, <3>2, <3>3, SameStatus, OutcomeHere
  <2> QED  BY <2>2, <2>3
<1> QED  BY <1>2, <1>3, <1>4

\* The generator keeps the safety part of BlockLifecycle: a block is made, waits,
\* is filled once and is closed for good, one at a time, and the function is only
\* finished when none waits (the moves of SetInsertPoint in CodegenStmt,
\* CodegenExp and CodegenFunc).
THEOREM KeepsTheLifecycle == Spec => Promised!Safety
<1>1. Init => Promised!Init
  BY BeginsSo
<1>2. TypeOK /\ VisitorsOwnTheirBlocks /\ [Next]_vars
         => [Promised!Next]_<<Status, Outcome>>
  <2> SUFFICES ASSUME TypeOK, VisitorsOwnTheirBlocks, [Next]_vars
               PROVE  Promised!Next \/ UNCHANGED <<Status, Outcome>>
    OBVIOUS
  <2>1. CASE UNCHANGED vars
    <3>1. nblocks' = nblocks /\ at' = at /\ stack' = stack /\ phase' = phase
      BY <2>1 DEF vars
    <3> QED  BY <3>1, SameStatus DEF Current, Done, Outcome
  <2> QED  BY <2>1, StepsSo
<1> QED  BY <1>1, <1>2, TypeCorrect, VisitorsNest, PTL DEF Spec, Promised!Safety

=============================================================================
